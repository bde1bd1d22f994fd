-------------------------------- MODULE Primer --------------------------------
(***************************************************************************)
(* The life of the primers of one archive key, one per cluster node: wait  *)
(* for Valkey, use the local archive, else pull it from a listed peer,     *)
(* else take the build lock and build it, else wait for the builder; then  *)
(* register in the directory and serve.  The directory is the Valkey state *)
(* of that key: the meta hash (of which only sha256, the etalon, matters), *)
(* the peer set, the build lock.  Archives are written in place, so a      *)
(* process that dies while writing leaves what it has written.             *)
(*                                                                         *)
(* Abstractions.  The order of the pull loop (zone-aware) is any order.    *)
(* Two archives have the same sha256 only if they are the same content, so *)
(* contents stand for their hashes.  Every build gives new bytes: class    *)
(* dumps are not reproducible.  The key's life is abstracted to "it may    *)
(* expire when its holder is no longer building" (BuildLock.tla has the    *)
(* clocks), and the fault "expire" drops it under a running build.         *)
(***************************************************************************)
EXTENDS Integers

CONSTANTS
  Node,        \* cluster nodes; a primer's endpoint is its node
  NoNode,      \* no lock holder, no download source
  FaultKinds,  \* the kinds of fault that may happen
  MaxFaults    \* how many of them, altogether

Fault == {"crash", "term", "gone", "build", "net", "damage", "expire",
          "outage", "loss"}

ASSUME PrimerAssumption ==
  NoNode \notin Node /\ FaultKinds \subseteq Fault /\ MaxFaults \in Nat

VARIABLES
  (* Valkey *)
  valkey,   \* is it reachable?
  etalon,   \* sha256 field of archive:<key>
  peers,    \* archive:<key>:peers
  lock,     \* archive:<key>:build_lock
  (* each primer *)
  pc,       \* where its Run is
  waiting,  \* is it in waitForPeer?
  todo,     \* listed peers it has not tried yet
  want,     \* the etalon it has read
  src,      \* the peer it downloads from
  (* each node's disk *)
  file,     \* <archiveDir>/<key>.jsa
  (* bookkeeping *)
  made,     \* contents made so far
  spoiled,  \* has an unfinished write ever been left on a disk?
  faults    \* faults so far

dirVars == <<valkey, etalon, peers, lock>>
runVars == <<waiting, todo, want, src>>
diskVars == <<file, made, spoiled>>
vars == <<dirVars, pc, runVars, diskVars, faults>>

(* The file's bytes.  Distinct numbers are distinct bytes; the kind says   *)
(* how they came about and is never looked at by the code.                 *)
Content == [id : Nat, kind : {"absent", "empty", "torn", "damaged", "whole"}]
Absent == [id |-> 0, kind |-> "absent"]     \* no file; as a hash, ""
Empty == [id |-> 0, kind |-> "empty"]       \* created, nothing written
Fresh(k) == [id |-> made + 1, kind |-> k]

Phase == {"down", "gone", "ready", "list", "etalon", "pull", "fetch", "lock",
          "build", "release", "abort", "wait", "meta", "peer", "start",
          "serve", "unreg"}

(* The peer server listens from Start to the end of the process.           *)
Listening(m) == pc[m] \in {"serve", "unreg"}

Init ==
  /\ valkey = TRUE /\ etalon = Absent /\ peers = {} /\ lock = NoNode
  /\ pc = [n \in Node |-> "ready"]
  /\ waiting = [n \in Node |-> FALSE]
  /\ todo = [n \in Node |-> {}]
  /\ want = [n \in Node |-> Absent]
  /\ src = [n \in Node |-> NoNode]
  /\ file = [n \in Node |-> Absent]
  /\ made = 0 /\ spoiled = FALSE /\ faults = 0

At(n, p) == pc[n] = p
Goto(n, p) == pc' = [pc EXCEPT ![n] = p]
Write(n, c) == file' = [file EXCEPT ![n] = c]

Happens(f) == f \in FaultKinds /\ faults < MaxFaults /\ faults' = faults + 1

(* main's log.Fatalf, or the end of the process: nothing is undone.        *)
Exit(n) == Goto(n, "down")
-----------------------------------------------------------------------------
(* Start of Run.                                                           *)

NeverLocalHit(n) == FALSE   \* mutant: the host directory is not consulted

(* LocalArchiveExists: a file of some bytes, whatever they are.            *)
LocalHit(n) == file[n].kind \notin {"absent", "empty"}

(* PING answers; with a local archive the directory is not asked at all.   *)
WaitReady(n) ==
  /\ At(n, "ready") /\ valkey
  /\ Goto(n, IF LocalHit(n) THEN "meta" ELSE "list")
  /\ UNCHANGED <<dirVars, runVars, diskVars, faults>>

(* 30 s without an answer. *)
WaitReadyTimeout(n) ==
  /\ At(n, "ready") /\ ~valkey
  /\ Exit(n)
  /\ UNCHANGED <<dirVars, runVars, diskVars, faults>>

-----------------------------------------------------------------------------
(* One round of pulls: SMEMBERS, HGET sha256, then each listed peer.       *)

ListPeers(n) ==
  /\ At(n, "list") /\ valkey
  /\ todo' = [todo EXCEPT ![n] = peers \ {n}]
  /\ Goto(n, "etalon")
  /\ UNCHANGED <<dirVars, waiting, want, src, diskVars, faults>>

(* Fatal in the first round; in waitForPeer the next poll tries again. *)
ListPeersError(n) ==
  /\ At(n, "list") /\ ~valkey
  /\ Goto(n, IF waiting[n] THEN "wait" ELSE "down")
  /\ UNCHANGED <<dirVars, runVars, diskVars, faults>>

(* The error of ArchiveSHA256 is dropped: an unreachable Valkey reads as   *)
(* "no etalon".                                                            *)
ReadEtalon(n) ==
  /\ At(n, "etalon")
  /\ want' = [want EXCEPT ![n] = IF valkey THEN etalon ELSE Absent]
  /\ Goto(n, "pull")
  /\ UNCHANGED <<dirVars, waiting, todo, src, diskVars, faults>>

Tried(n, m) == todo' = [todo EXCEPT ![n] = @ \ {m}]

(* Mutant: a caller that cannot reach a peer strikes it off the directory. *)
PullRefusedStrikes(n, m) ==
  /\ At(n, "pull") /\ m \in todo[n]
  /\ \/ ~Listening(m) /\ UNCHANGED faults
     \/ Happens("net")
  /\ Tried(n, m)
  /\ peers' = peers \ {m}
  /\ UNCHANGED <<valkey, etalon, lock, pc, waiting, want, src, diskVars>>

(* The request fails before os.Create: dest keeps what it had. *)
PullRefused(n, m) ==
  /\ At(n, "pull") /\ m \in todo[n]
  /\ \/ ~Listening(m) /\ UNCHANGED faults
     \/ Happens("net")
  /\ Tried(n, m)
  /\ UNCHANGED <<dirVars, pc, waiting, want, src, diskVars>>

(* 200 OK: dest is created, which truncates it. *)
PullOpened(n, m) ==
  /\ At(n, "pull") /\ m \in todo[n] /\ Listening(m)
  /\ Tried(n, m)
  /\ src' = [src EXCEPT ![n] = m]
  /\ Write(n, Empty)
  /\ Goto(n, "fetch")
  /\ UNCHANGED <<dirVars, waiting, want, made, spoiled, faults>>

AcceptedAlways(n, c) == TRUE   \* mutant: the hash is not compared

(* An empty etalon disables the check. *)
Accepted(n, c) == want[n] = Absent \/ want[n] = c

(* Mutant: the download is not closed. *)
VerifyLeaks(n, c) ==
  /\ Write(n, IF Accepted(n, c) THEN c ELSE Absent)
  /\ Goto(n, IF Accepted(n, c) THEN "meta" ELSE "pull")
  /\ UNCHANGED src

(* The body is complete; it is kept if it is accepted, removed if not. *)
Verify(n, c) ==
  /\ Write(n, IF Accepted(n, c) THEN c ELSE Absent)
  /\ Goto(n, IF Accepted(n, c) THEN "meta" ELSE "pull")
  /\ src' = [src EXCEPT ![n] = NoNode]

PullDone(n) ==
  /\ At(n, "fetch") /\ src[n] # NoNode
  /\ Verify(n, file[src[n]])
  /\ UNCHANGED <<dirVars, waiting, todo, want, made, spoiled, faults>>

(* The bytes that arrive are not the bytes that were sent. *)
PullDamaged(n) ==
  /\ At(n, "fetch") /\ src[n] # NoNode
  /\ Happens("damage")
  /\ Verify(n, Fresh("damaged"))
  /\ made' = made + 1
  /\ UNCHANGED <<dirVars, waiting, todo, want, spoiled>>

(* The source went away or PeerPullTimeout ended the copy: dest is removed. *)
PullBroken(n) ==
  /\ At(n, "fetch")
  /\ \/ src[n] = NoNode /\ UNCHANGED faults
     \/ src[n] # NoNode /\ Happens("net")
  /\ src' = [src EXCEPT ![n] = NoNode]
  /\ Write(n, Absent)
  /\ Goto(n, "pull")
  /\ UNCHANGED <<dirVars, waiting, todo, want, made, spoiled>>

PullsExhausted(n) ==
  /\ At(n, "pull") /\ todo[n] = {}
  /\ Goto(n, IF waiting[n] THEN "wait" ELSE "lock")
  /\ UNCHANGED <<dirVars, runVars, diskVars, faults>>
-----------------------------------------------------------------------------
(* The build lock and the build.                                           *)

LockTaken(n) ==   \* mutant: SET instead of SETNX
  /\ At(n, "lock") /\ valkey
  /\ lock' = n
  /\ Goto(n, "build")
  /\ UNCHANGED <<valkey, etalon, peers, runVars, diskVars, faults>>

LockAcquired(n) ==
  /\ At(n, "lock") /\ valkey /\ lock = NoNode
  /\ lock' = n
  /\ Goto(n, "build")
  /\ UNCHANGED <<valkey, etalon, peers, runVars, diskVars, faults>>

LockRefused(n) ==
  /\ At(n, "lock") /\ valkey /\ lock # NoNode
  /\ waiting' = [waiting EXCEPT ![n] = TRUE]
  /\ Goto(n, "wait")
  /\ UNCHANGED <<dirVars, todo, want, src, diskVars, faults>>

LockError(n) ==
  /\ At(n, "lock") /\ ~valkey
  /\ Exit(n)
  /\ UNCHANGED <<dirVars, runVars, diskVars, faults>>

(* The JVM wrote the archive on exit. *)
BuildDone(n) ==
  /\ At(n, "build")
  /\ Write(n, Fresh("whole")) /\ made' = made + 1
  /\ Goto(n, "release")
  /\ UNCHANGED <<dirVars, runVars, spoiled, faults>>

(* What a killed writer may leave behind: what was there before it began   *)
(* (a download has begun by truncating it), an empty file or a part.       *)
LeftBehind(n) ==
  \/ ~At(n, "fetch") /\ UNCHANGED <<file, made, spoiled>>
  \/ Write(n, Empty) /\ spoiled' = TRUE /\ UNCHANGED made
  \/ Write(n, Fresh("torn")) /\ made' = made + 1 /\ spoiled' = TRUE

(* The JVM is killed 30 s after the interrupt, or dies: BuildLocally does  *)
(* not look at its exit status and returns nil.                            *)
BuildKilled(n) ==
  /\ At(n, "build") /\ Happens("build")
  /\ LeftBehind(n)
  /\ Goto(n, "release")
  /\ UNCHANGED <<dirVars, runVars>>

(* BuildLocally returns an error: the JVM was never started, or its        *)
(* application did not answer in 60 s.  A JVM that gave up by itself dumps *)
(* its archive all the same.                                               *)
BuildError(n) ==
  /\ At(n, "build") /\ Happens("build")
  /\ \/ LeftBehind(n)
     \/ Write(n, Fresh("whole")) /\ made' = made + 1 /\ UNCHANGED spoiled
  /\ Goto(n, "abort")
  /\ UNCHANGED <<dirVars, runVars>>

(* Compare-and-delete; an unreachable Valkey is only logged.  A failed     *)
(* build then ends the process.                                            *)
Release(n) ==
  /\ pc[n] \in {"release", "abort"}
  /\ lock' = IF valkey /\ lock = n THEN NoNode ELSE lock
  /\ Goto(n, IF pc[n] = "release" THEN "meta" ELSE "down")
  /\ UNCHANGED <<valkey, etalon, peers, runVars, diskVars, faults>>

-----------------------------------------------------------------------------
(* waitForPeer.                                                            *)

Poll(n) ==
  /\ At(n, "wait")
  /\ Goto(n, "list")
  /\ UNCHANGED <<dirVars, runVars, diskVars, faults>>

WaitForever(n) == FALSE /\ UNCHANGED vars   \* mutant: no deadline

(* The deadline, at the head of the loop. *)
WaitTimeout(n) ==
  /\ At(n, "wait")
  /\ Exit(n)
  /\ UNCHANGED <<dirVars, runVars, diskVars, faults>>
-----------------------------------------------------------------------------
(* Register, serve, stop.                                                  *)

(* Mutant: the endpoint is listed before the hash is written. *)
RegisterPeerFirst(n) ==
  /\ At(n, "meta")
  /\ IF valkey /\ file[n] # Absent
       THEN peers' = peers \union {n} /\ Goto(n, "peer")
       ELSE UNCHANGED peers /\ Exit(n)
  /\ UNCHANGED <<valkey, etalon, lock, runVars, diskVars, faults>>

(* os.Stat, the file's hash, and the first command of Register's pipeline. *)
RegisterMeta(n) ==
  /\ At(n, "meta")
  /\ IF valkey /\ file[n] # Absent
       THEN etalon' = file[n] /\ Goto(n, "peer")
       ELSE UNCHANGED etalon /\ Exit(n)
  /\ UNCHANGED <<valkey, peers, lock, runVars, diskVars, faults>>

(* Its second command: other clients' commands may come in between. *)
RegisterPeer(n) ==
  /\ At(n, "peer")
  /\ IF valkey
       THEN peers' = peers \union {n} /\ Goto(n, "start")
       ELSE UNCHANGED peers /\ Exit(n)
  /\ UNCHANGED <<valkey, etalon, lock, runVars, diskVars, faults>>

(* The event and the status patch are published (failures are warnings),   *)
(* and only then does the server start to listen.                          *)
StartServer(n) ==
  /\ At(n, "start")
  /\ Goto(n, "serve")
  /\ UNCHANGED <<dirVars, runVars, diskVars, faults>>

(* SIGTERM in service: GracefulShutdown removes the endpoint if it can.    *)
Unregister(n) ==
  /\ At(n, "serve") /\ Happens("term")
  /\ peers' = IF valkey THEN peers \ {n} ELSE peers
  /\ Goto(n, "unreg")
  /\ UNCHANGED <<valkey, etalon, lock, runVars, diskVars>>

(* Downloads from a process that ends are cut off. *)
CutOff(n) == src' = [m \in Node |-> IF m = n \/ src[m] = n THEN NoNode ELSE src[m]]

Shutdown(n) ==
  /\ At(n, "unreg")
  /\ CutOff(n)
  /\ Exit(n)
  /\ UNCHANGED <<dirVars, waiting, todo, want, diskVars, faults>>

(* SIGTERM before service cancels Run's context: a download is removed, a  *)
(* build is killed and its lock released, the rest just ends.              *)
Terminate(n) ==
  /\ pc[n] \notin {"down", "gone", "abort", "start", "serve", "unreg"}
  /\ Happens("term")
  /\ src' = [src EXCEPT ![n] = NoNode]
  /\ IF At(n, "build")
       THEN LeftBehind(n) /\ Goto(n, "abort")
       ELSE /\ IF At(n, "fetch") THEN Write(n, Absent) ELSE UNCHANGED file
            /\ Goto(n, IF At(n, "release") THEN "abort" ELSE "down")
            /\ UNCHANGED <<made, spoiled>>
  /\ UNCHANGED <<dirVars, waiting, todo, want>>

-----------------------------------------------------------------------------
(* Faults and recovery.                                                    *)

(* SIGKILL, OOM, node reboot.  A download may already be complete but not  *)
(* yet verified.                                                           *)
Crash(n) ==
  /\ pc[n] \notin {"down", "gone"} /\ Happens("crash")
  /\ CASE At(n, "build") -> LeftBehind(n)
       [] At(n, "fetch") -> \/ LeftBehind(n)
                            \/ /\ src[n] # NoNode
                               /\ Write(n, file[src[n]])
                               /\ spoiled' = TRUE /\ UNCHANGED made
       [] OTHER -> UNCHANGED <<file, made, spoiled>>
  /\ CutOff(n)
  /\ Exit(n)
  /\ UNCHANGED <<dirVars, waiting, todo, want>>

(* The node leaves the cluster for good, with its disk. *)
Leave(n) ==
  /\ pc[n] # "gone" /\ Happens("gone")
  /\ CutOff(n)
  /\ Goto(n, "gone")
  /\ UNCHANGED <<dirVars, waiting, todo, want, diskVars>>

(* The kubelet restarts the container: a new process, the same disk. *)
Restart(n) ==
  /\ At(n, "down")
  /\ Goto(n, "ready")
  /\ waiting' = [waiting EXCEPT ![n] = FALSE]
  /\ todo' = [todo EXCEPT ![n] = {}]
  /\ want' = [want EXCEPT ![n] = Absent]
  /\ UNCHANGED <<dirVars, src, diskVars, faults>>

(* The key's life ends.  A running build's heartbeat prevents it, and the  *)
(* release follows the last renewal at once, unless renewals are lost.     *)
LockExpires ==
  /\ lock # NoNode
  /\ IF pc[lock] \in {"build", "release", "abort"}
       THEN Happens("expire") ELSE UNCHANGED faults
  /\ lock' = NoNode
  /\ UNCHANGED <<valkey, etalon, peers, pc, runVars, diskVars>>

Outage ==
  /\ valkey /\ Happens("outage")
  /\ valkey' = FALSE
  /\ UNCHANGED <<etalon, peers, lock, pc, runVars, diskVars>>

Recover ==
  /\ ~valkey
  /\ valkey' = TRUE
  /\ UNCHANGED <<etalon, peers, lock, pc, runVars, diskVars, faults>>

(* Valkey comes back without its data. *)
DataLoss ==
  /\ Happens("loss")
  /\ etalon' = Absent /\ peers' = {} /\ lock' = NoNode
  /\ UNCHANGED <<valkey, pc, runVars, diskVars>>
-----------------------------------------------------------------------------
Pull(n) ==
  \/ ListPeers(n) \/ ListPeersError(n) \/ ReadEtalon(n) \/ PullsExhausted(n)
  \/ PullDone(n) \/ PullDamaged(n) \/ PullBroken(n)
  \/ \E m \in Node : PullRefused(n, m) \/ PullOpened(n, m)

Build(n) ==
  \/ LockAcquired(n) \/ LockRefused(n) \/ LockError(n)
  \/ BuildDone(n) \/ BuildKilled(n) \/ BuildError(n) \/ Release(n)

Serve(n) == RegisterMeta(n) \/ RegisterPeer(n) \/ StartServer(n) \/ Shutdown(n)

Run(n) ==
  \/ WaitReady(n) \/ WaitReadyTimeout(n) \/ Pull(n) \/ Build(n)
  \/ Poll(n) \/ Serve(n)

Next ==
  \/ \E n \in Node : \/ Run(n) \/ WaitTimeout(n) \/ Unregister(n)
                     \/ Terminate(n) \/ Crash(n) \/ Leave(n) \/ Restart(n)
  \/ LockExpires \/ Outage \/ Recover \/ DataLoss

Spec == Init /\ [][Next]_vars

(* A running process goes on, the kubelet restarts an exited one, an       *)
(* orphaned key runs out, and the deadline is met at the head of a loop    *)
(* that is passed again and again (strong fairness: polling disables it    *)
(* in between).  No fault has to happen.                                   *)
NodeFairness ==
  /\ \A n \in Node : WF_vars(Run(n)) /\ WF_vars(Restart(n)) /\ SF_vars(WaitTimeout(n))
  /\ WF_vars(LockExpires)

FairSpec == Spec /\ NodeFairness /\ WF_vars(Recover)

(* Valkey is not bound to come back. *)
DarkSpec == Spec /\ NodeFairness

-----------------------------------------------------------------------------
(* Properties.                                                             *)

DirType ==
  /\ valkey \in BOOLEAN /\ etalon \in Content /\ peers \subseteq Node
  /\ lock \in Node \union {NoNode}
RunType ==
  /\ pc \in [Node -> Phase]
  /\ waiting \in [Node -> BOOLEAN]
  /\ todo \in [Node -> SUBSET Node]
  /\ want \in [Node -> Content]
  /\ src \in [Node -> Node \union {NoNode}]
DiskType ==
  /\ file \in [Node -> Content]
  /\ made \in Nat /\ spoiled \in BOOLEAN /\ faults \in 0..MaxFaults

(* Types; and only a primer that is downloading has a connection open.     *)
TypeOK ==
  /\ DirType /\ RunType /\ DiskType
  /\ \A n \in Node : src[n] # NoNode => At(n, "fetch")

(* No two primers build at once, unless the lock was lost under a build.   *)
AtMostOneBuilder ==
  \A m, n \in Node : At(m, "build") /\ At(n, "build") => m = n

(* Stronger: seen from outside, the builds are what OneBuilder promises,   *)
(* step by step, with kills, SIGTERM, late releases and restarts.          *)
Building == {n \in Node : At(n, "build")}
Promise == INSTANCE OneBuilder WITH building <- Building
ImplementsOneBuilder == Promise!Spec

(* While Valkey answers and keeps its data, no archive is ever pulled      *)
(* unverified: Register writes the hash before the endpoint, and the pull  *)
(* loop reads the peers before the hash, so whoever sees a peer sees a     *)
(* hash.                                                                   *)
NoBlindPull ==
  \A n \in Node : At(n, "fetch") \/ (At(n, "pull") /\ todo[n] # {}) => want[n] # Absent

(* Complete archives only.  A registered primer's file is what some build  *)
(* wrote in full, in spite of transit damage, cut-off downloads and peers  *)
(* that come and go, as long as no process was killed in the middle of     *)
(* writing an archive.                                                     *)
Registered(n) == pc[n] \in {"peer", "start", "serve", "unreg"}
SoundArchives ==
  ~spoiled => \A n \in Node : Registered(n) => file[n].kind = "whole"

(* The hash everyone verifies against is the hash of an archive some node  *)
(* still has on disk: concurrent registrations, restarts and re-pulls      *)
(* never leave the directory advertising an archive nobody has.            *)
EtalonHeld == ~spoiled /\ etalon # Absent => \E n \in Node : file[n] = etalon

(* A primer in service can be found: nobody but itself takes its endpoint  *)
(* out of the peer set.                                                    *)
ServingIsListed == \A n \in Node : At(n, "serve") => n \in peers

(* The inductive invariants the five properties above follow from.  Each   *)
(* holds as long as the faults that PrimerProofs excludes do not happen.   *)

(* The lock still belongs to whoever builds under it. *)
BuilderHolds == \A n \in Node : At(n, "build") => lock = n

(* The hash is in the directory before the first endpoint, and whoever has *)
(* read an endpoint reads or has read the hash.                            *)
DirectoryInv ==
  /\ valkey
  /\ etalon = Absent => peers = {}
  /\ \A n \in Node : At(n, "peer") \/ (At(n, "etalon") /\ todo[n] # {}) => etalon # Absent
  /\ NoBlindPull

(* The files: a primer that looks for an archive has none, and one that    *)
(* registers or serves has a whole one; hashes are those of whole ones.    *)
Seeking(n) == pc[n] \in {"list", "etalon", "pull", "fetch", "lock", "build", "wait"}
AbsentOrWhole(c) == c = Absent \/ c.kind = "whole"
FileInv(n) ==
  /\ AbsentOrWhole(want[n])
  /\ AbsentOrWhole(file[n]) \/ (pc[n] \in {"fetch", "gone"} /\ file[n] = Empty)
  /\ Seeking(n) => file[n] \in {Absent, Empty}
  /\ Registered(n) => file[n].kind = "whole"
  /\ src[n] # NoNode => Listening(src[n])
ArchiveInv ==
  ~spoiled => AbsentOrWhole(etalon) /\ EtalonHeld /\ \A n \in Node : FileInv(n)

(* An endpoint stays listed from Register to Unregister. *)
ListedInv == \A n \in Node : pc[n] \in {"start", "serve"} => n \in peers

(* Every node that stays gets the archive and serves it, after finitely    *)
(* many crashes, outages, failed builds and broken downloads.              *)
EveryoneServes == \A n \in Node : <>[](pc[n] \in {"serve", "gone"})
-----------------------------------------------------------------------------
(* What the documentation says, and the code does not do.                  *)

(* docs/REPORT.md:151: "if Valkey dies, each node just builds locally      *)
(* (slower, but never fails)"; docs/DESIGN.md:275: new nodes "fall back to *)
(* direct build".                                                          *)
BuildsWithoutValkey == \A n \in Node : <>LocalHit(n)

=============================================================================
