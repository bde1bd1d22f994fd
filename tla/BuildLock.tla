------------------------------ MODULE BuildLock ------------------------------
(***************************************************************************)
(* The build lock of one archive key: a Valkey string with a time to live, *)
(* taken with SETNX by the primer that is about to build, kept alive by a  *)
(* heartbeat goroutine while the warm-up JVM runs, and deleted when the    *)
(* build returns.  Time is discrete; the module follows every clock the    *)
(* protocol depends on: the key's remaining life, each heartbeat's ticker, *)
(* and each waiter's deadline.  How an archive travels between primers is  *)
(* abstracted to "some peer serves it" (Primer.tla has the detail).        *)
(***************************************************************************)
EXTENDS Integers

CONSTANTS
  Node,         \* primers; a primer's endpoint is its lock value
  NoNode,       \* the lock value of an absent key
  TTL,          \* lockTTL
  Period,       \* the ticker's period, lockTTL / 3
  Jitter,       \* how late a due renewal may reach Valkey
  MaxGap,       \* renewal time lost in a row to failed RenewBuildLock calls
  WaitTimeout,  \* cfg.WaitForPeerTimeout
  MaxFaults     \* bound on crashes, failed calls and failed builds together

ASSUME NodeAssumption == NoNode \notin Node
ASSUME TimeAssumption ==
  /\ TTL \in Nat \ {0} /\ Period \in Nat \ {0}
  /\ Jitter \in Nat /\ MaxGap \in Nat /\ WaitTimeout \in Nat /\ MaxFaults \in Nat

(* The margin the heartbeat has: a builder that loses MaxGap of renewals   *)
(* still reaches Valkey before the key's life runs out.                    *)
HeartbeatCovers == Period + Jitter + MaxGap < TTL

VARIABLES
  lock,      \* holder named by archive:<key>:build_lock, or NoNode
  ttl,       \* remaining life of that key, 0 when it is absent
  pc,        \* where each primer is in acquireRemoteOrBuild
  hb,        \* is its renew goroutine running?
  beat,      \* time since its ticker was last due
  gap,       \* renewal time lost since the last successful renewal
  waited,    \* time spent in waitForPeer, 0 elsewhere
  disk,      \* primers whose host directory holds the archive
  peers,     \* archive:<key>:peers
  faults     \* faults so far

lockVars == <<lock, ttl>>
beatVars == <<hb, beat, gap>>
vars == <<lock, ttl, pc, hb, beat, gap, waited, disk, peers, faults>>

Phase == {"down", "start", "try", "build", "release", "abort", "register",
          "serve", "wait"}

Init ==
  /\ lock = NoNode /\ ttl = 0
  /\ pc = [n \in Node |-> "start"]
  /\ hb = [n \in Node |-> FALSE]
  /\ beat = [n \in Node |-> 0]
  /\ gap = [n \in Node |-> 0]
  /\ waited = [n \in Node |-> 0]
  /\ disk = {} /\ peers = {}
  /\ faults = 0

Goto(n, from, to) == pc[n] = from /\ pc' = [pc EXCEPT ![n] = to]

Fault == faults < MaxFaults /\ faults' = faults + 1

(* A listed peer that answers GET /archive/<key>. *)
Reachable(n) == \E m \in peers \ {n} : pc[m] = "serve"

(* The goroutine stops: the build returned, the lock is lost, or the       *)
(* process is gone.                                                        *)
StopHeartbeat(n) ==
  /\ hb' = [hb EXCEPT ![n] = FALSE]
  /\ beat' = [beat EXCEPT ![n] = 0]
  /\ gap' = [gap EXCEPT ![n] = 0]
-----------------------------------------------------------------------------
(* Before the lock.                                                        *)

(* The archive survived on the host: no peer and no lock is asked for. *)
LocalHit(n) ==
  /\ n \in disk
  /\ Goto(n, "start", "register")
  /\ UNCHANGED <<lockVars, beatVars, waited, disk, peers, faults>>

(* The first pull loop succeeds ... *)
PullFromListed(n) ==
  /\ n \notin disk /\ Reachable(n)
  /\ Goto(n, "start", "register")
  /\ disk' = disk \union {n}
  /\ UNCHANGED <<lockVars, beatVars, waited, peers, faults>>

(* ... or no listed peer gave the archive, and the primer goes on to the   *)
(* lock.  The answers it acts on may be old by the time it gets there.     *)
NoPeerHelped(n) ==
  /\ n \notin disk
  /\ \/ ~Reachable(n) /\ UNCHANGED faults
     \/ Reachable(n) /\ Fault
  /\ Goto(n, "start", "try")
  /\ UNCHANGED <<lockVars, beatVars, waited, disk, peers>>

(* SETNX on a held key. *)
TryRefused(n) ==
  /\ lock # NoNode
  /\ Goto(n, "try", "wait")
  /\ UNCHANGED <<lockVars, beatVars, waited, disk, peers, faults>>

(* SETNX on an absent key; the heartbeat starts with it.                   *)
TakeKeyAnyway(n) == lock' = n   \* mutant: SET instead of SETNX
TakeKey(n) == lock = NoNode /\ lock' = n

TryAcquired(n) ==
  /\ TakeKey(n) /\ ttl' = TTL
  /\ Goto(n, "try", "build")
  /\ hb' = [hb EXCEPT ![n] = TRUE]
  /\ beat' = [beat EXCEPT ![n] = 0]
  /\ gap' = [gap EXCEPT ![n] = 0]
  /\ UNCHANGED <<waited, disk, peers, faults>>

-----------------------------------------------------------------------------
(* The renew goroutine.                                                    *)

RenewEarly(n) ==   \* mutant: the first renewal does not wait for the ticker
  pc[n] = "build" /\ hb[n] /\ beat[n] >= Period - 1
RenewDue(n) == pc[n] = "build" /\ hb[n] /\ beat[n] >= Period

(* Mutant: PEXPIRE is given seconds. *)
RenewedInSeconds(n) ==
  /\ RenewDue(n) /\ lock = n
  /\ ttl' = 1
  /\ beat' = [beat EXCEPT ![n] = @ - Period]
  /\ gap' = [gap EXCEPT ![n] = 0]
  /\ UNCHANGED <<lock, pc, hb, waited, disk, peers, faults>>

(* The Lua script finds its own holder and resets the key's life. *)
Renewed(n) ==
  /\ RenewDue(n) /\ lock = n
  /\ ttl' = TTL
  /\ beat' = [beat EXCEPT ![n] = @ - Period]
  /\ gap' = [gap EXCEPT ![n] = 0]
  /\ UNCHANGED <<lock, pc, hb, waited, disk, peers, faults>>

(* The script finds another holder or none: the goroutine returns, and the *)
(* build goes on without a lock.                                           *)
RenewLost(n) ==
  /\ RenewDue(n) /\ lock # n
  /\ StopHeartbeat(n)
  /\ UNCHANGED <<lockVars, pc, waited, disk, peers, faults>>

(* The call fails; the goroutine logs it and waits for the next tick. *)
RenewError(n) ==
  /\ RenewDue(n)
  /\ gap[n] + Period <= MaxGap
  /\ beat' = [beat EXCEPT ![n] = @ - Period]
  /\ gap' = [gap EXCEPT ![n] = @ + Period]
  /\ UNCHANGED <<lockVars, pc, hb, waited, disk, peers, faults>>

-----------------------------------------------------------------------------
(* After the build.                                                        *)

(* BuildLocally returned nil and left an archive. *)
BuildDone(n) ==
  /\ Goto(n, "build", "release")
  /\ StopHeartbeat(n)
  /\ disk' = disk \union {n}
  /\ UNCHANGED <<lockVars, waited, peers, faults>>

(* A build that ends early may leave a file on the host nevertheless. *)
MayLeaveArchive(n) == disk' \in {disk, disk \union {n}}

(* BuildLocally returned an error: the lock is released all the same. *)
BuildFailed(n) ==
  /\ Goto(n, "build", "abort")
  /\ Fault
  /\ StopHeartbeat(n)
  /\ MayLeaveArchive(n)
  /\ UNCHANGED <<lockVars, waited, peers>>

DropKeyUnchecked(n) == lock' = NoNode /\ ttl' = 0   \* mutant: a bare DEL

(* The Lua script deletes the key only if its value is still this holder. *)
DropKey(n) ==
  IF lock = n THEN lock' = NoNode /\ ttl' = 0 ELSE UNCHANGED <<lock, ttl>>

Release(n) ==
  /\ \/ Goto(n, "release", "register")
     \/ Goto(n, "abort", "down")
  /\ DropKey(n)
  /\ UNCHANGED <<beatVars, waited, disk, peers, faults>>

(* The release call fails: logged only, the key stays until it expires. *)
ReleaseError(n) ==
  /\ \/ Goto(n, "release", "register")
     \/ Goto(n, "abort", "down")
  /\ Fault
  /\ UNCHANGED <<lockVars, beatVars, waited, disk, peers>>

Register(n) ==
  /\ Goto(n, "register", "serve")
  /\ peers' = peers \union {n}
  /\ UNCHANGED <<lockVars, beatVars, waited, disk, faults>>
-----------------------------------------------------------------------------
(* waitForPeer: the directory is polled, the lock is not tried again.      *)

WaitPull(n) ==
  /\ Reachable(n)
  /\ Goto(n, "wait", "register")
  /\ disk' = disk \union {n}
  /\ waited' = [waited EXCEPT ![n] = 0]
  /\ UNCHANGED <<lockVars, beatVars, peers, faults>>

WaitForever(n) == FALSE /\ UNCHANGED vars   \* mutant: no deadline

(* The deadline has passed: Run returns the error and main exits. *)
WaitDeadline(n) ==
  /\ waited[n] = WaitTimeout
  /\ Goto(n, "wait", "down")
  /\ waited' = [waited EXCEPT ![n] = 0]
  /\ UNCHANGED <<lockVars, beatVars, disk, peers, faults>>

-----------------------------------------------------------------------------
(* Failures, restarts, time.                                               *)

(* The process dies, or a directory call of Run fails and main exits. *)
Crash(n) ==
  /\ pc[n] # "down"
  /\ Fault
  /\ pc' = [pc EXCEPT ![n] = "down"]
  /\ StopHeartbeat(n)
  /\ waited' = [waited EXCEPT ![n] = 0]
  /\ IF pc[n] = "build" THEN MayLeaveArchive(n) ELSE UNCHANGED disk
  /\ UNCHANGED <<lockVars, peers>>

(* The kubelet starts the container again in the same pod: same endpoint. *)
Restart(n) ==
  /\ Goto(n, "down", "start")
  /\ UNCHANGED <<lockVars, beatVars, waited, disk, peers, faults>>

(* Mutant: the key is set without a time to live. *)
TickForever ==
  /\ \A n \in Node : hb[n] => beat[n] < Period + Jitter
  /\ \A n \in Node : pc[n] = "wait" => waited[n] < WaitTimeout
  /\ beat' = [n \in Node |-> IF hb[n] THEN beat[n] + 1 ELSE beat[n]]
  /\ waited' = [n \in Node |-> IF pc[n] = "wait" THEN waited[n] + 1 ELSE waited[n]]
  /\ UNCHANGED <<lockVars, pc, hb, gap, disk, peers, faults>>

(* Time passes for everyone.  It does not pass a due renewal by more than  *)
(* Jitter, nor a waiter's deadline.                                        *)
Tick ==
  /\ \A n \in Node : hb[n] => beat[n] < Period + Jitter
  /\ \A n \in Node : pc[n] = "wait" => waited[n] < WaitTimeout
  /\ ttl' = IF ttl = 0 THEN 0 ELSE ttl - 1
  /\ lock' = IF ttl <= 1 THEN NoNode ELSE lock
  /\ beat' = [n \in Node |-> IF hb[n] THEN beat[n] + 1 ELSE beat[n]]
  /\ waited' = [n \in Node |-> IF pc[n] = "wait" THEN waited[n] + 1 ELSE waited[n]]
  /\ UNCHANGED <<pc, hb, gap, disk, peers, faults>>

Acquire(n) == LocalHit(n) \/ PullFromListed(n) \/ NoPeerHelped(n)
                \/ TryRefused(n) \/ TryAcquired(n)
Heartbeat(n) == Renewed(n) \/ RenewLost(n) \/ RenewError(n)
Finish(n) == BuildDone(n) \/ Release(n) \/ Register(n)
Wait(n) == WaitPull(n) \/ WaitDeadline(n)
Break(n) == BuildFailed(n) \/ ReleaseError(n) \/ Crash(n)

Next ==
  \/ \E n \in Node : Acquire(n) \/ Heartbeat(n) \/ Finish(n) \/ Wait(n)
                       \/ Break(n) \/ Restart(n)
  \/ Tick

Spec == Init /\ [][Next]_vars

(* The goroutines of a running primer are scheduled, waitForHTTP and the   *)
(* 30 s kill bound a build, the kubelet restarts an exited container, and  *)
(* time goes on.  Nothing makes a fault happen.                            *)
Fairness ==
  /\ \A n \in Node : /\ WF_vars(Acquire(n)) /\ WF_vars(Heartbeat(n))
                     /\ WF_vars(Finish(n)) /\ WF_vars(Restart(n))
                     /\ WF_vars(WaitDeadline(n)) /\ WF_vars(WaitPull(n))
  /\ WF_vars(Tick)

FairSpec == Spec /\ Fairness

-----------------------------------------------------------------------------
(* Properties.                                                             *)

(* Every variable has its type; the key has a life exactly while it exists. *)
TypeOK ==
  /\ lock \in Node \union {NoNode}
  /\ ttl \in 0..TTL
  /\ (ttl = 0) <=> (lock = NoNode)
  /\ pc \in [Node -> Phase]
  /\ hb \in [Node -> BOOLEAN]
  /\ beat \in [Node -> 0..(Period + Jitter)]
  /\ gap \in [Node -> 0..MaxGap]
  /\ waited \in [Node -> 0..WaitTimeout]
  /\ disk \subseteq Node /\ peers \subseteq Node
  /\ faults \in 0..MaxFaults

(* Two warm-up JVMs never run for the same key at the same time, however   *)
(* crashes, lost renewals and restarts interleave (under HeartbeatCovers). *)
AtMostOneBuilder ==
  \A m, n \in Node : pc[m] = "build" /\ pc[n] = "build" => m = n

(* The argument for it.  A builder's goroutine is running and its key is   *)
(* its own, with life left for all the time its ticker and its lost        *)
(* renewals have used since the last success.                              *)
HeartbeatInv ==
  \A n \in Node :
    /\ hb[n] <=> pc[n] = "build"
    /\ pc[n] = "build" => lock = n /\ ttl + beat[n] + gap[n] >= TTL

(* A key in somebody's name goes away only when its own holder releases it *)
(* or when its life ends, and its life is extended only by its own builder *)
(* (the holder comparison of both Lua scripts, directory.go:139-144 and    *)
(* 159-164), even after the holder has lost it to another primer.          *)
OnlyHolderTouches ==
  [][ /\ lock # NoNode /\ lock' # lock
         => lock' = NoNode /\ (ttl = 1 \/ pc[lock] \in {"release", "abort"})
      /\ lock # NoNode /\ lock' = lock /\ ttl' > ttl
         => pc[lock] = "build" /\ hb[lock] ]_vars

(* A waiter is never stuck: a builder that dies with the lock costs it at  *)
(* most its own deadline.                                                  *)
WaitersLeave == \A n \in Node : pc[n] = "wait" ~> pc[n] # "wait"

(* Finitely many crashes, lost calls and failed builds only delay the      *)
(* rollout: in the end every primer serves the archive.                    *)
EveryoneServes == \A n \in Node : <>[](pc[n] = "serve")

(* One build at a time, as the abstract promise.                           *)
Promise == INSTANCE OneBuilder WITH building <- {n \in Node : pc[n] = "build"}
ImplementsOneBuilder == Promise!Spec

=============================================================================
