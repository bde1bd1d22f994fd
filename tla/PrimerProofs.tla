---------------------------- MODULE PrimerProofs ----------------------------
(***************************************************************************)
(* What TLAPS proves of Primer, for every set of nodes and any number of   *)
(* faults of the kinds each theorem admits.                                *)
(***************************************************************************)
EXTENDS Primer, TLAPS

USE PrimerAssumption DEF PrimerAssumption

-----------------------------------------------------------------------------
(* Types.                                                                  *)

LEMMA NoContent == Absent \in Content /\ Empty \in Content
  BY DEF Absent, Empty, Content

LEMMA FreshContent ==
  ASSUME made \in Nat, NEW k \in {"absent", "empty", "torn", "damaged", "whole"}
  PROVE  Fresh(k) \in Content
  BY DEF Fresh, Content

LEMMA InitType == Init => TypeOK
<1> SUFFICES ASSUME Init PROVE TypeOK
  OBVIOUS
<1> USE DEF Init
<1>1. DirType
  BY NoContent DEF DirType
<1>2. RunType
  BY NoContent DEF RunType, Phase
<1>3. DiskType
  <2>1. file \in [Node -> Content]
    BY NoContent
  <2>2. made \in Nat /\ faults \in 0..MaxFaults
    OBVIOUS
  <2>3. spoiled \in BOOLEAN
    OBVIOUS
  <2>4. QED
    BY <2>1, <2>2, <2>3 DEF DiskType
<1>4. \A n \in Node : src[n] # NoNode => At(n, "fetch")
  BY DEF At
<1>5. QED
  BY <1>1, <1>2, <1>3, <1>4 DEF TypeOK

(* What a writer leaves behind is some content. *)
LEMMA LeftBehindType ==
  ASSUME DiskType, NEW n \in Node, LeftBehind(n)
  PROVE  file' \in [Node -> Content] /\ made' \in Nat /\ spoiled' \in BOOLEAN
<1>1. CASE UNCHANGED <<file, made, spoiled>>
  BY <1>1 DEF DiskType
<1>2. CASE Write(n, Empty) /\ spoiled' = TRUE /\ UNCHANGED made
  BY <1>2, NoContent DEF DiskType, Write
<1>3. CASE Write(n, Fresh("torn")) /\ made' = made + 1 /\ spoiled' = TRUE
  BY <1>3, FreshContent DEF DiskType, Write
<1>4. QED
  BY <1>1, <1>2, <1>3 DEF LeftBehind

LEMMA CutOffType ==
  ASSUME RunType, NEW n \in Node, CutOff(n)
  PROVE  /\ src' \in [Node -> Node \union {NoNode}]
         /\ \A m \in Node : src'[m] # NoNode => m # n /\ src'[m] = src[m]
  BY DEF RunType, CutOff

LEMMA HappensType ==
  ASSUME faults \in 0..MaxFaults, NEW f, Happens(f)
  PROVE  faults' \in 0..MaxFaults
  BY DEF Happens

LEMMA NextType == TypeOK /\ [Next]_vars => TypeOK'
<1> SUFFICES ASSUME TypeOK, [Next]_vars PROVE TypeOK'
  OBVIOUS
<1> USE DEF TypeOK, DirType, RunType, DiskType, Phase, At, Goto, Exit, Write,
            dirVars, runVars, diskVars
<1>1. ASSUME NEW n \in Node, Pull(n) PROVE TypeOK'
  <2>1. CASE ListPeers(n) \/ ListPeersError(n) \/ ReadEtalon(n) \/ PullsExhausted(n)
    BY NoContent, <2>1 DEF ListPeers, ListPeersError, ReadEtalon, PullsExhausted
  <2>2. CASE PullDone(n)
    BY NoContent, <2>2 DEF PullDone, Verify
  <2>3. CASE PullDamaged(n)
    BY NoContent, <2>3, FreshContent, HappensType DEF PullDamaged, Verify
  <2>4. CASE PullBroken(n)
    BY NoContent, <2>4, HappensType DEF PullBroken
  <2>5. CASE \E m \in Node : PullRefused(n, m) \/ PullOpened(n, m)
    BY NoContent, <2>5, HappensType DEF PullRefused, PullOpened, Tried
  <2>6. QED
    BY <1>1, <2>1, <2>2, <2>3, <2>4, <2>5 DEF Pull
<1>2. ASSUME NEW n \in Node, Build(n) PROVE TypeOK'
  <2>1. CASE LockAcquired(n) \/ LockError(n)
    BY <2>1 DEF LockAcquired, LockError
  <2>2. CASE BuildDone(n)
    BY <2>2, FreshContent DEF BuildDone
  <2>3. CASE LockRefused(n)
    BY <2>3 DEF LockRefused
  <2>4. CASE BuildKilled(n)
    BY <2>4, LeftBehindType, HappensType DEF BuildKilled
  <2>5. CASE BuildError(n)
    BY <2>5, LeftBehindType, FreshContent, HappensType DEF BuildError
  <2>6. CASE Release(n)
    BY <2>6 DEF Release
  <2>7. QED
    BY <1>2, <2>1, <2>2, <2>3, <2>4, <2>5, <2>6 DEF Build
<1>3. ASSUME NEW n \in Node, Serve(n) PROVE TypeOK'
  <2>1. CASE RegisterMeta(n) \/ RegisterPeer(n) \/ StartServer(n)
    BY <2>1 DEF RegisterMeta, RegisterPeer, StartServer
  <2>2. CASE Shutdown(n)
    BY <2>2, CutOffType DEF Shutdown
  <2>3. QED
    BY <1>3, <2>1, <2>2 DEF Serve
<1>4. ASSUME NEW n \in Node,
             WaitReady(n) \/ WaitReadyTimeout(n) \/ Poll(n) \/ WaitTimeout(n)
      PROVE  TypeOK'
  BY <1>4 DEF WaitReady, WaitReadyTimeout, Poll, WaitTimeout
<1>5. ASSUME NEW n \in Node, Unregister(n) \/ Leave(n) \/ Restart(n) PROVE TypeOK'
  <2>1. CASE Unregister(n)
    BY <2>1, HappensType DEF Unregister
  <2>2. CASE Leave(n)
    BY <2>2, CutOffType, HappensType DEF Leave
  <2>3. CASE Restart(n)
    BY <2>3, NoContent DEF Restart
  <2>4. QED
    BY <1>5, <2>1, <2>2, <2>3
<1>6. ASSUME NEW n \in Node, Terminate(n) PROVE TypeOK'
  <2>1. file' \in [Node -> Content] /\ made' \in Nat /\ spoiled' \in BOOLEAN
    BY <1>6, NoContent, LeftBehindType DEF Terminate
  <2>2. pc' \in [Node -> Phase] /\ \A m \in Node : m # n => pc'[m] = pc[m]
    BY <1>6 DEF Terminate
  <2>3. /\ src' = [src EXCEPT ![n] = NoNode] /\ faults' \in 0..MaxFaults
        /\ UNCHANGED <<dirVars, waiting, todo, want>>
    BY <1>6, HappensType DEF Terminate
  <2>4. QED
    BY <2>1, <2>2, <2>3
<1>7. ASSUME NEW n \in Node, Crash(n) PROVE TypeOK'
  <2>1. file' \in [Node -> Content] /\ made' \in Nat /\ spoiled' \in BOOLEAN
    <3>1. CASE LeftBehind(n)
      BY <3>1, LeftBehindType
    <3>2. CASE UNCHANGED <<file, made, spoiled>>
      BY <3>2
    <3>3. CASE src[n] # NoNode /\ Write(n, file[src[n]]) /\ spoiled' = TRUE /\ UNCHANGED made
      BY <3>3
    <3>4. QED
      BY <1>7, <3>1, <3>2, <3>3 DEF Crash
  <2>2. /\ pc' = [pc EXCEPT ![n] = "down"] /\ faults' \in 0..MaxFaults
        /\ CutOff(n)
        /\ UNCHANGED <<dirVars, waiting, todo, want>>
    BY <1>7, HappensType DEF Crash
  <2>3. QED
    BY <2>1, <2>2, CutOffType
<1>8. CASE LockExpires \/ Outage \/ Recover \/ DataLoss
  <2>1. /\ UNCHANGED <<pc, runVars, diskVars>> /\ faults' \in 0..MaxFaults
        /\ \/ lock' = NoNode /\ UNCHANGED <<valkey, etalon, peers>>
           \/ valkey' \in BOOLEAN /\ UNCHANGED <<etalon, peers, lock>>
           \/ etalon' = Absent /\ peers' = {} /\ lock' = NoNode /\ UNCHANGED valkey
    BY <1>8, HappensType DEF LockExpires, Outage, Recover, DataLoss
  <2>2. QED
    BY <2>1, NoContent
<1>9. CASE UNCHANGED vars
  BY <1>9 DEF vars
<1>10. QED
  BY <1>1, <1>2, <1>3, <1>4, <1>5, <1>6, <1>7, <1>8, <1>9 DEF Next, Run

(* Every variable has its type, and only a primer that is downloading has  *)
(* a connection to a peer (orchestrator.go:64-230, peer.go:79-121).        *)
THEOREM TypeCorrect == Spec => []TypeOK
  BY InitType, NextType, PTL DEF Spec

-----------------------------------------------------------------------------
(* One builder at a time.                                                  *)

LEMMA NextHolds ==
  ASSUME FaultKinds \intersect {"expire", "loss"} = {},
         TypeOK, BuilderHolds, [Next]_vars
  PROVE  BuilderHolds'
<1> USE DEF BuilderHolds, At, Goto, Exit, dirVars, runVars, diskVars
<1>0. pc \in [Node -> Phase] /\ lock \in Node \union {NoNode}
  BY DEF TypeOK, DirType, RunType
<1>1. ASSUME NEW n \in Node, Pull(n) PROVE BuilderHolds'
  BY <1>0, <1>1 DEF Pull, ListPeers, ListPeersError, ReadEtalon, PullsExhausted, PullDone,
     PullDamaged, PullBroken, PullRefused, PullOpened, Verify
<1>2. ASSUME NEW n \in Node, Build(n) PROVE BuilderHolds'
  <2>1. CASE LockAcquired(n)
    BY <1>0, <2>1 DEF LockAcquired
  <2>2. CASE Release(n)
    BY <1>0, <2>2 DEF Release
  <2>3. CASE LockRefused(n) \/ LockError(n) \/ BuildDone(n) \/ BuildKilled(n) \/ BuildError(n)
    BY <1>0, <2>3 DEF LockRefused, LockError, BuildDone, BuildKilled, BuildError
  <2>4. QED
    BY <1>2, <2>1, <2>2, <2>3 DEF Build
<1>3. ASSUME NEW n \in Node,
             Serve(n) \/ WaitReady(n) \/ WaitReadyTimeout(n) \/ Poll(n) \/ WaitTimeout(n)
      PROVE  BuilderHolds'
  BY <1>0, <1>3 DEF Serve, RegisterMeta, RegisterPeer, StartServer, Shutdown,
     WaitReady, WaitReadyTimeout, Poll, WaitTimeout
<1>4. ASSUME NEW n \in Node,
             Unregister(n) \/ Terminate(n) \/ Crash(n) \/ Leave(n) \/ Restart(n)
      PROVE  BuilderHolds'
  BY <1>0, <1>4 DEF Unregister, Terminate, Crash, Leave, Restart
<1>5. CASE LockExpires
  BY <1>0, <1>5 DEF LockExpires, Happens
<1>6. CASE Outage \/ Recover \/ DataLoss \/ UNCHANGED vars
  BY <1>0, <1>6 DEF Outage, Recover, DataLoss, Happens, vars
<1>7. QED
  BY <1>1, <1>2, <1>3, <1>4, <1>5, <1>6 DEF Next, Run

(* SETNX keeps a second primer from building as long as the key is neither *)
(* expired under a running build nor lost with Valkey's data               *)
(* (orchestrator.go:162-198, directory.go:130-168).                        *)
THEOREM OneBuilderUnlessLockLost ==
  ASSUME FaultKinds \intersect {"expire", "loss"} = {}
  PROVE  Spec => []AtMostOneBuilder
<1>1. Init => BuilderHolds
  BY DEF Init, BuilderHolds, At
<1>2. TypeOK /\ BuilderHolds /\ [Next]_vars => BuilderHolds'
  BY NextHolds
<1>3. BuilderHolds => AtMostOneBuilder
  BY DEF BuilderHolds, AtMostOneBuilder
<1>4. QED
  BY <1>1, <1>2, <1>3, TypeCorrect, PTL DEF Spec

(* A step that puts no primer into "build", and takes one out at most. *)
LEMMA Ends ==
  ASSUME pc \in [Node -> Phase], NEW n \in Node, NEW p, p # "build",
         pc' = [pc EXCEPT ![n] = p]
  PROVE  Promise!End(n) \/ UNCHANGED Building
<1>1. Building' = Building \ {n}
  BY DEF Building, At
<1>2. QED
  BY <1>1 DEF Promise!End

LEMMA StepRefines ==
  ASSUME TypeOK, BuilderHolds, [Next]_vars
  PROVE  [Promise!Next]_Building
<1> USE DEF Goto, Exit, Promise!Next
<1>0. pc \in [Node -> Phase] /\ lock \in Node \union {NoNode}
  BY DEF TypeOK, DirType, RunType
<1>1. ASSUME NEW n \in Node, LockAcquired(n) PROVE Promise!Begin(n)
  <2>1. Building = {}
    BY <1>1 DEF LockAcquired, BuilderHolds, Building
  <2>2. Building' = {n}
    BY <1>0, <1>1, <2>1 DEF LockAcquired, Building, At
  <2>3. QED
    BY <2>1, <2>2 DEF Promise!Begin
<1>2. ASSUME NEW n \in Node,
             \/ BuildDone(n) \/ BuildKilled(n) \/ BuildError(n) \/ Release(n)
             \/ LockRefused(n) \/ LockError(n)
      PROVE  Promise!End(n) \/ UNCHANGED Building
  BY <1>0, <1>2, Ends
     DEF BuildDone, BuildKilled, BuildError, Release, LockRefused, LockError
<1>3. ASSUME NEW n \in Node, Pull(n) PROVE Promise!End(n) \/ UNCHANGED Building
  <2>1. CASE \E m \in Node : PullRefused(n, m)
    BY <2>1 DEF PullRefused, Building, At
  <2>2. CASE PullDone(n) \/ PullDamaged(n)
    BY <1>0, <2>2, Ends DEF PullDone, PullDamaged, Verify
  <2>3. CASE \/ ListPeers(n) \/ ListPeersError(n) \/ ReadEtalon(n) \/ PullsExhausted(n)
             \/ PullBroken(n) \/ \E m \in Node : PullOpened(n, m)
    BY <1>0, <2>3, Ends DEF ListPeers, ListPeersError, ReadEtalon, PullsExhausted,
       PullBroken, PullOpened
  <2>4. QED
    BY <1>3, <2>1, <2>2, <2>3 DEF Pull
<1>4. ASSUME NEW n \in Node, Serve(n) \/ WaitReady(n) \/ WaitReadyTimeout(n) \/ Poll(n)
      PROVE  Promise!End(n) \/ UNCHANGED Building
  BY <1>0, <1>4, Ends DEF Serve, RegisterMeta, RegisterPeer, StartServer, Shutdown,
     WaitReady, WaitReadyTimeout, Poll
<1>5. ASSUME NEW n \in Node,
             \/ WaitTimeout(n) \/ Unregister(n) \/ Terminate(n) \/ Crash(n)
             \/ Leave(n) \/ Restart(n)
      PROVE  Promise!End(n) \/ UNCHANGED Building
  BY <1>0, <1>5, Ends DEF WaitTimeout, Unregister, Terminate, Crash, Leave, Restart
<1>6. CASE LockExpires \/ Outage \/ Recover \/ DataLoss \/ UNCHANGED vars
  BY <1>6 DEF LockExpires, Outage, Recover, DataLoss, vars, Building, At
<1>7. QED
  BY <1>1, <1>2, <1>3, <1>4, <1>5, <1>6 DEF Next, Run, Build

(* Every behaviour of the primers in which the lock is not lost under a    *)
(* build is one of OneBuilder: crashes, kills, SIGTERM, outages and late   *)
(* releases included (orchestrator.go:162-198, directory.go:130-168).      *)
THEOREM PrimersImplementOneBuilder ==
  ASSUME FaultKinds \intersect {"expire", "loss"} = {}
  PROVE  Spec => ImplementsOneBuilder
<1>1. Init => Promise!Init /\ BuilderHolds
  BY DEF Init, Promise!Init, Building, BuilderHolds, At
<1>2. TypeOK /\ BuilderHolds /\ [Next]_vars => BuilderHolds' /\ [Promise!Next]_Building
  BY NextHolds, StepRefines
<1>3. QED
  BY <1>1, <1>2, TypeCorrect, PTL DEF Spec, ImplementsOneBuilder, Promise!Spec

-----------------------------------------------------------------------------
(* A primer in service is listed.                                          *)

LEMMA NextListed ==
  ASSUME FaultKinds \intersect {"loss"} = {}, TypeOK, ListedInv, [Next]_vars
  PROVE  ListedInv'
<1> USE DEF ListedInv, At, Goto, Exit, dirVars, runVars, diskVars
<1>0. pc \in [Node -> Phase]
  BY DEF TypeOK, RunType
<1>1. ASSUME NEW n \in Node, Pull(n) PROVE ListedInv'
  BY <1>0, <1>1 DEF Pull, ListPeers, ListPeersError, ReadEtalon, PullsExhausted, PullDone,
     PullDamaged, PullBroken, PullRefused, PullOpened, Verify
<1>2. ASSUME NEW n \in Node, Build(n) PROVE ListedInv'
  BY <1>0, <1>2 DEF Build, LockAcquired, LockRefused, LockError, BuildDone, BuildKilled,
     BuildError, Release
<1>3. ASSUME NEW n \in Node, Serve(n) PROVE ListedInv'
  <2>1. CASE RegisterPeer(n)
    BY <1>0, <2>1 DEF RegisterPeer
  <2>2. CASE RegisterMeta(n) \/ StartServer(n) \/ Shutdown(n)
    BY <1>0, <2>2 DEF RegisterMeta, StartServer, Shutdown
  <2>3. QED
    BY <1>3, <2>1, <2>2 DEF Serve
<1>4. ASSUME NEW n \in Node,
             WaitReady(n) \/ WaitReadyTimeout(n) \/ Poll(n) \/ WaitTimeout(n)
      PROVE  ListedInv'
  BY <1>0, <1>4 DEF WaitReady, WaitReadyTimeout, Poll, WaitTimeout
<1>5. ASSUME NEW n \in Node, Unregister(n) PROVE ListedInv'
  BY <1>0, <1>5 DEF Unregister
<1>6. ASSUME NEW n \in Node, Terminate(n) \/ Crash(n) \/ Leave(n) \/ Restart(n)
      PROVE  ListedInv'
  BY <1>0, <1>6 DEF Terminate, Crash, Leave, Restart
<1>7. CASE LockExpires \/ Outage \/ Recover \/ DataLoss \/ UNCHANGED vars
  BY <1>0, <1>7 DEF LockExpires, Outage, Recover, DataLoss, Happens, vars
<1>8. QED
  BY <1>1, <1>2, <1>3, <1>4, <1>5, <1>6, <1>7 DEF Next, Run

(* A serving primer is in the peer set as long as Valkey keeps its data,   *)
(* whatever outages there are (orchestrator.go:103-129,                    *)
(* directory.go:46-65, 173-175).                                           *)
THEOREM ServersAreListed ==
  ASSUME FaultKinds \intersect {"loss"} = {}
  PROVE  Spec => []ServingIsListed
<1>1. Init => ListedInv
  BY DEF Init, ListedInv
<1>2. TypeOK /\ ListedInv /\ [Next]_vars => ListedInv'
  BY NextListed
<1>3. ListedInv => ServingIsListed
  BY DEF ListedInv, ServingIsListed, At
<1>4. QED
  BY <1>1, <1>2, <1>3, TypeCorrect, PTL DEF Spec

-----------------------------------------------------------------------------
(* No unverified pull.                                                     *)

LEMMA NextDirectory ==
  ASSUME FaultKinds \intersect {"outage", "loss"} = {},
         TypeOK, DirectoryInv, [Next]_vars
  PROVE  DirectoryInv'
<1> USE DEF DirectoryInv, NoBlindPull, At, Goto, Exit, dirVars, runVars, diskVars
<1>0. pc \in [Node -> Phase] /\ todo \in [Node -> SUBSET Node] /\ want \in [Node -> Content]
  BY DEF TypeOK, RunType
<1>1. ASSUME NEW n \in Node, Pull(n) PROVE DirectoryInv'
  <2>1. CASE ListPeers(n) \/ ListPeersError(n)
    BY <1>0, <2>1 DEF ListPeers, ListPeersError
  <2>2. CASE ReadEtalon(n) \/ PullsExhausted(n)
    BY <1>0, <2>2 DEF ReadEtalon, PullsExhausted
  <2>3. CASE PullDone(n) \/ PullDamaged(n) \/ PullBroken(n)
    BY <1>0, <2>3 DEF PullDone, PullDamaged, PullBroken, Verify
  <2>4. ASSUME NEW m \in Node, PullRefused(n, m) PROVE DirectoryInv'
    BY <1>0, <2>4 DEF PullRefused, Tried
  <2>5. ASSUME NEW m \in Node, PullOpened(n, m) PROVE DirectoryInv'
    BY <1>0, <2>5 DEF PullOpened, Tried
  <2>6. QED
    BY <1>1, <2>1, <2>2, <2>3, <2>4, <2>5 DEF Pull
<1>2. ASSUME NEW n \in Node, Build(n) PROVE DirectoryInv'
  BY <1>0, <1>2 DEF Build, LockAcquired, LockRefused, LockError, BuildDone, BuildKilled,
     BuildError, Release
<1>3. ASSUME NEW n \in Node, Serve(n) PROVE DirectoryInv'
  BY <1>0, <1>3 DEF Serve, RegisterMeta, RegisterPeer, StartServer, Shutdown
<1>4. ASSUME NEW n \in Node,
             WaitReady(n) \/ WaitReadyTimeout(n) \/ Poll(n) \/ WaitTimeout(n)
      PROVE  DirectoryInv'
  BY <1>0, <1>4 DEF WaitReady, WaitReadyTimeout, Poll, WaitTimeout
<1>5. ASSUME NEW n \in Node,
             Unregister(n) \/ Terminate(n) \/ Crash(n) \/ Leave(n) \/ Restart(n)
      PROVE  DirectoryInv'
  <2>1. CASE Unregister(n)
    BY <1>0, <2>1 DEF Unregister
  <2>2. CASE Terminate(n)
    BY <1>0, <2>2 DEF Terminate
  <2>3. CASE Crash(n) \/ Leave(n) \/ Restart(n)
    BY <1>0, <2>3 DEF Crash, Leave, Restart
  <2>4. QED
    BY <1>5, <2>1, <2>2, <2>3
<1>6. CASE LockExpires \/ Outage \/ Recover \/ DataLoss \/ UNCHANGED vars
  BY <1>0, <1>6 DEF LockExpires, Outage, Recover, DataLoss, Happens, vars
<1>7. QED
  BY <1>1, <1>2, <1>3, <1>4, <1>5, <1>6 DEF Next, Run

LEMMA DirectoryHolds ==
  ASSUME FaultKinds \intersect {"outage", "loss"} = {}
  PROVE  Spec => []DirectoryInv
<1>1. Init => DirectoryInv
  BY DEF Init, DirectoryInv, NoBlindPull, At
<1>2. TypeOK /\ DirectoryInv /\ [Next]_vars => DirectoryInv'
  BY NextDirectory
<1>3. QED
  BY <1>1, <1>2, TypeCorrect, PTL DEF Spec

(* Without an outage nobody downloads from a peer without a hash to verify *)
(* the archive against (orchestrator.go:135-156, 216-227,                  *)
(* directory.go:46-65).                                                    *)
THEOREM PullsAreVerified ==
  ASSUME FaultKinds \intersect {"outage", "loss"} = {}
  PROVE  Spec => []NoBlindPull
<1>1. DirectoryInv => NoBlindPull
  BY DEF DirectoryInv
<1>2. QED
  BY <1>1, DirectoryHolds, PTL

-----------------------------------------------------------------------------
(* Complete archives only.                                                 *)

(* The kinds of content that are told apart here. *)
LEMMA Kinds ==
  /\ Absent.kind = "absent" /\ Empty.kind = "empty" /\ Absent # Empty
  /\ \A k \in {"absent", "empty", "torn", "damaged", "whole"} : Fresh(k).kind = k
  BY DEF Absent, Empty, Fresh

(* Writing to a node that holds no archive loses none. *)
LEMMA OverwriteKeepsEtalon ==
  ASSUME TypeOK, ~spoiled, AbsentOrWhole(etalon), EtalonHeld, etalon' = etalon,
         NEW n \in Node, file[n] \in {Absent, Empty},
         \A m \in Node : m # n => file'[m] = file[m]
  PROVE  EtalonHeld'
<1> SUFFICES ASSUME etalon # Absent PROVE \E m \in Node : file'[m] = etalon
  BY DEF EtalonHeld
<1>1. etalon # Empty
  BY Kinds DEF AbsentOrWhole
<1>2. PICK m \in Node : file[m] = etalon
  BY DEF EtalonHeld
<1>3. QED
  BY <1>1, <1>2

(* What has been left unfinished on a disk is never forgotten. *)
LEMMA SpoiltForGood == TypeOK /\ [Next]_vars /\ ~spoiled' => ~spoiled
  BY DEF Next, Run, Pull, Build, Serve, vars, diskVars, dirVars, runVars,
     ListPeers, ListPeersError, ReadEtalon, PullsExhausted, PullDone, PullDamaged,
     PullBroken, PullRefused, PullOpened, LockAcquired, LockRefused, LockError, BuildDone,
     BuildKilled, BuildError, Release, RegisterMeta, RegisterPeer, StartServer, Shutdown,
     WaitReady, WaitReadyTimeout, Poll, WaitTimeout, Unregister, Terminate, Crash, Leave,
     Restart, LockExpires, Outage, Recover, DataLoss, LeftBehind

LEMMA NextArchive ==
  ASSUME TypeOK, DirectoryInv, ArchiveInv, [Next]_vars, DirectoryInv'
  PROVE  ArchiveInv'
<1> SUFFICES ASSUME ~spoiled'
             PROVE  /\ AbsentOrWhole(etalon') /\ EtalonHeld'
                    /\ \A m \in Node : FileInv(m)'
  BY DEF ArchiveInv, AbsentOrWhole
<1>0. /\ ~spoiled /\ AbsentOrWhole(etalon) /\ EtalonHeld /\ \A m \in Node : FileInv(m)
      /\ pc \in [Node -> Phase] /\ want \in [Node -> Content] /\ file \in [Node -> Content]
      /\ src \in [Node -> Node \union {NoNode}] /\ made \in Nat
      /\ \A m \in Node : src[m] # NoNode => pc[m] = "fetch"
  BY SpoiltForGood DEF ArchiveInv, TypeOK, DirType, RunType, DiskType, At
<1> DEFINE Goal == /\ AbsentOrWhole(etalon') /\ EtalonHeld'
                   /\ \A m \in Node : FileInv(m)'
<1> USE DEF FileInv, AbsentOrWhole, Seeking, Registered, Listening, At, Goto, Exit, Write,
            dirVars, runVars, diskVars
<1>1. ASSUME NEW n \in Node, Pull(n) PROVE Goal
  <2>1. CASE ListPeers(n) \/ ListPeersError(n) \/ ReadEtalon(n) \/ PullsExhausted(n)
    <3>1. UNCHANGED <<etalon, file>>
      BY <2>1 DEF ListPeers, ListPeersError, ReadEtalon, PullsExhausted
    <3>2. \A m \in Node : FileInv(m)'
      BY <1>0, <2>1 DEF ListPeers, ListPeersError, ReadEtalon, PullsExhausted
    <3>3. QED
      BY <1>0, <3>1, <3>2 DEF EtalonHeld
  <2>2. CASE PullDone(n)
    <3>1. want[n] # Absent /\ file[src[n]].kind = "whole" /\ src[n] \in Node
      BY <1>0, <2>2 DEF PullDone, DirectoryInv, NoBlindPull
    <3>2. \A m \in Node : FileInv(m)'
      BY <1>0, <2>2, <3>1, Kinds DEF PullDone, Verify, Accepted
    <3>3. file[n] \in {Absent, Empty} /\ UNCHANGED etalon /\ \A m \in Node : m # n => file'[m] = file[m]
      BY <1>0, <2>2 DEF PullDone, Verify
    <3>4. QED
      BY <1>0, <3>2, <3>3, OverwriteKeepsEtalon
  <2>3. CASE PullDamaged(n)
    <3>1. want[n].kind = "whole"
      BY <1>0, <2>3 DEF PullDamaged, DirectoryInv, NoBlindPull
    <3>2. ~Accepted(n, Fresh("damaged"))
      BY <3>1, Kinds DEF Accepted
    <3>3. \A m \in Node : FileInv(m)'
      BY <1>0, <2>3, <3>2, Kinds DEF PullDamaged, Verify
    <3>4. file[n] \in {Absent, Empty} /\ UNCHANGED etalon /\ \A m \in Node : m # n => file'[m] = file[m]
      BY <1>0, <2>3 DEF PullDamaged, Verify
    <3>5. QED
      BY <1>0, <3>3, <3>4, OverwriteKeepsEtalon
  <2>4. CASE PullBroken(n)
    <3>1. \A m \in Node : FileInv(m)'
      BY <1>0, <2>4, Kinds DEF PullBroken
    <3>2. file[n] \in {Absent, Empty} /\ UNCHANGED etalon /\ \A m \in Node : m # n => file'[m] = file[m]
      BY <1>0, <2>4 DEF PullBroken
    <3>3. QED
      BY <1>0, <3>1, <3>2, OverwriteKeepsEtalon
  <2>5. ASSUME NEW m \in Node, PullRefused(n, m) PROVE Goal
    BY <1>0, <2>5 DEF PullRefused, EtalonHeld
  <2>6. ASSUME NEW m \in Node, PullOpened(n, m) PROVE Goal
    <3>1. \A p \in Node : FileInv(p)'
      BY <1>0, <2>6, Kinds DEF PullOpened
    <3>2. file[n] \in {Absent, Empty} /\ UNCHANGED etalon /\ \A p \in Node : p # n => file'[p] = file[p]
      BY <1>0, <2>6 DEF PullOpened
    <3>3. QED
      BY <1>0, <3>1, <3>2, OverwriteKeepsEtalon
  <2>7. QED
    BY <1>1, <2>1, <2>2, <2>3, <2>4, <2>5, <2>6 DEF Pull
<1>2. ASSUME NEW n \in Node, Build(n) PROVE Goal
  <2>1. CASE LockAcquired(n) \/ LockRefused(n) \/ LockError(n)
    BY <1>0, <2>1 DEF LockAcquired, LockRefused, LockError, EtalonHeld
  <2>2. CASE BuildDone(n)
    <3>1. \A m \in Node : FileInv(m)'
      BY <1>0, <2>2, Kinds DEF BuildDone
    <3>2. file[n] \in {Absent, Empty} /\ UNCHANGED etalon /\ \A m \in Node : m # n => file'[m] = file[m]
      BY <1>0, <2>2 DEF BuildDone
    <3>3. QED
      BY <1>0, <3>1, <3>2, OverwriteKeepsEtalon
  <2>3. CASE BuildKilled(n)
    <3>1. UNCHANGED <<etalon, file, want, src>>
      BY <2>3 DEF BuildKilled, LeftBehind
    <3>2. QED
      BY <1>0, <2>3, <3>1 DEF BuildKilled, EtalonHeld
  <2>4. CASE Release(n)
    BY <1>0, <2>4 DEF Release, EtalonHeld
  <2>5. CASE BuildError(n)
    <3>1. CASE LeftBehind(n)
      <4>1. UNCHANGED <<etalon, file, want, src>>
        BY <2>5, <3>1 DEF BuildError, LeftBehind
      <4>2. QED
        BY <1>0, <2>5, <4>1 DEF BuildError, EtalonHeld
    <3>2. CASE Write(n, Fresh("whole"))
      <4>1. \A m \in Node : FileInv(m)'
        BY <1>0, <2>5, <3>2, Kinds DEF BuildError
      <4>2. /\ file[n] \in {Absent, Empty} /\ UNCHANGED etalon
            /\ \A m \in Node : m # n => file'[m] = file[m]
        BY <1>0, <2>5, <3>2 DEF BuildError
      <4>3. QED
        BY <1>0, <4>1, <4>2, OverwriteKeepsEtalon
    <3>3. QED
      BY <2>5, <3>1, <3>2 DEF BuildError
  <2>6. QED
    BY <1>2, <2>1, <2>2, <2>3, <2>4, <2>5 DEF Build
<1>3. ASSUME NEW n \in Node, Serve(n) PROVE Goal
  <2>1. CASE RegisterMeta(n)
    <3>1. file[n] # Absent /\ valkey => file[n].kind = "whole"
      BY <1>0, <2>1 DEF RegisterMeta
    <3>2. \A m \in Node : FileInv(m)'
      BY <1>0, <2>1, <3>1 DEF RegisterMeta
    <3>3. QED
      BY <1>0, <2>1, <3>1, <3>2 DEF RegisterMeta, EtalonHeld
  <2>2. CASE RegisterPeer(n) \/ StartServer(n)
    BY <1>0, <2>2 DEF RegisterPeer, StartServer, EtalonHeld
  <2>3. CASE Shutdown(n)
    BY <1>0, <2>3 DEF Shutdown, CutOff, EtalonHeld
  <2>4. QED
    BY <1>3, <2>1, <2>2, <2>3 DEF Serve
<1>4. ASSUME NEW n \in Node,
             WaitReady(n) \/ WaitReadyTimeout(n) \/ Poll(n) \/ WaitTimeout(n)
      PROVE  Goal
  BY <1>0, <1>4, Kinds DEF WaitReady, WaitReadyTimeout, Poll, WaitTimeout, LocalHit, EtalonHeld
<1>5. ASSUME NEW n \in Node, Unregister(n) \/ Restart(n) PROVE Goal
  BY <1>0, <1>5 DEF Unregister, Restart, EtalonHeld
<1>6. ASSUME NEW n \in Node, Leave(n) PROVE Goal
  BY <1>0, <1>6 DEF Leave, CutOff, EtalonHeld
<1>7. ASSUME NEW n \in Node, Terminate(n) PROVE Goal
  <2>1. CASE At(n, "fetch")
    <3>1. file' = [file EXCEPT ![n] = Absent] /\ pc' = [pc EXCEPT ![n] = "down"]
      BY <1>7, <2>1 DEF Terminate
    <3>2. \A m \in Node : FileInv(m)'
      BY <1>0, <1>7, <2>1, <3>1, Kinds DEF Terminate
    <3>3. file[n] \in {Absent, Empty} /\ UNCHANGED etalon /\ \A m \in Node : m # n => file'[m] = file[m]
      BY <1>0, <1>7, <2>1, <3>1 DEF Terminate
    <3>4. QED
      BY <1>0, <3>2, <3>3, OverwriteKeepsEtalon
  <2>2. CASE ~At(n, "fetch")
    <3>1. UNCHANGED <<etalon, file, want>>
      BY <1>7, <2>2 DEF Terminate, LeftBehind
    <3>2. /\ pc[n] # "gone" /\ pc'[n] \in {"abort", "down"} /\ src'[n] = NoNode /\ ~Listening(n)
          /\ \A m \in Node : m # n => pc'[m] = pc[m] /\ src'[m] = src[m]
      BY <1>0, <1>7 DEF Terminate
    <3>3. \A m \in Node : src[m] # n
      BY <1>0, <3>2
    <3>4. \A m \in Node : FileInv(m)'
      <4> TAKE m \in Node
      <4>1. CASE m = n
        BY <1>0, <2>2, <3>1, <3>2, <4>1
      <4>2. CASE m # n
        BY <1>0, <3>1, <3>2, <3>3, <4>2
      <4>3. QED
        BY <4>1, <4>2
    <3>5. QED
      BY <1>0, <3>1, <3>4 DEF EtalonHeld
  <2>3. QED
    BY <2>1, <2>2
<1>8. ASSUME NEW n \in Node, Crash(n) PROVE Goal
  <2>1. UNCHANGED <<etalon, file, want>> /\ ~At(n, "fetch")
    BY <1>8 DEF Crash, LeftBehind
  <2>2. pc[n] # "gone" /\ pc'[n] = "down" /\ \A m \in Node : m # n => pc'[m] = pc[m]
    BY <1>0, <1>8 DEF Crash
  <2>3. \A m \in Node : FileInv(m)'
    <3> TAKE m \in Node
    <3>1. src'[m] # NoNode => m # n /\ src[m] # n /\ src'[m] = src[m]
      BY <1>0, <1>8 DEF Crash, CutOff
    <3>2. CASE m = n
      BY <1>0, <2>1, <2>2, <3>1, <3>2
    <3>3. CASE m # n
      BY <1>0, <2>1, <2>2, <3>1, <3>3
    <3>4. QED
      BY <3>2, <3>3
  <2>4. QED
    BY <1>0, <2>1, <2>3 DEF EtalonHeld
<1>9. CASE LockExpires \/ Outage \/ Recover \/ DataLoss \/ UNCHANGED vars
  <2>1. UNCHANGED <<pc, want, src, file>> /\ (etalon' = etalon \/ etalon' = Absent)
    BY <1>9 DEF LockExpires, Outage, Recover, DataLoss, vars
  <2>2. QED
    BY <1>0, <2>1 DEF EtalonHeld
<1>10. QED
  BY <1>1, <1>2, <1>3, <1>4, <1>5, <1>6, <1>7, <1>8, <1>9 DEF Next, Run

LEMMA ArchiveHolds ==
  ASSUME FaultKinds \intersect {"outage", "loss"} = {}
  PROVE  Spec => []ArchiveInv
<1>1. Init => ArchiveInv
  <2> SUFFICES ASSUME Init PROVE ArchiveInv
    OBVIOUS
  <2>1. AbsentOrWhole(etalon) /\ EtalonHeld
    BY DEF Init, AbsentOrWhole, EtalonHeld
  <2>2. \A n \in Node : FileInv(n)
    BY DEF Init, FileInv, AbsentOrWhole, Registered, Seeking
  <2>3. QED
    BY <2>1, <2>2 DEF ArchiveInv
<1>2. TypeOK /\ DirectoryInv /\ DirectoryInv' /\ ArchiveInv /\ [Next]_vars => ArchiveInv'
  BY NextArchive
<1>3. QED
  BY <1>1, <1>2, TypeCorrect, DirectoryHolds, PTL DEF Spec

(* While nobody is killed in the middle of writing an archive, what is     *)
(* registered and served is what some build wrote in full, however many    *)
(* downloads break, arrive damaged or lose their peer                      *)
(* (orchestrator.go:83-105, 146-156, 220-227, peer.go:79-121).             *)
THEOREM RegisteredArchivesAreWhole ==
  ASSUME FaultKinds \intersect {"outage", "loss"} = {}
  PROVE  Spec => []SoundArchives
<1>1. ArchiveInv => SoundArchives
  BY DEF ArchiveInv, SoundArchives, FileInv
<1>2. QED
  BY <1>1, ArchiveHolds, PTL

(* The hash in the directory is the hash of an archive that is still on    *)
(* some node's disk: nobody overwrites the last copy of it                 *)
(* (orchestrator.go:83-105, directory.go:46-65).                           *)
THEOREM EtalonIsHeld ==
  ASSUME FaultKinds \intersect {"outage", "loss"} = {}
  PROVE  Spec => []EtalonHeld
<1>1. ArchiveInv => EtalonHeld
  BY DEF ArchiveInv, EtalonHeld
<1>2. QED
  BY <1>1, ArchiveHolds, PTL

=============================================================================
