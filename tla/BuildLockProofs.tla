--------------------------- MODULE BuildLockProofs ---------------------------
(***************************************************************************)
(* What TLAPS proves of BuildLock, for every set of primers and every      *)
(* choice of TTL, ticker period, jitter, lost renewals and deadline.       *)
(***************************************************************************)
EXTENDS BuildLock, TLAPS

USE NodeAssumption, TimeAssumption

(* One conjunct per group of variables, so that a step is proved against   *)
(* the parts it touches.                                                   *)
LEMMA InitType == Init => TypeOK
  BY DEF Init, TypeOK, Phase

(* The type invariant is inductive by itself: no assumption on how the     *)
(* period and the time to live relate.                                     *)
LEMMA NextType == TypeOK /\ [Next]_vars => TypeOK'
<1> SUFFICES ASSUME TypeOK, [Next]_vars PROVE TypeOK'
  OBVIOUS
<1> USE DEF TypeOK, Phase, Goto, lockVars, beatVars, Fault
<1>1. ASSUME NEW n \in Node, Acquire(n) PROVE TypeOK'
  <2>1. CASE LocalHit(n)
    BY <2>1 DEF LocalHit
  <2>2. CASE PullFromListed(n)
    BY <2>2 DEF PullFromListed
  <2>3. CASE NoPeerHelped(n)
    BY <2>3 DEF NoPeerHelped
  <2>4. CASE TryRefused(n)
    BY <2>4 DEF TryRefused
  <2>5. CASE TryAcquired(n)
    BY <2>5 DEF TryAcquired, TakeKey
  <2>6. QED
    BY <1>1, <2>1, <2>2, <2>3, <2>4, <2>5 DEF Acquire
<1>2. ASSUME NEW n \in Node, Heartbeat(n) PROVE TypeOK'
  <2>1. CASE Renewed(n)
    BY <2>1 DEF Renewed, RenewDue
  <2>2. CASE RenewLost(n)
    BY <2>2 DEF RenewLost, StopHeartbeat
  <2>3. CASE RenewError(n)
    BY <2>3 DEF RenewError, RenewDue
  <2>4. QED
    BY <1>2, <2>1, <2>2, <2>3 DEF Heartbeat
<1>3. ASSUME NEW n \in Node, Finish(n) PROVE TypeOK'
  <2>1. CASE BuildDone(n)
    BY <2>1 DEF BuildDone, StopHeartbeat
  <2>2. CASE Release(n)
    BY <2>2 DEF Release, DropKey
  <2>3. CASE Register(n)
    BY <2>3 DEF Register
  <2>4. QED
    BY <1>3, <2>1, <2>2, <2>3 DEF Finish
<1>4. ASSUME NEW n \in Node, Wait(n) PROVE TypeOK'
  BY <1>4 DEF Wait, WaitPull, WaitDeadline
<1>5. ASSUME NEW n \in Node, Break(n) PROVE TypeOK'
  <2>1. CASE BuildFailed(n)
    BY <2>1 DEF BuildFailed, StopHeartbeat, MayLeaveArchive
  <2>2. CASE ReleaseError(n)
    BY <2>2 DEF ReleaseError
  <2>3. CASE Crash(n)
    BY <2>3 DEF Crash, StopHeartbeat, MayLeaveArchive
  <2>4. QED
    BY <1>5, <2>1, <2>2, <2>3 DEF Break
<1>6. ASSUME NEW n \in Node, Restart(n) PROVE TypeOK'
  BY <1>6 DEF Restart
<1>7. CASE Tick
  <2>1. /\ ttl' \in 0..TTL /\ lock' \in Node \union {NoNode}
        /\ (ttl' = 0) <=> (lock' = NoNode)
    BY <1>7 DEF Tick
  <2>2. beat' \in [Node -> 0..(Period + Jitter)]
    BY <1>7 DEF Tick
  <2>3. waited' \in [Node -> 0..WaitTimeout]
    BY <1>7 DEF Tick
  <2>4. QED
    BY <1>7, <2>1, <2>2, <2>3 DEF Tick
<1>8. CASE UNCHANGED vars
  BY <1>8 DEF vars
<1>9. QED
  BY <1>1, <1>2, <1>3, <1>4, <1>5, <1>6, <1>7, <1>8 DEF Next

(* Every reachable state has its type: the key has a life exactly while it *)
(* exists, no timer passes its limit (directory.go:130-154,                *)
(* orchestrator.go:161-190).                                               *)
THEOREM TypeCorrect == Spec => []TypeOK
  BY InitType, NextType, PTL DEF Spec

-----------------------------------------------------------------------------
(* The lease.  AtMostOneBuilder is not inductive: nothing in it says that  *)
(* the key still names the builder.  HeartbeatInv says so, and bounds the  *)
(* key's remaining life from below by the time the ticker and the lost     *)
(* renewals have not used; HeartbeatCovers keeps that bound above zero.    *)

LEMMA InitHeartbeat == Init => HeartbeatInv
  BY DEF Init, HeartbeatInv

(* A builder's key has at least one more tick to live, whenever time may   *)
(* pass.                                                                   *)
LEMMA KeyOutlivesTick ==
  ASSUME HeartbeatCovers, TypeOK, HeartbeatInv, Tick, NEW n \in Node, pc[n] = "build"
  PROVE  ttl > 1
  BY DEF HeartbeatCovers, TypeOK, HeartbeatInv, Tick

LEMMA NextHeartbeat ==
  HeartbeatCovers /\ TypeOK /\ HeartbeatInv /\ [Next]_vars => HeartbeatInv'
<1> SUFFICES ASSUME HeartbeatCovers, TypeOK, HeartbeatInv, [Next]_vars,
                    NEW m \in Node
             PROVE  /\ hb'[m] <=> pc'[m] = "build"
                    /\ pc'[m] = "build" => lock' = m /\ ttl' + beat'[m] + gap'[m] >= TTL
  BY DEF HeartbeatInv
<1> USE DEF TypeOK, HeartbeatInv, Goto, lockVars, beatVars
<1>1. ASSUME NEW n \in Node, Acquire(n) PROVE HeartbeatInv'
  <2>1. CASE LocalHit(n) \/ PullFromListed(n) \/ NoPeerHelped(n) \/ TryRefused(n)
    BY <2>1 DEF LocalHit, PullFromListed, NoPeerHelped, TryRefused
  <2>2. CASE TryAcquired(n)
    <3>1. \A k \in Node : pc[k] # "build"
      BY <2>2 DEF TryAcquired, TakeKey
    <3>2. QED
      BY <2>2, <3>1 DEF TryAcquired, TakeKey
  <2>3. QED
    BY <1>1, <2>1, <2>2 DEF Acquire
<1>2. ASSUME NEW n \in Node, Heartbeat(n) PROVE HeartbeatInv'
  <2>1. CASE Renewed(n)
    BY <2>1 DEF Renewed, RenewDue
  <2>2. CASE RenewLost(n)
    BY <2>2 DEF RenewLost, RenewDue
  <2>3. CASE RenewError(n)
    BY <2>3 DEF RenewError, RenewDue
  <2>4. QED
    BY <1>2, <2>1, <2>2, <2>3 DEF Heartbeat
<1>3. ASSUME NEW n \in Node, Finish(n) PROVE HeartbeatInv'
  <2>1. CASE BuildDone(n)
    BY <2>1 DEF BuildDone, StopHeartbeat
  <2>2. CASE Release(n)
    BY <2>2 DEF Release, DropKey
  <2>3. CASE Register(n)
    BY <2>3 DEF Register
  <2>4. QED
    BY <1>3, <2>1, <2>2, <2>3 DEF Finish
<1>4. ASSUME NEW n \in Node, Wait(n) PROVE HeartbeatInv'
  BY <1>4 DEF Wait, WaitPull, WaitDeadline
<1>5. ASSUME NEW n \in Node, Break(n) PROVE HeartbeatInv'
  BY <1>5 DEF Break, BuildFailed, ReleaseError, Crash, StopHeartbeat
<1>6. ASSUME NEW n \in Node, Restart(n) PROVE HeartbeatInv'
  BY <1>6 DEF Restart
<1>7. CASE Tick
  <2>1. UNCHANGED <<pc, hb, gap>> /\ beat'[m] = IF hb[m] THEN beat[m] + 1 ELSE beat[m]
    BY <1>7 DEF Tick
  <2>2. CASE pc[m] = "build"
    <3>1. ttl > 1
      BY <1>7, <2>2, KeyOutlivesTick
    <3>2. lock' = lock /\ ttl' = ttl - 1
      BY <1>7, <3>1 DEF Tick
    <3>3. QED
      BY <2>1, <2>2, <3>2
  <2>3. CASE pc[m] # "build"
    BY <2>1, <2>3
  <2>4. QED
    BY <2>2, <2>3
<1>8. CASE UNCHANGED vars
  BY <1>8 DEF vars
<1>9. QED
  BY <1>1, <1>2, <1>3, <1>4, <1>5, <1>6, <1>7, <1>8 DEF Next

LEMMA HeartbeatExcludes == TypeOK /\ HeartbeatInv => AtMostOneBuilder
  BY DEF HeartbeatInv, AtMostOneBuilder

(* If one period, the jitter and the renewals that may be lost in a row    *)
(* fit into the key's life, a builder keeps the key in its own name for as *)
(* long as its JVM runs.                                                   *)
THEOREM HeartbeatHolds ==
  ASSUME HeartbeatCovers PROVE Spec => []HeartbeatInv
<1>1. TypeOK /\ HeartbeatInv /\ [Next]_vars => HeartbeatInv'
  BY HeartbeatCovers, NextHeartbeat
<1>2. QED
  BY <1>1, InitHeartbeat, TypeCorrect, PTL DEF Spec

(* ... and so no two primers ever build at once, whatever crashes,         *)
(* restarts, takes over and expires in between (orchestrator.go:162-198).  *)
THEOREM OneBuilderAtATime ==
  ASSUME HeartbeatCovers PROVE Spec => []AtMostOneBuilder
  BY HeartbeatHolds, HeartbeatExcludes, TypeCorrect, PTL

-----------------------------------------------------------------------------
(* The holder comparison of the Lua scripts, for any timing at all.        *)

LEMMA StepByHolder ==
  ASSUME TypeOK, Next
  PROVE  /\ lock # NoNode /\ lock' # lock
              => lock' = NoNode /\ (ttl = 1 \/ pc[lock] \in {"release", "abort"})
         /\ lock # NoNode /\ lock' = lock /\ ttl' > ttl
              => pc[lock] = "build" /\ hb[lock]
<1> USE DEF TypeOK, lockVars
<1>1. ASSUME NEW n \in Node, Acquire(n)
      PROVE  lock = NoNode \/ UNCHANGED <<lock, ttl>>
  BY <1>1 DEF Acquire, LocalHit, PullFromListed, NoPeerHelped, TryRefused,
              TryAcquired, TakeKey
<1>2. ASSUME NEW n \in Node, Heartbeat(n)
      PROVE  lock' = lock /\ (UNCHANGED ttl \/ (lock = n /\ pc[n] = "build" /\ hb[n]))
  BY <1>2 DEF Heartbeat, Renewed, RenewLost, RenewError, RenewDue
<1>3. ASSUME NEW n \in Node, Finish(n)
      PROVE  \/ UNCHANGED <<lock, ttl>>
             \/ lock = n /\ lock' = NoNode /\ pc[n] \in {"release", "abort"}
  BY <1>3 DEF Finish, BuildDone, Release, Register, DropKey, Goto
<1>4. ASSUME NEW n \in Node, Wait(n) \/ Break(n) \/ Restart(n)
      PROVE  UNCHANGED <<lock, ttl>>
  BY <1>4 DEF Wait, WaitPull, WaitDeadline, Break, BuildFailed, ReleaseError,
              Crash, Restart
<1>5. ASSUME Tick
      PROVE  /\ lock # NoNode /\ lock' # lock => lock' = NoNode /\ ttl = 1
             /\ ~(ttl' > ttl)
  BY <1>5 DEF Tick
<1>6. QED
  BY <1>1, <1>2, <1>3, <1>4, <1>5 DEF Next

(* No primer deletes or extends a lock that is in another's name: a late   *)
(* release or a late renewal never touches the present holder's key        *)
(* (directory.go:137-168).                                                 *)
THEOREM HolderComparison == Spec => OnlyHolderTouches
<1>1. TypeOK /\ [Next]_vars =>
        [/\ lock # NoNode /\ lock' # lock
              => lock' = NoNode /\ (ttl = 1 \/ pc[lock] \in {"release", "abort"})
         /\ lock # NoNode /\ lock' = lock /\ ttl' > ttl
              => pc[lock] = "build" /\ hb[lock]]_vars
  BY StepByHolder
<1>2. QED
  BY <1>1, TypeCorrect, PTL DEF Spec, OnlyHolderTouches

-----------------------------------------------------------------------------
(* The lease implements the abstract promise.                              *)

Builders == {n \in Node : pc[n] = "build"}

LEMMA StepRefines ==
  ASSUME TypeOK, HeartbeatInv, AtMostOneBuilder', [Next]_vars
  PROVE  [Promise!Next]_Builders
<1> USE DEF TypeOK, Promise!Next, Promise!Begin, Promise!End, Builders, Goto
<1>1. ASSUME NEW n \in Node, TryAcquired(n) PROVE Promise!Begin(n)
  BY <1>1 DEF TryAcquired, TakeKey, HeartbeatInv
<1>2. ASSUME NEW n \in Node, BuildDone(n) \/ BuildFailed(n) PROVE Promise!End(n)
  BY <1>2 DEF BuildDone, BuildFailed
<1>3. ASSUME NEW n \in Node, Crash(n) PROVE Promise!End(n) \/ UNCHANGED Builders
  BY <1>3 DEF Crash
<1>4. ASSUME NEW n \in Node,
             \/ LocalHit(n) \/ PullFromListed(n) \/ NoPeerHelped(n) \/ TryRefused(n)
             \/ Release(n) \/ ReleaseError(n) \/ Register(n)
             \/ WaitPull(n) \/ WaitDeadline(n) \/ Restart(n)
      PROVE  UNCHANGED Builders
  BY <1>4 DEF LocalHit, PullFromListed, NoPeerHelped, TryRefused, Release,
              ReleaseError, Register, WaitPull, WaitDeadline, Restart
<1>5. ASSUME NEW n \in Node, Heartbeat(n) PROVE UNCHANGED Builders
  BY <1>5 DEF Heartbeat, Renewed, RenewLost, RenewError
<1>6. CASE Tick \/ UNCHANGED vars
  BY <1>6 DEF Tick, vars
<1>7. QED
  BY <1>1, <1>2, <1>3, <1>4, <1>5, <1>6
     DEF Next, Acquire, Finish, Wait, Break

(* With the set of running builds as the abstract state, every behavior of *)
(* the lease is a behavior of OneBuilder.                                  *)
THEOREM LeaseImplementsOneBuilder ==
  ASSUME HeartbeatCovers PROVE Spec => ImplementsOneBuilder
<1>1. Init => Promise!Init
  BY DEF Init, Promise!Init
<1>2. TypeOK /\ HeartbeatInv /\ AtMostOneBuilder' /\ [Next]_vars
        => [Promise!Next]_Builders
  BY StepRefines
<1>3. QED
  BY <1>1, <1>2, TypeCorrect, HeartbeatHolds, OneBuilderAtATime, PTL
     DEF Spec, ImplementsOneBuilder, Promise!Spec, Builders

=============================================================================
