--------------------------- MODULE ReconcilerProofs ---------------------------
(***************************************************************************)
(* What TLAPS proves of Reconciler, for any keys and directories and any   *)
(* number of conflicts, crashes and edits.                                 *)
(***************************************************************************)
EXTENDS Reconciler, PodPatchProofs

USE ReconcilerAssumption, PodPatchAssumption DEF ReconcilerAssumption, PodPatchAssumption

(* The ClassCache and its two copies: types, and who is behind whom. *)
CopiesInv ==
  /\ cc \in ClassCache /\ ccSeen \in ClassCache /\ mine \in ClassCache
  /\ CopiesAreOld

(* Every write to the object that changes it takes a new number. *)
Newer(old, new) == new = old \/ (new \in ClassCache /\ new.rv = old.rv + 1)

LEMMA Numbered == \A c \in ClassCache : c.rv \in Nat /\ c.key \in Keys
  BY DEF ClassCache

LEMMA BehindNewer ==
  ASSUME NEW o \in ClassCache, NEW c \in ClassCache, NEW d,
         Behind(o, c), Newer(c, d)
  PROVE  d \in ClassCache /\ Behind(o, d)
  BY Numbered DEF Behind, Newer

LEMMA Bumped ==
  ASSUME NEW c \in ClassCache
  PROVE  /\ \A k \in Keys : Newer(c, [c EXCEPT !.key = k, !.rv = @ + 1])
         /\ \A d \in Dirs : Newer(c, [c EXCEPT !.dir = d, !.rv = @ + 1])
         /\ \A m \in Modes : Newer(c, [c EXCEPT !.mode = m, !.rv = @ + 1])
         /\ \A e \in BOOLEAN : Newer(c, [c EXCEPT !.exists = e, !.rv = @ + 1])
         /\ \A p \in Phases, k \in Keys :
              Newer(c, [c EXCEPT !.phase = p, !.key = k, !.rv = @ + 1])
<1> DEFINE r == c.rv + 1
<1>1. r \in Nat
  BY Numbered
<1>2. r = c.rv + 1
  OBVIOUS
<1> HIDE DEF r
<1>3. ASSUME NEW k \in Keys PROVE Newer(c, [c EXCEPT !.key = k, !.rv = r])
  <2>1. [c EXCEPT !.key = k, !.rv = r] \in ClassCache
    BY <1>1, <1>3 DEF ClassCache
  <2>2. [c EXCEPT !.key = k, !.rv = r].rv = r
    BY DEF ClassCache
  <2>3. QED
    BY <1>2, <2>1, <2>2 DEF Newer
<1>4. ASSUME NEW d \in Dirs PROVE Newer(c, [c EXCEPT !.dir = d, !.rv = r])
  <2>1. [c EXCEPT !.dir = d, !.rv = r] \in ClassCache
    BY <1>1, <1>4 DEF ClassCache
  <2>2. [c EXCEPT !.dir = d, !.rv = r].rv = r
    BY DEF ClassCache
  <2>3. QED
    BY <1>2, <2>1, <2>2 DEF Newer
<1>5. ASSUME NEW m \in Modes PROVE Newer(c, [c EXCEPT !.mode = m, !.rv = r])
  <2>1. [c EXCEPT !.mode = m, !.rv = r] \in ClassCache
    BY <1>1, <1>5 DEF ClassCache
  <2>2. [c EXCEPT !.mode = m, !.rv = r].rv = r
    BY DEF ClassCache
  <2>3. QED
    BY <1>2, <2>1, <2>2 DEF Newer
<1>6. ASSUME NEW e \in BOOLEAN PROVE Newer(c, [c EXCEPT !.exists = e, !.rv = r])
  <2>1. [c EXCEPT !.exists = e, !.rv = r] \in ClassCache
    BY <1>1, <1>6 DEF ClassCache
  <2>2. [c EXCEPT !.exists = e, !.rv = r].rv = r
    BY DEF ClassCache
  <2>3. QED
    BY <1>2, <2>1, <2>2 DEF Newer
<1>7. ASSUME NEW p \in Phases, NEW k \in Keys PROVE Newer(c, [c EXCEPT !.phase = p, !.key = k, !.rv = r])
  <2>1. [c EXCEPT !.phase = p, !.key = k, !.rv = r] \in ClassCache
    BY <1>1, <1>7 DEF ClassCache
  <2>2. [c EXCEPT !.phase = p, !.key = k, !.rv = r].rv = r
    BY DEF ClassCache
  <2>3. QED
    BY <1>2, <2>1, <2>2 DEF Newer
<1>8. QED
  BY <1>3, <1>4, <1>5, <1>6, <1>7 DEF r

LEMMA NothingIsACopy == Nothing \in ClassCache
  BY DEF Nothing, ClassCache, Dirs, Keys, Phases, Modes

(* The status write keeps the key if the copy is current. *)
LEMMA WriteKeepsKey ==
  ASSUME CopiesInv, step # "idle", Current,
         NEW p \in Phases, Write(p)
  PROVE  Newer(cc, cc') /\ cc'.key = cc.key
<1>1. mine = cc
  BY Numbered DEF CopiesInv, CopiesAreOld, Behind, Current
<1>2. cc.key \in Keys
  BY Numbered DEF CopiesInv
<1>3. CASE cc' = cc
  BY <1>3 DEF Newer
<1>4. CASE cc' = [cc EXCEPT !.phase = p, !.key = mine.key, !.rv = @ + 1]
  BY <1>1, <1>2, <1>4, Bumped DEF CopiesInv, ClassCache
<1>5. QED
  BY <1>3, <1>4 DEF Write

(* The operator's own steps: which of them write the ClassCache, and how. *)
LEMMA OperatorStep ==
  ASSUME CopiesInv, Reconcile \/ OperatorCrash
  PROVE  /\ Newer(cc, cc') /\ cc'.key = cc.key
         /\ ccSeen' = ccSeen \/ (ccSeen' = cc /\ cc' = cc)
         /\ \/ mine' = mine /\ step # "idle"
            \/ mine' = ccSeen /\ cc' = cc
            \/ mine' = Nothing /\ step' = "idle"
<1> USE DEF api, seen, Return, Goto
<1>1. CASE Begin
  BY <1>1 DEF Begin, Newer
<1>2. CASE EnsureValkey \/ EnsureRBAC \/ EnsureProfile \/ EnsurePrimer \/ EnsureFails
  BY <1>2 DEF EnsureValkey, EnsureRBAC, EnsureProfile, Ensured, Upsert, EnsurePrimer,
     UpsertPrimer, EnsureFails, Objects, Newer
<1>3. CASE SkipWorkload \/ PatchWorkload \/ WorkloadFails
  BY <1>3 DEF SkipWorkload, PatchWorkload, WorkloadFails, Newer
<1>4. CASE UpdateStatus
  <2>1. ObservedPhase \in {"Pending", "PrimerReady", "WorkloadPatched", "Ready"}
    BY DEF ObservedPhase
  <2>2. QED
    BY <1>4, <2>1, WriteKeepsKey DEF UpdateStatus, Phases
<1>5. CASE UpdateFails \/ OperatorCrash
  BY <1>5 DEF UpdateFails, OperatorCrash, Newer
<1>6. CASE SetFailed
  <2>1. CASE UNCHANGED cc
    BY <1>6, <2>1 DEF SetFailed, Newer
  <2>2. CASE Current /\ Write("Failed")
    BY <1>6, <2>2, WriteKeepsKey DEF SetFailed, Phases
  <2>3. QED
    BY <1>6, <2>1, <2>2 DEF SetFailed, TryWriteFailed
<1>7. QED
  BY <1>1, <1>2, <1>3, <1>4, <1>5, <1>6 DEF Reconcile

LEMMA NextCopies == CopiesInv /\ [Next]_vars => CopiesInv'
<1> SUFFICES ASSUME CopiesInv, [Next]_vars PROVE CopiesInv'
  OBVIOUS
<1>0. /\ cc \in ClassCache /\ ccSeen \in ClassCache /\ mine \in ClassCache
      /\ Behind(ccSeen, cc) /\ (step # "idle" => Behind(mine, cc))
  BY DEF CopiesInv, CopiesAreOld
<1>1. CASE Reconcile \/ OperatorCrash
  <2>1. cc' \in ClassCache /\ Behind(ccSeen, cc') /\ (step # "idle" => Behind(mine, cc'))
    BY <1>0, <1>1, OperatorStep, BehindNewer
  <2>2. ccSeen' \in ClassCache /\ Behind(ccSeen', cc')
    BY <1>0, <1>1, <2>1, OperatorStep DEF Behind
  <2>3. mine' \in ClassCache /\ (step' # "idle" => Behind(mine', cc'))
    BY <1>0, <1>1, <2>1, OperatorStep, NothingIsACopy
  <2>4. QED
    BY <2>1, <2>2, <2>3 DEF CopiesInv, CopiesAreOld, Behind
<1>2. CASE Surroundings
  <2>1. Newer(cc, cc') /\ UNCHANGED <<ccSeen, mine, step>>
    <3> USE DEF seen
    <3>1. ASSUME NEW k \in Key, PublishArchiveKey(k)
          PROVE  Newer(cc, cc') /\ UNCHANGED <<ccSeen, mine, step>>
      <4>1. k \in Keys
        BY DEF Keys
      <4>2. QED
        BY <1>0, <3>1, <4>1, Bumped DEF PublishArchiveKey
    <3>2. CASE PrimersChange \/ PodsChange \/ WorkloadApplied
      BY <3>2 DEF PrimersChange, PodsChange, WorkloadApplied, Newer
    <3>3. CASE EditArchiveDir
      <4>1. PICK d \in Dir : cc' = [cc EXCEPT !.dir = d, !.rv = @ + 1]
        BY <3>3 DEF EditArchiveDir
      <4>2. Newer(cc, cc')
        BY <1>0, <4>1, Bumped DEF Dirs
      <4>3. QED
        BY <3>3, <4>2 DEF EditArchiveDir
    <3>4. CASE EditPatchMode
      BY <1>0, <3>4, Bumped DEF EditPatchMode
    <3>5. CASE DeleteClassCache
      BY <1>0, <3>5, Bumped DEF DeleteClassCache
    <3>6. QED
      BY <1>2, <3>1, <3>2, <3>3, <3>4, <3>5 DEF Surroundings
  <2>2. QED
    BY <1>0, <2>1, BehindNewer DEF CopiesInv, CopiesAreOld
<1>3. CASE SeeClassCache \/ SeeDaemonSet \/ SeeDeployment \/ UNCHANGED vars
  <2>1. UNCHANGED <<cc, mine, step>> /\ ccSeen' \in {ccSeen, cc}
    BY <1>3 DEF SeeClassCache, SeeDaemonSet, SeeDeployment, vars, api, seen
  <2>2. QED
    BY <1>0, <2>1 DEF CopiesInv, CopiesAreOld, Behind
<1>4. QED
  BY <1>1, <1>2, <1>3 DEF Next

LEMMA InitCopies == Init => CopiesInv
<1> SUFFICES ASSUME Init PROVE CopiesInv
  OBVIOUS
<1>1. cc \in ClassCache
  BY DEF Init, ClassCache, Dirs, Keys, Phases, Modes
<1>2. ccSeen = cc /\ mine \in ClassCache /\ step = "idle"
  BY NothingIsACopy DEF Init
<1>3. QED
  BY <1>1, <1>2 DEF CopiesInv, CopiesAreOld, Behind

(* The operator writes the status back whole, from a copy of any age, and  *)
(* yet never changes the archive key the primers have published: a copy    *)
(* that passes the resource version check has that very key                *)
(* (classcache_controller.go:83-92, 120-126).                              *)
THEOREM OperatorKeepsTheKey == Spec => KeyIsThePrimers
<1>1. ASSUME CopiesInv, [Next]_vars, step' # step PROVE cc'.key = cc.key
  <2>1. CASE Reconcile \/ OperatorCrash
    BY <1>1, <2>1, OperatorStep
  <2>2. CASE Surroundings
    BY <1>1, <2>2 DEF Surroundings, PublishArchiveKey, PrimersChange, PodsChange,
       WorkloadApplied, EditArchiveDir, EditPatchMode, DeleteClassCache
  <2>3. CASE SeeClassCache \/ SeeDaemonSet \/ SeeDeployment \/ UNCHANGED vars
    BY <1>1, <2>3 DEF SeeClassCache, SeeDaemonSet, SeeDeployment, vars
  <2>4. QED
    BY <1>1, <2>1, <2>2, <2>3 DEF Next
<1>2. CopiesInv /\ [Next]_vars => [step' # step => cc'.key = cc.key]_vars
  BY <1>1
<1>3. QED
  BY <1>2, InitCopies, NextCopies, PTL DEF Spec, KeyIsThePrimers

-----------------------------------------------------------------------------
(* Types.                                                                  *)

(* An object is ensured only after those it needs; a deletion in between   *)
(* takes them all along, and then nothing is ensured any more.             *)
OrderInv ==
  cc.exists =>
    /\ step = "rbac" => "valkey" \in made
    /\ step = "profile" => {"valkey", "rbac"} \subseteq made
    /\ step = "primer" => made = Objects

TypeInv == TypeOK /\ CopiesInv /\ OrderInv

LEMMA InitTypes == Init => TypeInv
<1> SUFFICES ASSUME Init PROVE TypeInv
  OBVIOUS
<1>1. CopiesInv
  BY InitCopies
<1>2. dep \in Deployment /\ depSeen \in Deployment
  <2>1. PICK e \in BOOLEAN : dep = [exists |-> e, tmpl |-> Plain, ready |-> FALSE, rv |-> 1]
    BY Zenon DEF Init
  <2>2. dep \in Deployment
    BY <2>1, PlainIsATemplate DEF Deployment
  <2>3. QED
    BY <2>2 DEF Init
<1>3. cc \in ClassCache /\ ccSeen \in ClassCache /\ mine \in ClassCache
  BY <1>1 DEF CopiesInv
<1>4. acts \in 0..MaxActs /\ faults \in 0..MaxFaults
  <2>1. acts = 0 /\ faults = 0
    BY DEF Init
  <2>2. QED
    BY <2>1
<1>5. OrderInv
  BY DEF Init, OrderInv
<1>6. QED
  BY <1>1, <1>2, <1>3, <1>4, <1>5 DEF Init, TypeInv, TypeOK, DaemonSet, Steps

(* What was deleted stays deleted. *)
LEMMA StaysDeleted ==
  ASSUME CopiesInv, [Next]_vars, cc'.exists
  PROVE  cc.exists
<1>1. ASSUME NEW p \in Phases, Write(p) PROVE cc.exists
  BY <1>1 DEF Write, CopiesInv, ClassCache
<1>2. CASE UpdateStatus \/ SetFailed
  BY <1>1, <1>2 DEF UpdateStatus, SetFailed, TryWriteFailed, Current
<1>3. CASE Surroundings
  BY <1>3 DEF Surroundings, PublishArchiveKey, PrimersChange, PodsChange, WorkloadApplied,
     EditArchiveDir, EditPatchMode, DeleteClassCache
<1>4. CASE Begin \/ SkipWorkload \/ PatchWorkload \/ WorkloadFails \/ UpdateFails
  BY <1>4 DEF Begin, SkipWorkload, PatchWorkload, WorkloadFails, UpdateFails, api
<1>5. CASE EnsureValkey \/ EnsureRBAC \/ EnsureProfile \/ EnsurePrimer \/ EnsureFails
  BY <1>5 DEF EnsureValkey, EnsureRBAC, EnsureProfile, Ensured, Upsert, EnsurePrimer,
     UpsertPrimer, EnsureFails, api
<1>6. CASE OperatorCrash \/ SeeClassCache \/ SeeDaemonSet \/ SeeDeployment \/ UNCHANGED vars
  BY <1>6 DEF OperatorCrash, SeeClassCache, SeeDaemonSet, SeeDeployment, vars, api
<1>7. QED
  BY <1>2, <1>3, <1>4, <1>5, <1>6 DEF Next, Reconcile

(* What the surroundings leave alone. *)
LEMMA SurroundingsFrame ==
  ASSUME CopiesInv, Surroundings
  PROVE  /\ UNCHANGED <<ccSeen, depSeen, dsSeen, queued, step, mine, faults>>
         /\ acts < MaxActs /\ acts' = acts + 1
         /\ \/ made' = made /\ (ds' = ds \/ (ds # "absent" /\ ds' \in {"ready", "pending"}))
            \/ ~cc'.exists /\ ds' = "absent" /\ made' = {}
<1> USE DEF seen, history, Acting
<1>1. CASE \E k \in Key : PublishArchiveKey(k)
  BY <1>1 DEF PublishArchiveKey
<1>2. CASE PrimersChange
  BY <1>2 DEF PrimersChange
<1>3. CASE PodsChange
  BY <1>3 DEF PodsChange
<1>4. CASE WorkloadApplied
  BY <1>4 DEF WorkloadApplied
<1>5. CASE EditArchiveDir
  BY <1>5 DEF EditArchiveDir
<1>6. CASE EditPatchMode
  BY <1>6 DEF EditPatchMode
<1>7. CASE DeleteClassCache
  <2>1. ~cc'.exists
    BY <1>7 DEF DeleteClassCache, CopiesInv, ClassCache
  <2>2. QED
    BY <1>7, <2>1 DEF DeleteClassCache
<1>8. QED
  BY <1>1, <1>2, <1>3, <1>4, <1>5, <1>6, <1>7 DEF Surroundings

LEMMA NextObjects ==
  ASSUME TypeInv, [Next]_vars
  PROVE  /\ OrderInv' /\ ds' \in DaemonSet /\ dsSeen' \in DaemonSet
         /\ made' \subseteq Objects /\ (ds' # "absent" => made' = Objects)
<1>0. /\ ds \in DaemonSet /\ dsSeen \in DaemonSet /\ made \subseteq Objects
      /\ (ds # "absent" => made = Objects) /\ OrderInv
      /\ (cc'.exists => cc.exists)
  BY StaysDeleted DEF TypeInv, TypeOK
<1> USE DEF OrderInv, DaemonSet, Objects
<1>1. CASE EnsureValkey \/ EnsureRBAC \/ EnsureProfile
  BY <1>0, <1>1 DEF EnsureValkey, EnsureRBAC, EnsureProfile, Ensured, Upsert, Following, Goto, seen
<1>2. CASE EnsurePrimer
  BY <1>0, <1>2 DEF EnsurePrimer, UpsertPrimer, Following, Goto, seen
<1>3. CASE EnsureFails
  BY <1>0, <1>3 DEF EnsureFails, Upsert, UpsertPrimer, Goto, seen, api
<1>4. CASE Begin \/ SkipWorkload \/ PatchWorkload \/ WorkloadFails
  BY <1>0, <1>4 DEF Begin, SkipWorkload, PatchWorkload, WorkloadFails, Goto, Return, seen, api
<1>5. CASE UpdateStatus \/ UpdateFails \/ SetFailed \/ OperatorCrash
  BY <1>0, <1>5 DEF UpdateStatus, UpdateFails, SetFailed, OperatorCrash, Return, seen, api
<1>6. CASE Surroundings
  BY <1>0, <1>6, SurroundingsFrame DEF TypeInv
<1>7. CASE SeeClassCache \/ SeeDaemonSet \/ SeeDeployment \/ UNCHANGED vars
  BY <1>0, <1>7 DEF SeeClassCache, SeeDaemonSet, SeeDeployment, vars, api, seen
<1>8. QED
  BY <1>1, <1>2, <1>3, <1>4, <1>5, <1>6, <1>7 DEF Next, Reconcile

LEMMA AskedIsAPatch == CopiesInv => Asked \in Patches /\ Patch(cc.dir, cc.key) \in Patches
  BY DEF CopiesInv, ClassCache, Asked, Patch, Patches

(* Who writes the workload, and how. *)
LEMMA WorkloadStep ==
  ASSUME TypeInv, [Next]_vars
  PROVE  \/ dep' = dep
         \/ PatchWorkload
         \/ PodsChange
         \/ WorkloadApplied
<1>1. CASE Reconcile \/ OperatorCrash
  BY <1>1 DEF Reconcile, OperatorCrash, Begin, EnsureValkey, EnsureRBAC, EnsureProfile, Ensured,
     Upsert, EnsurePrimer, UpsertPrimer, EnsureFails, SkipWorkload, WorkloadFails, UpdateStatus,
     UpdateFails, SetFailed, api
<1>2. CASE Surroundings
  BY <1>2 DEF Surroundings, PublishArchiveKey, PrimersChange, EditArchiveDir, EditPatchMode,
     DeleteClassCache
<1>3. CASE SeeClassCache \/ SeeDaemonSet \/ SeeDeployment \/ UNCHANGED vars
  BY <1>3 DEF SeeClassCache, SeeDaemonSet, SeeDeployment, vars, api
<1>4. QED
  BY <1>1, <1>2, <1>3 DEF Next

LEMMA NextDeployment ==
  ASSUME TypeInv, [Next]_vars
  PROVE  dep' \in Deployment
<1>0. dep \in Deployment /\ depSeen \in Deployment /\ CopiesInv
  BY DEF TypeInv, TypeOK
<1>1. dep.tmpl \in Templates /\ depSeen.tmpl \in Templates /\ dep.rv + 1 \in Nat
  BY <1>0 DEF Deployment
<1>2. CASE PatchWorkload
  <2>1. ApplyPodPatch(depSeen.tmpl, Asked) \in Templates
    BY <1>0, <1>1, AskedIsAPatch, PatchedIsATemplate
  <2>2. QED
    BY <1>0, <1>1, <1>2, <2>1 DEF PatchWorkload, Deployment
<1>3. CASE PodsChange
  BY <1>0, <1>1, <1>3 DEF PodsChange, Deployment
<1>4. CASE WorkloadApplied
  BY <1>0, <1>1, <1>4, PlainIsATemplate DEF WorkloadApplied, Deployment
<1>5. QED
  BY <1>0, <1>2, <1>3, <1>4, WorkloadStep

LEMMA NextCounters ==
  ASSUME TypeInv, [Next]_vars
  PROVE  acts' \in 0..MaxActs /\ faults' \in 0..MaxFaults
<1>0. acts \in 0..MaxActs /\ faults \in 0..MaxFaults
  BY DEF TypeInv, TypeOK
<1>1. CASE Reconcile \/ OperatorCrash
  BY <1>0, <1>1 DEF Reconcile, OperatorCrash, Begin, EnsureValkey, EnsureRBAC, EnsureProfile, Ensured,
     EnsurePrimer, EnsureFails, SkipWorkload, PatchWorkload, WorkloadFails, UpdateStatus,
     UpdateFails, SetFailed, TryWriteFailed, Fault
<1>2. CASE Surroundings
  BY <1>0, <1>2, SurroundingsFrame DEF TypeInv
<1>3. CASE SeeClassCache \/ SeeDaemonSet \/ SeeDeployment \/ UNCHANGED vars
  BY <1>0, <1>3 DEF SeeClassCache, SeeDaemonSet, SeeDeployment, vars
<1>4. QED
  BY <1>1, <1>2, <1>3 DEF Next

LEMMA NextHistory ==
  ASSUME TypeInv, [Next]_vars
  PROVE  past' \subseteq Patches /\ touched' \in BOOLEAN
<1>0. past \subseteq Patches /\ touched \in BOOLEAN /\ CopiesInv
  BY DEF TypeInv, TypeOK
<1>1. CASE Reconcile \/ OperatorCrash
  BY <1>0, <1>1 DEF Reconcile, OperatorCrash, Begin, EnsureValkey, EnsureRBAC, EnsureProfile, Ensured,
     EnsurePrimer, EnsureFails, SkipWorkload, PatchWorkload, WorkloadFails, UpdateStatus,
     UpdateFails, SetFailed, history
<1>2. CASE Surroundings
  BY <1>0, <1>2, AskedIsAPatch DEF Surroundings, PublishArchiveKey, PrimersChange, PodsChange,
     WorkloadApplied, EditArchiveDir, EditPatchMode, DeleteClassCache, Supersede, history
<1>3. CASE SeeClassCache \/ SeeDaemonSet \/ SeeDeployment \/ UNCHANGED vars
  BY <1>0, <1>3 DEF SeeClassCache, SeeDaemonSet, SeeDeployment, vars, history
<1>4. QED
  BY <1>1, <1>2, <1>3 DEF Next

LEMMA NextControl ==
  ASSUME TypeInv, [Next]_vars
  PROVE  queued' \in BOOLEAN /\ step' \in Steps /\ depSeen' \in Deployment
<1>0. queued \in BOOLEAN /\ step \in Steps /\ depSeen \in Deployment /\ dep \in Deployment
  BY DEF TypeInv, TypeOK
<1> USE DEF Steps, Objects, Goto, Return
<1>1. CASE EnsureValkey \/ EnsureRBAC \/ EnsureProfile \/ EnsurePrimer \/ EnsureFails
  BY <1>0, <1>1 DEF EnsureValkey, EnsureRBAC, EnsureProfile, Ensured, EnsurePrimer, EnsureFails,
     Following, seen
<1>2. CASE Begin \/ SkipWorkload \/ PatchWorkload \/ WorkloadFails
  BY <1>0, <1>2 DEF Begin, SkipWorkload, PatchWorkload, WorkloadFails, seen
<1>3. CASE UpdateStatus \/ UpdateFails \/ SetFailed \/ OperatorCrash
  BY <1>0, <1>3 DEF UpdateStatus, UpdateFails, SetFailed, OperatorCrash, seen
<1>4. CASE Surroundings
  BY <1>0, <1>4, SurroundingsFrame DEF TypeInv
<1>5. CASE SeeClassCache \/ SeeDaemonSet \/ SeeDeployment \/ UNCHANGED vars
  BY <1>0, <1>5 DEF SeeClassCache, SeeDaemonSet, SeeDeployment, vars, seen
<1>6. QED
  BY <1>1, <1>2, <1>3, <1>4, <1>5 DEF Next, Reconcile

LEMMA NextTypes == TypeInv /\ [Next]_vars => TypeInv'
<1> SUFFICES ASSUME TypeInv, [Next]_vars PROVE TypeInv'
  OBVIOUS
<1>1. CopiesInv'
  BY NextCopies DEF TypeInv
<1>2. QED
  BY <1>1, NextObjects, NextDeployment, NextCounters, NextHistory, NextControl
  DEF TypeInv, TypeOK, CopiesInv

(* Types, and the order of the sub-reconcilers: whatever fails half-way,   *)
(* and whatever is deleted meanwhile, primer pods never run without the    *)
(* objects they need (classcache_controller.go:64-88).                     *)
THEOREM PrimersHaveTheirObjects == Spec => []TypeOK
<1>1. TypeInv => TypeOK
  BY DEF TypeInv
<1>2. QED
  BY <1>1, InitTypes, NextTypes, PTL DEF Spec

-----------------------------------------------------------------------------
(* How a step changes the objects and the copies of them.                  *)

(* The patch a version of the ClassCache asks for. *)
Wanted(c) == Patch(c.dir, c.key)

LEMMA OperatorKeepsTheSpec ==
  ASSUME CopiesInv, Reconcile \/ OperatorCrash
  PROVE  /\ Wanted(cc') = Wanted(cc) /\ UNCHANGED <<past, touched>>
         /\ cc' = cc \/ (cc'.rv = cc.rv + 1 /\ UNCHANGED <<ccSeen, dep>>)
<1>1. ASSUME Current, step # "idle", NEW p \in Phases, Write(p)
      PROVE  Wanted(cc') = Wanted(cc) /\ (cc' = cc \/ cc'.rv = cc.rv + 1)
  <2>1. mine.key = cc.key
    BY <1>1, Numbered DEF CopiesInv, CopiesAreOld, Behind, Current
  <2>2. QED
    BY <1>1, <2>1 DEF Write, Wanted, CopiesInv, ClassCache
<1>2. CASE UpdateStatus
  <2>1. ObservedPhase \in Phases
    BY DEF ObservedPhase, Phases
  <2>2. QED
    BY <1>1, <1>2, <2>1 DEF UpdateStatus, seen, history
<1>3. CASE SetFailed
  BY <1>1, <1>3 DEF SetFailed, TryWriteFailed, Phases, seen, history
<1>4. CASE Begin \/ SkipWorkload \/ PatchWorkload \/ WorkloadFails \/ UpdateFails \/ OperatorCrash
  BY <1>4 DEF Begin, SkipWorkload, PatchWorkload, WorkloadFails, UpdateFails, OperatorCrash, api, history
<1>5. CASE EnsureValkey \/ EnsureRBAC \/ EnsureProfile \/ EnsurePrimer \/ EnsureFails
  BY <1>5 DEF EnsureValkey, EnsureRBAC, EnsureProfile, Ensured, Upsert, EnsurePrimer,
     UpsertPrimer, EnsureFails, api, history
<1>6. QED
  BY <1>2, <1>3, <1>4, <1>5 DEF Reconcile

LEMMA SurroundingsStep ==
  ASSUME CopiesInv, Surroundings
  PROVE  \/ UNCHANGED <<cc, past>>
         \/ /\ cc'.rv = cc.rv + 1 /\ UNCHANGED <<dep, touched>>
            /\ \/ Wanted(cc') = Wanted(cc) /\ past' = past
               \/ past' = past \union {Wanted(cc)}
<1>0. cc \in ClassCache
  BY DEF CopiesInv
<1> USE DEF history, Supersede, Wanted
<1>1. CASE \E k \in Key : PublishArchiveKey(k)
  BY <1>0, <1>1 DEF PublishArchiveKey, ClassCache
<1>2. CASE PrimersChange \/ PodsChange \/ WorkloadApplied
  BY <1>2 DEF PrimersChange, PodsChange, WorkloadApplied
<1>3. CASE EditArchiveDir
  BY <1>0, <1>3 DEF EditArchiveDir, ClassCache
<1>4. CASE EditPatchMode
  BY <1>0, <1>4 DEF EditPatchMode, ClassCache
<1>5. CASE DeleteClassCache
  BY <1>0, <1>5 DEF DeleteClassCache, ClassCache
<1>6. QED
  BY <1>1, <1>2, <1>3, <1>4, <1>5 DEF Surroundings

(* Another patch is wanted only by a step of the surroundings, and then    *)
(* the one wanted so far is a past one.                                    *)
Superseded ==
  /\ past' = past \union {Wanted(cc)}
  /\ cc'.rv = cc.rv + 1
  /\ UNCHANGED <<dep, ccSeen, depSeen, mine, step, touched>>

LEMMA WantedStep ==
  ASSUME CopiesInv, [Next]_vars
  PROVE  \/ Superseded
         \/ /\ Wanted(cc') = Wanted(cc) /\ past' = past
            /\ cc' = cc \/ (cc'.rv = cc.rv + 1 /\ UNCHANGED <<ccSeen, dep>>)
<1>1. CASE Reconcile \/ OperatorCrash
  BY <1>1, OperatorKeepsTheSpec
<1>2. CASE Surroundings
  BY <1>2, SurroundingsStep, SurroundingsFrame DEF Superseded
<1>3. CASE SeeClassCache \/ SeeDaemonSet \/ SeeDeployment \/ UNCHANGED vars
  BY <1>3 DEF SeeClassCache, SeeDaemonSet, SeeDeployment, vars, api, history
<1>4. QED
  BY <1>1, <1>2, <1>3 DEF Next

LEMMA CopiesStep ==
  ASSUME CopiesInv, [Next]_vars
  PROVE  /\ ccSeen' = ccSeen \/ (ccSeen' = cc /\ UNCHANGED <<cc, dep>>)
         /\ depSeen' = depSeen \/ (depSeen' = dep /\ UNCHANGED <<cc, dep>>)
         /\ \/ step' = "idle"
            \/ mine' = mine /\ step # "idle"
            \/ mine' = ccSeen /\ UNCHANGED <<cc, dep, ccSeen>>
<1> USE DEF api, seen, Return, Goto
<1>1. CASE Begin \/ OperatorCrash
  BY <1>1 DEF Begin, OperatorCrash
<1>2. CASE EnsureValkey \/ EnsureRBAC \/ EnsureProfile \/ EnsurePrimer \/ EnsureFails
  BY <1>2 DEF EnsureValkey, EnsureRBAC, EnsureProfile, Ensured, EnsurePrimer, EnsureFails, Objects
<1>3. CASE SkipWorkload \/ PatchWorkload \/ WorkloadFails
  BY <1>3 DEF SkipWorkload, PatchWorkload, WorkloadFails
<1>4. CASE UpdateStatus \/ UpdateFails \/ SetFailed
  BY <1>4 DEF UpdateStatus, UpdateFails, SetFailed
<1>5. CASE Surroundings
  BY <1>5, SurroundingsFrame
<1>6. CASE SeeClassCache \/ SeeDaemonSet \/ SeeDeployment \/ UNCHANGED vars
  BY <1>6 DEF SeeClassCache, SeeDaemonSet, SeeDeployment, vars
<1>7. QED
  BY <1>1, <1>2, <1>3, <1>4, <1>5, <1>6 DEF Next, Reconcile

(* The options name the archive the init container waits for. *)
Uniform(t) == \A c \in Container : t.env[c] = t.init

Patched ==
  /\ step = "workload" /\ UNCHANGED <<touched, ccSeen, mine>>
  /\ dep'.exists = dep.exists /\ dep'.tmpl.init = Wanted(mine) /\ Uniform(dep'.tmpl)

LEMMA WorkloadChange ==
  ASSUME TypeInv, [Next]_vars
  PROVE  \/ dep'.exists = dep.exists /\ dep'.tmpl = dep.tmpl /\ touched' = touched
         \/ touched' /\ dep'.tmpl = Plain
         \/ Patched
<1>0. dep \in Deployment /\ depSeen.tmpl \in Templates /\ CopiesInv
  BY DEF TypeInv, TypeOK, Deployment
<1>1. CASE PatchWorkload
  <2>1. Asked \in Patches /\ Asked = Wanted(mine)
    BY <1>0, AskedIsAPatch DEF Asked, Wanted
  <2> DEFINE u == ApplyPodPatch(depSeen.tmpl, Asked)
  <2>2. u.init = Wanted(mine) /\ Uniform(u)
    BY <1>0, <2>1, Parts DEF Uniform
  <2> HIDE DEF u
  <2>3. dep' = [dep EXCEPT !.tmpl = u, !.rv = @ + 1]
    BY <1>1 DEF PatchWorkload, u
  <2>4. dep'.exists = dep.exists /\ dep'.tmpl = u
    BY <1>0, <2>3 DEF Deployment
  <2>5. QED
    BY <1>1, <2>2, <2>4 DEF Patched, PatchWorkload, seen, history
<1>2. CASE PodsChange
  BY <1>0, <1>2 DEF PodsChange, Deployment, history
<1>3. CASE WorkloadApplied
  BY <1>0, <1>3 DEF WorkloadApplied, Deployment
<1>4. CASE dep' = dep /\ ~WorkloadApplied
  <2>1. touched' = touched
    <3>1. CASE Reconcile \/ OperatorCrash
      BY <1>0, <3>1, OperatorKeepsTheSpec
    <3>2. CASE Surroundings
      BY <1>4, <3>2 DEF Surroundings, PublishArchiveKey, PrimersChange, PodsChange,
         EditArchiveDir, EditPatchMode, DeleteClassCache, history
    <3>3. CASE SeeClassCache \/ SeeDaemonSet \/ SeeDeployment \/ UNCHANGED vars
      BY <3>3 DEF SeeClassCache, SeeDaemonSet, SeeDeployment, vars, history
    <3>4. QED
      BY <3>1, <3>2, <3>3 DEF Next
  <2>2. QED
    BY <1>4, <2>1
<1>5. QED
  BY <1>1, <1>2, <1>3, <1>4, WorkloadStep

-----------------------------------------------------------------------------
(* Failed is never final.                                                  *)

(* A phase to be overwritten is being worked on, or will be, or there is   *)
(* an event under way that makes it so.                                    *)
NotFailedInv ==
  /\ cc.exists => ccSeen.exists
  /\ cc.exists /\ cc.phase \in {"", "Failed"} => queued \/ step # "idle" \/ ccSeen # cc

LEMMA OutOfDate ==
  ASSUME NEW o \in ClassCache, NEW c \in ClassCache, NEW d,
         Behind(o, c), d.rv = c.rv + 1
  PROVE  o # d
<1>1. o.rv \in Nat /\ c.rv \in Nat
  BY Numbered
<1>2. o.rv < c.rv \/ o.rv = c.rv
  BY DEF Behind
<1>3. o.rv # c.rv + 1
  BY <1>1, <1>2
<1>4. QED
  BY <1>3

LEMMA NextNotFailed ==
  ASSUME TypeInv, NotFailedInv, [Next]_vars
  PROVE  NotFailedInv'
<1>0. CopiesInv /\ (cc'.exists => cc.exists)
  BY StaysDeleted DEF TypeInv
<1>1. cc'.exists => ccSeen'.exists
  BY <1>0, CopiesStep DEF NotFailedInv
<1> SUFFICES ASSUME cc'.exists, cc'.phase \in {"", "Failed"}
             PROVE  queued' \/ step' # "idle" \/ ccSeen' # cc'
  BY <1>1 DEF NotFailedInv
<1>2. CASE cc' # cc
  <2>1. cc \in ClassCache /\ ccSeen \in ClassCache /\ Behind(ccSeen, cc)
    BY <1>0 DEF CopiesInv, CopiesAreOld
  <2>2. cc'.rv = cc.rv + 1 /\ ccSeen' = ccSeen
    BY <1>0, <1>2, WantedStep DEF Superseded
  <2>3. QED
    BY <2>1, <2>2, OutOfDate
<1>3. CASE cc' = cc
  <2>0. queued \/ step # "idle" \/ ccSeen # cc
    BY <1>3 DEF NotFailedInv
  <2> USE DEF Goto, Return
  <2>1. CASE Begin
    BY <1>0, <1>3, <2>1 DEF Begin, NotFailedInv
  <2>2. CASE EnsureValkey \/ EnsureRBAC \/ EnsureProfile \/ EnsurePrimer \/ EnsureFails
    BY <2>2 DEF EnsureValkey, EnsureRBAC, EnsureProfile, Ensured, EnsurePrimer, EnsureFails, Following
  <2>3. CASE SkipWorkload \/ PatchWorkload \/ WorkloadFails
    BY <2>3 DEF SkipWorkload, PatchWorkload, WorkloadFails
  <2>4. CASE UpdateStatus
    <3>1. cc.phase = ObservedPhase \/ cc'.phase = ObservedPhase
      BY <1>0, <2>4 DEF UpdateStatus, Write, CopiesInv, ClassCache
    <3>2. ObservedPhase \notin {"", "Failed"}
      BY DEF ObservedPhase
    <3>3. QED
      BY <1>3, <3>1, <3>2
  <2>5. CASE UpdateFails \/ SetFailed \/ OperatorCrash
    BY <2>5 DEF UpdateFails, SetFailed, OperatorCrash
  <2>6. CASE Surroundings
    BY <1>0, <1>3, <2>0, <2>6, SurroundingsFrame
  <2>7. CASE SeeClassCache \/ SeeDaemonSet \/ SeeDeployment \/ UNCHANGED vars
    <3>1. CASE SeeClassCache \/ SeeDaemonSet
      BY <3>1 DEF SeeClassCache, SeeDaemonSet
    <3>2. CASE SeeDeployment \/ UNCHANGED vars
      <4>1. UNCHANGED <<queued, step, ccSeen>>
        BY <3>2 DEF SeeDeployment, vars, seen
      <4>2. QED
        BY <1>3, <2>0, <4>1
    <3>3. QED
      BY <2>7, <3>1, <3>2
  <2>8. QED
    BY <2>1, <2>2, <2>3, <2>4, <2>5, <2>6, <2>7 DEF Next, Reconcile
<1>4. QED
  BY <1>2, <1>3

LEMMA InitNotFailed == Init => NotFailedInv
  BY DEF Init, NotFailedInv

(* Failed is never a final phase: whatever call failed, the request is     *)
(* queued again, and the next success overwrites it                        *)
(* (classcache_controller.go:100-109).                                     *)
THEOREM FailedIsNeverFinal == Spec => []SettledNotFailed
<1>1. NotFailedInv => SettledNotFailed
  BY DEF NotFailedInv, SettledNotFailed, Settled
<1>2. TypeInv /\ NotFailedInv /\ [Next]_vars => NotFailedInv'
  BY NextNotFailed
<1>3. QED
  BY <1>1, <1>2, InitNotFailed, InitTypes, NextTypes, PTL DEF Spec

-----------------------------------------------------------------------------
(* No publication and no edit is lost.                                     *)

(* Nobody has asked for any other patches than the present and past ones. *)
AskedInv ==
  LET asked == past \union {Wanted(cc)} IN
  /\ Wanted(ccSeen) \in asked
  /\ step # "idle" => Wanted(mine) \in asked
  /\ dep.tmpl.init \in asked \union {NoPatch}
  /\ depSeen.tmpl.init \in asked \union {NoPatch}

LEMMA NextAsked ==
  ASSUME TypeInv, AskedInv, [Next]_vars
  PROVE  AskedInv'
<1> DEFINE asked == past \union {Wanted(cc)}
<1>0. CopiesInv
  BY DEF TypeInv
<1>1. asked \subseteq past' \union {Wanted(cc')}
  BY <1>0, WantedStep DEF Superseded
<1>2. Wanted(ccSeen') \in asked
  BY <1>0, CopiesStep DEF AskedInv
<1>3. step' # "idle" => Wanted(mine') \in asked
  BY <1>0, CopiesStep DEF AskedInv
<1>4. dep'.tmpl.init \in asked \union {NoPatch}
  BY <1>0, WorkloadChange DEF AskedInv, Patched, Plain
<1>5. depSeen'.tmpl.init \in asked \union {NoPatch}
  BY <1>0, CopiesStep DEF AskedInv
<1>6. QED
  BY <1>1, <1>2, <1>3, <1>4, <1>5 DEF AskedInv

(* A workload the cache does not show has been created late, and options   *)
(* and init container go together.                                         *)
WorkloadInv ==
  /\ ~touched => depSeen.exists = dep.exists
  /\ Uniform(dep.tmpl)

LEMMA NextWorkload ==
  ASSUME TypeInv, WorkloadInv, [Next]_vars
  PROVE  WorkloadInv'
<1>0. CopiesInv
  BY DEF TypeInv
<1>1. Uniform(Plain)
  BY DEF Uniform, Plain
<1>2. Uniform(dep'.tmpl)
  BY <1>1, WorkloadChange DEF WorkloadInv, Uniform, Patched
<1>3. ~touched' => ~touched /\ dep'.exists = dep.exists
  BY WorkloadChange DEF Patched
<1>4. QED
  BY <1>0, <1>2, <1>3, CopiesStep DEF WorkloadInv

(* A patch wanted for the first time goes from the ClassCache to its cache *)
(* to the copy to the workload to its cache: whoever has it, those before  *)
(* have it, too.                                                           *)
News == Wanted(cc) \notin past /\ cc.key # NoKey
FollowInv ==
  News =>
    /\ step # "idle" /\ Wanted(mine) = Wanted(cc) => Wanted(ccSeen) = Wanted(cc)
    /\ dep.tmpl.init = Wanted(cc) =>
         Wanted(ccSeen) = Wanted(cc) /\ (step # "idle" => Wanted(mine) = Wanted(cc))
    /\ ~touched /\ depSeen.tmpl.init = Wanted(cc) => dep.tmpl.init = Wanted(cc)

LEMMA NewsIsAPatch ==
  ASSUME NEW c, c.key # NoKey
  PROVE  Wanted(c) # NoPatch
  BY DEF Wanted, NoPatch, Patch

LEMMA SameKey ==
  ASSUME NEW c, NEW d, Wanted(c) = Wanted(d)
  PROVE  c.key = d.key
<1>1. Wanted(c).key = c.key /\ Wanted(d).key = d.key
  BY DEF Wanted, Patch
<1>2. QED
  BY <1>1

(* What has just been superseded by something new is nowhere yet. *)
LEMMA NewsIsNowhere ==
  ASSUME AskedInv, Superseded, News'
  PROVE  /\ step' # "idle" => Wanted(mine') # Wanted(cc')
         /\ dep'.tmpl.init # Wanted(cc') /\ depSeen'.tmpl.init # Wanted(cc')
<1>1. Wanted(cc') # NoPatch /\ Wanted(cc') \notin past \union {Wanted(cc)}
  BY NewsIsAPatch DEF News, Superseded
<1>2. QED
  BY <1>1 DEF AskedInv, Superseded

LEMMA NextFollow ==
  ASSUME TypeInv, AskedInv, FollowInv, [Next]_vars
  PROVE  FollowInv'
<1>0. CopiesInv
  BY DEF TypeInv
<1> SUFFICES ASSUME News' PROVE FollowInv'
  BY DEF FollowInv
<1>1. CASE Superseded
  BY <1>1, NewsIsNowhere DEF FollowInv
<1>2. CASE Wanted(cc') = Wanted(cc) /\ past' = past
  <2>0. News /\ Wanted(cc) # NoPatch
    BY <1>2, SameKey, NewsIsAPatch DEF News
  <2>1. step # "idle" /\ Wanted(mine) = Wanted(cc) => Wanted(ccSeen) = Wanted(cc)
    BY <2>0 DEF FollowInv
  <2>2. dep.tmpl.init = Wanted(cc) =>
          Wanted(ccSeen) = Wanted(cc) /\ (step # "idle" => Wanted(mine) = Wanted(cc))
    BY <2>0 DEF FollowInv
  <2>3. ~touched /\ depSeen.tmpl.init = Wanted(cc) => dep.tmpl.init = Wanted(cc)
    BY <2>0 DEF FollowInv
  <2>4. step' # "idle" /\ Wanted(mine') = Wanted(cc) => Wanted(ccSeen') = Wanted(cc)
    BY <1>0, <2>1, CopiesStep
  <2>5. dep'.tmpl.init = Wanted(cc) =>
          Wanted(ccSeen') = Wanted(cc) /\ (step' # "idle" => Wanted(mine') = Wanted(cc))
    <3>1. CASE dep'.tmpl = dep.tmpl
      BY <1>0, <2>2, <3>1, CopiesStep
    <3>2. CASE dep'.tmpl = Plain
      BY <2>0, <3>2 DEF Plain
    <3>3. CASE Patched
      BY <2>1, <3>3 DEF Patched
    <3>4. QED
      BY <3>1, <3>2, <3>3, WorkloadChange
  <2>6. ~touched' /\ depSeen'.tmpl.init = Wanted(cc) => dep'.tmpl.init = Wanted(cc)
    <3>1. CASE depSeen' # depSeen
      BY <1>0, <3>1, CopiesStep
    <3>2. CASE depSeen' = depSeen
      BY <2>2, <2>3, <3>2, WorkloadChange DEF Patched
    <3>3. QED
      BY <3>1, <3>2
  <2>7. QED
    BY <1>2, <2>4, <2>5, <2>6 DEF FollowInv
<1>3. QED
  BY <1>0, <1>1, <1>2, WantedStep

(* As long as the workload lacks a patch wanted for the first time, it is  *)
(* being brought there, or will be.                                        *)
BeforeStatus == Objects \union {"primer", "workload"}
OnItsWay ==
  \/ queued \/ ccSeen # cc \/ step = "failed"
  \/ step \in BeforeStatus /\ mine.mode = cc.mode /\ Wanted(mine) = Wanted(cc)
  \/ dep.tmpl.init = Wanted(cc)
PendingInv ==
  News /\ cc.exists /\ cc.mode = "Owned" /\ ~touched /\ dep.exists => OnItsWay

LoopInv ==
  TypeInv /\ NotFailedInv /\ AskedInv /\ WorkloadInv /\ FollowInv /\ PendingInv

LEMMA StaysOnItsWay ==
  ASSUME LoopInv, [Next]_vars, cc' = cc, past' = past,
         News, cc.exists, cc.mode = "Owned", ~touched', ~touched, dep.exists
  PROVE  OnItsWay'
<1>0. OnItsWay /\ CopiesInv /\ ccSeen.exists
  BY DEF LoopInv, TypeInv, PendingInv, NotFailedInv
<1>1. dep.tmpl.init = Wanted(cc) => dep'.tmpl.init = Wanted(cc)
  <2>1. CASE Patched /\ dep.tmpl.init = Wanted(cc)
    BY <2>1 DEF Patched, LoopInv, FollowInv
  <2>2. QED
    BY <2>1, WorkloadChange DEF LoopInv
<1> USE DEF OnItsWay, BeforeStatus, Objects, Goto, Return, seen
<1>2. CASE Begin
  BY <1>0, <1>2 DEF Begin
<1>3. CASE EnsureValkey \/ EnsureRBAC \/ EnsureProfile \/ EnsurePrimer \/ EnsureFails
  BY <1>0, <1>1, <1>3 DEF EnsureValkey, EnsureRBAC, EnsureProfile, Ensured, EnsurePrimer,
     EnsureFails, Following
<1>4. CASE SkipWorkload
  <2>1. ASSUME mine.mode = cc.mode, Wanted(mine) = Wanted(cc) PROVE dep.tmpl.init = Wanted(cc)
    <3>1. mine.key # NoKey /\ depSeen.exists
      BY <2>1, SameKey DEF News, LoopInv, WorkloadInv
    <3>2. ~Changed(depSeen.tmpl, Asked) /\ Asked = Wanted(cc)
      BY <1>4, <2>1, <3>1 DEF SkipWorkload, NothingToPatch, Asked, Wanted
    <3>3. depSeen.tmpl.init = Wanted(cc)
      BY <3>2 DEF Changed
    <3>4. QED
      BY <3>3 DEF LoopInv, FollowInv
  <2>2. QED
    BY <1>0, <1>1, <1>4, <2>1 DEF SkipWorkload
<1>5. CASE PatchWorkload
  <2>1. dep \in Deployment /\ depSeen.tmpl \in Templates /\ Asked \in Patches
    BY <1>0, AskedIsAPatch DEF LoopInv, TypeInv, TypeOK, Deployment
  <2>2. ApplyPodPatch(depSeen.tmpl, Asked).init = Asked
    BY <2>1, Parts
  <2>3. dep'.tmpl.init = Wanted(mine)
    BY <1>5, <2>1, <2>2 DEF PatchWorkload, Deployment, Asked, Wanted
  <2>4. QED
    BY <1>0, <1>1, <1>5, <2>3 DEF PatchWorkload
<1>6. CASE WorkloadFails
  BY <1>6 DEF WorkloadFails
<1>7. CASE UpdateStatus
  BY <1>0, <1>1, <1>7 DEF UpdateStatus
<1>8. CASE UpdateFails \/ SetFailed \/ OperatorCrash
  BY <1>8 DEF UpdateFails, SetFailed, OperatorCrash
<1>9. CASE Surroundings
  BY <1>0, <1>1, <1>9, SurroundingsFrame
<1>10. CASE SeeClassCache \/ SeeDaemonSet \/ SeeDeployment \/ UNCHANGED vars
  BY <1>0, <1>1, <1>10 DEF SeeClassCache, SeeDaemonSet, SeeDeployment, vars
<1>11. QED
  BY <1>2, <1>3, <1>4, <1>5, <1>6, <1>7, <1>8, <1>9, <1>10 DEF Next, Reconcile

LEMMA NextPending ==
  ASSUME LoopInv, [Next]_vars
  PROVE  PendingInv'
<1>0. CopiesInv /\ TypeInv
  BY DEF LoopInv, TypeInv
<1> SUFFICES ASSUME News', cc'.exists, cc'.mode = "Owned", ~touched', dep'.exists
             PROVE  OnItsWay'
  BY DEF PendingInv
<1>1. CASE cc' # cc
  <2>1. cc'.rv = cc.rv + 1 /\ ccSeen' = ccSeen
    BY <1>0, <1>1, WantedStep DEF Superseded
  <2>2. ccSeen' # cc'
    BY <1>0, <2>1, OutOfDate DEF CopiesInv, CopiesAreOld
  <2>3. QED
    BY <2>2 DEF OnItsWay
<1>2. CASE cc' = cc
  <2>1. cc.rv # cc.rv + 1
    BY <1>0, Numbered DEF CopiesInv
  <2>2. past' = past
    BY <1>0, <1>2, <2>1, WantedStep DEF Superseded
  <2>3. News
    BY <1>2, <2>2 DEF News
  <2>4. ~touched /\ dep.exists
    <3>1. touched' = touched /\ dep'.exists = dep.exists
      BY <1>0, WorkloadChange DEF Patched
    <3>2. QED
      BY <3>1
  <2>5. QED
    BY <1>2, <2>2, <2>3, <2>4, StaysOnItsWay
<1>3. QED
  BY <1>1, <1>2

LEMMA NextLoop == LoopInv /\ [Next]_vars => LoopInv'
  BY NextTypes, NextNotFailed, NextAsked, NextWorkload, NextFollow, NextPending DEF LoopInv

LEMMA InitLoop == Init => LoopInv
<1> SUFFICES ASSUME Init PROVE LoopInv
  OBVIOUS
<1>1. dep.tmpl = Plain
  <2>1. PICK e \in BOOLEAN : dep = [exists |-> e, tmpl |-> Plain, ready |-> FALSE, rv |-> 1]
    BY Zenon DEF Init
  <2>2. QED
    BY <2>1
<1>2. ccSeen = cc /\ depSeen = dep /\ step = "idle" /\ queued /\ cc.key = NoKey
  BY DEF Init
<1>3. AskedInv /\ WorkloadInv /\ FollowInv /\ PendingInv
  BY <1>1, <1>2 DEF AskedInv, WorkloadInv, FollowInv, PendingInv, News, Uniform, Plain
<1>4. QED
  BY <1>3, InitTypes, InitNotFailed DEF LoopInv

(* Once things have settled the workload waits for and maps the archive    *)
(* of the current key, but for the exceptions SettledPatched names: from   *)
(* copies and caches of any age, with any number of conflicts, failed      *)
(* calls and crashes, no publication and no edit is lost                   *)
(* (classcache_controller.go:79-83, workload_patch.go:54-61).              *)
THEOREM NoKeyIsLost == Spec => []SettledPatched
<1>1. ASSUME LoopInv PROVE SettledPatched
  <2> SUFFICES ASSUME Settled, cc.exists, cc.mode = "Owned", cc.key # NoKey, ~touched, dep.exists,
                      Wanted(cc) \notin past
               PROVE  dep.tmpl.init = Wanted(cc)
                        /\ \A c \in Container : dep.tmpl.env[c] = Wanted(cc)
    BY DEF SettledPatched, Wanted
  <2>1. OnItsWay
    BY <1>1 DEF LoopInv, PendingInv, News
  <2>2. dep.tmpl.init = Wanted(cc)
    BY <2>1 DEF OnItsWay, Settled, BeforeStatus, Objects
  <2>3. QED
    BY <1>1, <2>2 DEF LoopInv, WorkloadInv, Uniform
<1>2. LoopInv => SettledPatched
  BY <1>1
<1>3. QED
  BY <1>2, InitLoop, NextLoop, PTL DEF Spec

=============================================================================
