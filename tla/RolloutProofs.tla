---------------------------- MODULE RolloutProofs ----------------------------
(***************************************************************************)
(* What TLAPS proves of Rollout, for any nodes, releases, profiles,         *)
(* architectures, keys, directories and containers, and any number of      *)
(* edits and faults.                                                       *)
(***************************************************************************)
EXTENDS Rollout, PodPatchProofs

LEMMA Constants ==
  /\ Node # {} /\ DefaultDir \in Dir /\ FirstRelease \in Release /\ FirstProfile \in Profile
  /\ MaxEvents \in Nat /\ Starts \subseteq Modes \X BOOLEAN \X Clusters
  /\ \A f \in Clusters : f \in [Release -> [Profile -> [Node -> Key]]]
  BY RolloutAssumption DEF RolloutAssumption

LEMMA EventType ==
  ASSUME events \in 0..MaxEvents, Event
  PROVE  events' \in 0..MaxEvents
  BY Constants DEF Event

LEMMA NoPodIsAPod ==
  NoPod \in Pod /\ NoPod.spec = Plain /\ NoPod.pc = "none"
<1>1. (CHOOSE n \in Node : TRUE) \in Node
  BY Constants
<1>2. QED
  BY <1>1, Constants, PlainIsATemplate DEF NoPod, Pod, Deployment

LEMMA SeenPatchIsReal ==
  ASSUME TypeOK, ccSeen.key # NoKey
  PROVE  SeenPatch \in RealPatches
  BY DEF TypeOK, ClassCache, SeenPatch, Patch, RealPatches, Keys

LEMMA RealPatchIsAPatch == RealPatches \subseteq Patches
  BY DEF RealPatches, Patches, Dirs, Keys

LEMMA PrimerKeyIsAKey ==
  ASSUME TypeOK, NEW n \in Node
  PROVE  PrimerKey(n) \in Key /\ PrimerFile(n) \in Dir \X Key
<1>1. primer[n] \in PrimerPod /\ keyOf \in [Release -> [Profile -> [Node -> Key]]]
  BY Constants DEF TypeOK
<1>2. QED
  BY <1>1 DEF PrimerKey, PrimerFile, PrimerPod

(* A primer only goes from one place to another. *)
LEMMA PrimerMoves ==
  ASSUME TypeOK, NEW n \in Node, NEW from, NEW to \in {"boot", "write", "have", "serve"},
         PrimerAt(n, from, to)
  PROVE  primer' \in [Node -> PrimerPod]
  BY DEF TypeOK, PrimerAt, PrimerPod

-----------------------------------------------------------------------------
(* Types.                                                                  *)

LEMMA OperatorType ==
  ASSUME TypeOK, SeeClassCache \/ Reconcile
  PROVE  TypeOK'
<1>1. CASE SeeClassCache
  BY <1>1 DEF SeeClassCache, TypeOK, given, objects, derived, files
<1>2. CASE Reconcile
  <2>1. ds' \in DaemonSet /\ cm' \in Profile
    BY <1>2 DEF Reconcile, TypeOK, ClassCache, DaemonSet
  <2>2. dep' \in Deployment
    <3>1. CASE PatchesWorkload
      <4>1. SeenPatch \in Patches
        BY <3>1, SeenPatchIsReal, RealPatchIsAPatch DEF PatchesWorkload
      <4>2. ApplyPodPatch(dep.tmpl, SeenPatch) \in Templates
        BY <4>1, PatchedIsATemplate DEF TypeOK, Deployment
      <4>3. QED
        BY <1>2, <4>2 DEF Reconcile, TypeOK, Deployment
    <3>2. QED
      BY <1>2, <3>1 DEF Reconcile, TypeOK
  <2>3. QED
    BY <1>2, <2>1, <2>2 DEF Reconcile, TypeOK, given, files
<1>3. QED
  BY <1>1, <1>2

LEMMA PrimerType ==
  ASSUME TypeOK, NEW n \in Node, PrimerStep(n) \/ PrimerFails(n) \/ RollPrimer(n)
  PROVE  TypeOK'
<1> USE DEF given, objects, derived, files
<1>0. PrimerKey(n) \in Key /\ PrimerFile(n) \in Dir \X Key
  BY PrimerKeyIsAKey
<1>1. \A S \in SUBSET (Dir \X Key) :
        /\ S \union {PrimerFile(n)} \in SUBSET (Dir \X Key)
        /\ S \ {PrimerFile(n)} \in SUBSET (Dir \X Key)
  BY <1>0
<1>2. CASE LocalHit(n)
  BY <1>2, PrimerMoves DEF LocalHit, TypeOK
<1>3. CASE BytesArrive(n)
  <2>1. part' \in [Node -> SUBSET (Dir \X Key)]
    BY <1>1, <1>3 DEF BytesArrive, TypeOK
  <2>2. QED
    BY <1>3, <2>1, PrimerMoves DEF BytesArrive, TypeOK
<1>4. CASE Written(n)
  <2>1. part' \in [Node -> SUBSET (Dir \X Key)] /\ whole' \in [Node -> SUBSET (Dir \X Key)]
    BY <1>1, <1>4 DEF Written, TypeOK
  <2>2. QED
    BY <1>4, <2>1, PrimerMoves DEF Written, TypeOK
<1>5. CASE Publish(n)
  <2>1. cc' \in ClassCache
    BY <1>0, <1>5 DEF Publish, TypeOK, ClassCache, Keys
  <2>2. QED
    BY <1>5, <2>1, PrimerMoves DEF Publish, TypeOK
<1>6. CASE PullBroken(n)
  <2>1. part' \in [Node -> SUBSET (Dir \X Key)]
    BY <1>1, <1>6 DEF PullBroken, TypeOK
  <2>2. QED
    BY <1>6, <2>1, PrimerMoves, EventType DEF PullBroken, TypeOK
<1>7. CASE BuildKilled(n) \/ PublishLost(n)
  BY <1>7, PrimerMoves, EventType DEF BuildKilled, PublishLost, TypeOK
<1>8. CASE PrimerCrash(n)
  <2>1. primer' \in [Node -> PrimerPod]
    <3>1. PICK p \in Profile : primer' = [primer EXCEPT ![n].prof = p, ![n].pc = "boot"]
      BY <1>8 DEF PrimerCrash, LoadProfile, TypeOK, PrimerPod
    <3>2. [primer[n] EXCEPT !.prof = p, !.pc = "boot"] \in PrimerPod
      BY DEF TypeOK, PrimerPod
    <3>3. primer' = [primer EXCEPT ![n] = [primer[n] EXCEPT !.prof = p, !.pc = "boot"]]
      BY <3>1 DEF TypeOK
    <3>4. QED
      BY <3>2, <3>3 DEF TypeOK
  <2>2. QED
    BY <1>8, <2>1, EventType DEF PrimerCrash, TypeOK
<1>9. CASE RollPrimer(n)
  <2>1. primer' \in [Node -> PrimerPod]
    <3>1. [primer[n] EXCEPT !.pc = "gone"] \in PrimerPod
      BY DEF TypeOK, PrimerPod
    <3>2. [rel |-> ds.rel, prof |-> cm, dir |-> ds.dir, pc |-> "boot"] \in PrimerPod
      BY DEF TypeOK, PrimerPod, DaemonSet
    <3>3. PICK x \in PrimerPod : primer' = [primer EXCEPT ![n] = x]
      BY <1>9, <3>1, <3>2 DEF RollPrimer
    <3>4. QED
      BY <3>3 DEF TypeOK
  <2>2. part' \in [Node -> SUBSET (Dir \X Key)]
    BY <1>1, <1>9 DEF RollPrimer, TypeOK
  <2>3. QED
    BY <1>9, <2>1, <2>2 DEF RollPrimer, TypeOK
<1>10. QED
  BY <1>2, <1>3, <1>4, <1>5, <1>6, <1>7, <1>8, <1>9 DEF PrimerStep, PrimerFails

LEMMA CreatedType ==
  ASSUME TypeOK, NEW t \in Templates, Create(t)
  PROVE  pod' \in Pod
  BY DEF Create, TypeOK, Pod, Deployment

LEMMA HandleType ==
  ASSUME TypeOK, NEW t \in Templates
  PROVE  Handle(t) \in Templates
<1>1. CASE Mutates
  <2>1. SeenPatch \in Patches
    BY <1>1, SeenPatchIsReal, RealPatchIsAPatch DEF Mutates
  <2>2. QED
    BY <2>1, PatchedIsATemplate DEF Handle
<1>2. QED
  BY <1>1 DEF Handle

LEMMA PodType ==
  ASSUME TypeOK, CreatePod \/ CreateUnseen \/ PodStep \/ DeletePod
  PROVE  TypeOK'
<1> USE DEF given, objects, derived, files
<1>1. dep.tmpl \in Templates /\ Handle(dep.tmpl) \in Templates
  BY HandleType DEF TypeOK, Deployment
<1>2. CASE CreatePod
  BY <1>1, <1>2, CreatedType DEF CreatePod, TypeOK
<1>3. CASE CreateUnseen
  BY <1>1, <1>3, CreatedType, EventType DEF CreateUnseen, TypeOK
<1>4. CASE PodStep
  <2>1. PICK to \in {"boot", "run", "crash"}, from \in {"init", "boot", "crash"} : PodAt(from, to)
    BY <1>4 DEF PodStep, Waited, JvmStarts, JvmFails, RestartContainer
  <2>2. pod' \in Pod
    BY <2>1 DEF PodAt, TypeOK, Pod
  <2>3. QED
    BY <2>1, <2>2 DEF PodAt, TypeOK
<1>5. CASE DeletePod
  <2>1. pod.node \in Node
    BY DEF TypeOK, Pod
  <2>2. pod' \in Pod
    BY <1>5, <2>1, NoPodIsAPod DEF DeletePod
  <2>3. QED
    BY <1>5, <2>2, EventType DEF DeletePod, TypeOK, Acting
<1>6. QED
  BY <1>2, <1>3, <1>4, <1>5

LEMMA UserType ==
  ASSUME TypeOK, EditClassCache \/ UpdateImage
  PROVE  TypeOK'
<1> USE DEF given, objects, derived, files, Acting
<1>1. CASE EditClassCache
  <2>1. cc' \in ClassCache
    BY <1>1 DEF EditClassCache, TypeOK, ClassCache
  <2>2. events' \in 0..MaxEvents
    <3>1. Event \/ events' = MaxEvents
      BY <1>1 DEF EditClassCache, ActingAlone
    <3>2. QED
      BY <3>1, EventType, Constants DEF TypeOK
  <2>3. QED
    BY <1>1, <2>1, <2>2 DEF EditClassCache, TypeOK
<1>2. CASE UpdateImage
  <2>1. dep' \in Deployment
    BY <1>2 DEF UpdateImage, TypeOK, Deployment
  <2>2. QED
    BY <1>2, <2>1, EventType DEF UpdateImage, TypeOK
<1>3. QED
  BY <1>1, <1>2

LEMMA NextType == TypeOK /\ [Next]_vars => TypeOK'
<1> SUFFICES ASSUME TypeOK, [Next]_vars PROVE TypeOK'
  OBVIOUS
<1>1. CASE UNCHANGED vars
  BY <1>1 DEF TypeOK, vars, given, objects, derived, files
<1>2. CASE Next
  BY <1>2, OperatorType, PrimerType, PodType, UserType DEF Next
<1>3. QED
  BY <1>1, <1>2

LEMMA InitType ==
  ASSUME Init
  PROVE  TypeOK
<1>1. cc \in ClassCache /\ ccSeen \in ClassCache /\ labelled \in BOOLEAN
  BY Constants DEF Init, ClassCache, Keys
<1>2. dep \in Deployment /\ cm \in Profile /\ ds \in DaemonSet /\ pod \in Pod
  BY Constants, PlainIsATemplate, NoPodIsAPod DEF Init, Deployment, DaemonSet
<1>3. /\ primer \in [Node -> PrimerPod]
      /\ part \in [Node -> SUBSET (Dir \X Key)] /\ whole \in [Node -> SUBSET (Dir \X Key)]
  <2>1. primer = [n \in Node |-> [rel |-> FirstRelease, prof |-> FirstProfile,
                                  dir |-> DefaultDir, pc |-> "boot"]]
    BY DEF Init
  <2>2. part = [n \in Node |-> {}] /\ whole = [n \in Node |-> {}]
    BY DEF Init
  <2>3. primer \in [Node -> PrimerPod]
    BY <2>1, Constants DEF PrimerPod
  <2>4. QED
    BY <2>2, <2>3
<1>4. keyOf \in Clusters /\ lost \in BOOLEAN /\ events \in 0..MaxEvents
  <2>1. keyOf \in Clusters /\ lost = FALSE /\ events = 0
    BY Constants DEF Init
  <2>2. 0 \in 0..MaxEvents
    <3>1. MaxEvents \in Nat
      BY Constants
    <3>2. QED
      BY <3>1
  <2>3. QED
    BY <2>1, <2>2
<1>5. QED
  BY <1>1, <1>2, <1>3, <1>4 DEF TypeOK

(* The types hold in every reachable state. *)
THEOREM TypesHold == Spec => []TypeOK
  BY InitType, NextType, PTL DEF Spec

-----------------------------------------------------------------------------
(* Patches.                                                                *)

(* Templates, in the Deployment and in the pod, are as patches leave them. *)
ShapeInv == Shaped(dep.tmpl) /\ Shaped(pod.spec)

LEMMA NextShape ==
  ASSUME TypeOK, ShapeInv, [Next]_vars
  PROVE  ShapeInv'
<1> USE DEF given, objects, derived, files
<1>0. Shaped(Plain)
  BY DEF Shaped
<1>1. CASE Reconcile
  <2>1. CASE PatchesWorkload /\ Changed(dep.tmpl, SeenPatch)
    <3>1. Shaped(ApplyPodPatch(dep.tmpl, SeenPatch))
      BY <2>1, SeenPatchIsReal, PatchKeepsShape DEF PatchesWorkload, ShapeInv
    <3>2. dep'.tmpl = ApplyPodPatch(dep.tmpl, SeenPatch)
      BY <1>1, <2>1 DEF Reconcile, TypeOK, Deployment
    <3>3. QED
      BY <1>1, <3>1, <3>2 DEF Reconcile, ShapeInv
  <2>2. QED
    BY <1>1, <2>1 DEF Reconcile, ShapeInv
<1>2. CASE CreatePod \/ CreateUnseen
  <2>1. Shaped(Handle(dep.tmpl)) /\ Shaped(dep.tmpl)
    <3>1. CASE Mutates
      BY <3>1, SeenPatchIsReal, PatchKeepsShape DEF Mutates, Handle, ShapeInv
    <3>2. QED
      BY <3>1 DEF Handle, ShapeInv
  <2>2. pod'.spec \in {dep.tmpl, Handle(dep.tmpl)} /\ dep' = dep
    BY <1>2 DEF CreatePod, CreateUnseen, Create
  <2>3. QED
    BY <2>1, <2>2 DEF ShapeInv
<1>3. CASE PodStep
  <2>1. pod'.spec = pod.spec /\ dep' = dep
    BY <1>3 DEF PodStep, Waited, JvmStarts, JvmFails, RestartContainer, PodAt, TypeOK, Pod
  <2>2. QED
    BY <2>1 DEF ShapeInv
<1>4. CASE DeletePod
  <2>1. pod'.spec = Plain /\ dep' = dep
    BY <1>4, NoPodIsAPod DEF DeletePod
  <2>2. QED
    BY <1>0, <2>1 DEF ShapeInv
<1>5. CASE UpdateImage
  <2>1. dep'.tmpl = dep.tmpl /\ pod' = pod
    BY <1>5 DEF UpdateImage, TypeOK, Deployment
  <2>2. QED
    BY <2>1 DEF ShapeInv
<1>6. CASE SeeClassCache \/ EditClassCache \/ UNCHANGED vars
  BY <1>6 DEF SeeClassCache, EditClassCache, vars, ShapeInv
<1>7. ASSUME NEW n \in Node, PrimerStep(n) \/ PrimerFails(n) \/ RollPrimer(n)
      PROVE  ShapeInv'
  BY <1>7 DEF PrimerStep, PrimerFails, LocalHit, BytesArrive, Written, Publish, PullBroken,
     BuildKilled, PrimerCrash, PublishLost, RollPrimer, ShapeInv
<1>8. QED
  BY <1>1, <1>2, <1>3, <1>4, <1>5, <1>6, <1>7 DEF Next

LEMMA InitShape ==
  ASSUME Init
  PROVE  ShapeInv
  BY NoPodIsAPod DEF Init, ShapeInv, Shaped

(* However operator and webhook take turns, every pod is patched as if     *)
(* once, unless spec.archiveDir was edited under its template              *)
(* (pod_mutator.go:61-62, workload_patch.go:73-79).                        *)
THEOREM PodsArePatchedOnce == Spec => []SpecsAreFresh
<1>1. ShapeInv => SpecsAreFresh
  BY ShapedIsFresh DEF ShapeInv, SpecsAreFresh, Moved, Fresh
<1>2. TypeOK /\ ShapeInv /\ [Next]_vars => (TypeOK /\ ShapeInv)'
  BY NextType, NextShape
<1>3. Init => TypeOK /\ ShapeInv
  BY InitType, InitShape
<1>4. QED
  BY <1>1, <1>2, <1>3, PTL DEF Spec

(* A JVM given a whole archive of its own release, for its own machine,    *)
(* where it looks for it, starts: in every container, since all name the   *)
(* file the init container has waited for (workload_patch.go:104-181).     *)
THEOREM WholeArchivesBoot == Spec => OnlyBadArchivesFail
<1>1. ASSUME TypeOK, ShapeInv, [Next]_vars, pod.pc = "boot", pod'.pc = "crash",
             ~Moved(pod.spec), AwaitedFile(pod.spec) \in whole[pod.node]
      PROVE  \A p \in Profile : pod.spec.init.key # keyOf[pod.image][p][pod.node]
  <2>1. JvmFails
    <3>1. ~CreatePod /\ ~CreateUnseen
      BY <1>1 DEF CreatePod, CreateUnseen, Create
    <3>2. ~DeletePod
      BY <1>1, NoPodIsAPod DEF DeletePod
    <3>3. pod' # pod
      BY <1>1
    <3>4. ~SeeClassCache /\ ~Reconcile /\ ~EditClassCache /\ ~UpdateImage /\ ~(UNCHANGED vars)
      BY <3>3 DEF SeeClassCache, Reconcile, EditClassCache, UpdateImage, vars
    <3>5. \A n \in Node : ~PrimerStep(n) /\ ~PrimerFails(n) /\ ~RollPrimer(n)
      BY <3>3 DEF PrimerStep, PrimerFails, LocalHit, BytesArrive, Written, Publish,
         PullBroken, BuildKilled, PrimerCrash, PublishLost, RollPrimer
    <3>6. ~Waited /\ ~RestartContainer
      BY <1>1 DEF Waited, RestartContainer, PodAt
    <3>7. ~JvmStarts
      BY <1>1 DEF JvmStarts, PodAt, TypeOK, Pod
    <3>8. QED
      BY <1>1, <3>1, <3>2, <3>4, <3>5, <3>6, <3>7 DEF Next, PodStep
  <2>2. PICK c \in Container : ~Boots(c)
    BY <2>1 DEF JvmFails
  <2>3. CASE pod.spec = Plain
    <3>1. pod.spec.env[c] = NoPatch
      BY <2>3 DEF Plain
    <3>2. QED
      BY <2>2, <3>1 DEF Boots
  <2>4. CASE Consistent(pod.spec) /\ \E p \in RealPatches : pod.spec = ApplyPodPatch(Plain, p)
    <3>1. pod.spec.env[c].key = pod.spec.init.key
      BY <2>4 DEF Consistent, NamedFile, AwaitedFile
    <3>2. Finds(pod.spec, c) /\ NamedFile(pod.spec, c) \in whole[pod.node]
      BY <1>1, <2>4 DEF Consistent
    <3>3. QED
      BY <2>2, <3>1, <3>2 DEF Boots
  <2>5. QED
    BY <1>1, <2>3, <2>4, ShapedIsFresh DEF ShapeInv, Moved
<1>2. TypeOK /\ ShapeInv /\ [Next]_vars =>
        [pod.pc = "boot" /\ pod'.pc = "crash" =>
           \/ Moved(pod.spec)
           \/ AwaitedFile(pod.spec) \notin whole[pod.node]
           \/ \A p \in Profile : pod.spec.init.key # keyOf[pod.image][p][pod.node]]_vars
  BY <1>1
<1>3. TypeOK /\ ShapeInv /\ [Next]_vars => (TypeOK /\ ShapeInv)'
  BY NextType, NextShape
<1>4. Init => TypeOK /\ ShapeInv
  BY InitType, InitShape
<1>5. QED
  BY <1>2, <1>3, <1>4, PTL DEF Spec, OnlyBadArchivesFail

-----------------------------------------------------------------------------
(* Publications.                                                           *)

(* The files that are ready on a node: they are whole, or taken for whole. *)
Ready(n) == whole[n] \union Torn(n)

(* What a primer writes is begun, and what it publishes is ready. *)
HeldInv ==
  /\ \A n \in Node : primer[n].pc = "write" => PrimerFile(n) \in part[n]
  /\ \A n \in Node : primer[n].pc = "have" => PrimerFile(n) \in Ready(n)
  /\ PublishedIsHeld

(* The primer on another node, and the files there, are left alone. *)
LEMMA PrimerLocal ==
  ASSUME TypeOK, NEW m \in Node, NEW n \in Node, m # n,
         PrimerStep(n) \/ PrimerFails(n) \/ RollPrimer(n)
  PROVE  primer'[m] = primer[m] /\ part'[m] = part[m] /\ whole'[m] = whole[m]
  BY DEF TypeOK, PrimerStep, PrimerFails, LocalHit, BytesArrive, Written, Publish, PullBroken,
     BuildKilled, PrimerCrash, PublishLost, RollPrimer, PrimerAt, files

LEMMA KeyOfStays == [Next]_vars => keyOf' = keyOf
  BY DEF Next, vars, given, SeeClassCache, Reconcile, PrimerStep, PrimerFails, LocalHit,
     BytesArrive, Written, Publish, PullBroken, BuildKilled, PrimerCrash, PublishLost,
     RollPrimer, CreatePod, CreateUnseen, PodStep, Waited, JvmStarts, JvmFails,
     RestartContainer, PodAt, EditClassCache, UpdateImage, DeletePod

(* What the primer on n does to its own files: none that is ready is       *)
(* written to, or goes.                                                    *)
LEMMA PrimerHere ==
  ASSUME TypeOK, HeldInv, NEW n \in Node, keyOf' = keyOf,
         PrimerStep(n) \/ PrimerFails(n) \/ RollPrimer(n)
  PROVE  /\ primer'[n].pc = "write" => PrimerFile(n)' \in part'[n]
         /\ primer'[n].pc = "have" => PrimerFile(n)' \in Ready(n)'
         /\ \A f : f \in Ready(n) => f \in Ready(n)'
<1> USE DEF PrimerFile, PrimerKey, Visible, Ready, Torn, Writing, PrimerAt, files
<1>0. primer \in [Node -> PrimerPod] /\ part \in [Node -> SUBSET (Dir \X Key)]
      /\ whole \in [Node -> SUBSET (Dir \X Key)]
  BY DEF TypeOK
<1>1. CASE LocalHit(n)
  BY <1>0, <1>1 DEF LocalHit, PrimerPod
<1>2. CASE BytesArrive(n)
  BY <1>0, <1>2 DEF BytesArrive, PrimerPod
<1>3. CASE Written(n)
  BY <1>0, <1>3 DEF Written, PrimerPod
<1>4. CASE PullBroken(n)
  BY <1>0, <1>4 DEF PullBroken, PrimerPod
<1>5. CASE BuildKilled(n)
  BY <1>0, <1>5 DEF BuildKilled, PrimerPod, HeldInv
<1>6. CASE PublishLost(n) \/ Publish(n)
  BY <1>0, <1>6 DEF PublishLost, Publish, PrimerPod
<1>7. CASE PrimerCrash(n)
  BY <1>0, <1>7 DEF PrimerCrash, PrimerPod
<1>8. CASE RollPrimer(n)
  <2>1. primer'[n].pc \in {"boot", "gone"} /\ whole' = whole
    BY <1>0, <1>8 DEF RollPrimer, PrimerPod
  <2>2. \/ part' = part
        \/ primer[n].pc = "write" /\ part' = [part EXCEPT ![n] = @ \ {PrimerFile(n)}]
    BY <1>8 DEF RollPrimer
  <2>3. QED
    BY <1>0, <2>1, <2>2
<1>9. QED
  BY <1>1, <1>2, <1>3, <1>4, <1>5, <1>6, <1>7, <1>8 DEF PrimerStep, PrimerFails

LEMMA ReadyStays ==
  ASSUME TypeOK, HeldInv, [Next]_vars, NEW m \in Node, NEW f, f \in Ready(m)
  PROVE  f \in Ready(m)'
<1>0. keyOf' = keyOf
  BY KeyOfStays
<1>1. ASSUME NEW n \in Node, PrimerStep(n) \/ PrimerFails(n) \/ RollPrimer(n)
      PROVE  f \in Ready(m)'
  <2>1. CASE m = n
    BY <1>0, <1>1, <2>1, PrimerHere
  <2>2. CASE m # n
    BY <1>0, <1>1, <2>2, PrimerLocal DEF Ready, Torn, Writing, PrimerFile, PrimerKey
  <2>3. QED
    BY <2>1, <2>2
<1>2. CASE UNCHANGED <<primer, files>>
  BY <1>0, <1>2 DEF Ready, Torn, Writing, PrimerFile, PrimerKey, files
<1>3. QED
  BY <1>1, <1>2 DEF Next, vars, SeeClassCache, Reconcile, CreatePod, CreateUnseen, PodStep,
     Waited, JvmStarts, JvmFails, RestartContainer, PodAt, EditClassCache, UpdateImage, DeletePod

LEMMA NextHeld ==
  ASSUME TypeOK, HeldInv, [Next]_vars
  PROVE  HeldInv'
<1>0. keyOf' = keyOf
  BY KeyOfStays
<1>1. ASSUME NEW n \in Node, PrimerStep(n) \/ PrimerFails(n) \/ RollPrimer(n)
      PROVE  HeldInv'
  <2>1. ASSUME NEW m \in Node
        PROVE  /\ primer'[m].pc = "write" => PrimerFile(m)' \in part'[m]
               /\ primer'[m].pc = "have" => PrimerFile(m)' \in Ready(m)'
    <3>1. CASE m = n
      BY <1>0, <1>1, <3>1, PrimerHere
    <3>2. CASE m # n
      BY <1>0, <1>1, <3>2, PrimerLocal DEF HeldInv, Ready, Torn, Writing, PrimerFile, PrimerKey
    <3>3. QED
      BY <3>1, <3>2
  <2>2. PublishedIsHeld'
    <3>1. CASE cc'.key = cc.key
      <4>1. PICK k : k = cc.key
        OBVIOUS
      <4>2. ASSUME k # NoKey PROVE \E m \in Node, d \in Dir : <<d, k>> \in Ready(m)'
        <5>1. PICK m \in Node, d \in Dir : <<d, k>> \in Ready(m)
          BY <4>1, <4>2 DEF HeldInv, PublishedIsHeld, Ready
        <5>2. <<d, k>> \in Ready(m)'
          BY <5>1, ReadyStays
        <5>3. QED
          BY <5>2
      <4>3. QED
        BY <3>1, <4>1, <4>2 DEF PublishedIsHeld, Ready
    <3>2. CASE Publish(n) /\ cc'.key # cc.key
      <4>1. cc'.key = PrimerKey(n) /\ primer[n].pc = "have"
        BY <3>2 DEF Publish, PrimerAt, TypeOK, ClassCache
      <4>2. PICK k \in Key, d \in Dir : k = PrimerKey(n) /\ d = primer[n].dir
        BY PrimerKeyIsAKey DEF TypeOK, PrimerPod
      <4>3. <<d, k>> \in Ready(n)
        BY <4>1, <4>2 DEF HeldInv, PrimerFile
      <4>4. <<d, k>> \in Ready(n)'
        BY <4>3, ReadyStays
      <4>5. cc'.key = k
        BY <4>1, <4>2
      <4>6. QED
        BY <4>4, <4>5 DEF PublishedIsHeld, Ready
    <3>3. Publish(n) \/ cc' = cc
      BY <1>1 DEF PrimerStep, PrimerFails, LocalHit, BytesArrive, Written, PullBroken,
         BuildKilled, PrimerCrash, PublishLost, RollPrimer, objects
    <3>4. QED
      BY <3>1, <3>2, <3>3
  <2>3. QED
    BY <2>1, <2>2 DEF HeldInv
<1>2. CASE UNCHANGED <<primer, files>> /\ cc'.key = cc.key
  BY <1>0, <1>2 DEF HeldInv, PublishedIsHeld, Ready, Torn, Writing, PrimerFile, PrimerKey, files
<1>3. EditClassCache => cc'.key = cc.key
  BY DEF EditClassCache, TypeOK, ClassCache
<1>4. QED
  BY <1>1, <1>2, <1>3 DEF Next, vars, objects, SeeClassCache, Reconcile, CreatePod, CreateUnseen,
     PodStep, Waited, JvmStarts, JvmFails, RestartContainer, PodAt, EditClassCache,
     UpdateImage, DeletePod

LEMMA InitHeld ==
  ASSUME Init
  PROVE  HeldInv
<1>1. /\ primer = [n \in Node |-> [rel |-> FirstRelease, prof |-> FirstProfile,
                                   dir |-> DefaultDir, pc |-> "boot"]]
      /\ cc.key = NoKey
  BY DEF Init
<1>2. QED
  BY <1>1 DEF HeldInv, PublishedIsHeld

(* Nobody is told to wait for an archive that no primer has: of every key  *)
(* in the status some node has a file that is whole, or that a kill has    *)
(* torn for good, and none of these is being written                       *)
(* (orchestrator.go:92-125, builder.go:124, archive.go:66-69).             *)
THEOREM PublishedKeysAreHeld == Spec => []PublishedIsHeld
<1>1. HeldInv => PublishedIsHeld
  BY DEF HeldInv
<1>2. TypeOK /\ HeldInv /\ [Next]_vars => (TypeOK /\ HeldInv)'
  BY NextType, NextHeld
<1>3. Init => TypeOK /\ HeldInv
  BY InitType, InitHeld
<1>4. QED
  BY <1>1, <1>2, <1>3, PTL DEF Spec

-----------------------------------------------------------------------------
(* The state of rest.                                                      *)

(* Only a publication, or its loss, puts a primer into service. *)
LEMMA OutOfService ==
  ASSUME TypeOK, NEW n \in Node, PrimerStep(n) \/ PrimerFails(n) \/ RollPrimer(n),
         ~Publish(n), ~PublishLost(n)
  PROVE  primer'[n].pc # "serve" /\ cc' = cc
<1> USE DEF PrimerAt, objects
<1>0. primer \in [Node -> PrimerPod]
  BY DEF TypeOK
<1>1. CASE LocalHit(n) \/ BytesArrive(n) \/ Written(n)
  BY <1>0, <1>1 DEF LocalHit, BytesArrive, Written, PrimerPod
<1>2. CASE PullBroken(n) \/ BuildKilled(n) \/ PrimerCrash(n)
  BY <1>0, <1>2 DEF PullBroken, BuildKilled, PrimerCrash, PrimerPod
<1>3. CASE RollPrimer(n)
  BY <1>0, <1>3 DEF RollPrimer
<1>4. QED
  BY <1>1, <1>2, <1>3 DEF PrimerStep, PrimerFails

(* A primer of the ClassCache's release has a key of it. *)
LEMMA KeyOfTheCurrent ==
  ASSUME NEW n \in Node, primer[n].rel = cc.rel
  PROVE  PrimerKey(n) = keyOf[cc.rel][primer[n].prof][n]
  BY Zenon DEF PrimerKey

(* Whoever has published the key in the status serves it still, or is not  *)
(* in service: then it will publish again before it is.                    *)
PublisherInv ==
  cc.exists /\ ~lost => \E n \in Node : primer[n].pc # "serve" \/ cc.key = PrimerKey(n)

LEMMA NextPublisher ==
  ASSUME TypeOK, PublisherInv, [Next]_vars
  PROVE  PublisherInv'
<1> SUFFICES ASSUME cc'.exists, ~lost'
             PROVE  \E n \in Node : primer'[n].pc # "serve" \/ cc'.key = PrimerKey(n)'
  BY DEF PublisherInv
<1> USE DEF given, objects, derived, files
<1>0. keyOf' = keyOf /\ primer \in [Node -> PrimerPod]
  BY KeyOfStays DEF TypeOK
<1>1. cc.exists
  BY DEF Next, vars, SeeClassCache, Reconcile, PrimerStep, PrimerFails, LocalHit,
     BytesArrive, Written, Publish, PullBroken, BuildKilled, PrimerCrash, PublishLost,
     RollPrimer, CreatePod, CreateUnseen, PodStep, Waited, JvmStarts, JvmFails,
     RestartContainer, PodAt, EditClassCache, UpdateImage, DeletePod, TypeOK, ClassCache
<1>2. ~lost
  BY DEF Next, vars, SeeClassCache, Reconcile, PrimerStep, PrimerFails, LocalHit,
     BytesArrive, Written, Publish, PullBroken, BuildKilled, PrimerCrash, PublishLost,
     RollPrimer, CreatePod, CreateUnseen, PodStep, Waited, JvmStarts, JvmFails,
     RestartContainer, PodAt, EditClassCache, UpdateImage, DeletePod
<1>3. PICK m \in Node : primer[m].pc # "serve" \/ cc.key = PrimerKey(m)
  BY <1>1, <1>2 DEF PublisherInv
<1>4. ASSUME NEW n \in Node, PrimerStep(n) \/ PrimerFails(n) \/ RollPrimer(n)
      PROVE  \E k \in Node : primer'[k].pc # "serve" \/ cc'.key = PrimerKey(k)'
  <2>1. CASE Publish(n)
    <3>1. cc'.key = PrimerKey(n)
      BY <1>1, <2>1 DEF Publish, TypeOK, ClassCache
    <3>2. PrimerKey(n)' = PrimerKey(n)
      BY <1>0, <2>1 DEF Publish, PrimerAt, PrimerKey, PrimerPod
    <3>3. QED
      BY <3>1, <3>2
  <2>2. CASE PublishLost(n)
    BY <1>2, <2>2 DEF PublishLost
  <2>3. CASE ~Publish(n) /\ ~PublishLost(n)
    <3>1. primer'[n].pc # "serve" /\ cc' = cc
      BY <1>4, <2>3, OutOfService
    <3>2. QED
      BY <3>1
  <2>4. QED
    BY <2>1, <2>2, <2>3
<1>5. CASE primer' = primer /\ cc'.key = cc.key
  BY <1>0, <1>3, <1>5 DEF PrimerKey
<1>6. EditClassCache => cc'.key = cc.key /\ primer' = primer
  BY DEF EditClassCache, TypeOK, ClassCache
<1>7. QED
  BY <1>4, <1>5, <1>6 DEF Next, vars, SeeClassCache, Reconcile, CreatePod, CreateUnseen,
     PodStep, Waited, JvmStarts, JvmFails, RestartContainer, PodAt, UpdateImage, DeletePod

(* What CurrentKeyWins comes to, without fairness: in whatever order the   *)
(* primers of several releases and profiles have published, crashed and    *)
(* been replaced, once all of them serve the current release, so does the  *)
(* status name it, with a profile that one of them has read                *)
(* (orchestrator.go:92-125, main.go:66).                                   *)
KeyIsCurrentAtRest ==
  AtRest /\ ~lost => \E n \in Node : cc.key = keyOf[cc.rel][primer[n].prof][n]

(* The last to publish publishes a current key: when all primers serve the *)
(* current release, the status names it, with the profile that primer has  *)
(* read (orchestrator.go:92-125, main.go:66).                              *)
THEOREM LastPublisherIsCurrent == Spec => []KeyIsCurrentAtRest
<1>1. Init => TypeOK /\ PublisherInv
  <2>1. ASSUME Init PROVE PublisherInv
    <3>1. PICK n \in Node : TRUE
      BY Constants
    <3>2. primer[n].pc = "boot"
      BY <2>1 DEF Init
    <3>3. QED
      BY <3>2 DEF PublisherInv
  <2>2. QED
    BY <2>1, InitType
<1>2. TypeOK /\ PublisherInv /\ [Next]_vars => (TypeOK /\ PublisherInv)'
  BY NextType, NextPublisher
<1>3. PublisherInv => KeyIsCurrentAtRest
  <2> SUFFICES ASSUME PublisherInv, AtRest, ~lost
               PROVE  \E n \in Node : cc.key = keyOf[cc.rel][primer[n].prof][n]
    BY DEF KeyIsCurrentAtRest
  <2>1. PICK n \in Node : primer[n].pc # "serve" \/ cc.key = PrimerKey(n)
    BY DEF PublisherInv, AtRest
  <2>2. primer[n].rel = cc.rel /\ primer[n].pc = "serve"
    BY DEF AtRest
  <2>3. cc.key = keyOf[cc.rel][primer[n].prof][n]
    <3>1. cc.key = PrimerKey(n)
      BY <2>1, <2>2
    <3>2. QED
      BY <2>2, <3>1, KeyOfTheCurrent, Zenon
  <2>4. QED
    BY <2>3
<1>4. QED
  BY <1>1, <1>2, <1>3, PTL DEF Spec

(* A primer in service has its file, and a pod that waits has been told    *)
(* what for.                                                               *)
ServedInv ==
  /\ \A n \in Node : primer[n].pc = "serve" => PrimerFile(n) \in Ready(n)
  /\ pod.pc = "init" => pod.spec.init # NoPatch

LEMMA NextServed ==
  ASSUME TypeOK, HeldInv, ServedInv, [Next]_vars
  PROVE  ServedInv'
<1> USE DEF given, objects, derived, files
<1>0. keyOf' = keyOf /\ primer \in [Node -> PrimerPod]
  BY KeyOfStays DEF TypeOK
<1>1. ASSUME NEW n \in Node, primer'[n].pc = "serve"
      PROVE  PrimerFile(n)' \in Ready(n)'
  <2>1. primer[n].pc \in {"have", "serve"} /\ PrimerFile(n)' = PrimerFile(n)
    <3>1. ASSUME NEW m \in Node, PrimerStep(m) \/ PrimerFails(m) \/ RollPrimer(m)
          PROVE  primer[n].pc \in {"have", "serve"} /\ PrimerFile(n)' = PrimerFile(n)
      <4>1. CASE m # n
        BY <1>0, <1>1, <3>1, <4>1, PrimerLocal DEF PrimerFile, PrimerKey
      <4>2. CASE m = n /\ (Publish(n) \/ PublishLost(n))
        BY <1>0, <4>2 DEF Publish, PublishLost, PrimerAt, PrimerFile, PrimerKey, PrimerPod
      <4>3. CASE m = n /\ ~Publish(n) /\ ~PublishLost(n)
        <5>1. primer'[n].pc # "serve"
          BY <3>1, <4>3, OutOfService
        <5>2. QED
          BY <1>1, <5>1
      <4>4. QED
        BY <4>1, <4>2, <4>3
    <3>2. CASE primer' = primer
      BY <1>0, <1>1, <3>2 DEF PrimerFile, PrimerKey
    <3>3. QED
      BY <3>1, <3>2 DEF Next, vars, SeeClassCache, Reconcile, CreatePod, CreateUnseen,
         PodStep, Waited, JvmStarts, JvmFails, RestartContainer, PodAt, EditClassCache,
         UpdateImage, DeletePod
  <2>2. PrimerFile(n) \in Ready(n)
    BY <2>1 DEF HeldInv, ServedInv
  <2>3. PICK f : f = PrimerFile(n)
    OBVIOUS
  <2>4. f \in Ready(n)'
    BY <2>2, <2>3, ReadyStays
  <2>5. QED
    BY <2>1, <2>3, <2>4
<1>2. pod'.pc = "init" => pod'.spec.init # NoPatch
  <2>1. CASE CreatePod \/ CreateUnseen
    BY <2>1 DEF CreatePod, CreateUnseen, Create
  <2>2. CASE PodStep
    BY <2>2 DEF PodStep, Waited, JvmStarts, JvmFails, RestartContainer, PodAt, TypeOK, Pod
  <2>3. CASE DeletePod
    BY <2>3, NoPodIsAPod DEF DeletePod
  <2>4. CASE pod' = pod
    BY <2>4 DEF ServedInv
  <2>5. QED
    BY <2>1, <2>2, <2>3, <2>4 DEF Next, vars, SeeClassCache, Reconcile, PrimerStep,
       PrimerFails, LocalHit, BytesArrive, Written, Publish, PullBroken, BuildKilled,
       PrimerCrash, PublishLost, RollPrimer, EditClassCache, UpdateImage
<1>3. QED
  BY <1>1, <1>2 DEF ServedInv

(* A template that is not to be changed has the patch. *)
LEMMA UnchangedIsPatched ==
  ASSUME NEW t, NEW p, ~Changed(t, p)
  PROVE  t.init = p
  BY DEF Changed

(* At rest, a pod with the patch of the current key, on a node where that  *)
(* key is right, has all it needs: the argument of the theorem below.      *)
LEMMA PatchedPodsBoot ==
  ASSUME TypeOK, ShapeInv, ServedInv, AtRest, ~Stranded,
         pod.spec.init = Patch(cc.dir, cc.key), cc.key # NoKey
  PROVE  ~Hopeless
<1> DEFINE n == pod.node
           f == <<cc.dir, cc.key>>
<1>1. /\ n \in Node /\ pod.image = cc.rel /\ cc.key = keyOf[cc.rel][primer[n].prof][n]
      /\ ~Moved(pod.spec) /\ AwaitedFile(pod.spec) \notin Torn(n)
  BY DEF Stranded, TypeOK, Pod
<1>2. primer[n].rel = cc.rel /\ primer[n].dir = cc.dir /\ primer[n].pc = "serve"
  BY <1>1 DEF AtRest
<1>3. AwaitedFile(pod.spec) = f /\ pod.spec.init = [dir |-> cc.dir, key |-> cc.key]
  <2>1. pod.spec.init = [dir |-> cc.dir, key |-> cc.key]
    BY DEF Patch
  <2>2. pod.spec.vol = cc.dir /\ pod.spec.init.key = cc.key
    <3>1. pod.spec.init.dir = cc.dir /\ pod.spec.init.key = cc.key
      BY <2>1
    <3>2. pod.spec.vol = pod.spec.init.dir
      BY <1>1 DEF Moved
    <3>3. QED
      BY <3>1, <3>2, Zenon
  <2>3. QED
    BY <2>1, <2>2 DEF AwaitedFile
<1>4. PrimerFile(n) = f
  <2>1. PrimerKey(n) = cc.key /\ primer[n].dir = cc.dir
    <3>1. PrimerKey(n) = keyOf[cc.rel][primer[n].prof][n]
      BY <1>1, <1>2, KeyOfTheCurrent, Zenon
    <3>2. primer[n].dir = cc.dir
      BY <1>2
    <3>3. QED
      BY <1>1, <3>1, <3>2, Zenon
  <2>2. QED
    BY <2>1 DEF PrimerFile
<1>5. f \in Ready(n)
  BY <1>1, <1>2, <1>4 DEF ServedInv
<1>6. f \in whole[n] /\ f \in Visible(n)
  BY <1>1, <1>3, <1>5 DEF Ready, Visible
<1>7. pod.spec # Plain
  BY <1>3 DEF Plain, NoPatch, Patch
<1>8. pod.spec.vol = pod.spec.init.dir
  BY <1>1 DEF Moved
<1>9. PICK p \in RealPatches :
        pod.spec = [vol |-> cc.dir, init |-> p, mount |-> [c \in Container |-> cc.dir],
                    env |-> [c \in Container |-> p]]
  <2>1. PICK d \in Dir, p \in RealPatches :
          pod.spec = [vol |-> d, init |-> p, mount |-> [c \in Container |-> d],
                      env |-> [c \in Container |-> p]]
    BY <1>7 DEF ShapeInv, Shaped
  <2>2. d = cc.dir
    <3>1. pod.spec.vol = d /\ pod.spec.init.dir = cc.dir
      BY <1>3, <2>1
    <3>2. QED
      BY <1>8, <3>1
  <2>3. QED
    BY <2>1, <2>2
<1>10. ASSUME NEW c \in Container PROVE Boots(c)
  <2>1. pod.spec.env[c] = [dir |-> cc.dir, key |-> cc.key] /\ pod.spec.mount[c] = cc.dir
        /\ pod.spec.vol = cc.dir
    BY <1>3, <1>9
  <2>2. Finds(pod.spec, c) /\ NamedFile(pod.spec, c) = f /\ pod.spec.env[c].key = cc.key
    BY <2>1 DEF Finds, NamedFile
  <2>3. pod.spec.env[c].key = keyOf[pod.image][primer[n].prof][pod.node]
    BY <1>1, <2>2, Zenon
  <2>4. QED
    BY <1>1, <1>6, <2>2, <2>3 DEF Boots, TypeOK, PrimerPod
<1>11. QED
  BY <1>3, <1>6, <1>10 DEF Hopeless

(* When the loops of the operator, of Kubernetes and of the primers have   *)
(* nothing left to do, every pod that waits in its init container or fails *)
(* to boot has one of the six reasons (workload_patch.go:55-181,           *)
(* pod_mutator.go, orchestrator.go:92-125).                                *)
THEOREM NoOtherReason == Spec => []OnlyTheStrandedAreHopeless
<1>1. Init => TypeOK /\ ShapeInv /\ HeldInv /\ ServedInv
  <2>1. ASSUME Init PROVE ServedInv
    BY <2>1, NoPodIsAPod DEF Init, ServedInv
  <2>2. QED
    BY <2>1, InitType, InitShape, InitHeld
<1>2. TypeOK /\ ShapeInv /\ HeldInv /\ ServedInv /\ [Next]_vars
        => (TypeOK /\ ShapeInv /\ HeldInv /\ ServedInv)'
  BY NextType, NextShape, NextHeld, NextServed
<1>3. ASSUME TypeOK, ShapeInv, ServedInv, AtRest, ~Stranded
      PROVE  ~Hopeless
  <2>1. cc.key # NoKey
    <3>1. pod.node \in Node /\ cc.rel \in Release /\ primer[pod.node].prof \in Profile
          /\ keyOf \in [Release -> [Profile -> [Node -> Key]]]
      BY <1>3, Constants DEF TypeOK, Pod, ClassCache, PrimerPod
    <3>2. keyOf[cc.rel][primer[pod.node].prof][pod.node] \in Key
      BY <3>1
    <3>3. QED
      BY <1>3, <3>2, PodPatchAssumption DEF Stranded, PodPatchAssumption
  <2>2. CASE pod.spec.init = Patch(cc.dir, cc.key)
    BY <1>3, <2>1, <2>2, PatchedPodsBoot
  <2>3. CASE pod.spec.init \notin RealPatches
    <3>1. pod.spec = Plain
      <4>1. ASSUME NEW d \in Dir, NEW p \in RealPatches,
                   pod.spec = [vol |-> d, init |-> p, mount |-> [c \in Container |-> d],
                               env |-> [c \in Container |-> p]]
            PROVE  FALSE
        <5>1. pod.spec.init = p
          BY <4>1
        <5>2. QED
          BY <2>3, <5>1
      <4>2. Shaped(pod.spec)
        BY <1>3 DEF ShapeInv
      <4>3. QED
        BY <4>1, <4>2 DEF Shaped
    <3>2. pod.pc # "init"
      BY <1>3, <3>1 DEF ServedInv, Plain
    <3>3. \A c \in Container : Boots(c)
      BY <3>1 DEF Boots, Plain
    <3>4. QED
      BY <3>2, <3>3 DEF Hopeless
  <2>4. CASE pod.spec.init \in RealPatches /\ pod.spec.init # Patch(cc.dir, cc.key)
    <3>1. cc.mode = "Owned" /\ pod.spec = pod.from.tmpl
      BY <1>3, <2>4 DEF Stranded, TypeOK, ClassCache, Modes
    <3>2. pod.from = dep /\ ccSeen = cc
      BY <1>3 DEF AtRest, Due
    <3>3. PatchesWorkload
      BY <2>1, <3>1, <3>2 DEF PatchesWorkload
    <3>4. dep.tmpl.init = SeenPatch
      BY <1>3, <3>3, UnchangedIsPatched DEF AtRest
    <3>5. QED
      BY <2>4, <3>1, <3>2, <3>4 DEF SeenPatch
  <2>5. QED
    BY <2>2, <2>3, <2>4
<1>4. TypeOK /\ ShapeInv /\ ServedInv => OnlyTheStrandedAreHopeless
  BY <1>3 DEF OnlyTheStrandedAreHopeless
<1>5. QED
  BY <1>1, <1>2, <1>4, PTL DEF Spec

=============================================================================
