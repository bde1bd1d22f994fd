------------------------------- MODULE Rollout -------------------------------
(***************************************************************************)
(* A workload over the life of its ClassCache: its release and the         *)
(* ClassCache's are edited, primers are rolled and publish the key of what *)
(* they have, the operator patches the Deployment (mode Owned) or the      *)
(* admission webhook patches each pod as it is created (mode Webhook), and *)
(* the pod waits for its archive on whatever node it lands on and boots    *)
(* from it.                                                                *)
(*                                                                         *)
(* A key is made of a release, the images with their jars and their JVM,   *)
(* of a profile, and of the machine.  The primers' pod template names the  *)
(* release; the profile is in a ConfigMap, which they read once, as they   *)
(* start.                                                                  *)
(*                                                                         *)
(* Abstractions.  How a primer gets its archive, and how the control loop  *)
(* gets its writes through, is Primer's and Reconciler's subject; here the *)
(* bytes arrive and the writes succeed.  Pods do not interact, so one is   *)
(* followed.  A failed wait is begun again by the kubelet, at once.        *)
(***************************************************************************)
EXTENDS Integers, PodPatch

CONSTANTS
  Node, Release, Profile,
  Clusters,       \* what primers may compute: release, profile and node to key
  DefaultDir, FirstRelease, FirstProfile,
  Starts,         \* patch mode, whether the pods have the inject label, and one of Clusters
  Acts,           \* what users do
  MaxEvents       \* how often they do it, calls fail, or processes die

Modes == {"Owned", "Webhook"}
Act == {"release", "profile", "image", "dir", "mode", "pod", "delete"}

(* Another release has another key, of any profile and on any machine.     *)
(* Another profile need not: what is hashed is its name.                   *)
ASSUME RolloutAssumption ==
  /\ Clusters \subseteq [Release -> [Profile -> [Node -> Key]]]
  /\ \A f \in Clusters : \A r, s \in Release, p, q \in Profile, m, n \in Node :
       f[r][p][m] = f[s][q][n] => r = s
  /\ Node # {} /\ DefaultDir \in Dir
  /\ FirstRelease \in Release /\ FirstProfile \in Profile
  /\ Starts \subseteq Modes \X BOOLEAN \X Clusters
  /\ Acts \subseteq Act
  /\ MaxEvents \in Nat

VARIABLES
  keyOf,      \* which of Clusters this is
  labelled,   \* do the pods carry the inject label?
  cc,         \* the ClassCache
  ccSeen,     \* the manager's cache of it: the operator's and the webhook's
  cm,         \* the ConfigMap with the profile
  ds,         \* what the primers' DaemonSet asks for
  dep,        \* the workload's Deployment: its image and its patch
  primer,     \* on each node, the primer pod
  part,       \* on each node, the archive files with a part of their bytes
  whole,      \* on each node, the archive files with all of them
  pod,        \* the pod of the workload
  lost,       \* has a publication been lost?
  events

given == <<keyOf, labelled>>
derived == <<cm, ds, dep>>
objects == <<cc, derived>>
files == <<part, whole>>
vars == <<given, objects, ccSeen, primer, files, pod, lost, events>>

NoPod == [pc |-> "none", node |-> CHOOSE n \in Node : TRUE, image |-> FirstRelease, spec |-> Plain,
             from |-> [image |-> FirstRelease, tmpl |-> Plain]]

Init ==
  /\ \E x \in Starts :
       /\ labelled = x[2] /\ keyOf = x[3]
       /\ cc = [exists |-> TRUE, mode |-> x[1], dir |-> DefaultDir,
                rel |-> FirstRelease, prof |-> FirstProfile, key |-> NoKey]
  /\ ccSeen = cc /\ cm = FirstProfile
  /\ ds = [rel |-> FirstRelease, dir |-> DefaultDir]
  /\ dep = [image |-> FirstRelease, tmpl |-> Plain]
  /\ primer = [n \in Node |-> [rel |-> FirstRelease, prof |-> FirstProfile,
                               dir |-> DefaultDir, pc |-> "boot"]]
  /\ part = [n \in Node |-> {}] /\ whole = [n \in Node |-> {}]
  /\ pod = NoPod
  /\ lost = FALSE /\ events = 0

Event == events < MaxEvents /\ events' = events + 1

Visible(n) == part[n] \union whole[n]
-----------------------------------------------------------------------------
(* The operator: a cache behind the API server, and what it makes of it.   *)

SeeClassCache ==
  /\ ccSeen # cc
  /\ ccSeen' = cc
  /\ UNCHANGED <<given, objects, primer, files, pod, lost, events>>

SeenPatch == Patch(ccSeen.dir, ccSeen.key)

(* The primers' pod template is made afresh of the ClassCache, and has     *)
(* nothing of the profile: that is in a ConfigMap of the same name always. *)
(* The workload's template is patched in mode Owned, once there is a key.  *)
PatchesWorkload == ccSeen.mode = "Owned" /\ ccSeen.key # NoKey

Reconcile ==
  /\ ccSeen.exists
  /\ cm' = ccSeen.prof
  /\ ds' = [rel |-> ccSeen.rel, dir |-> ccSeen.dir]
  /\ dep' = IF PatchesWorkload /\ Changed(dep.tmpl, SeenPatch)
            THEN [dep EXCEPT !.tmpl = ApplyPodPatch(dep.tmpl, SeenPatch)] ELSE dep
  /\ derived' # derived
  /\ UNCHANGED <<given, cc, ccSeen, primer, files, pod, lost, events>>
-----------------------------------------------------------------------------
(* The primer on node n.                                                   *)

PrimerKey(n) == keyOf[primer[n].rel][primer[n].prof][n]
PrimerFile(n) == <<primer[n].dir, PrimerKey(n)>>

PrimerAt(n, from, to) ==
  /\ primer[n].pc = from
  /\ primer' = [primer EXCEPT ![n].pc = to]

HitAnyway(n) ==   \* mutant: the archive is published before it is there
  /\ PrimerAt(n, "boot", "have")
  /\ UNCHANGED <<given, objects, ccSeen, files, pod, lost, events>>

(* Any file that is not empty is a local hit. *)
LocalHit(n) ==
  /\ PrimerFile(n) \in Visible(n)
  /\ PrimerAt(n, "boot", "have")
  /\ UNCHANGED <<given, objects, ccSeen, files, pod, lost, events>>

(* A pull, like a build, writes under the archive's own name: so this is   *)
(* where its first bytes are there.                                        *)
BytesArrive(n) ==
  /\ PrimerFile(n) \notin Visible(n)
  /\ PrimerAt(n, "boot", "write")
  /\ part' = [part EXCEPT ![n] = @ \union {PrimerFile(n)}]
  /\ UNCHANGED <<given, objects, ccSeen, whole, pod, lost, events>>

Written(n) ==
  /\ PrimerAt(n, "write", "have")
  /\ part' = [part EXCEPT ![n] = @ \ {PrimerFile(n)}]
  /\ whole' = [whole EXCEPT ![n] = @ \union {PrimerFile(n)}]
  /\ UNCHANGED <<given, objects, ccSeen, pod, lost, events>>

(* A pull breaks off; what there is of it is removed, and tried again. *)
PullBroken(n) ==
  /\ Event
  /\ PrimerAt(n, "write", "boot")
  /\ part' = [part EXCEPT ![n] = @ \ {PrimerFile(n)}]
  /\ UNCHANGED <<given, objects, ccSeen, whole, pod, lost>>

(* The warm-up JVM is killed while it dumps, and that is not an error. *)
BuildKilled(n) ==
  /\ Event
  /\ PrimerAt(n, "write", "have")
  /\ UNCHANGED <<given, objects, ccSeen, files, pod, lost>>

(* The profile is read once, when the process starts.  The kubelet renews  *)
(* the mounted file, but not at once.                                      *)
LoadProfile(n) == {primer[n].prof, cm}

(* The process dies, or ends with an error, and is restarted in its pod. *)
PrimerCrash(n) ==
  /\ Event
  /\ primer[n].pc # "gone"
  /\ \E p \in LoadProfile(n) :
       primer' = [primer EXCEPT ![n].prof = p, ![n].pc = "boot"]
  /\ primer' # primer
  /\ UNCHANGED <<given, objects, ccSeen, files, pod, lost>>

PublishOnce(n) ==   \* mutant: a key that is there is not replaced
  /\ PrimerAt(n, "have", "serve")
  /\ cc' = IF cc.exists /\ cc.key = NoKey THEN [cc EXCEPT !.key = PrimerKey(n)] ELSE cc
  /\ UNCHANGED <<given, derived, ccSeen, files, pod, lost, events>>

PublishPath(n) ==   \* mutant: the archive's path is published, not its key
  /\ PrimerAt(n, "have", "serve")
  /\ cc' = IF cc.exists THEN [cc EXCEPT !.key = PrimerFile(n)] ELSE cc
  /\ UNCHANGED <<given, derived, ccSeen, files, pod, lost, events>>

(* A merge patch of the status, of a ClassCache that is there. *)
Publish(n) ==
  /\ PrimerAt(n, "have", "serve")
  /\ cc' = IF cc.exists THEN [cc EXCEPT !.key = PrimerKey(n)] ELSE cc
  /\ UNCHANGED <<given, derived, ccSeen, files, pod, lost, events>>

(* If it fails there is a warning, and no other attempt. *)
PublishLost(n) ==
  /\ Event
  /\ PrimerAt(n, "have", "serve")
  /\ lost' = TRUE
  /\ UNCHANGED <<given, objects, ccSeen, files, pod>>

(* The DaemonSet replaces the pod, or goes with its owner.  An archive     *)
(* under way is removed by a pull, and left as it is by a build.           *)
RollPrimer(n) ==
  /\ primer[n].pc # "gone"
  /\ ~cc.exists \/ [rel |-> primer[n].rel, dir |-> primer[n].dir] # ds
  /\ primer' = [primer EXCEPT ![n] = IF cc.exists
                  THEN [rel |-> ds.rel, prof |-> cm, dir |-> ds.dir, pc |-> "boot"]
                  ELSE [primer[n] EXCEPT !.pc = "gone"]]
  /\ part' \in IF primer[n].pc = "write"
               THEN {part, [part EXCEPT ![n] = @ \ {PrimerFile(n)}]} ELSE {part}
  /\ UNCHANGED <<given, objects, ccSeen, whole, pod, lost, events>>
-----------------------------------------------------------------------------
(* The pod.  It is created from the Deployment as it is now, by way of the *)
(* webhook, and lands on any node; and again when the Deployment is rolled *)
(* out.                                                                    *)

MutatesEarly ==   \* mutant: a pod is patched before there is a key
  labelled /\ ccSeen.exists /\ ccSeen.mode = "Webhook"

Mutates == labelled /\ ccSeen.exists /\ ccSeen.mode = "Webhook" /\ ccSeen.key # NoKey

Handle(t) == IF Mutates THEN ApplyPodPatch(t, SeenPatch) ELSE t

Due == pod.pc = "none" \/ pod.from # dep

Create(t) ==
  /\ Due
  /\ \E n \in Node :
       pod' = [pc |-> IF t.init = NoPatch THEN "boot" ELSE "init",
               node |-> n, image |-> dep.image, spec |-> t, from |-> dep]

CreatePod ==
  /\ Create(Handle(dep.tmpl))
  /\ UNCHANGED <<given, objects, ccSeen, primer, files, lost, events>>

(* The webhook cannot be reached, and failurePolicy is Ignore.  (If it     *)
(* answers with an error the pod is refused, and created again: no change.) *)
CreateUnseen ==
  /\ Event /\ labelled
  /\ Create(dep.tmpl)
  /\ UNCHANGED <<given, objects, ccSeen, primer, files, lost>>

PodAt(from, to) ==
  /\ pod.pc = from
  /\ pod' = [pod EXCEPT !.pc = to]
  /\ UNCHANGED <<given, objects, ccSeen, primer, files, lost, events>>

(* The script looks for a file that is not empty. *)
Waited == PodAt("init", "boot") /\ AwaitedFile(pod.spec) \in Visible(pod.node)

(* With -Xshare:on a JVM that cannot map its archive does not start, nor   *)
(* one whose jar is not the archive's.  With which profile the archive was *)
(* made is all the same to it.                                             *)
Boots(c) ==
  LET e == pod.spec.env[c] IN
  \/ e = NoPatch
  \/ /\ Finds(pod.spec, c) /\ NamedFile(pod.spec, c) \in whole[pod.node]
     /\ \E p \in Profile : e.key = keyOf[pod.image][p][pod.node]

JvmStarts == PodAt("boot", "run") /\ \A c \in Container : Boots(c)
JvmFails == PodAt("boot", "crash") /\ \E c \in Container : ~Boots(c)

(* Init containers are not run again. *)
RestartContainer == PodAt("crash", "boot")
-----------------------------------------------------------------------------
(* The users.                                                              *)

Acting(a) == a \in Acts /\ Event

(* One act that leaves no room for another: a bound. *)
ActingAlone(a) == a \in Acts /\ events = 0 /\ MaxEvents > 0 /\ events' = MaxEvents

EditClassCache ==
  /\ cc.exists
  /\ \/ Acting("release") /\ \E r \in Release : cc' = [cc EXCEPT !.rel = r]
     \/ Acting("profile") /\ \E p \in Profile : cc' = [cc EXCEPT !.prof = p]
     \/ ActingAlone("dir") /\ \E d \in Dir : cc' = [cc EXCEPT !.dir = d]
     \/ Acting("mode") /\ \E m \in Modes : cc' = [cc EXCEPT !.mode = m]
     \/ ActingAlone("delete") /\ cc' = [cc EXCEPT !.exists = FALSE]
  /\ cc' # cc
  /\ UNCHANGED <<given, derived, ccSeen, primer, files, pod, lost>>

UpdateImage ==
  /\ Acting("image")
  /\ \E r \in Release \ {dep.image} : dep' = [dep EXCEPT !.image = r]
  /\ UNCHANGED <<given, cc, cm, ds, ccSeen, primer, files, pod, lost>>

DeletePod ==
  /\ Acting("pod") /\ pod.pc # "none"
  /\ pod' = NoPod
  /\ UNCHANGED <<given, objects, ccSeen, primer, files, lost>>
-----------------------------------------------------------------------------
PrimerStep(n) == LocalHit(n) \/ BytesArrive(n) \/ Written(n) \/ Publish(n)
PrimerFails(n) == PullBroken(n) \/ BuildKilled(n) \/ PrimerCrash(n) \/ PublishLost(n)
PodStep == Waited \/ JvmStarts \/ JvmFails \/ RestartContainer

Next ==
  \/ SeeClassCache \/ Reconcile
  \/ \E n \in Node : PrimerStep(n) \/ PrimerFails(n) \/ RollPrimer(n)
  \/ CreatePod \/ CreateUnseen \/ PodStep
  \/ EditClassCache \/ UpdateImage \/ DeletePod

Spec == Init /\ [][Next]_vars

(* The control loops of the operator and of Kubernetes go on, and so do    *)
(* primers and kubelets.  Nobody has to edit anything.                     *)
FairSpec ==
  /\ Spec
  /\ WF_vars(SeeClassCache \/ Reconcile)
  /\ \A n \in Node : WF_vars(PrimerStep(n) \/ RollPrimer(n))
  /\ WF_vars(CreatePod) /\ WF_vars(PodStep)
-----------------------------------------------------------------------------
(* Properties.                                                             *)

ClassCache == [exists : BOOLEAN, mode : Modes, dir : Dir, rel : Release, prof : Profile,
               key : Keys]
DaemonSet == [rel : Release, dir : Dir]
Deployment == [image : Release, tmpl : Templates]
PrimerPod == [rel : Release, prof : Profile, dir : Dir,
              pc : {"boot", "write", "have", "serve", "gone"}]
Pod == [pc : {"none", "init", "boot", "run", "crash"}, node : Node, image : Release,
        spec : Templates, from : Deployment]

TypeOK ==
  /\ keyOf \in Clusters /\ labelled \in BOOLEAN
  /\ cc \in ClassCache /\ ccSeen \in ClassCache
  /\ cm \in Profile /\ ds \in DaemonSet /\ dep \in Deployment
  /\ primer \in [Node -> PrimerPod]
  /\ part \in [Node -> SUBSET (Dir \X Key)] /\ whole \in [Node -> SUBSET (Dir \X Key)]
  /\ pod \in Pod /\ lost \in BOOLEAN
  /\ events \in 0..MaxEvents

(* A template of which the volume still has the directory of a patch before *)
(* spec.archiveDir was edited.                                             *)
Moved(t) == t.vol # t.init.dir
Fresh(t) == t = Plain \/ \E p \in RealPatches : t = ApplyPodPatch(Plain, p)

(* Whatever patches a pod has had, from the operator by way of the         *)
(* template, from the webhook, and in whatever order modes and keys were   *)
(* changed, it comes out as if it had been patched once: all containers    *)
(* boot from the file the init container waits for                         *)
(* (pod_mutator.go:61-62, workload_patch.go:73-79).                        *)
SpecsAreFresh == Moved(pod.spec) \/ Fresh(pod.spec)

(* A file that is being written has a part of its bytes.  One that nobody  *)
(* writes any more, because a build was killed or a primer stopped, is     *)
(* torn, and stays so: whoever finds it takes it for whole.                *)
Writing(n) == IF primer[n].pc = "write" THEN {PrimerFile(n)} ELSE {}
Torn(n) == part[n] \ Writing(n)

(* Of what is published some node has a file that is ready: nobody is told *)
(* to wait for an archive that no primer has, or one has only begun to     *)
(* write (orchestrator.go:92-125).  Ready is either whole or torn: a file  *)
(* that a kill has torn is published like any other, for neither the build *)
(* nor a local hit looks at what is in it (builder.go:124,                 *)
(* archive.go:66-69).                                                      *)
PublishedIsHeld ==
  cc.key # NoKey => \E n \in Node, d \in Dir : <<d, cc.key>> \in whole[n] \union Torn(n)

(* A JVM that fails has been given an archive half-written, of another     *)
(* release, or mounted elsewhere: never one that is as it should be.  So   *)
(* every container boots, if the one file waited for is whole.             *)
OnlyBadArchivesFail ==
  [][pod.pc = "boot" /\ pod'.pc = "crash" =>
       \/ Moved(pod.spec)
       \/ AwaitedFile(pod.spec) \notin whole[pod.node]
       \/ \A p \in Profile : pod.spec.init.key # keyOf[pod.image][p][pod.node]]_vars

(* In the end the ClassCache has a key of its current release and of a     *)
(* profile that the primer on a node has read, whichever primers were late *)
(* with the key of an earlier one.  It need not be the ClassCache's        *)
(* profile: an edit of that alone replaces no primer (profile_cm.go:29-40, *)
(* primer.go:65-178), and the old key stays until they restart for another *)
(* reason.  Nor need it be so if a publication was lost, for none is       *)
(* repeated (orchestrator.go:121-123).                                     *)
CurrentKeyWins ==
  <>[](lost \/ (cc.exists => \E n \in Node : cc.key = keyOf[cc.rel][primer[n].prof][n]))

(* Why a pod may never start:                                              *)
(*  - the ClassCache is gone, and the patch stays in the Deployment;       *)
(*  - its image is not the one the archives are made of;                   *)
(*  - the key is one of another machine, of an earlier release, or of a    *)
(*    profile that the primer on its node has not read;                    *)
(*  - spec.archiveDir was edited under a patched template;                 *)
(*  - a primer that was stopped left a torn file, a hit ever since;        *)
(*  - it was admitted, or its template patched, for what is no longer      *)
(*    asked for, and nothing patches it again: in mode Webhook nothing     *)
(*    does, and in mode Owned the template may be right, so that no        *)
(*    rollout replaces a pod the webhook has patched.                      *)
Stranded ==
  \/ ~cc.exists
  \/ pod.image # cc.rel
  \/ cc.key # keyOf[cc.rel][primer[pod.node].prof][pod.node]
  \/ Moved(pod.spec)
  \/ AwaitedFile(pod.spec) \in Torn(pod.node)
  \/ /\ cc.mode = "Webhook" \/ pod.spec # pod.from.tmpl
     /\ pod.spec.init \in RealPatches \ {Patch(cc.dir, cc.key)}

(* There is no other reason: otherwise the pod starts, and stays.          *)
PodsStart == <>[](pod.pc = "run") \/ <>[]Stranded

(* The caches are current, the workload is patched, the pod is of its      *)
(* Deployment, and every primer serves the ClassCache's release.           *)
AtRest ==
  /\ cc.exists /\ ccSeen = cc /\ ~Due
  /\ PatchesWorkload => ~Changed(dep.tmpl, SeenPatch)
  /\ \A n \in Node :
       primer[n].rel = cc.rel /\ primer[n].dir = cc.dir /\ primer[n].pc = "serve"

(* What PodsStart comes to, without fairness: when nobody has anything     *)
(* left to do for it, a pod does not wait for a file that is not there,    *)
(* nor do its JVMs fail, unless for one of the reasons above               *)
(* (workload_patch.go:55-181, pod_mutator.go).                             *)
Hopeless ==
  \/ pod.pc = "init" /\ AwaitedFile(pod.spec) \notin Visible(pod.node)
  \/ pod.pc \in {"boot", "crash"} /\ \E c \in Container : ~Boots(c)
OnlyTheStrandedAreHopeless == AtRest /\ Hopeless => Stranded

=============================================================================
