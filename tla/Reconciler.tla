------------------------------ MODULE Reconciler ------------------------------
(***************************************************************************)
(* The operator's control loop for one ClassCache: it reads the object and *)
(* the user's Deployment from the informer caches of the manager's client, *)
(* ensures the Valkey, RBAC, profile and primer objects, patches the       *)
(* Deployment once the primers have published an archive key, and writes   *)
(* the status.  The primers merge-patch the key into the same status, the  *)
(* user edits both objects, and every Update is optimistic: it fails if    *)
(* the resource version it was read with is no longer the current one.     *)
(*                                                                         *)
(* Abstractions.  A pod template is what the patch adds to it (PodPatch).   *)
(* The replicas' readiness is one bit.  A cache jumps to the current       *)
(* version of an object at some later time (versions in between are        *)
(* coalesced).  Each sub-reconciler that ensures derived objects is one    *)
(* step, and what it ensures is one object.                                *)
(***************************************************************************)
EXTENDS Integers, PodPatch

CONSTANTS
  DefaultDir,     \* the default of spec.archiveDir
  Acts,           \* what the surroundings may do
  MaxActs,        \* how often the surroundings act
  MaxFaults       \* how many API calls fail or operator processes die

Act == {"publish", "primers", "pods", "create", "revert", "dir", "mode", "delete"}

ASSUME ReconcilerAssumption ==
  /\ DefaultDir \in Dir
  /\ Acts \subseteq Act
  /\ MaxActs \in Nat /\ MaxFaults \in Nat

VARIABLES
  (* API server *)
  cc,        \* the ClassCache
  dep,       \* the user's Deployment
  ds,        \* the primer DaemonSet: absent, pending or ready
  made,      \* the other owned objects there are
  (* operator *)
  ccSeen, depSeen, dsSeen,   \* the informer caches
  queued,    \* is the request in the work queue?
  step,      \* where Reconcile is
  mine,      \* its copy of the ClassCache
  (* bookkeeping *)
  past,      \* patches asked for before the current one
  touched,   \* has the workload been created late, or reverted?
  acts, faults

api == <<cc, dep, ds, made>>
seen == <<ccSeen, depSeen, dsSeen>>
history == <<past, touched>>
vars == <<api, seen, queued, step, mine, history, acts, faults>>

Objects == {"valkey", "rbac", "profile"}
Steps == {"idle", "primer", "workload", "status", "failed"} \union Objects
Modes == {"Owned", "Webhook"}

(* Between two runs there is no copy. *)
Nothing == [exists |-> FALSE, dir |-> NoDir, mode |-> "Owned", key |-> NoKey,
            phase |-> "", rv |-> 0]

Init ==
  /\ cc = [exists |-> TRUE, dir |-> DefaultDir, mode |-> "Owned", key |-> NoKey,
            phase |-> "", rv |-> 1]
  /\ dep \in {[exists |-> e, tmpl |-> Plain, ready |-> FALSE, rv |-> 1] : e \in BOOLEAN}
  /\ ds = "absent" /\ made = {}
  /\ ccSeen = cc /\ depSeen = dep /\ dsSeen = ds
  /\ queued = TRUE /\ step = "idle" /\ mine = Nothing
  /\ past = {} /\ touched = FALSE
  /\ acts = 0 /\ faults = 0

Fault == faults < MaxFaults /\ faults' = faults + 1
Goto(s) == step' = s
Return == step' = "idle" /\ mine' = Nothing

-----------------------------------------------------------------------------
(* The caches.  A change of the ClassCache or of an owned object enqueues  *)
(* the request; the Deployment has no owner reference to the ClassCache.   *)

SeeSpecOnly ==   \* mutant: a predicate lets only changes of the spec through
  /\ ccSeen # cc
  /\ ccSeen' = cc
  /\ queued' = (queued \/ ccSeen.dir # cc.dir \/ ccSeen.mode # cc.mode)
  /\ UNCHANGED <<api, depSeen, dsSeen, step, mine, history, acts, faults>>

SeeClassCache ==
  /\ ccSeen # cc
  /\ ccSeen' = cc
  /\ queued' = TRUE
  /\ UNCHANGED <<api, depSeen, dsSeen, step, mine, history, acts, faults>>

SeeDaemonSet ==
  /\ dsSeen # ds
  /\ dsSeen' = ds
  /\ queued' = TRUE
  /\ UNCHANGED <<api, ccSeen, depSeen, step, mine, history, acts, faults>>

SeeDeployment ==
  /\ depSeen # dep
  /\ depSeen' = dep
  /\ UNCHANGED <<api, ccSeen, dsSeen, queued, step, mine, history, acts, faults>>
-----------------------------------------------------------------------------
(* Reconcile.                                                              *)

(* Get; a ClassCache that is gone needs nothing. *)
Begin ==
  /\ step = "idle" /\ queued
  /\ queued' = FALSE
  /\ IF ccSeen.exists THEN mine' = ccSeen /\ Goto("valkey") ELSE Return
  /\ UNCHANGED <<api, seen, history, acts, faults>>

PrimerFirst ==   \* mutant: the primers before their RBAC and their profile
  [valkey |-> "primer", primer |-> "rbac", rbac |-> "profile", profile |-> "workload"]

(* The order of the sub-reconcilers. *)
Following ==
  [valkey |-> "rbac", rbac |-> "profile", profile |-> "primer", primer |-> "workload"]

(* Creates or updates an object, owned by the ClassCache: if that is gone  *)
(* the garbage collector takes the object as well.                         *)
Upsert(o) ==
  /\ made' = IF cc.exists THEN made \union {o} ELSE made
  /\ UNCHANGED <<cc, dep, ds>>

Ensured(o) ==
  /\ step = o /\ Upsert(o) /\ Goto(Following[o])
  /\ UNCHANGED <<seen, queued, mine, history, acts, faults>>

(* The StatefulSet and its Service, if spec.valkey asks for them. *)
EnsureValkey == Ensured("valkey")

(* The primers' ServiceAccount, Role and RoleBinding. *)
EnsureRBAC == Ensured("rbac")

(* The ConfigMap with the profile, inline or from the catalog. *)
EnsureProfile == Ensured("profile")

(* The DaemonSet, whose pods are started by its controller. *)
UpsertPrimer ==
  /\ ds' = IF cc.exists /\ ds = "absent" THEN "pending" ELSE ds
  /\ UNCHANGED <<cc, dep, made>>

EnsurePrimer ==
  /\ step = "primer" /\ UpsertPrimer /\ Goto(Following["primer"])
  /\ UNCHANGED <<seen, queued, mine, history, acts, faults>>

(* A call fails, or an answer is lost; the rest is not attempted. *)
EnsureFails ==
  /\ Fault
  /\ \/ \E o \in Objects : step = o /\ (Upsert(o) \/ UNCHANGED api)
     \/ step = "primer" /\ (UpsertPrimer \/ UNCHANGED api)
  /\ Goto("failed")
  /\ UNCHANGED <<seen, queued, mine, history, acts>>

Asked == Patch(mine.dir, mine.key)

(* Webhook mode, no key yet, no workload yet, or nothing to change. *)
NothingToPatch ==
  \/ mine.mode # "Owned" \/ mine.key = NoKey
  \/ ~depSeen.exists \/ ~Changed(depSeen.tmpl, Asked)

SkipWorkload ==
  /\ step = "workload" /\ NothingToPatch
  /\ Goto("status")
  /\ UNCHANGED <<api, seen, queued, mine, history, acts, faults>>

PatchWorkload ==
  /\ step = "workload" /\ ~NothingToPatch
  /\ depSeen.rv = dep.rv
  /\ dep' = [dep EXCEPT !.tmpl = ApplyPodPatch(depSeen.tmpl, Asked), !.rv = @ + 1]
  /\ Goto("status")
  /\ UNCHANGED <<cc, ds, made, seen, queued, mine, history, acts, faults>>

ConflictIgnored ==   \* mutant: a conflict on the workload is not an error
  /\ step = "workload" /\ ~NothingToPatch
  /\ depSeen.rv # dep.rv
  /\ Goto("status")
  /\ UNCHANGED <<api, seen, queued, mine, history, acts, faults>>

WorkloadFails ==
  /\ step = "workload" /\ ~NothingToPatch
  /\ \/ depSeen.rv # dep.rv /\ UNCHANGED faults
     \/ depSeen.rv = dep.rv /\ Fault
  /\ Goto("failed")
  /\ UNCHANGED <<api, seen, queued, mine, history, acts>>

(* observePhase reads the caches, too: not what was written a moment ago. *)
ObservedPhase ==
  IF dsSeen # "ready" THEN "Pending"
  ELSE IF mine.mode = "Owned" /\ depSeen.exists /\ depSeen.tmpl.init # NoPatch
  THEN IF depSeen.ready THEN "Ready" ELSE "WorkloadPatched"
  ELSE "PrimerReady"

(* Status().Update writes the whole status as it was read, the archive key *)
(* included, if nobody has written since; an update that changes nothing   *)
(* leaves the resource version.                                            *)
Write(phase) ==
  cc' = IF cc.phase = phase /\ cc.key = mine.key THEN cc
        ELSE [cc EXCEPT !.phase = phase, !.key = mine.key, !.rv = @ + 1]

Current == cc.exists /\ mine.rv = cc.rv

UpdateAnyway ==   \* mutant: the resource version is not checked
  /\ step = "status" /\ cc.exists
  /\ Write(ObservedPhase)
  /\ Return
  /\ UNCHANGED <<dep, ds, made, seen, queued, history, acts, faults>>

UpdateStatus ==
  /\ step = "status" /\ Current
  /\ Write(ObservedPhase)
  /\ Return
  /\ UNCHANGED <<dep, ds, made, seen, queued, history, acts, faults>>

RetryStale ==   \* mutant: a conflict is retried with the same object
  /\ step = "status" /\ ~Current
  /\ UNCHANGED vars

(* An error is returned, so the request is queued again. *)
UpdateFails ==
  /\ step = "status"
  /\ \/ ~Current /\ UNCHANGED faults
     \/ Current /\ Fault
  /\ Return /\ queued' = TRUE
  /\ UNCHANGED <<api, seen, history, acts>>

(* The status is written if it can be. *)
TryWriteFailed ==
  \/ Current /\ Write("Failed") /\ UNCHANGED faults
  \/ ~Current /\ UNCHANGED <<cc, faults>>
  \/ Current /\ Fault /\ UNCHANGED cc

SwallowError ==   \* mutant: setFailed returns no error
  /\ step = "failed"
  /\ TryWriteFailed
  /\ Return
  /\ UNCHANGED <<dep, ds, made, seen, queued, history, acts>>

(* The error is returned whether the status could be written or not. *)
SetFailed ==
  /\ step = "failed"
  /\ TryWriteFailed
  /\ Return /\ queued' = TRUE
  /\ UNCHANGED <<dep, ds, made, seen, history, acts>>

(* The process dies; the next one lists everything afresh. *)
OperatorCrash ==
  /\ Fault
  /\ Return /\ queued' = TRUE
  /\ ccSeen' = cc /\ depSeen' = dep /\ dsSeen' = ds
  /\ UNCHANGED <<api, history, acts>>
-----------------------------------------------------------------------------
(* The surroundings.                                                       *)

Acting(a) == a \in Acts /\ acts < MaxActs /\ acts' = acts + 1

(* The patch asked for so far is a past one. *)
Supersede == past' = past \union {Patch(cc.dir, cc.key)}

(* A primer's merge patch: no resource version.  Primers of different      *)
(* architectures, or of a new image, publish different keys.               *)
PublishArchiveKey(k) ==
  /\ Acting("publish") /\ cc.exists /\ ds # "absent" /\ "rbac" \in made
  /\ cc.key # k
  /\ cc' = [cc EXCEPT !.key = k, !.rv = @ + 1]
  /\ Supersede
  /\ UNCHANGED <<dep, ds, made, seen, queued, step, mine, touched, faults>>

PrimersChange ==
  /\ Acting("primers") /\ ds # "absent"
  /\ ds' = IF ds = "ready" THEN "pending" ELSE "ready"
  /\ UNCHANGED <<cc, dep, made, seen, queued, step, mine, history, faults>>

PodsChange ==
  /\ Acting("pods") /\ dep.exists
  /\ dep' = [dep EXCEPT !.ready = ~@, !.rv = @ + 1]
  /\ UNCHANGED <<cc, ds, made, seen, queued, step, mine, history, faults>>

(* The workload is created, or its original manifest is applied again. *)
WorkloadApplied ==
  /\ \/ Acting("create") /\ ~dep.exists
     \/ Acting("revert") /\ dep.exists /\ dep.tmpl # Plain
  /\ dep' = [dep EXCEPT !.exists = TRUE, !.tmpl = Plain, !.rv = @ + 1]
  /\ touched' = TRUE
  /\ UNCHANGED <<cc, ds, made, seen, queued, step, mine, past, faults>>

EditArchiveDir ==
  /\ Acting("dir") /\ cc.exists
  /\ \E d \in Dir \ {cc.dir} : cc' = [cc EXCEPT !.dir = d, !.rv = @ + 1]
  /\ Supersede
  /\ UNCHANGED <<dep, ds, made, seen, queued, step, mine, touched, faults>>

EditPatchMode ==
  /\ Acting("mode") /\ cc.exists
  /\ \E m \in Modes \ {cc.mode} : cc' = [cc EXCEPT !.mode = m, !.rv = @ + 1]
  /\ UNCHANGED <<dep, ds, made, seen, queued, step, mine, history, faults>>

(* Owner references take the derived objects along; the workload stays. *)
DeleteClassCache ==
  /\ Acting("delete") /\ cc.exists
  /\ cc' = [cc EXCEPT !.exists = FALSE, !.rv = @ + 1]
  /\ ds' = "absent" /\ made' = {}
  /\ UNCHANGED <<dep, seen, queued, step, mine, history, faults>>
-----------------------------------------------------------------------------
Reconcile ==
  \/ Begin
  \/ EnsureValkey \/ EnsureRBAC \/ EnsureProfile \/ EnsurePrimer \/ EnsureFails
  \/ SkipWorkload \/ PatchWorkload \/ WorkloadFails
  \/ UpdateStatus \/ UpdateFails \/ SetFailed

Surroundings ==
  \/ \E k \in Key : PublishArchiveKey(k)
  \/ PrimersChange \/ PodsChange \/ WorkloadApplied
  \/ EditArchiveDir \/ EditPatchMode \/ DeleteClassCache

Next ==
  \/ SeeClassCache \/ SeeDaemonSet \/ SeeDeployment
  \/ Reconcile \/ OperatorCrash
  \/ Surroundings

Spec == Init /\ [][Next]_vars

(* Watches deliver, and the worker takes what is queued.  Nobody has to do *)
(* anything to the objects, and nothing has to fail.                       *)
FairSpec ==
  /\ Spec
  /\ WF_vars(SeeClassCache) /\ WF_vars(SeeDaemonSet) /\ WF_vars(SeeDeployment)
  /\ WF_vars(Reconcile)

-----------------------------------------------------------------------------
(* Properties.                                                             *)

Phases == {"", "Pending", "PrimerReady", "WorkloadPatched", "Ready", "Failed"}
ClassCache == [exists : BOOLEAN, dir : Dirs, mode : Modes, key : Keys,
               phase : Phases, rv : Nat]
Deployment == [exists : BOOLEAN, ready : BOOLEAN, rv : Nat, tmpl : Templates]
DaemonSet == {"absent", "pending", "ready"}

(* Types; and the primer pods never run without the objects they need: a   *)
(* failure half-way leaves a prefix, and an ensured object stays.          *)
TypeOK ==
  /\ cc \in ClassCache /\ ccSeen \in ClassCache /\ mine \in ClassCache
  /\ dep \in Deployment /\ depSeen \in Deployment
  /\ ds \in DaemonSet /\ dsSeen \in DaemonSet
  /\ made \subseteq Objects
  /\ ds # "absent" => made = Objects
  /\ queued \in BOOLEAN /\ step \in Steps
  /\ past \subseteq Patches /\ touched \in BOOLEAN
  /\ acts \in 0..MaxActs /\ faults \in 0..MaxFaults

(* The operator never overwrites the key a primer has published, although  *)
(* it writes the whole status back from a copy that may be old             *)
(* (classcache_controller.go:86-89).                                       *)
(* It follows from this: a copy with the current number is the current     *)
(* object.                                                                 *)
Behind(old, new) == old.rv < new.rv \/ old = new
CopiesAreOld == Behind(ccSeen, cc) /\ (step # "idle" => Behind(mine, cc))
KeyIsThePrimers == [][step' # step => cc'.key = cc.key]_vars

(* Nothing queued, nothing running, nothing under way to the caches. *)
Settled ==
  step = "idle" /\ ~queued /\ ccSeen = cc /\ depSeen = dep /\ dsSeen = ds

(* Once things have settled, the workload waits for and maps the archive   *)
(* of the current key: no publication, no edit and no conflict is lost.    *)
(* It may miss only what the operator is not told of: a workload created   *)
(* or reverted since, and a patch that was asked for, superseded and asked *)
(* for again while the cache still showed the first one.                   *)
SettledPatched ==
  LET want == Patch(cc.dir, cc.key) IN
  Settled /\ cc.exists /\ cc.mode = "Owned" /\ cc.key # NoKey /\ ~touched /\ dep.exists
    => want \in past \/ (dep.tmpl.init = want /\ \A c \in Container : dep.tmpl.env[c] = want)

(* Failed is never a final phase: what failed is tried again, and the next *)
(* success overwrites it.                                                  *)
SettledNotFailed == Settled /\ cc.exists => cc.phase \notin {"", "Failed"}

(* The loop comes to rest: its own writes to the status, to the workload   *)
(* and to the owned objects do not keep waking it.                         *)
ComesToRest == <>[]Settled
-----------------------------------------------------------------------------
(* What the documentation says, and the code does not do.                  *)

(* controllers/workload_patch.go:45-46, of a ClassCache declared before    *)
(* its workload: "we'll patch it the next time the workload exists".       *)
PatchedWhenItExists ==
  Settled /\ cc.exists /\ cc.mode = "Owned" /\ cc.key # NoKey /\ dep.exists
    => dep.tmpl.init # NoPatch

(* controllers/workload_patch.go:23-24, of what the operator adds to a pod *)
(* template: it is there "so that the workload boots from a shared         *)
(* archive".                                                               *)
BootsFromShared ==
  Settled /\ cc.exists /\ dep.tmpl.init # NoPatch => Consistent(dep.tmpl)

=============================================================================
