---------------------------- MODULE PodPatchProofs ----------------------------
(***************************************************************************)
(* What the pod patch does to any template, for any number of containers.  *)
(***************************************************************************)
EXTENDS PodPatch, TLAPS

USE PodPatchAssumption DEF PodPatchAssumption

LEMMA Parts ==
  ASSUME NEW t \in Templates, NEW p \in Patches
  PROVE  ApplyPodPatch(t, p) =
           [vol   |-> IF t.vol = NoDir THEN p.dir ELSE t.vol,
            init  |-> p,
            mount |-> [c \in Container |-> AddMount(t.mount[c], p)],
            env   |-> [c \in Container |-> p]]
<1>1. t = [vol |-> t.vol, init |-> t.init, mount |-> t.mount, env |-> t.env]
  BY DEF Templates
<1> DEFINE v == IF t.vol = NoDir THEN p.dir ELSE t.vol
           t1 == [vol |-> v, init |-> t.init, mount |-> t.mount, env |-> t.env]
           t2 == [vol |-> v, init |-> p, mount |-> t.mount, env |-> t.env]
<1>2. EnsureVolume(t, p) = t1
  BY <1>1 DEF EnsureVolume
<1>3. EnsureInitContainer(t1, p) = t2
  BY DEF EnsureInitContainer
<1>4. EnsureWorkloadMountAndEnv(t2, p) =
        [vol |-> v, init |-> p,
         mount |-> [c \in Container |-> AddMount(t.mount[c], p)],
         env |-> [c \in Container |-> p]]
  BY DEF EnsureWorkloadMountAndEnv
<1>5. QED
  BY <1>2, <1>3, <1>4 DEF ApplyPodPatch

LEMMA PlainIsATemplate == Plain \in Templates
  BY DEF Plain, Templates, NoPatch, Patch, Patches, Dirs, Keys

LEMMA PatchedIsATemplate ==
  ASSUME NEW t \in Templates, NEW p \in Patches
  PROVE  ApplyPodPatch(t, p) \in Templates
<1>1. \A c \in Container : AddMount(t.mount[c], p) \in Dirs
  BY DEF AddMount, Templates, Patches
<1>2. [c \in Container |-> AddMount(t.mount[c], p)] \in [Container -> Dirs]
  BY <1>1
<1>3. t.vol \in Dirs /\ p.dir \in Dirs
  BY DEF Templates, Patches
<1>4. QED
  BY <1>2, <1>3, Parts DEF Templates

(* The patch is idempotent (workload_patch.go:73-79), so a template that   *)
(* has it is left alone, and the loop has nothing to write.                *)
THEOREM Idempotent ==
  ASSUME NEW t \in Templates, NEW p \in RealPatches
  PROVE  /\ ApplyPodPatch(ApplyPodPatch(t, p), p) = ApplyPodPatch(t, p)
         /\ ~Changed(ApplyPodPatch(t, p), p)
<1> DEFINE u == ApplyPodPatch(t, p)
<1>1. p \in Patches /\ p.dir # NoDir
  BY DEF RealPatches, Patches, Dirs, Keys
<1>2. u \in Templates
  BY <1>1, PatchedIsATemplate
<1>3. /\ u.vol = IF t.vol = NoDir THEN p.dir ELSE t.vol
      /\ u.init = p
      /\ u.mount = [c \in Container |-> AddMount(t.mount[c], p)]
      /\ u.env = [c \in Container |-> p]
  BY <1>1, Parts
<1>4. u.vol # NoDir /\ \A c \in Container : u.mount[c] # NoDir
  BY <1>1, <1>3 DEF AddMount
<1>5. ~Changed(u, p)
  BY <1>3, <1>4 DEF Changed
<1>6. u = [vol |-> u.vol, init |-> u.init, mount |-> u.mount, env |-> u.env]
  BY <1>2 DEF Templates
<1>7. [c \in Container |-> AddMount(u.mount[c], p)] = u.mount
  BY <1>3, <1>4 DEF AddMount
<1>8. ApplyPodPatch(u, p) = [vol |-> u.vol, init |-> p, mount |-> u.mount,
                             env |-> [c \in Container |-> p]]
  BY <1>1, <1>2, <1>4, <1>7, Parts
<1>9. QED
  BY <1>3, <1>5, <1>6, <1>8

(* The result says truthfully whether the template was changed, so no      *)
(* needed write is skipped and no write is a no-op                         *)
(* (workload_patch.go:59-61).                                              *)
THEOREM ChangedIsTruthful ==
  ASSUME NEW t \in Templates, NEW p \in RealPatches
  PROVE  Changed(t, p) <=> ApplyPodPatch(t, p) # t
<1>1. p \in Patches /\ p.dir # NoDir
  BY DEF RealPatches, Patches, Dirs, Keys
<1>2. t = [vol |-> t.vol, init |-> t.init, mount |-> t.mount, env |-> t.env]
  BY DEF Templates
<1>3. CASE ~Changed(t, p)
  <2>1. t.vol # NoDir /\ t.init = p
    BY <1>3 DEF Changed
  <2>2. [c \in Container |-> AddMount(t.mount[c], p)] = t.mount
    BY <1>3 DEF Changed, AddMount, Templates
  <2>3. [c \in Container |-> p] = t.env
    BY <1>3 DEF Changed, Templates
  <2>4. QED
    BY <1>1, <1>2, <1>3, <2>1, <2>2, <2>3, Parts
<1>4. CASE Changed(t, p)
  BY <1>4, Idempotent
<1>5. QED
  BY <1>3, <1>4

(* After any number of patches for one directory the template is what one  *)
(* patch of a plain one makes: a template patched by the operator and pods *)
(* patched again by the webhook come out the same                          *)
(* (pod_mutator.go:61-62).                                                 *)
THEOREM LastPatchWins ==
  ASSUME NEW p \in RealPatches, NEW q \in RealPatches, p.dir = q.dir
  PROVE  ApplyPodPatch(ApplyPodPatch(Plain, p), q) = ApplyPodPatch(Plain, q)
<1> DEFINE u == ApplyPodPatch(Plain, p)
<1>1. p \in Patches /\ q \in Patches /\ p.dir # NoDir
  BY DEF RealPatches, Patches, Dirs, Keys
<1>2. u \in Templates
  BY <1>1, PlainIsATemplate, PatchedIsATemplate
<1>3. u.vol = p.dir /\ \A c \in Container : u.mount[c] = p.dir
  BY <1>1, PlainIsATemplate, Parts DEF Plain, AddMount
<1>4. [c \in Container |-> AddMount(u.mount[c], q)] = [c \in Container |-> q.dir]
  BY <1>1, <1>3 DEF AddMount
<1>5. ApplyPodPatch(u, q) = [vol |-> q.dir, init |-> q, mount |-> [c \in Container |-> q.dir],
                             env |-> [c \in Container |-> q]]
  BY <1>1, <1>2, <1>3, <1>4, Parts
<1>6. ApplyPodPatch(Plain, q) = [vol |-> q.dir, init |-> q, mount |-> [c \in Container |-> q.dir],
                                 env |-> [c \in Container |-> q]]
  BY <1>1, PlainIsATemplate, Parts DEF Plain, AddMount
<1>7. QED
  BY <1>5, <1>6

(* In such a template every container boots from the very file its init    *)
(* container waits for.                                                    *)
THEOREM FreshIsConsistent ==
  ASSUME NEW p \in RealPatches
  PROVE  Consistent(ApplyPodPatch(Plain, p)) /\ AwaitedFile(ApplyPodPatch(Plain, p)) = <<p.dir, p.key>>
<1>1. p \in Patches
  BY DEF RealPatches, Patches, Dirs, Keys
<1>2. QED
  BY <1>1, PlainIsATemplate, Parts DEF Plain, AddMount, Consistent, Finds, NamedFile, AwaitedFile

(* What any number of patches, for any directories, makes of a plain       *)
(* template: volume and mounts of the first, the rest of the last.         *)
Shaped(t) ==
  \/ t = Plain
  \/ \E d \in Dir, p \in RealPatches :
       t = [vol |-> d, init |-> p, mount |-> [c \in Container |-> d],
            env |-> [c \in Container |-> p]]

LEMMA ShapedIsATemplate ==
  ASSUME NEW t, Shaped(t)
  PROVE  t \in Templates
<1>1. CASE t = Plain
  BY <1>1, PlainIsATemplate
<1>2. ASSUME NEW d \in Dir, NEW p \in RealPatches,
             t = [vol |-> d, init |-> p, mount |-> [c \in Container |-> d],
                  env |-> [c \in Container |-> p]]
      PROVE  t \in Templates
  <2>1. d \in Dirs /\ p \in Patches
    BY <1>2 DEF RealPatches, Patches, Dirs, Keys
  <2>2. [c \in Container |-> d] \in [Container -> Dirs] /\ [c \in Container |-> p] \in [Container -> Patches]
    BY <2>1
  <2>3. QED
    BY <1>2, <2>1, <2>2 DEF Templates
<1>3. QED
  BY <1>1, <1>2 DEF Shaped

LEMMA PatchKeepsShape ==
  ASSUME NEW t, Shaped(t), NEW q \in RealPatches
  PROVE  Shaped(ApplyPodPatch(t, q))
<1>1. q \in Patches /\ q.dir \in Dir
  BY DEF RealPatches, Patches, Dirs, Keys
<1>2. t \in Templates
  BY ShapedIsATemplate
<1>3. ApplyPodPatch(t, q) =
        [vol   |-> IF t.vol = NoDir THEN q.dir ELSE t.vol,
         init  |-> q,
         mount |-> [c \in Container |-> AddMount(t.mount[c], q)],
         env   |-> [c \in Container |-> q]]
  BY <1>1, <1>2, Parts
<1>4. CASE t = Plain
  <2>1. t.vol = NoDir /\ \A c \in Container : t.mount[c] = NoDir
    BY <1>4 DEF Plain
  <2>2. [c \in Container |-> AddMount(t.mount[c], q)] = [c \in Container |-> q.dir]
    BY <2>1 DEF AddMount
  <2>3. QED
    BY <1>1, <1>3, <2>1, <2>2 DEF Shaped
<1>5. ASSUME NEW d \in Dir, NEW p \in RealPatches,
             t = [vol |-> d, init |-> p, mount |-> [c \in Container |-> d],
                  env |-> [c \in Container |-> p]]
      PROVE  Shaped(ApplyPodPatch(t, q))
  <2>1. t.vol = d /\ d # NoDir /\ \A c \in Container : t.mount[c] = d
    BY <1>5
  <2>2. [c \in Container |-> AddMount(t.mount[c], q)] = [c \in Container |-> d]
    BY <2>1 DEF AddMount
  <2>3. QED
    BY <1>3, <2>1, <2>2 DEF Shaped
<1>6. QED
  BY <1>4, <1>5 DEF Shaped

(* If volume and init container still agree, it is as after one patch. *)
LEMMA ShapedIsFresh ==
  ASSUME NEW t, Shaped(t), t.vol = t.init.dir
  PROVE  \/ t = Plain
         \/ Consistent(t) /\ \E p \in RealPatches : t = ApplyPodPatch(Plain, p)
<1> SUFFICES ASSUME NEW d \in Dir, NEW p \in RealPatches,
                    t = [vol |-> d, init |-> p, mount |-> [c \in Container |-> d],
                         env |-> [c \in Container |-> p]]
             PROVE  Consistent(t) /\ t = ApplyPodPatch(Plain, p)
  BY DEF Shaped
<1>1. d = p.dir /\ p \in Patches
  BY DEF RealPatches, Patches, Dirs, Keys
<1>2. ApplyPodPatch(Plain, p) = [vol |-> p.dir, init |-> p, mount |-> [c \in Container |-> p.dir],
                                 env |-> [c \in Container |-> p]]
  BY <1>1, PlainIsATemplate, Parts DEF Plain, AddMount
<1>3. QED
  BY <1>1, <1>2, FreshIsConsistent

=============================================================================
