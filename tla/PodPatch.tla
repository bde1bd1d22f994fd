------------------------------- MODULE PodPatch -------------------------------
(***************************************************************************)
(* The patch of a pod template, shared by the operator's control loop and  *)
(* the admission webhook: a hostPath volume, an init container that waits  *)
(* for the archive, and in every container a mount of the volume and the   *)
(* JVM options that name the archive.  A path is a directory and a key.    *)
(***************************************************************************)
CONSTANTS
  Key, NoKey,     \* archive keys; "" in the status
  Dir, NoDir,     \* values of spec.archiveDir; nothing there
  Container       \* the containers of the workload's pod template

ASSUME PodPatchAssumption == NoKey \notin Key /\ NoDir \notin Dir

Keys == Key \union {NoKey}
Dirs == Dir \union {NoDir}

(* What a patch asks for. *)
Patch(d, k) == [dir |-> d, key |-> k]
NoPatch == Patch(NoDir, NoKey)
Patches == [dir : Dirs, key : Keys]
RealPatches == [dir : Dir, key : Key]

(* What a template has of it: the volume's host path, the directory and    *)
(* key of the init container's script, and each container's mount path and *)
(* options.                                                                *)
Templates == [vol : Dirs, init : Patches,
              mount : [Container -> Dirs], env : [Container -> Patches]]
Plain == [vol |-> NoDir, init |-> NoPatch,
          mount |-> [c \in Container |-> NoDir], env |-> [c \in Container |-> NoPatch]]

-----------------------------------------------------------------------------
(* The volume is left alone if it is there. *)
EnsureVolume(t, p) == IF t.vol = NoDir THEN [t EXCEPT !.vol = p.dir] ELSE t

KeepInitContainer(t, p) ==   \* mutant: an init container that is there stays
  IF t.init = NoPatch THEN [t EXCEPT !.init = p] ELSE t

(* The script names the path, so other commands mean another patch.  The   *)
(* container is put in front, or replaced as a whole.                      *)
EnsureInitContainer(t, p) == [t EXCEPT !.init = p]

(* The mount is left alone if it is there; the options are set. *)
AddMount(m, p) == IF m = NoDir THEN p.dir ELSE m

KeepEnv(t, p) ==   \* mutant: options that are there are left intact
  [vol |-> t.vol, init |-> t.init,
   mount |-> [c \in Container |-> AddMount(t.mount[c], p)],
   env |-> [c \in Container |-> IF t.env[c] = NoPatch THEN p ELSE t.env[c]]]

EnsureWorkloadMountAndEnv(t, p) ==
  [vol |-> t.vol, init |-> t.init,
   mount |-> [c \in Container |-> AddMount(t.mount[c], p)],
   env |-> [c \in Container |-> p]]

ApplyPodPatch(t, p) ==
  EnsureWorkloadMountAndEnv(EnsureInitContainer(EnsureVolume(t, p), p), p)

(* What it returns: has one of its parts changed something? *)
Changed(t, p) ==
  \/ t.vol = NoDir
  \/ t.init # p
  \/ \E c \in Container : t.mount[c] = NoDir \/ t.env[c] # p

-----------------------------------------------------------------------------
(* What a patched template means on a node.                                *)

(* The file on the host that the init container looks for: it mounts the   *)
(* volume at the directory its own script names.                           *)
AwaitedFile(t) == <<t.vol, t.init.key>>

(* A container finds the file its options name if the volume is mounted    *)
(* where they say.                                                         *)
Finds(t, c) == t.mount[c] = t.env[c].dir
NamedFile(t, c) == <<t.vol, t.env[c].key>>

(* Every container boots from the very file the init container waits for. *)
Consistent(t) ==
  \A c \in Container : Finds(t, c) /\ NamedFile(t, c) = AwaitedFile(t)

=============================================================================
