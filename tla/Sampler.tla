------------------------------- MODULE Sampler -------------------------------
(***************************************************************************)
(* The memory report of `classcache stats` and of the desktop application. *)
(* Both list pods, collect their nodes, and read the smaps of every JVM of *)
(* a node with docker exec if that reaches the node (kind), or else of one *)
(* pod after the other with kubectl exec; meanwhile pods and JVMs come and *)
(* go, and every call may fail.                                            *)
(*                                                                         *)
(* Abstractions.  Each ClassCache stands for its workload, and no two name *)
(* the same one.  A pod stays where it is; the pod that replaces it is     *)
(* another.  Lists and maps are walked in any order.  A pod that is not    *)
(* Running has no node and no JVM, so it is as good as absent.  The JVMs   *)
(* are those of the workloads: that of a primer's warm-up, and those of    *)
(* other pods that map the same files, are left out.                       *)
(***************************************************************************)
EXTENDS Smaps, FiniteSetsExt, Functions

CONSTANTS
  Pods, Nodes, Workloads,
  WorkloadOf, NodeOf,   \* of a pod
  Files,
  JdkOf, ArchiveOf,     \* the files a pod's JVM maps: its image's, its ClassCache's
  KindsOf,              \* what its JVM may be
  NoNode,
  Word,                 \* the integers of the program are 0..Word-1
  MaxChanges,           \* how often pods and JVMs change
  MaxFaults             \* how many calls fail

(* A JVM maps no archive (off), its JDK's (plain), or that and its         *)
(* ClassCache's on top of it (shared).                                     *)
Kinds == {"off", "plain", "shared"}
WithJdk == {"plain", "shared"}
WithArchive == {"shared"}

ASSUME SamplerAssumption ==
  /\ IsFiniteSet(Pods)
  /\ WorkloadOf \in [Pods -> Workloads] /\ NodeOf \in [Pods -> Nodes] /\ NoNode \notin Nodes
  /\ JdkOf \in [Pods -> Files] /\ ArchiveOf \in [Pods -> Files]
  /\ KindsOf \in [Pods -> SUBSET Kinds]
  /\ \A m \in 1..Cardinality(Pods) : Jdk % m = 0 /\ Archive % m = 0
  /\ Word \in Nat /\ Cardinality(Pods) * (2 * Heap + Jdk + Archive + 2 * Cow) < Word
  /\ MaxChanges \in Nat /\ MaxFaults \in Nat

VARIABLES
  (* the cluster *)
  running,   \* the pods that are
  jvm,       \* what process a pod has: none, or one of Kinds
  pid,       \* and its number
  kind,      \* the nodes docker exec reaches
  labelled,  \* the workloads whose own pod template has the label managed-by
  (* the tool *)
  tool, step,
  todo,      \* workloads whose pods are still to be listed
  nodes,     \* node_set or nodeSet; those not sampled yet
  here,      \* the node being sampled
  pids,      \* processes found on it and not read yet
  queue,     \* pods to exec into
  listed, nodeOK,       \* desktop: the pods, the nodes that responded
  sums, jvms,           \* of the node (stats), of all (desktop)
  total, totalJvms,     \* of all
  rows,                 \* what the rows say has been saved, added up
  (* bookkeeping *)
  counted,   \* how often a pod's JVM went into the sums
  steady,    \* pods whose JVM has had an archive mapped since the beginning
  blamed,    \* pods a failed call was about
  changes, faults

cluster == <<running, jvm, pid, steady, changes>>
fixed == <<kind, labelled, tool>>
place == <<todo, nodes, here, pids, queue>>
desktop == <<listed, nodeOK>>
tally == <<sums, jvms, counted>>
report == <<total, totalJvms, rows>>
vars == <<cluster, fixed, step, place, desktop, tally, report, blamed, faults>>


Init ==
  /\ running \in SUBSET Pods
  /\ jvm \in [Pods -> Kinds \union {"none"}]
  /\ \A p \in Pods : jvm[p] # "none" => p \in running /\ jvm[p] \in KindsOf[p]
  /\ pid = [p \in Pods |-> 0]
  /\ kind \in SUBSET Nodes
  /\ \/ tool = "stats" /\ step = "classcaches" /\ labelled = {}
     \/ tool = "desktop" /\ step = "label" /\ labelled \in SUBSET Workloads
  /\ todo = {} /\ nodes = {} /\ here = NoNode /\ pids = {} /\ queue = {}
  /\ listed = {} /\ nodeOK = {}
  /\ sums = Zero /\ jvms = 0 /\ total = Zero /\ totalJvms = 0 /\ rows = 0
  /\ counted = [p \in Pods |-> 0]
  /\ steady = {p \in Pods : jvm[p] \in WithJdk} /\ blamed = {}
  /\ changes = 0 /\ faults = 0

Goto(s) == step' = s
Blame(ps) == faults < MaxFaults /\ faults' = faults + 1 /\ blamed' = blamed \union ps
NoBlame == UNCHANGED <<blamed, faults>>

PodsOf(w) == {p \in running : WorkloadOf[p] = w}

(* On a node a file is in memory once, however many JVMs map it: those of  *)
(* one workload, and those of two ClassCaches with the same key.           *)
Sharers(kinds, of, p) ==
  {q \in Pods : jvm[q] \in kinds /\ NodeOf[q] = NodeOf[p] /\ of[q] = of[p]}
Mappers(kinds, of, p) == IF jvm[p] \in kinds THEN Cardinality(Sharers(kinds, of, p)) ELSE 0

(* Of how many JVMs, for either archive, the JVM of p is one. *)
OneOf(p) == <<Mappers(WithJdk, JdkOf, p), Mappers(WithArchive, ArchiveOf, p)>>

(* What the parsers make of the files there can be. *)
Numbers == {<<b, m>> : b \in 0..Cardinality(Pods), m \in 0..Cardinality(Pods)}
Consumed == [x \in Numbers |-> Consume(SmapsFile(x[1], x[2]))]
Accumulated == [x \in Numbers |-> AccumulateSmaps(SmapsFile(x[1], x[2]))]
-----------------------------------------------------------------------------
(* stats: the nodes.                                                       *)

ListClassCaches ==
  /\ step = "classcaches"
  /\ \/ todo' = Workloads /\ Goto("pods") /\ NoBlame
     \/ Blame(Pods) /\ Goto("done") /\ UNCHANGED todo
  /\ UNCHANGED <<cluster, fixed, nodes, here, pids, queue, desktop, tally, report>>

ListPods(w) ==
  /\ step = "pods" /\ w \in todo
  /\ todo' = todo \ {w}
  /\ \/ nodes' = nodes \union {NodeOf[p] : p \in PodsOf(w)} /\ NoBlame
     \/ Blame({p \in Pods : WorkloadOf[p] = w}) /\ UNCHANGED nodes
  /\ UNCHANGED <<cluster, fixed, step, here, pids, queue, desktop, tally, report>>

PodsListed ==
  /\ step = "pods" /\ todo = {}
  /\ Goto("node")
  /\ UNCHANGED <<cluster, fixed, place, desktop, tally, report, blamed, faults>>

(* desktop: one list for pods and nodes, by the label managed-by.  The     *)
(* operator puts it on the Deployment, and not on the template of its pods.*)
ListLabelled ==
  /\ step = "label"
  /\ \/ /\ listed' = UNION {PodsOf(w) : w \in labelled}
        /\ nodes' = {NodeOf[p] : p \in listed'}
        /\ Goto("node") /\ NoBlame
     \/ Blame(Pods) /\ Goto("done") /\ UNCHANGED <<listed, nodes>>
  /\ UNCHANGED <<cluster, fixed, todo, here, pids, queue, nodeOK, tally, report>>
-----------------------------------------------------------------------------
(* A node.                                                                 *)

NextNodeOnly ==   \* mutant: the sums of the last node are not cleared
  /\ step = "node" /\ nodes # {}
  /\ here' \in nodes /\ nodes' = nodes \ {here'}
  /\ Goto("pgrep")
  /\ UNCHANGED <<cluster, fixed, todo, pids, queue, desktop, tally, report, blamed, faults>>

NextNode ==
  /\ step = "node" /\ nodes # {}
  /\ here' \in nodes /\ nodes' = nodes \ {here'}
  /\ IF tool = "stats" THEN sums' = Zero /\ jvms' = 0 ELSE UNCHANGED <<sums, jvms>>
  /\ Goto("pgrep")
  /\ UNCHANGED <<cluster, fixed, todo, pids, queue, desktop, counted, report, blamed, faults>>

(* stats goes on with kubectl on the same node, desktop with another node. *)
NoDocker ==
  IF tool = "stats" THEN Goto("kubectl") /\ todo' = Workloads ELSE Goto("node") /\ UNCHANGED todo

Processes(n) == {<<p, pid[p]>> : p \in {q \in running : NodeOf[q] = n /\ jvm[q] # "none"}}

FindPids ==
  /\ step = "pgrep" /\ here \in kind /\ Processes(here) # {}
  /\ pids' = Processes(here)
  /\ nodeOK' = IF tool = "desktop" THEN nodeOK \union {here} ELSE nodeOK
  /\ Goto("read")
  /\ UNCHANGED <<cluster, fixed, todo, nodes, here, queue, listed, tally, report, blamed, faults>>

(* No container of that name, no match, or a failed call. *)
FindNoPids ==
  /\ step = "pgrep"
  /\ \/ (here \notin kind \/ Processes(here) = {}) /\ NoBlame
     \/ here \in kind /\ Blame({})
  /\ NoDocker
  /\ UNCHANGED <<cluster, fixed, nodes, here, pids, queue, desktop, tally, report>>

(* stats drops a process without an archive, desktop adds nothing for it.  *)
Tally(p) ==
  LET c == Consumed[OneOf(p)]
      d == Accumulated[OneOf(p)]
      v == IF tool = "stats" THEN c ELSE d.sums
      has == IF tool = "stats" THEN c["Rss"] # 0 ELSE d.any
  IN  IF has
      THEN /\ sums' = Plus(sums, v) /\ jvms' = jvms + 1
           /\ counted' = [counted EXCEPT ![p] = @ + 1]
      ELSE UNCHANGED tally

Alive(p, i) == p \in running /\ jvm[p] # "none" /\ pid[p] = i

ReadPid(p, i) ==
  /\ step = "read" /\ <<p, i>> \in pids /\ Alive(p, i)
  /\ pids' = pids \ {<<p, i>>}
  /\ Tally(p)
  /\ UNCHANGED <<cluster, fixed, step, todo, nodes, here, queue, desktop, report, blamed, faults>>

ReadStops(p, i) ==   \* mutant: one process that has exited ends the loop
  /\ step = "read" /\ <<p, i>> \in pids
  /\ pids' = {}
  /\ ~Alive(p, i) /\ NoBlame
  /\ UNCHANGED <<cluster, fixed, step, todo, nodes, here, queue, desktop, tally, report>>

(* The process has exited, or the call fails: on to the next one. *)
ReadFails(p, i) ==
  /\ step = "read" /\ <<p, i>> \in pids
  /\ pids' = pids \ {<<p, i>>}
  /\ \/ ~Alive(p, i) /\ NoBlame
     \/ Alive(p, i) /\ Blame({p})
  /\ UNCHANGED <<cluster, fixed, step, todo, nodes, here, queue, desktop, tally, report>>

(* The row of a node and the sums of all nodes. *)
Row ==
  /\ total' = Plus(total, sums) /\ totalJvms' = totalJvms + jvms
  /\ rows' = rows + (IF sums["Rss"] > sums["Pss"] THEN sums["Rss"] - sums["Pss"] ELSE 0)

PidsRead ==
  /\ step = "read" /\ pids = {}
  /\ \/ tool = "stats" /\ jvms > 0 /\ Row /\ Goto("node") /\ UNCHANGED todo
     \/ tool = "stats" /\ jvms = 0 /\ NoDocker /\ UNCHANGED report
     \/ tool = "desktop" /\ Goto("node") /\ UNCHANGED <<todo, report>>
  /\ UNCHANGED <<cluster, fixed, nodes, here, pids, queue, desktop, tally, blamed, faults>>
-----------------------------------------------------------------------------
(* kubectl exec.                                                           *)

ListAgain(w) ==
  /\ step = "kubectl" /\ w \in todo
  /\ todo' = todo \ {w}
  /\ \/ queue' = {p \in PodsOf(w) : NodeOf[p] = here} /\ Goto("exec") /\ NoBlame
     \/ Blame({p \in Pods : WorkloadOf[p] = w}) /\ UNCHANGED <<queue, step>>
  /\ UNCHANGED <<cluster, fixed, nodes, here, pids, desktop, tally, report>>

KubectlDone ==
  /\ step = "kubectl" /\ todo = {}
  /\ IF jvms > 0 THEN Row ELSE UNCHANGED report
  /\ Goto("node")
  /\ UNCHANGED <<cluster, fixed, place, desktop, tally, blamed, faults>>

SlowPathAll ==   \* mutant: also the pods of nodes that have been read
  /\ step = "node" /\ nodes = {} /\ tool = "desktop"
  /\ queue' = listed
  /\ Goto("exec")
  /\ UNCHANGED <<cluster, fixed, todo, nodes, here, pids, desktop, tally, report, blamed, faults>>

(* desktop: the pods of the nodes that did not respond. *)
SlowPath ==
  /\ step = "node" /\ nodes = {} /\ tool = "desktop"
  /\ queue' = {p \in listed : NodeOf[p] \notin nodeOK}
  /\ Goto("exec")
  /\ UNCHANGED <<cluster, fixed, todo, nodes, here, pids, desktop, tally, report, blamed, faults>>

ExecPod(p) ==
  /\ step = "exec" /\ p \in queue
  /\ queue' = queue \ {p}
  /\ \/ Alive(p, pid[p]) /\ Tally(p) /\ NoBlame
     \/ ~Alive(p, pid[p]) /\ UNCHANGED tally /\ NoBlame
     \/ Alive(p, pid[p]) /\ UNCHANGED tally /\ Blame({p})
  /\ UNCHANGED <<cluster, fixed, step, todo, nodes, here, pids, desktop, report>>

PodsRead ==
  /\ step = "exec" /\ queue = {}
  /\ IF tool = "stats" THEN Goto("kubectl") /\ UNCHANGED report ELSE Goto("done") /\ Row
  /\ UNCHANGED <<cluster, fixed, place, desktop, tally, blamed, faults>>

Finish ==
  /\ step = "node" /\ nodes = {} /\ tool = "stats"
  /\ Goto("done")
  /\ UNCHANGED <<cluster, fixed, place, desktop, tally, report, blamed, faults>>

(* The saved memory: the total of stats is an unguarded difference.        *)
Saved ==
  IF tool = "stats" THEN (total["Rss"] + Word - total["Pss"]) % Word
  ELSE IF total["Rss"] > total["Pss"] THEN total["Rss"] - total["Pss"] ELSE 0
-----------------------------------------------------------------------------
(* The cluster goes on.                                                    *)

Change ==
  /\ step # "done" /\ changes < MaxChanges /\ changes' = changes + 1
  /\ UNCHANGED <<fixed, step, place, desktop, tally, report, blamed, faults>>

PodStarts(p) ==
  /\ Change /\ p \notin running
  /\ running' = running \union {p}
  /\ UNCHANGED <<jvm, pid, steady>>

JvmStarts(p) ==
  /\ Change /\ p \in running /\ jvm[p] = "none"
  /\ \E k \in KindsOf[p] : jvm' = [jvm EXCEPT ![p] = k]
  /\ pid' = [pid EXCEPT ![p] = @ + 1]
  /\ UNCHANGED <<running, steady>>

JvmExits(p) ==
  /\ Change /\ jvm[p] # "none"
  /\ jvm' = [jvm EXCEPT ![p] = "none"]
  /\ steady' = steady \ {p}
  /\ running' \in {running, running \ {p}}
  /\ UNCHANGED pid
-----------------------------------------------------------------------------
Stats == ListClassCaches \/ PodsListed \/ KubectlDone \/ Finish
           \/ \E w \in Workloads : ListPods(w) \/ ListAgain(w)

Desktop == ListLabelled \/ SlowPath

Either ==
  \/ NextNode \/ FindPids \/ FindNoPids \/ PidsRead \/ PodsRead
  \/ \E x \in pids : ReadPid(x[1], x[2]) \/ ReadFails(x[1], x[2])
  \/ \E p \in Pods : ExecPod(p)

Next ==
  \/ Stats \/ Desktop \/ Either
  \/ \E p \in Pods : PodStarts(p) \/ JvmStarts(p) \/ JvmExits(p)

Spec == Init /\ [][Next]_vars
-----------------------------------------------------------------------------
(* Properties.                                                             *)

Done == step = "done"
Kib == [Counted -> 0..(Word - 1)]

(* Types; and a node starts from nothing: what a node's reading has left   *)
(* behind does not go into the next row.                                   *)
TypeOK ==
  /\ running \subseteq Pods /\ jvm \in [Pods -> Kinds \union {"none"}]
  /\ pid \in [Pods -> 0..MaxChanges]
  /\ kind \subseteq Nodes /\ labelled \subseteq Workloads /\ tool \in {"stats", "desktop"}
  /\ step \in {"classcaches", "pods", "label", "node", "pgrep", "read", "kubectl", "exec", "done"}
  /\ todo \subseteq Workloads /\ nodes \subseteq Nodes /\ here \in Nodes \union {NoNode}
  /\ pids \subseteq Pods \X (0..MaxChanges) /\ queue \subseteq Pods
  /\ listed \subseteq Pods /\ nodeOK \subseteq Nodes
  /\ sums \in Kib /\ total \in Kib /\ jvms \in Nat /\ totalJvms \in Nat /\ rows \in Nat
  /\ counted \in [Pods -> Nat] /\ steady \subseteq Pods /\ blamed \subseteq Pods
  /\ changes \in 0..MaxChanges /\ faults \in 0..MaxFaults
  /\ step = "pgrep" /\ tool = "stats" => sums = Zero /\ jvms = 0

(* No pod's memory goes into the report twice, although a node may be      *)
(* tried with docker and then with kubectl, and pods of several workloads  *)
(* are on the same node.                                                   *)
CountedOnce == \A p \in Pods : counted[p] <= 1

(* A JVM that is there, with an archive, from the beginning to the end is  *)
(* in the report, whatever comes and goes beside it and whichever way its  *)
(* node is read, unless a call about it has failed.  (A pod the desktop    *)
(* does not list is another matter.)                                       *)
SteadyCounted ==
  Done => \A p \in steady \ blamed : tool = "stats" \/ WorkloadOf[p] \in labelled => counted[p] = 1

(* The total of stats is what its rows add up to: its unguarded difference *)
(* of unsigned sums does not wrap, even if processes come and go between   *)
(* two readings.                                                           *)
SavedConsistent == Done /\ tool = "stats" => Saved = rows

(* What the measure is: in a cluster that holds still, with no call        *)
(* failing, the sums are of all archives that are mapped, the JDK's and    *)
(* the ClassCaches', for both are .jsa files (stats prints "archive VMA    *)
(* only"); a file counts once for a node, whichever workloads' JVMs map it;*)
(* and what is saved is one copy for every JVM but the first of a file.    *)
JvmsWith(kinds) == {p \in Pods : jvm[p] \in kinds}
FilesIn(kinds, of) == {Sharers(kinds, of, p) : p \in JvmsWith(kinds)}
MeasuredIsShared ==
  Done /\ changes = 0 /\ faults = 0 /\ (tool = "desktop" => labelled = Workloads) =>
    LET n == Cardinality(JvmsWith(WithJdk))
        k == Cardinality(JvmsWith(WithArchive))
        jdks == Cardinality(FilesIn(WithJdk, JdkOf))
        archives == Cardinality(FilesIn(WithArchive, ArchiveOf))
    IN  /\ totalJvms = n
        /\ total["Rss"] = n * (Jdk + Cow) + k * (Archive + Cow)
        /\ total["Pss"] = jdks * Jdk + archives * Archive + (n + k) * Cow
        /\ Saved = (n - jdks) * Jdk + (k - archives) * Archive

(* desktop/app.go:295-297: accumulateSmaps "does the same parse as         *)
(* modules/cli/src/smaps.c".  Of whatever file one of them may read next,  *)
(* the other would make the same.                                          *)
SameParse ==
  {x \in Numbers :
     LET c == Consumed[x]
         d == Accumulated[x]
     IN  c = d.sums /\ (c["Rss"] # 0 <=> d.any)}
ParsersAgree == step \in {"read", "exec"} => \A p \in JvmsWith(Kinds) : OneOf(p) \in SameParse

(* desktop/app.go:223: "SampleSavings walks every workload pod (labelled   *)
(* by the operator)".                                                      *)
EveryWorkloadPod == Done => \A p \in steady \ blamed : counted[p] = 1

=============================================================================
