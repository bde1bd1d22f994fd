---------------------------- MODULE SamplerProofs ----------------------------
(***************************************************************************)
(* What TLAPS proves of Sampler, for any number of pods, nodes, workloads, *)
(* changes and faults.                                                     *)
(***************************************************************************)
EXTENDS Sampler, SmapsProofs, FiniteSetTheorems

USE SamplerAssumption DEF SamplerAssumption

Stages == {"classcaches", "pods", "label", "node", "pgrep", "read", "kubectl", "exec", "done"}

(* The types the counting needs. *)
TypesInv ==
  /\ tool \in {"stats", "desktop"} /\ step \in Stages
  /\ running \subseteq Pods /\ queue \subseteq Pods /\ listed \subseteq Pods
  /\ pid \in [Pods -> Nat] /\ pids \subseteq Pods \X Nat
  /\ counted \in [Pods -> Nat] /\ jvms \in Nat

LEMMA InitTypes == Init => TypesInv
  BY DEF Init, TypesInv, Stages

(* How many JVMs map the file of p. *)
LEMMA MappersOf ==
  ASSUME NEW p \in Pods, NEW kinds, NEW of
  PROVE  LET m == Mappers(kinds, of, p)
             S == Sharers(kinds, of, p)
         IN  /\ m \in 0..Cardinality(Pods) /\ m \in Nat
             /\ m # 0 <=> jvm[p] \in kinds
             /\ jvm[p] \in kinds => m = Cardinality(S) /\ IsFiniteSet(S)
<1> DEFINE S == Sharers(kinds, of, p)
           m == Cardinality(S)
           M == Mappers(kinds, of, p)
<1>1. S \in SUBSET Pods /\ (jvm[p] \in kinds => p \in S)
  BY DEF Sharers
<1>2. M = IF jvm[p] \in kinds THEN m ELSE 0
  BY DEF Mappers
<1> HIDE DEF S
<1>3. IsFiniteSet(S) /\ m <= Cardinality(Pods)
  BY <1>1, FS_Subset
<1>4. m \in Nat /\ (m = 0 <=> S = {})
  BY <1>3, FS_CardinalityType, FS_EmptySet
<1>5. Cardinality(Pods) \in Nat
  BY FS_CardinalityType
<1> HIDE DEF m, M
<1>6. M \in 0..Cardinality(Pods) /\ (M # 0 <=> jvm[p] \in kinds)
  BY <1>1, <1>2, <1>3, <1>4, <1>5
<1>7. QED
  BY <1>2, <1>3, <1>5, <1>6 DEF m, S, M

(* What is in its file, and what the readers have found in it. *)
SumsOf(p) == JvmSums(OneOf(p)[1], OneOf(p)[2])

LEMMA WhatIsRead ==
  ASSUME NEW p \in Pods
  PROVE  LET x == OneOf(p)
         IN  /\ x \in Numbers
             /\ Consumed[x] = SumsOf(p) /\ Accumulated[x].sums = SumsOf(p)
             /\ Accumulated[x].any <=> jvm[p] \in WithJdk
             /\ Consumed[x]["Rss"] # 0 <=> jvm[p] \in WithJdk
<1> DEFINE b == Mappers(WithJdk, JdkOf, p)
           m == Mappers(WithArchive, ArchiveOf, p)
           x == OneOf(p)
<1>1. /\ b \in 0..Cardinality(Pods) /\ b \in Nat /\ (b # 0 <=> jvm[p] \in WithJdk)
      /\ m \in 0..Cardinality(Pods) /\ m \in Nat /\ (m # 0 <=> jvm[p] \in WithArchive)
  BY MappersOf
<1>2. x[1] = b /\ x[2] = m /\ x = <<b, m>>
  BY DEF OneOf
<1> HIDE DEF b, m, x
<1>3. x \in Numbers
  BY <1>1, <1>2 DEF Numbers
<1>4. Consumed[x] = Consume(SmapsFile(b, m)) /\ Accumulated[x] = AccumulateSmaps(SmapsFile(b, m))
  BY <1>2, <1>3 DEF Consumed, Accumulated
<1>5. b # 0 \/ m # 0 <=> jvm[p] \in WithJdk
  BY <1>1 DEF WithJdk, WithArchive
<1>6. SumsOf(p) = JvmSums(b, m)
  BY <1>2 DEF SumsOf, x
<1>7. /\ Consume(SmapsFile(b, m)) = JvmSums(b, m)
      /\ AccumulateSmaps(SmapsFile(b, m)).sums = JvmSums(b, m)
      /\ AccumulateSmaps(SmapsFile(b, m)).any <=> b # 0 \/ m # 0
      /\ Consume(SmapsFile(b, m))["Rss"] # 0 <=> b # 0 \/ m # 0
  BY <1>1, WhatIsCounted
<1>8. QED
  BY <1>3, <1>4, <1>5, <1>6, <1>7 DEF x

(* What reading a JVM adds. *)
LEMMA WhatTallyDoes ==
  ASSUME NEW p \in Pods, Tally(p)
  PROVE  IF jvm[p] \in WithJdk
         THEN /\ sums' = Plus(sums, SumsOf(p)) /\ jvms' = jvms + 1
              /\ counted' = [counted EXCEPT ![p] = @ + 1]
         ELSE UNCHANGED tally
<1> DEFINE c == Consumed[OneOf(p)]
           d == Accumulated[OneOf(p)]
           v == IF tool = "stats" THEN c ELSE d.sums
           has == IF tool = "stats" THEN c["Rss"] # 0 ELSE d.any
<1>1. v = SumsOf(p) /\ (has <=> jvm[p] \in WithJdk)
  BY WhatIsRead
<1>2. IF has
      THEN /\ sums' = Plus(sums, v) /\ jvms' = jvms + 1
           /\ counted' = [counted EXCEPT ![p] = @ + 1]
      ELSE UNCHANGED tally
  BY DEF Tally
<1> HIDE DEF v, has
<1>3. QED
  BY <1>1, <1>2

LEMMA TallyFrame ==
  ASSUME TypesInv, NEW p \in Pods, Tally(p)
  PROVE  /\ counted' \in [Pods -> Nat] /\ jvms' \in Nat
         /\ \A q \in Pods : q # p => counted'[q] = counted[q]
         /\ counted'[p] \in {counted[p], counted[p] + 1}
         /\ jvms' = 0 => UNCHANGED counted
<1>1. \/ jvms' = jvms + 1 /\ counted' = [counted EXCEPT ![p] = @ + 1]
      \/ UNCHANGED <<jvms, counted>>
  BY DEF Tally, tally
<1>2. QED
  BY <1>1 DEF TypesInv

LEMMA PidsArePairs ==
  ASSUME TypesInv, NEW x \in pids
  PROVE  x[1] \in Pods /\ x[2] \in Nat /\ x = <<x[1], x[2]>>
  BY DEF TypesInv

LEMMA NextTypes == TypesInv /\ [Next]_vars => TypesInv'
<1> SUFFICES ASSUME TypesInv, [Next]_vars PROVE TypesInv'
  OBVIOUS
<1> USE DEF Stages, Goto, cluster, fixed, place, desktop, tally, report
<1>1. CASE ListClassCaches \/ PodsListed \/ KubectlDone \/ Finish
  BY <1>1 DEF TypesInv, ListClassCaches, PodsListed, KubectlDone, Finish
<1>2. ASSUME NEW w \in Workloads, ListPods(w) \/ ListAgain(w) PROVE TypesInv'
  BY <1>2 DEF TypesInv, ListPods, ListAgain, PodsOf
<1>3. CASE ListLabelled \/ SlowPath
  BY <1>3 DEF TypesInv, ListLabelled, SlowPath, PodsOf
<1>4. CASE NextNode \/ PodsRead
  BY <1>4 DEF TypesInv, NextNode, PodsRead
<1>5. CASE FindPids \/ FindNoPids \/ PidsRead
  BY <1>5 DEF TypesInv, FindPids, FindNoPids, PidsRead, NoDocker, Processes
<1>6. ASSUME NEW x \in pids, ReadPid(x[1], x[2]) PROVE TypesInv'
  BY <1>6, TallyFrame, PidsArePairs DEF TypesInv, ReadPid
<1>7. ASSUME NEW x \in pids, ReadFails(x[1], x[2]) PROVE TypesInv'
  BY <1>7 DEF TypesInv, ReadFails
<1>8. ASSUME NEW p \in Pods, ExecPod(p) PROVE TypesInv'
  BY <1>8, TallyFrame DEF TypesInv, ExecPod
<1>9. ASSUME NEW p \in Pods, PodStarts(p) \/ JvmStarts(p) \/ JvmExits(p) PROVE TypesInv'
  BY <1>9 DEF TypesInv, PodStarts, JvmStarts, JvmExits, Change
<1>10. CASE UNCHANGED vars
  BY <1>10 DEF TypesInv, vars
<1>11. QED
  BY <1>1, <1>2, <1>3, <1>4, <1>5, <1>6, <1>7, <1>8, <1>9, <1>10 DEF Next, Stats, Desktop, Either

-----------------------------------------------------------------------------
(* No pod is counted twice.                                                *)

Uncounted(p) == counted[p] = 0

(* Which tool is where, and which nodes are behind it. *)
StageInv ==
  /\ step \in {"classcaches", "pods", "kubectl"} => tool = "stats"
  /\ step = "label" => tool = "desktop"
  /\ step \in {"classcaches", "pods", "label"} =>
       nodeOK = {} /\ (\A p \in Pods : Uncounted(p))
  /\ step \in {"pgrep", "read", "kubectl"} \/ (tool = "stats" /\ step = "exec") => here \notin nodes
  /\ nodes \intersect nodeOK = {}
  /\ step = "pgrep" => here \notin nodeOK
  /\ tool = "desktop" /\ step = "exec" => nodes = {}

(* Whatever is still to be read has not been counted: the pods of the      *)
(* nodes ahead; on this node, the processes found and, as long as none has *)
(* been counted, all the pods; those of the workloads kubectl has still to *)
(* list, and those in its queue.  What the desktop has counted is on nodes *)
(* it will not try again.                                                  *)
CountInv ==
  /\ \A p \in Pods : counted[p] \in {0, 1}
  /\ \A p \in Pods : NodeOf[p] \in nodes => Uncounted(p)
  /\ step = "pgrep" => \A p \in Pods : NodeOf[p] = here => Uncounted(p)
  /\ step = "read" =>
       /\ \A x \in pids : NodeOf[x[1]] = here /\ Uncounted(x[1])
       /\ \A x, y \in pids : x[1] = y[1] => x = y
       /\ tool = "stats" /\ jvms = 0 => \A p \in Pods : NodeOf[p] = here => Uncounted(p)
       /\ tool = "desktop" => here \in nodeOK
  /\ tool = "stats" /\ step \in {"kubectl", "exec"} =>
       \A p \in Pods : NodeOf[p] = here /\ WorkloadOf[p] \in todo => Uncounted(p)
  /\ step = "exec" => \A p \in queue : Uncounted(p)
  /\ tool = "stats" /\ step = "exec" =>
       \A p \in queue : NodeOf[p] = here /\ WorkloadOf[p] \notin todo
  /\ tool = "desktop" /\ step \notin {"exec", "done"} =>
       \A p \in Pods : ~Uncounted(p) => NodeOf[p] \in nodeOK

LEMMA InitCount == Init => StageInv /\ CountInv
  BY DEF Init, StageInv, CountInv, Uncounted

LEMMA NextCount == TypesInv /\ StageInv /\ CountInv /\ [Next]_vars => StageInv' /\ CountInv'
<1> SUFFICES ASSUME TypesInv, StageInv, CountInv, [Next]_vars PROVE StageInv' /\ CountInv'
  OBVIOUS
<1>0. counted \in [Pods -> Nat] /\ tool \in {"stats", "desktop"} /\ queue \subseteq Pods /\ jvms \in Nat
  BY DEF TypesInv
<1> USE DEF Goto, cluster, fixed, place, desktop, tally, report, StageInv, CountInv, Uncounted
<1>1. CASE ListClassCaches
  BY <1>0, <1>1 DEF ListClassCaches
<1>2. ASSUME NEW w \in Workloads, ListPods(w) PROVE StageInv' /\ CountInv'
  BY <1>0, <1>2 DEF ListPods
<1>3. CASE PodsListed \/ Finish
  BY <1>0, <1>3 DEF PodsListed, Finish
<1>4. CASE ListLabelled
  BY <1>0, <1>4 DEF ListLabelled
<1>5. CASE NextNode
  BY <1>0, <1>5 DEF NextNode
<1>6. CASE FindPids
  BY <1>0, <1>6 DEF FindPids, Processes, TypesInv
<1>7. CASE FindNoPids
  BY <1>0, <1>7 DEF FindNoPids, NoDocker
<1>8. ASSUME NEW x \in pids, ReadPid(x[1], x[2]) PROVE StageInv' /\ CountInv'
  <2> DEFINE p == x[1]
  <2>1. p \in Pods /\ x = <<x[1], x[2]>>
    BY PidsArePairs
  <2>2. /\ step = "read" /\ step' = "read" /\ pids' = pids \ {x} /\ Tally(p)
        /\ UNCHANGED <<tool, todo, nodes, here, queue, nodeOK>>
    BY <1>8, <2>1 DEF ReadPid
  <2>3. NodeOf[p] = here /\ here \notin nodes /\ counted[p] = 0
    BY <2>2
  <2>4. \A y \in pids' : y \in pids /\ y[1] \in Pods /\ y[1] # p
    BY <2>2, PidsArePairs
  <2> HIDE DEF p
  <2>5. /\ \A q \in Pods : q # p => counted'[q] = counted[q]
        /\ counted'[p] \in {0, 1}
        /\ jvms' = 0 => jvms = 0 /\ UNCHANGED counted
    <3>1. jvms' = 0 => jvms = 0
      BY <1>0, <2>2 DEF Tally
    <3>2. QED
      BY <2>1, <2>2, <2>3, <3>1, TallyFrame
  <2>6. StageInv'
    BY <2>2
  <2>7. CountInv'
    BY <2>2, <2>3, <2>4, <2>5
  <2>8. QED
    BY <2>6, <2>7
<1>9. ASSUME NEW x \in pids, ReadFails(x[1], x[2]) PROVE StageInv' /\ CountInv'
  BY <1>0, <1>9 DEF ReadFails
<1>10. CASE PidsRead
  BY <1>0, <1>10 DEF PidsRead, NoDocker
<1>11. ASSUME NEW w \in Workloads, ListAgain(w) PROVE StageInv' /\ CountInv'
  BY <1>0, <1>11 DEF ListAgain, PodsOf, TypesInv
<1>12. CASE KubectlDone
  BY <1>0, <1>12 DEF KubectlDone
<1>13. CASE SlowPath
  BY <1>0, <1>13 DEF SlowPath, TypesInv
<1>14. ASSUME NEW p \in Pods, ExecPod(p) PROVE StageInv' /\ CountInv'
  BY <1>0, <1>14, TallyFrame DEF ExecPod
<1>15. CASE PodsRead
  BY <1>0, <1>15 DEF PodsRead
<1>16. ASSUME NEW p \in Pods, PodStarts(p) \/ JvmStarts(p) \/ JvmExits(p) PROVE StageInv' /\ CountInv'
  BY <1>0, <1>16 DEF PodStarts, JvmStarts, JvmExits, Change
<1>17. CASE UNCHANGED vars
  BY <1>0, <1>17 DEF vars
<1>18. QED
  BY <1>1, <1>2, <1>3, <1>4, <1>5, <1>6, <1>7, <1>8, <1>9, <1>10, <1>11, <1>12, <1>13, <1>14,
     <1>15, <1>16, <1>17 DEF Next, Stats, Desktop, Either

(* No pod's memory goes into the report twice, although stats may try a    *)
(* node with docker and then with kubectl, and the desktop reads pods that *)
(* share a node with pods it has read (stats.c:106-125, app.go:251-287).   *)
THEOREM NoPodTwice == Spec => []CountedOnce
<1>1. CountInv => CountedOnce
  BY DEF CountInv, CountedOnce
<1>2. QED
  BY <1>1, InitTypes, NextTypes, InitCount, NextCount, PTL DEF Spec

-----------------------------------------------------------------------------
(* No steady JVM is missed.                                                *)

SteadyInv ==
  /\ jvm \in [Pods -> Kinds \union {"none"}]
  /\ \A p \in steady : p \in running /\ jvm[p] \in WithJdk

Due(p) == p \in steady \ blamed /\ (tool = "stats" \/ WorkloadOf[p] \in labelled)

(* Where a pod that has not been counted yet is waiting. *)
Coming(p) ==
  \/ step \in {"classcaches", "label"}
  \/ step = "pods" /\ WorkloadOf[p] \in todo
  \/ step # "done" /\ NodeOf[p] \in nodes
  \/ step = "pgrep" /\ NodeOf[p] = here
  \/ step = "read" /\ <<p, pid[p]>> \in pids
  \/ tool = "stats" /\ step \in {"kubectl", "exec"} /\ NodeOf[p] = here /\ WorkloadOf[p] \in todo
  \/ step = "exec" /\ p \in queue
  \/ tool = "desktop" /\ step \in {"node", "pgrep", "read"} /\ p \in listed /\ NodeOf[p] \notin nodeOK

Expected(p) ==
  /\ ~Uncounted(p) \/ Coming(p)
  /\ tool = "desktop" /\ step \notin {"label", "done"} => p \in listed

ComingInv == \A p \in Pods : Due(p) => Expected(p)

LEMMA InitComing == Init => SteadyInv /\ ComingInv
  BY DEF Init, SteadyInv, ComingInv, Expected, Coming, Kinds, WithJdk

LEMMA NextSteady == TypesInv /\ SteadyInv /\ [Next]_vars => SteadyInv'
<1> SUFFICES ASSUME TypesInv, SteadyInv, [Next]_vars PROVE SteadyInv'
  OBVIOUS
<1> USE DEF SteadyInv, Kinds, WithJdk
<1>1. CASE UNCHANGED cluster
  BY <1>1 DEF cluster
<1>2. ASSUME NEW p \in Pods, PodStarts(p) PROVE SteadyInv'
  BY <1>2 DEF PodStarts
<1>3. ASSUME NEW p \in Pods, JvmStarts(p) PROVE SteadyInv'
  BY <1>3 DEF JvmStarts
<1>4. ASSUME NEW p \in Pods, JvmExits(p) PROVE SteadyInv'
  BY <1>4 DEF JvmExits
<1>5. CASE Stats \/ Desktop \/ Either \/ UNCHANGED vars
  BY <1>1, <1>5 DEF Stats, Desktop, Either, vars, ListClassCaches, PodsListed, KubectlDone, Finish,
     ListPods, ListAgain, ListLabelled, SlowPath, NextNode, FindPids, FindNoPids, PidsRead, PodsRead,
     ReadPid, ReadFails, ExecPod
<1>6. QED
  BY <1>2, <1>3, <1>4, <1>5 DEF Next

(* A JVM with an archive is counted when it is read. *)
LEMMA SharedIsCounted ==
  ASSUME TypesInv, NEW p \in Pods, jvm[p] \in WithJdk, Tally(p)
  PROVE  counted'[p] # 0
<1>1. counted' = [counted EXCEPT ![p] = @ + 1]
  BY WhatTallyDoes
<1>2. QED
  BY <1>1 DEF TypesInv

LEMMA NextComing ==
  ASSUME TypesInv, SteadyInv, StageInv, ComingInv, [Next]_vars
  PROVE  ComingInv'
<1> SUFFICES ASSUME NEW p \in Pods, Due(p)' PROVE Expected(p)'
  BY DEF ComingInv
<1>0. /\ tool \in {"stats", "desktop"} /\ queue \subseteq Pods
      /\ WorkloadOf[p] \in Workloads /\ NodeOf[p] \in Nodes
  BY DEF TypesInv
<1>a. Due(p) => Expected(p) /\ p \in running /\ jvm[p] \in WithJdk /\ jvm[p] # "none"
  BY DEF ComingInv, SteadyInv, Due, WithJdk
<1> USE DEF Goto, cluster, fixed, place, desktop, tally, report, Due, Expected, Coming, Uncounted,
     NoBlame, Blame
<1>1. CASE ListClassCaches
  BY <1>0, <1>a, <1>1 DEF ListClassCaches
<1>2. ASSUME NEW w \in Workloads, ListPods(w) PROVE Expected(p)'
  BY <1>0, <1>a, <1>2 DEF ListPods, PodsOf
<1>3. CASE PodsListed \/ Finish
  BY <1>0, <1>a, <1>3 DEF PodsListed, Finish, StageInv
<1>4. CASE ListLabelled
  <2>1. CASE step' = "done"
    BY <1>4, <2>1 DEF ListLabelled
  <2>2. CASE step' # "done"
    <3>1. /\ listed' = UNION {PodsOf(w) : w \in labelled}
          /\ nodes' = {NodeOf[q] : q \in listed'}
          /\ step' = "node" /\ Due(p) /\ tool = "desktop"
      BY <1>4, <2>2 DEF ListLabelled, StageInv
    <3>2. p \in PodsOf(WorkloadOf[p]) /\ WorkloadOf[p] \in labelled
      BY <1>a, <3>1 DEF PodsOf
    <3>3. p \in listed'
      BY <3>1, <3>2
    <3>4. QED
      BY <3>1, <3>3
  <2>3. QED
    BY <2>1, <2>2
<1>5. CASE NextNode
  BY <1>0, <1>a, <1>5 DEF NextNode
<1>6. CASE FindPids
  BY <1>0, <1>a, <1>6 DEF FindPids, Processes
<1>7. CASE FindNoPids
  BY <1>0, <1>a, <1>7 DEF FindNoPids, NoDocker, StageInv
<1>8. ASSUME NEW x \in pids, ReadPid(x[1], x[2]) PROVE Expected(p)'
  BY <1>0, <1>a, <1>8, TallyFrame, PidsArePairs, SharedIsCounted DEF ReadPid
<1>9. ASSUME NEW x \in pids, ReadFails(x[1], x[2]) PROVE Expected(p)'
  BY <1>0, <1>a, <1>9, PidsArePairs DEF ReadFails, Alive
<1>10. CASE PidsRead
  BY <1>0, <1>a, <1>10 DEF PidsRead, NoDocker
<1>11. ASSUME NEW w \in Workloads, ListAgain(w) PROVE Expected(p)'
  BY <1>0, <1>a, <1>11 DEF ListAgain, PodsOf
<1>12. CASE KubectlDone
  BY <1>0, <1>a, <1>12 DEF KubectlDone
<1>13. CASE SlowPath
  BY <1>0, <1>a, <1>13 DEF SlowPath
<1>14. ASSUME NEW q \in Pods, ExecPod(q) PROVE Expected(p)'
  BY <1>0, <1>a, <1>14, TallyFrame, SharedIsCounted DEF ExecPod, Alive
<1>15. CASE PodsRead
  BY <1>0, <1>a, <1>15 DEF PodsRead, StageInv
<1>16. ASSUME NEW q \in Pods, PodStarts(q) \/ JvmStarts(q) \/ JvmExits(q) PROVE Expected(p)'
  BY <1>0, <1>a, <1>16 DEF PodStarts, JvmStarts, JvmExits, Change, TypesInv
<1>17. CASE UNCHANGED vars
  BY <1>0, <1>a, <1>17 DEF vars
<1>18. QED
  BY <1>1, <1>2, <1>3, <1>4, <1>5, <1>6, <1>7, <1>8, <1>9, <1>10, <1>11, <1>12, <1>13, <1>14,
     <1>15, <1>16, <1>17 DEF Next, Stats, Desktop, Either

(* A JVM that has an archive all the time is in the report exactly once,   *)
(* whatever comes and goes beside it and whichever way its node is read,   *)
(* unless a call about it failed (stats.c:50-125, app.go:251-287).         *)
THEOREM SteadyIsCounted == Spec => []SteadyCounted
<1>1. TypesInv /\ CountInv /\ SteadyInv /\ ComingInv => SteadyCounted
  BY DEF CountInv, SteadyInv, ComingInv, SteadyCounted, Done, Due, Expected, Coming, Uncounted, TypesInv
<1>2. TypesInv /\ SteadyInv /\ StageInv /\ ComingInv /\ [Next]_vars => ComingInv'
  BY NextComing
<1>3. QED
  BY <1>1, <1>2, InitTypes, NextTypes, InitCount, NextCount, InitComing, NextSteady, PTL DEF Spec

-----------------------------------------------------------------------------
(* The readers agree.                                                      *)

(* The desktop's parser finds in the file of every JVM what the tool's     *)
(* finds, and counts the same JVMs, no matter how many of them share which *)
(* archives, although a mapping that is not the archive's does not close a  *)
(* block there (smaps.c:49-88, app.go:295-341).                            *)
THEOREM ReadersAgree == Spec => []ParsersAgree
<1>1. ParsersAgree
  <2>1. ASSUME NEW p \in Pods PROVE OneOf(p) \in SameParse
    BY WhatIsRead DEF SameParse
  <2>2. QED
    BY <2>1 DEF ParsersAgree, JvmsWith
<1>2. QED
  BY <1>1, PTL

-----------------------------------------------------------------------------
(* The books: what the sums and the totals say of the JVMs counted.        *)

(* The most there is of one JVM. *)
PerJvm == Jdk + Archive + 2 * Cow

(* An amount read from n JVMs. *)
AmountOf(s, n) == s["Pss"] <= s["Rss"] /\ \A f \in Counted : s[f] <= n * PerJvm

LEMMA PerJvmType ==
  /\ PerJvm \in Nat /\ Heap \in Nat /\ Cow \in Nat
  /\ Jdk \in Nat \ {0} /\ Archive \in Nat \ {0}
  BY SmapsAssumption DEF SmapsAssumption, PerJvm

LEMMA AmountsAdd ==
  ASSUME NEW s \in Sums, NEW t \in Sums, NEW n \in Nat, NEW k \in Nat, AmountOf(s, n), AmountOf(t, k)
  PROVE  Plus(s, t) \in Sums /\ AmountOf(Plus(s, t), n + k)
<1>1. (n + k) * PerJvm = n * PerJvm + k * PerJvm /\ n * PerJvm \in Nat /\ k * PerJvm \in Nat
  BY PerJvmType
<1>2. \A f \in Counted : s[f] \in Nat /\ t[f] \in Nat /\ Plus(s, t)[f] = s[f] + t[f]
  BY DEF Plus, Sums
<1>3. Plus(s, t) \in Sums
  BY <1>2 DEF Plus, Sums
<1>4. "Rss" \in Counted /\ "Pss" \in Counted
  BY DEF Counted
<1> DEFINE a == n * PerJvm
           b == k * PerJvm
<1>5. /\ a \in Nat /\ b \in Nat /\ (n + k) * PerJvm = a + b
      /\ s["Pss"] <= s["Rss"] /\ t["Pss"] <= t["Rss"]
      /\ \A f \in Counted : s[f] <= a /\ t[f] <= b
  BY <1>1 DEF AmountOf
<1> HIDE DEF a, b
<1>6. Plus(s, t)["Pss"] <= Plus(s, t)["Rss"] /\ \A f \in Counted : Plus(s, t)[f] <= a + b
  BY <1>2, <1>4, <1>5
<1>7. QED
  BY <1>3, <1>5, <1>6 DEF AmountOf

LEMMA ZeroIsNothing == Zero \in Sums /\ AmountOf(Zero, 0)
<1>1. 0 * PerJvm = 0
  BY PerJvmType
<1>2. QED
  BY <1>1 DEF Zero, Sums, AmountOf, Counted

LEMMA OfNoJvms ==
  ASSUME NEW s \in Sums, AmountOf(s, 0)
  PROVE  s["Pss"] = 0 /\ s["Rss"] = 0
<1>1. 0 * PerJvm = 0 /\ "Pss" \in Counted /\ "Rss" \in Counted
  BY PerJvmType DEF Counted
<1>2. s["Pss"] \in Nat /\ s["Pss"] <= 0 /\ s["Rss"] \in Nat /\ s["Rss"] <= 0
  BY <1>1 DEF AmountOf, Sums
<1>3. QED
  BY <1>2

(* One archive in the file of a JVM. *)
LEMMA OfOneArchive ==
  ASSUME NEW kib \in Nat, NEW m \in Nat
  PROVE  LET a == ArchiveSums(kib, m)
         IN  /\ a \in Sums
             /\ a["Rss"] = IF m = 0 THEN 0 ELSE kib + Cow
             /\ a["Pss"] = IF m = 0 THEN 0 ELSE (kib \div m) + Cow
             /\ a["Pss"] <= a["Rss"] /\ \A f \in Counted : a[f] <= kib + Cow
<1>0. Cow \in Nat
  BY PerJvmType
<1>1. CASE m = 0
  <2>1. ArchiveSums(kib, m) = Zero
    BY <1>1 DEF ArchiveSums
  <2>2. Zero \in Sums /\ Zero["Rss"] = 0 /\ Zero["Pss"] = 0 /\ \A f \in Counted : Zero[f] = 0
    BY DEF Zero, Sums, Counted
  <2>3. QED
    BY <1>0, <1>1, <2>1, <2>2
<1>2. CASE m # 0
  <2> DEFINE k == kib \div m
             c == Clean(kib, m)
             d == Dirty(Cow)
  <2>1. k \in Nat /\ k <= kib
    BY <1>2
  <2> HIDE DEF k
  <2>2. c = [f \in Counted |->
               IF f = "Rss" \/ (f = "Shared_Clean" /\ m > 1) \/ (f = "Private_Clean" /\ ~(m > 1))
               THEN kib ELSE IF f = "Pss" THEN k ELSE 0]
    BY DEF Clean, k
  <2> HIDE DEF c
  <2>3. /\ \A f \in Counted : c[f] \in Nat /\ c[f] <= kib
        /\ c["Rss"] = kib /\ c["Pss"] = k
    BY <2>1, <2>2 DEF Counted
  <2>4. /\ \A f \in Counted : d[f] \in Nat /\ d[f] <= Cow
        /\ d["Rss"] = Cow /\ d["Pss"] = Cow
    BY <1>0 DEF Dirty, Counted
  <2> HIDE DEF d
  <2>5. ArchiveSums(kib, m) = [f \in Counted |-> c[f] + d[f]]
    BY <1>2 DEF ArchiveSums, Plus, c, d
  <2>6. "Rss" \in Counted /\ "Pss" \in Counted
    BY DEF Counted
  <2> DEFINE a == ArchiveSums(kib, m)
  <2>7. \A f \in Counted : a[f] = c[f] + d[f] /\ a[f] \in Nat /\ a[f] <= kib + Cow
    BY <1>0, <2>3, <2>4, <2>5
  <2>8. a \in Sums
    BY <2>5, <2>7 DEF Sums
  <2>9. a["Rss"] = kib + Cow /\ a["Pss"] = k + Cow /\ a["Pss"] <= a["Rss"]
    BY <1>0, <2>1, <2>3, <2>4, <2>6, <2>7
  <2> HIDE DEF a
  <2>10. QED
    BY <1>2, <2>7, <2>8, <2>9 DEF k, a
<1>3. QED
  BY <1>1, <1>2

LEMMA OfOneJvm ==
  ASSUME NEW p \in Pods
  PROVE  LET a == ArchiveSums(Jdk, OneOf(p)[1])
             b == ArchiveSums(Archive, OneOf(p)[2])
         IN  /\ SumsOf(p) \in Sums /\ AmountOf(SumsOf(p), 1)
             /\ SumsOf(p)["Rss"] = a["Rss"] + b["Rss"]
             /\ SumsOf(p)["Pss"] = a["Pss"] + b["Pss"]
<1> DEFINE a == ArchiveSums(Jdk, OneOf(p)[1])
           b == ArchiveSums(Archive, OneOf(p)[2])
<1>1. OneOf(p)[1] \in Nat /\ OneOf(p)[2] \in Nat
  BY WhatIsRead DEF Numbers
<1>2. /\ Jdk \in Nat /\ Archive \in Nat /\ Cow \in Nat
      /\ "Rss" \in Counted /\ "Pss" \in Counted
  BY PerJvmType DEF Counted
<1>3. a \in Sums /\ a["Pss"] <= a["Rss"] /\ \A f \in Counted : a[f] <= Jdk + Cow
  BY <1>1, <1>2, OfOneArchive
<1>4. b \in Sums /\ b["Pss"] <= b["Rss"] /\ \A f \in Counted : b[f] <= Archive + Cow
  BY <1>1, <1>2, OfOneArchive
<1>5. SumsOf(p) = [f \in Counted |-> a[f] + b[f]]
  BY DEF SumsOf, JvmSums, Plus
<1>6. 1 * PerJvm = (Jdk + Cow) + (Archive + Cow)
  BY <1>2 DEF PerJvm
<1> HIDE DEF a, b
<1>7. /\ SumsOf(p) \in Sums
      /\ SumsOf(p)["Rss"] = a["Rss"] + b["Rss"] /\ SumsOf(p)["Pss"] = a["Pss"] + b["Pss"]
  BY <1>2, <1>3, <1>4, <1>5 DEF Sums
<1>8. \A f \in Counted : SumsOf(p)[f] <= (Jdk + Cow) + (Archive + Cow)
  <2>1. \A f \in Counted : a[f] \in Nat /\ b[f] \in Nat
    BY <1>3, <1>4 DEF Sums
  <2>2. QED
    BY <1>2, <1>3, <1>4, <1>5, <2>1
<1>9. SumsOf(p)["Pss"] <= SumsOf(p)["Rss"]
  <2>1. /\ a["Rss"] \in Nat /\ b["Rss"] \in Nat /\ a["Pss"] \in Nat /\ b["Pss"] \in Nat
    BY <1>2, <1>3, <1>4 DEF Sums
  <2>2. QED
    BY <1>3, <1>4, <1>7, <2>1
<1>10. QED
  BY <1>6, <1>7, <1>8, <1>9 DEF AmountOf, a, b

CountedPods == {p \in Pods : counted[p] # 0}

LEMMA CountedPodsAreFinite ==
  /\ Cardinality(Pods) \in Nat
  /\ IsFiniteSet(CountedPods) /\ Cardinality(CountedPods) \in Nat
  /\ Cardinality(CountedPods) <= Cardinality(Pods)
<1>1. CountedPods \in SUBSET Pods
  BY DEF CountedPods
<1>2. QED
  BY <1>1, FS_Subset, FS_CardinalityType

(* The sums have still to go into the total. *)
Open ==
  \/ tool = "desktop" /\ step # "done"
  \/ tool = "stats" /\ step \in {"read", "kubectl", "exec"}

BookTypes == sums \in Sums /\ total \in Sums /\ jvms \in Nat /\ totalJvms \in Nat /\ rows \in Nat

(* The total and the sums that have still to go into it account for every  *)
(* pod counted, and the rows for what the total has saved.                 *)
Books ==
  /\ AmountOf(sums, jvms) /\ AmountOf(total, totalJvms)
  /\ jvms <= Cardinality(CountedPods)
  /\ totalJvms + (IF Open THEN jvms ELSE 0) = Cardinality(CountedPods)
  /\ tool = "stats" => rows = total["Rss"] - total["Pss"]
  /\ tool = "stats" /\ step = "pgrep" => sums = Zero /\ jvms = 0

(* What a step does to the books. *)
Quiet ==
  /\ UNCHANGED <<tally, report, tool>>
  /\ (Open' <=> Open) \/ jvms = 0
  /\ tool = "stats" /\ step' = "pgrep" => step = "pgrep"

Cleared ==
  /\ tool = "stats" /\ ~Open /\ ~Open'
  /\ sums' = Zero /\ jvms' = 0
  /\ UNCHANGED <<tool, counted, report>>

Entered(p) ==
  /\ Uncounted(p) /\ Tally(p)
  /\ Open /\ Open' /\ step' # "pgrep"
  /\ UNCHANGED <<report, tool>>

RowAdded ==
  /\ Row /\ Open /\ ~Open' /\ step' # "pgrep"
  /\ UNCHANGED <<tally, tool>>

BookStep == Quiet \/ Cleared \/ RowAdded \/ \E p \in Pods : Entered(p)

LEMMA StepsOfBooks ==
  ASSUME TypesInv, StageInv, CountInv, BookTypes, Books, [Next]_vars
  PROVE  BookStep
<1>0. tool \in {"stats", "desktop"} /\ jvms \in Nat
  BY DEF TypesInv
<1> USE DEF Goto, cluster, fixed, place, desktop, StageInv
<1>1. CASE ListClassCaches \/ PodsListed \/ Finish
  BY <1>0, <1>1 DEF ListClassCaches, PodsListed, Finish, BookStep, Quiet, Open
<1>2. ASSUME NEW w \in Workloads, ListPods(w) \/ ListAgain(w) PROVE BookStep
  BY <1>0, <1>2 DEF ListPods, ListAgain, BookStep, Quiet, Open
<1>3. CASE ListLabelled
  <2>1. tool = "desktop" /\ CountedPods = {}
    BY <1>3 DEF ListLabelled, CountedPods, Uncounted
  <2>2. totalJvms + jvms = 0
    BY <1>3, <2>1, FS_EmptySet DEF ListLabelled, Books, Open
  <2>3. jvms = 0
    BY <2>2 DEF BookTypes
  <2>4. QED
    BY <1>3, <2>1, <2>3 DEF ListLabelled, BookStep, Quiet
<1>4. CASE SlowPath
  BY <1>0, <1>4 DEF SlowPath, BookStep, Quiet, Open
<1>5. CASE NextNode
  BY <1>0, <1>5 DEF NextNode, BookStep, Quiet, Cleared, Open, tally
<1>6. CASE FindPids \/ FindNoPids
  <2>1. step = "pgrep" /\ step' # "pgrep" /\ UNCHANGED <<tally, report, tool>>
        /\ (tool = "desktop" => step' # "done")
    BY <1>0, <1>6 DEF FindPids, FindNoPids, NoDocker
  <2>2. tool = "stats" => jvms = 0
    BY <2>1 DEF Books
  <2>3. QED
    BY <1>0, <2>1, <2>2 DEF BookStep, Quiet, Open
<1>7. CASE PidsRead
  <2>1. CASE tool = "stats" /\ jvms > 0
    BY <1>0, <1>7, <2>1 DEF PidsRead, BookStep, RowAdded, Open
  <2>2. CASE ~(tool = "stats" /\ jvms > 0)
    BY <1>0, <1>7, <2>2 DEF PidsRead, NoDocker, BookStep, Quiet, Open
  <2>3. QED
    BY <2>1, <2>2
<1>8. CASE KubectlDone
  <2>1. tool = "stats" /\ step = "kubectl" /\ step' = "node" /\ UNCHANGED <<tally, tool>>
    BY <1>8 DEF KubectlDone
  <2>2. CASE jvms > 0
    BY <1>8, <2>1, <2>2 DEF KubectlDone, BookStep, RowAdded, Open
  <2>3. CASE ~(jvms > 0)
    BY <1>0, <1>8, <2>1, <2>3 DEF KubectlDone, BookStep, Quiet
  <2>4. QED
    BY <2>2, <2>3
<1>9. CASE PodsRead
  <2>1. step = "exec" /\ UNCHANGED <<tally, tool>>
    BY <1>9 DEF PodsRead
  <2>2. CASE tool = "stats"
    BY <1>9, <2>1, <2>2 DEF PodsRead, BookStep, Quiet, Open
  <2>3. CASE tool = "desktop"
    BY <1>9, <2>1, <2>3 DEF PodsRead, BookStep, RowAdded, Open
  <2>4. QED
    BY <1>0, <2>2, <2>3
<1>10. ASSUME NEW x \in pids, ReadPid(x[1], x[2]) PROVE BookStep
  <2>1. x[1] \in Pods /\ Uncounted(x[1])
    BY <1>10, PidsArePairs DEF ReadPid, CountInv
  <2>2. Entered(x[1])
    BY <1>0, <1>10, <2>1 DEF ReadPid, Entered, Open
  <2>3. QED
    BY <2>1, <2>2 DEF BookStep
<1>11. ASSUME NEW x \in pids, ReadFails(x[1], x[2]) PROVE BookStep
  BY <1>0, <1>11 DEF ReadFails, BookStep, Quiet, Open
<1>12. ASSUME NEW p \in Pods, ExecPod(p) PROVE BookStep
  <2>1. /\ step = "exec" /\ step' = "exec" /\ UNCHANGED <<report, tool>> /\ Uncounted(p)
        /\ Tally(p) \/ UNCHANGED tally
    BY <1>12 DEF ExecPod, CountInv
  <2>2. CASE Tally(p)
    <3>1. Entered(p)
      BY <1>0, <2>1, <2>2 DEF Entered, Open
    <3>2. QED
      BY <3>1 DEF BookStep
  <2>3. CASE UNCHANGED tally
    BY <2>1, <2>3 DEF BookStep, Quiet, Open
  <2>4. QED
    BY <2>1, <2>2, <2>3
<1>13. ASSUME NEW p \in Pods, PodStarts(p) \/ JvmStarts(p) \/ JvmExits(p) PROVE BookStep
  BY <1>13 DEF PodStarts, JvmStarts, JvmExits, Change, BookStep, Quiet, Open
<1>14. CASE UNCHANGED vars
  BY <1>14 DEF vars, BookStep, Quiet, Open
<1>15. QED
  BY <1>1, <1>2, <1>3, <1>4, <1>5, <1>6, <1>7, <1>8, <1>9, <1>10, <1>11, <1>12, <1>13, <1>14
  DEF Next, Stats, Desktop, Either

LEMMA InitBooks == Init => BookTypes /\ Books
<1> SUFFICES ASSUME Init PROVE BookTypes /\ Books
  OBVIOUS
<1>1. CountedPods = {} /\ Cardinality(CountedPods) = 0
  <2>1. CountedPods = {}
    BY DEF Init, CountedPods
  <2>2. QED
    BY <2>1, FS_EmptySet
<1>2. sums = Zero /\ total = Zero /\ jvms = 0 /\ totalJvms = 0 /\ rows = 0 /\ step # "pgrep"
  BY DEF Init
<1>3. total["Rss"] = 0 /\ total["Pss"] = 0
  BY <1>2 DEF Zero, Counted
<1>4. QED
  BY <1>1, <1>2, <1>3, ZeroIsNothing DEF BookTypes, Books

(* One more pod has been counted. *)
LEMMA OneMoreCounted ==
  ASSUME TypesInv, NEW p \in Pods, Uncounted(p), counted' = [counted EXCEPT ![p] = @ + 1]
  PROVE  /\ CountedPods' = CountedPods \union {p} /\ p \notin CountedPods
         /\ Cardinality(CountedPods)' = Cardinality(CountedPods) + 1
<1>1. \A q \in Pods : counted'[q] # 0 <=> counted[q] # 0 \/ q = p
  BY DEF TypesInv, Uncounted
<1>2. CountedPods' = CountedPods \union {p} /\ p \notin CountedPods
  BY <1>1 DEF CountedPods, Uncounted
<1>3. QED
  BY <1>2, CountedPodsAreFinite, FS_AddElement

LEMMA NextBooks ==
  ASSUME TypesInv, BookTypes, Books, BookStep
  PROVE  BookTypes' /\ Books'
<1>0. /\ sums \in Sums /\ total \in Sums /\ jvms \in Nat /\ totalJvms \in Nat /\ rows \in Nat
      /\ AmountOf(sums, jvms) /\ AmountOf(total, totalJvms) /\ Cardinality(CountedPods) \in Nat
  BY CountedPodsAreFinite DEF BookTypes, Books
<1>1. CASE Quiet
  <2>1. UNCHANGED <<sums, jvms, counted, total, totalJvms, rows, tool>> /\ CountedPods' = CountedPods
    BY <1>1 DEF Quiet, tally, report, CountedPods
  <2>2. (IF Open THEN jvms ELSE 0)' = IF Open THEN jvms ELSE 0
    BY <1>1, <2>1 DEF Quiet
  <2>3. QED
    BY <1>1, <2>1, <2>2 DEF Quiet, BookTypes, Books, AmountOf
<1>2. CASE Cleared
  <2>1. CountedPods' = CountedPods /\ UNCHANGED <<total, totalJvms, rows, tool>>
    BY <1>2 DEF Cleared, report, CountedPods
  <2>2. sums' \in Sums /\ AmountOf(sums', jvms') /\ jvms' \in Nat /\ jvms' <= Cardinality(CountedPods)'
    BY <1>0, <1>2, <2>1, ZeroIsNothing DEF Cleared
  <2>3. QED
    BY <1>0, <1>2, <2>1, <2>2 DEF Cleared, BookTypes, Books, AmountOf
<1>3. CASE RowAdded
  <2>1. /\ CountedPods' = CountedPods /\ UNCHANGED <<sums, jvms, tool>>
        /\ total' = Plus(total, sums) /\ totalJvms' = totalJvms + jvms
        /\ rows' = rows + (IF sums["Rss"] > sums["Pss"] THEN sums["Rss"] - sums["Pss"] ELSE 0)
    BY <1>3 DEF RowAdded, Row, tally, CountedPods
  <2>2. total' \in Sums /\ AmountOf(total', totalJvms') /\ totalJvms' \in Nat
    BY <1>0, <2>1, AmountsAdd
  <2>3. /\ "Rss" \in Counted /\ "Pss" \in Counted
        /\ sums["Rss"] \in Nat /\ sums["Pss"] \in Nat /\ total["Rss"] \in Nat /\ total["Pss"] \in Nat
        /\ sums["Pss"] <= sums["Rss"]
        /\ total'["Rss"] = total["Rss"] + sums["Rss"] /\ total'["Pss"] = total["Pss"] + sums["Pss"]
    BY <1>0, <2>1 DEF Counted, Sums, AmountOf, Plus
  <2>4. rows' \in Nat /\ rows' = rows + (sums["Rss"] - sums["Pss"])
    BY <1>0, <2>1, <2>3
  <2>5. tool = "stats" => rows' = total'["Rss"] - total'["Pss"]
    BY <1>0, <2>3, <2>4 DEF Books
  <2>6. Open /\ ~Open' /\ step' # "pgrep"
    BY <1>3 DEF RowAdded
  <2>7. BookTypes'
    BY <1>0, <2>1, <2>2, <2>4 DEF BookTypes
  <2>8. totalJvms' = Cardinality(CountedPods)'
    BY <2>1, <2>6 DEF Books
  <2>9. AmountOf(sums, jvms)' /\ AmountOf(total, totalJvms)' /\ jvms' <= Cardinality(CountedPods)'
    BY <1>0, <2>1, <2>2 DEF Books, AmountOf
  <2>10. QED
    BY <1>0, <2>1, <2>2, <2>5, <2>6, <2>7, <2>8, <2>9 DEF Books
<1>4. ASSUME NEW p \in Pods, Entered(p) PROVE BookTypes' /\ Books'
  <2>1. Open /\ Open' /\ step' # "pgrep" /\ UNCHANGED <<total, totalJvms, rows, tool>> /\ Tally(p) /\ Uncounted(p)
    BY <1>4 DEF Entered, report
  <2>2. CASE jvm[p] \in WithJdk
    <3> DEFINE v == SumsOf(p)
    <3>1. /\ sums' = Plus(sums, v) /\ jvms' = jvms + 1 /\ counted' = [counted EXCEPT ![p] = @ + 1]
          /\ v \in Sums /\ AmountOf(v, 1)
      BY <2>1, <2>2, WhatTallyDoes, OfOneJvm
    <3> HIDE DEF v
    <3>2. sums' \in Sums /\ AmountOf(sums', jvms') /\ jvms' \in Nat
      BY <1>0, <3>1, AmountsAdd
    <3>3. Cardinality(CountedPods)' = Cardinality(CountedPods) + 1
      BY <2>1, <3>1, OneMoreCounted
    <3>4. BookTypes'
      BY <1>0, <2>1, <3>2 DEF BookTypes
    <3>5. AmountOf(sums, jvms)' /\ AmountOf(total, totalJvms)'
      BY <1>0, <2>1, <3>2 DEF AmountOf
    <3>6. /\ jvms' <= Cardinality(CountedPods)'
          /\ totalJvms' + (IF Open' THEN jvms' ELSE 0) = Cardinality(CountedPods)'
      BY <1>0, <2>1, <3>1, <3>3 DEF Books
    <3>7. tool' = "stats" => rows' = total'["Rss"] - total'["Pss"]
      BY <2>1 DEF Books
    <3>8. QED
      BY <2>1, <3>4, <3>5, <3>6, <3>7 DEF Books
  <2>3. CASE jvm[p] \notin WithJdk
    <3>1. UNCHANGED <<sums, jvms, counted>> /\ CountedPods' = CountedPods
      BY <2>1, <2>3, WhatTallyDoes DEF tally, CountedPods
    <3>2. QED
      BY <2>1, <3>1 DEF BookTypes, Books, AmountOf
  <2>4. QED
    BY <2>2, <2>3
<1>5. QED
  BY <1>1, <1>2, <1>3, <1>4 DEF BookStep

(* No amount is more than the pods can have. *)
LEMMA AmountsFit ==
  ASSUME BookTypes, Books
  PROVE  \A s \in {sums, total} : s \in Kib /\ s["Rss"] \in Nat /\ s["Pss"] \in 0..s["Rss"] /\ s["Rss"] < Word
<1> DEFINE n == Cardinality(Pods)
           c == Cardinality(CountedPods)
<1>1. n \in Nat /\ c \in Nat /\ c <= n
  BY CountedPodsAreFinite
<1>2. jvms \in Nat /\ totalJvms \in Nat /\ jvms <= c /\ totalJvms <= c
  BY <1>1 DEF BookTypes, Books
<1>3. n * (2 * Heap + Jdk + Archive + 2 * Cow) < Word
  OBVIOUS
<1> HIDE DEF n, c
<1>4. ASSUME NEW s \in Sums, NEW k \in Nat, k <= n, AmountOf(s, k)
      PROVE  s \in Kib /\ s["Rss"] \in Nat /\ s["Pss"] \in 0..s["Rss"] /\ s["Rss"] < Word
  <2>1. k * PerJvm \in Nat /\ k * PerJvm < Word
    <3>1. k * PerJvm \in Nat /\ k * PerJvm <= n * PerJvm
      BY <1>1, <1>4, PerJvmType
    <3>2. n * PerJvm + n * (2 * Heap) = n * (2 * Heap + Jdk + Archive + 2 * Cow) /\ n * (2 * Heap) \in Nat
      BY <1>1, PerJvmType DEF PerJvm
    <3>3. n * PerJvm \in Nat
      BY <1>1, PerJvmType
    <3>4. QED
      BY <1>3, <3>1, <3>2, <3>3
  <2> DEFINE a == k * PerJvm
  <2>2. a \in Nat /\ a < Word /\ s["Pss"] <= s["Rss"] /\ \A f \in Counted : s[f] <= a
    BY <1>4, <2>1 DEF AmountOf
  <2> HIDE DEF a
  <2>3. "Pss" \in Counted /\ "Rss" \in Counted /\ \A f \in Counted : s[f] \in Nat /\ s[f] \in 0..(Word - 1)
    BY <2>2 DEF Counted, Sums
  <2>4. QED
    BY <2>2, <2>3 DEF Kib, Sums
<1>5. QED
  BY <1>1, <1>2, <1>4 DEF BookTypes, Books

(* What the report says has been saved. *)
LEMMA SavedIs ==
  ASSUME TypesInv, BookTypes, Books
  PROVE  Saved = total["Rss"] - total["Pss"]
<1> DEFINE r == total["Rss"]
           q == total["Pss"]
<1>1. r \in Nat /\ q \in 0..r /\ r < Word
  BY AmountsFit
<1>2. Saved = IF tool = "stats" THEN (r + Word - q) % Word ELSE IF r > q THEN r - q ELSE 0
  BY DEF Saved
<1> HIDE DEF r, q
<1>3. (r + Word - q) % Word = r - q
  <2>1. r + Word - q = (r - q) + Word /\ r - q \in 0..(Word - 1)
    BY <1>1
  <2>2. QED
    BY <1>1, <2>1
<1>4. QED
  BY <1>1, <1>2, <1>3 DEF r, q

(* The total that stats prints is what its rows add up to: no reading of   *)
(* the files, whatever comes and goes in between, makes the difference of  *)
(* its unsigned sums wrap (stats.c:106-160).                               *)
THEOREM RowsAddUp == Spec => []SavedConsistent
<1>1. TypesInv /\ BookTypes /\ Books => SavedConsistent
  BY SavedIs DEF SavedConsistent, Books
<1>2. TypesInv /\ StageInv /\ CountInv /\ BookTypes /\ Books /\ [Next]_vars => BookTypes' /\ Books'
  BY StepsOfBooks, NextBooks
<1>3. QED
  BY <1>1, <1>2, InitTypes, NextTypes, InitCount, NextCount, InitBooks, PTL DEF Spec

-----------------------------------------------------------------------------
(* Types.                                                                  *)

RestTypes ==
  /\ kind \subseteq Nodes /\ labelled \subseteq Workloads
  /\ todo \subseteq Workloads /\ nodes \subseteq Nodes /\ here \in Nodes \union {NoNode}
  /\ nodeOK \subseteq Nodes /\ steady \subseteq Pods /\ blamed \subseteq Pods
  /\ changes \in 0..MaxChanges /\ faults \in 0..MaxFaults
  /\ \A p \in Pods : pid[p] <= changes
  /\ \A x \in pids : x[2] <= MaxChanges

LEMMA InitRest == Init => RestTypes
  BY DEF Init, RestTypes

LEMMA NextRest == TypesInv /\ RestTypes /\ [Next]_vars => RestTypes'
<1> SUFFICES ASSUME TypesInv, RestTypes, [Next]_vars PROVE RestTypes'
  OBVIOUS
<1>a. NodeOf \in [Pods -> Nodes] /\ WorkloadOf \in [Pods -> Workloads]
  OBVIOUS
<1>b. pid \in [Pods -> Nat] /\ changes \in Nat /\ changes <= MaxChanges /\ faults \in Nat /\ faults <= MaxFaults
  BY DEF TypesInv, RestTypes
<1> USE DEF Goto, cluster, fixed, place, desktop, RestTypes, Blame, NoBlame
<1>1. CASE ListClassCaches \/ PodsListed \/ KubectlDone \/ Finish
  BY <1>1 DEF ListClassCaches, PodsListed, KubectlDone, Finish
<1>2. ASSUME NEW w \in Workloads, ListPods(w) \/ ListAgain(w) PROVE RestTypes'
  BY <1>a, <1>2 DEF TypesInv, ListPods, ListAgain, PodsOf
<1>3. CASE ListLabelled \/ SlowPath
  BY <1>a, <1>3 DEF TypesInv, ListLabelled, SlowPath, PodsOf
<1>4. CASE NextNode \/ PodsRead
  BY <1>4 DEF NextNode, PodsRead
<1>5. CASE FindPids
  <2>1. \A x \in pids' : x[2] <= MaxChanges
    <3>1. ASSUME NEW q \in Pods PROVE pid[q] <= MaxChanges
      BY <1>b
    <3>2. \A x \in pids' : \E q \in Pods : x = <<q, pid[q]>>
      BY <1>5 DEF FindPids, Processes, TypesInv
    <3>3. QED
      BY <3>1, <3>2
  <2>2. QED
    BY <1>5, <2>1 DEF FindPids
<1>6. CASE FindNoPids \/ PidsRead
  BY <1>6 DEF FindNoPids, PidsRead, NoDocker
<1>7. ASSUME NEW x \in pids, ReadPid(x[1], x[2]) \/ ReadFails(x[1], x[2]) PROVE RestTypes'
  BY <1>7, PidsArePairs DEF ReadPid, ReadFails
<1>8. ASSUME NEW p \in Pods, ExecPod(p) PROVE RestTypes'
  BY <1>8 DEF ExecPod
<1>9. ASSUME NEW p \in Pods, PodStarts(p) \/ JvmStarts(p) \/ JvmExits(p) PROVE RestTypes'
  <2>1. changes' = changes + 1 /\ changes' <= MaxChanges
    BY <1>b, <1>9 DEF PodStarts, JvmStarts, JvmExits, Change
  <2>2. \A q \in Pods : pid'[q] <= changes'
    BY <1>b, <1>9, <2>1 DEF PodStarts, JvmStarts, JvmExits
  <2>3. QED
    BY <1>b, <1>9, <2>1, <2>2 DEF PodStarts, JvmStarts, JvmExits, Change
<1>10. CASE UNCHANGED vars
  BY <1>10 DEF vars
<1>11. QED
  BY <1>1, <1>2, <1>3, <1>4, <1>5, <1>6, <1>7, <1>8, <1>9, <1>10 DEF Next, Stats, Desktop, Either

(* Types, the width of the integers included; and the reading of a node    *)
(* starts from nothing (stats.c:106-110).                                  *)
THEOREM TypesHold == Spec => []TypeOK
<1>1. ASSUME TypesInv, RestTypes, SteadyInv, BookTypes, Books PROVE TypeOK
  <2>1. sums \in Kib /\ total \in Kib
    BY <1>1, AmountsFit
  <2>2. pid \in [Pods -> 0..MaxChanges] /\ pids \subseteq Pods \X (0..MaxChanges)
    <3>1. \A p \in Pods : pid[p] \in 0..MaxChanges
      BY <1>1 DEF TypesInv, RestTypes
    <3>2. \A x \in pids : x[1] \in Pods /\ x[2] \in 0..MaxChanges /\ x = <<x[1], x[2]>>
      BY <1>1, PidsArePairs DEF RestTypes
    <3>3. QED
      BY <1>1, <3>1, <3>2 DEF TypesInv
  <2>3. QED
    BY <1>1, <2>1, <2>2 DEF TypeOK, TypesInv, Stages, RestTypes, SteadyInv, BookTypes, Books
<1>2. TypesInv /\ StageInv /\ CountInv /\ BookTypes /\ Books /\ [Next]_vars => BookTypes' /\ Books'
  BY StepsOfBooks, NextBooks
<1>3. QED
  BY <1>1, <1>2, InitTypes, NextTypes, InitCount, NextCount, InitComing, NextSteady, InitBooks,
     InitRest, NextRest, PTL DEF Spec

-----------------------------------------------------------------------------
(* What is measured in a cluster that holds still.                         *)

(* The two archives there are of a JVM: who maps one, which file it is for *)
(* a pod, and its size.                                                    *)
Base == [kinds |-> WithJdk, of |-> JdkOf, kib |-> Jdk]
Top == [kinds |-> WithArchive, of |-> ArchiveOf, kib |-> Archive]

Users(c) == JvmsWith(c.kinds)
MapperCount(c, p) == Mappers(c.kinds, c.of, p)
Group(c, p) == Sharers(c.kinds, c.of, p)

LEMMA LayerTypes ==
  ASSUME NEW c \in {Base, Top}
  PROVE  /\ c.kib \in Nat \ {0} /\ Users(c) \subseteq Users(Base) /\ Users(c) \subseteq Pods
         /\ \A m \in 1..Cardinality(Pods) : c.kib % m = 0
  BY PerJvmType DEF Base, Top, Users, JvmsWith, WithJdk, WithArchive

LEMMA MapperCounts ==
  ASSUME NEW c, NEW p \in Users(c)
  PROVE  /\ p \in Pods /\ MapperCount(c, p) \in 1..Cardinality(Pods) /\ MapperCount(c, p) \in Nat \ {0}
         /\ MapperCount(c, p) = Cardinality(Group(c, p)) /\ IsFiniteSet(Group(c, p))
<1>1. p \in Pods /\ jvm[p] \in c.kinds
  BY DEF Users, JvmsWith
<1>2. Cardinality(Pods) \in Nat
  BY CountedPodsAreFinite
<1> DEFINE m == MapperCount(c, p)
<1>3. /\ m \in 0..Cardinality(Pods) /\ m \in Nat /\ (m # 0 <=> jvm[p] \in c.kinds)
      /\ (jvm[p] \in c.kinds => m = Cardinality(Group(c, p)) /\ IsFiniteSet(Group(c, p)))
  BY <1>1, MappersOf DEF MapperCount, Group
<1> HIDE DEF m
<1>4. QED
  BY <1>1, <1>2, <1>3 DEF m

(* A pod's share of a file, KiB by KiB. *)
Share(c, p) == {p} \X (1..(c.kib \div MapperCount(c, p)))
SharesOf(c, C) == UNION {Share(c, p) : p \in C}

LEMMA ShareCounts ==
  ASSUME NEW c \in {Base, Top}, NEW p \in Users(c)
  PROVE  /\ Share(c, p) \in SUBSET (Pods \X (1..c.kib)) /\ IsFiniteSet(Share(c, p))
         /\ Cardinality(Share(c, p)) = c.kib \div MapperCount(c, p)
<1> DEFINE m == MapperCount(c, p)
           a == c.kib
           k == a \div m
<1>1. p \in Pods /\ m \in Nat /\ m # 0
  BY MapperCounts
<1>2. a \in Nat
  BY LayerTypes
<1> HIDE DEF m, a
<1>3. k \in Nat /\ k <= a
  BY <1>1, <1>2
<1> HIDE DEF k
<1>4. IsFiniteSet(1..k) /\ Cardinality(1..k) = k
  <2>1. IsFiniteSet(1..k) /\ Cardinality(1..k) = IF 1 > k THEN 0 ELSE k - 1 + 1
    BY <1>3, FS_Interval
  <2>2. QED
    BY <1>3, <2>1
<1>5. IsFiniteSet({p}) /\ Cardinality({p}) = 1
  BY FS_Singleton
<1>6. IsFiniteSet({p} \X (1..k)) /\ Cardinality({p} \X (1..k)) = 1 * k
  <2>1. /\ IsFiniteSet({p} \X (1..k))
        /\ Cardinality({p} \X (1..k)) = Cardinality({p}) * Cardinality(1..k)
    BY <1>4, <1>5, FS_Product, Zenon
  <2>2. QED
    BY <1>4, <1>5, <2>1
<1>7. Share(c, p) = {p} \X (1..k)
  BY DEF Share, k, m, a
<1>8. {p} \X (1..k) \in SUBSET (Pods \X (1..a))
  <2>1. 1..k \subseteq 1..a
    BY <1>2, <1>3
  <2>2. QED
    BY <1>1, <2>1
<1>9. QED
  BY <1>3, <1>6, <1>7, <1>8 DEF k, m, a

LEMMA SharesAreFinite ==
  ASSUME NEW c \in {Base, Top}, NEW C \in SUBSET Users(c)
  PROVE  IsFiniteSet(SharesOf(c, C)) /\ Cardinality(SharesOf(c, C)) \in Nat
<1> DEFINE all == Pods \X (1..c.kib)
<1>1. IsFiniteSet(all)
  <2>1. IsFiniteSet(1..c.kib)
    <3>1. 1 \in Int /\ c.kib \in Int
      BY LayerTypes
    <3>2. QED
      BY <3>1, FS_Interval
  <2>2. QED
    BY <2>1, FS_Product
<1>2. SharesOf(c, C) \in SUBSET all
  <2>1. ASSUME NEW p \in C PROVE Share(c, p) \subseteq all
    BY ShareCounts
  <2> HIDE DEF all
  <2>2. QED
    BY <2>1 DEF SharesOf
<1>3. QED
  BY <1>1, <1>2, FS_Subset, FS_CardinalityType

LEMMA SharesApart ==
  ASSUME NEW c, NEW C, NEW D, C \intersect D = {}
  PROVE  /\ SharesOf(c, C) \intersect SharesOf(c, D) = {}
         /\ SharesOf(c, C \union D) = SharesOf(c, C) \union SharesOf(c, D)
  BY DEF SharesOf, Share

(* Disjoint sets of pods: their shares add up. *)
LEMMA SharesAdd ==
  ASSUME NEW c \in {Base, Top}, NEW C \in SUBSET Users(c), NEW D \in SUBSET Users(c), C \intersect D = {}
  PROVE  Cardinality(SharesOf(c, C \union D)) = Cardinality(SharesOf(c, C)) + Cardinality(SharesOf(c, D))
<1> DEFINE S == SharesOf(c, C)
           T == SharesOf(c, D)
<1>1. IsFiniteSet(S) /\ IsFiniteSet(T) /\ Cardinality(S) \in Nat /\ Cardinality(T) \in Nat
  BY SharesAreFinite
<1>2. S \intersect T = {} /\ SharesOf(c, C \union D) = S \union T
  BY SharesApart
<1> HIDE DEF S, T
<1>3. Cardinality(S \union T) = Cardinality(S) + Cardinality(T) - Cardinality(S \intersect T)
  BY <1>1, FS_Union
<1>4. Cardinality(S \intersect T) = 0
  BY <1>2, FS_EmptySet
<1>5. Cardinality(S \union T) = Cardinality(S) + Cardinality(T)
  BY <1>1, <1>3, <1>4
<1>6. QED
  BY <1>2, <1>5 DEF S, T

LEMMA ShareOfOne ==
  ASSUME NEW c \in {Base, Top}, NEW p \in Users(c)
  PROVE  Cardinality(SharesOf(c, {p})) = c.kib \div MapperCount(c, p)
<1>1. SharesOf(c, {p}) = Share(c, p)
  BY DEF SharesOf
<1>2. QED
  BY <1>1, ShareCounts

(* What there is of an archive in the JVMs counted. *)
CountedWith(c) == CountedPods \intersect Users(c)
PssOf(c) == Cardinality(SharesOf(c, CountedWith(c))) + Cardinality(CountedWith(c)) * Cow
RssOf(c) == Cardinality(CountedWith(c)) * (c.kib + Cow)

LEMMA CountedWithTypes ==
  ASSUME NEW c \in {Base, Top}
  PROVE  /\ CountedWith(c) \in SUBSET Users(c) /\ IsFiniteSet(CountedWith(c))
         /\ Cardinality(CountedWith(c)) \in Nat /\ PssOf(c) \in Nat /\ RssOf(c) \in Nat
<1>1. CountedWith(c) \in SUBSET Users(c) /\ CountedWith(c) \in SUBSET CountedPods
  BY DEF CountedWith
<1>2. IsFiniteSet(CountedWith(c)) /\ Cardinality(CountedWith(c)) \in Nat
  BY <1>1, CountedPodsAreFinite, FS_Subset, FS_CardinalityType
<1>3. Cardinality(SharesOf(c, CountedWith(c))) \in Nat
  BY <1>1, SharesAreFinite
<1>4. Cow \in Nat /\ c.kib \in Nat
  BY PerJvmType, LayerTypes
<1>5. QED
  BY <1>1, <1>2, <1>3, <1>4 DEF PssOf, RssOf

(* One more JVM adds what is in its file of the archive. *)
LEMMA LayerGrows ==
  ASSUME NEW c \in {Base, Top}, NEW p \in Pods, UNCHANGED jvm,
         p \notin CountedPods, CountedPods' = CountedPods \union {p}
  PROVE  LET a == ArchiveSums(c.kib, MapperCount(c, p))
         IN  PssOf(c)' = PssOf(c) + a["Pss"] /\ RssOf(c)' = RssOf(c) + a["Rss"]
<1> DEFINE C == CountedWith(c)
           m == MapperCount(c, p)
           a == ArchiveSums(c.kib, m)
           kib == c.kib
           s == Cardinality(SharesOf(c, C))
           n == Cardinality(C)
<1>1. /\ Users(c)' = Users(c)
      /\ \A D : SharesOf(c, D)' = SharesOf(c, D)
  BY DEF Users, JvmsWith, SharesOf, Share, MapperCount, Mappers, Sharers
<1>2. /\ C \in SUBSET Users(c) /\ IsFiniteSet(C) /\ n \in Nat /\ s \in Nat
      /\ Cow \in Nat /\ kib \in Nat
  BY CountedWithTypes, SharesAreFinite, PerJvmType, LayerTypes
<1>3. m \in Nat /\ (m # 0 <=> p \in Users(c))
  BY MappersOf DEF MapperCount, Users, JvmsWith
<1>4. PssOf(c) = s + n * Cow /\ RssOf(c) = n * (kib + Cow)
  BY DEF PssOf, RssOf
<1>5. /\ a["Rss"] = IF m = 0 THEN 0 ELSE kib + Cow
      /\ a["Pss"] = IF m = 0 THEN 0 ELSE (kib \div m) + Cow
  BY <1>2, <1>3, OfOneArchive
<1>6. /\ PssOf(c)' = Cardinality(SharesOf(c, C')) + Cardinality(C') * Cow
      /\ RssOf(c)' = Cardinality(C') * (kib + Cow)
  BY <1>1 DEF PssOf, RssOf
<1>7. CASE m = 0
  <2>1. C' = C
    BY <1>1, <1>3, <1>7 DEF CountedWith
  <2> HIDE DEF C, a
  <2>2. QED
    BY <1>2, <1>4, <1>5, <1>6, <1>7, <2>1 DEF a
<1>8. CASE m # 0
  <2>1. C' = C \union {p} /\ p \notin C /\ p \in Users(c) /\ C \intersect {p} = {}
    BY <1>1, <1>3, <1>8 DEF CountedWith
  <2> HIDE DEF C
  <2>2. Cardinality(C') = n + 1
    BY <1>2, <2>1, FS_AddElement
  <2> DEFINE k == kib \div m
  <2>3. Cardinality(SharesOf(c, C')) = s + k
    <3>1. Cardinality(SharesOf(c, C \union {p})) = s + Cardinality(SharesOf(c, {p}))
      BY <1>2, <2>1, SharesAdd
    <3>2. Cardinality(SharesOf(c, {p})) = k
      BY <2>1, ShareOfOne
    <3>3. QED
      BY <2>1, <3>1, <3>2
  <2>4. k \in Nat
    <3> HIDE DEF m, kib
    <3>1. QED
      BY <1>2, <1>3, <1>8
  <2>5. a["Rss"] = kib + Cow /\ a["Pss"] = k + Cow
    BY <1>5, <1>8
  <2> HIDE DEF k, m, kib, a, s, n
  <2>6. (n + 1) * Cow = n * Cow + Cow /\ (n + 1) * (kib + Cow) = n * (kib + Cow) + (kib + Cow)
    BY <1>2
  <2>7. n * Cow \in Nat /\ n * (kib + Cow) \in Nat
    BY <1>2
  <2>8. PssOf(c)' = s + k + (n * Cow + Cow) /\ RssOf(c)' = n * (kib + Cow) + (kib + Cow)
    BY <1>6, <2>2, <2>3, <2>6
  <2>9. PssOf(c)' = PssOf(c) + a["Pss"] /\ RssOf(c)' = RssOf(c) + a["Rss"]
    BY <1>2, <1>4, <2>4, <2>5, <2>7, <2>8
  <2>10. QED
    BY <2>9 DEF a, m, kib
<1>9. QED
  BY <1>7, <1>8

(* The sizes are those of the two archives in the JVMs counted. *)
StillOpen(f) == total[f] + (IF Open THEN sums[f] ELSE 0)
Still ==
  /\ CountedPods \subseteq Users(Base) /\ steady = Users(Base)
  /\ StillOpen("Pss") = PssOf(Base) + PssOf(Top)
  /\ StillOpen("Rss") = RssOf(Base) + RssOf(Top)

StillInv == (changes = 0 => Still) /\ (faults = 0 => blamed = {})

LEMMA InitStill == Init => StillInv
<1> SUFFICES ASSUME Init PROVE StillInv
  OBVIOUS
<1>1. CountedPods = {} /\ steady = Users(Base)
  BY DEF Init, CountedPods, Users, JvmsWith, Base
<1>2. ASSUME NEW c \in {Base, Top} PROVE PssOf(c) = 0 /\ RssOf(c) = 0
  <2>1. CountedWith(c) = {} /\ SharesOf(c, {}) = {}
    BY <1>1 DEF CountedWith, SharesOf
  <2>2. Cardinality({}) = 0
    BY FS_EmptySet
  <2>3. PssOf(c) = 0 + 0 * Cow /\ RssOf(c) = 0 * (c.kib + Cow)
    BY <2>1, <2>2 DEF PssOf, RssOf
  <2>4. Cow \in Nat /\ c.kib \in Nat
    BY PerJvmType, LayerTypes
  <2>5. QED
    BY <2>3, <2>4
<1>3. /\ sums["Pss"] = 0 /\ total["Pss"] = 0 /\ sums["Rss"] = 0 /\ total["Rss"] = 0
  BY DEF Init, Zero, Counted
<1>4. QED
  BY <1>1, <1>2, <1>3 DEF Init, StillInv, Still, StillOpen

(* Whoever changes the cluster counts the change, and whoever fails counts *)
(* the fault.                                                              *)
LEMMA StepsOfCluster ==
  ASSUME [Next]_vars
  PROVE  /\ UNCHANGED <<jvm, steady, changes>> \/ changes' = changes + 1
         /\ UNCHANGED <<faults, blamed>> \/ faults' = faults + 1
<1> USE DEF cluster, Blame, NoBlame
<1>1. CASE Stats \/ Desktop \/ Either \/ UNCHANGED vars
  BY <1>1 DEF Stats, Desktop, Either, vars, ListClassCaches, PodsListed, KubectlDone, Finish,
     ListPods, ListAgain, ListLabelled, SlowPath, NextNode, FindPids, FindNoPids, PidsRead, PodsRead,
     ReadPid, ReadFails, ExecPod
<1>2. CASE \E p \in Pods : PodStarts(p) \/ JvmStarts(p) \/ JvmExits(p)
  BY <1>2 DEF PodStarts, JvmStarts, JvmExits, Change
<1>3. QED
  BY <1>1, <1>2 DEF Next

(* The books of either size. *)
Sizes == {"Pss", "Rss"}

LEMMA SizesStay ==
  ASSUME TypesInv, BookTypes, Books, BookStep, UNCHANGED counted, NEW f \in Sizes
  PROVE  StillOpen(f)' = StillOpen(f)
<1>1. /\ sums \in Sums /\ total \in Sums /\ AmountOf(sums, jvms)
      /\ sums[f] \in Nat /\ total[f] \in Nat /\ f \in Counted
  BY DEF BookTypes, Books, Sums, Counted, Sizes
<1>2. CASE Quiet
  <2>1. UNCHANGED <<sums, total>> /\ ((Open' <=> Open) \/ jvms = 0)
    BY <1>2 DEF Quiet, tally, report
  <2>2. CASE jvms = 0
    <3>1. sums[f] = 0
      BY <1>1, <2>2, OfNoJvms DEF Sizes
    <3>2. QED
      BY <1>1, <2>1, <3>1 DEF StillOpen
  <2>3. CASE jvms # 0
    BY <2>1, <2>3 DEF StillOpen
  <2>4. QED
    BY <2>2, <2>3
<1>3. CASE Cleared
  BY <1>3 DEF StillOpen, Cleared, report
<1>4. CASE RowAdded
  <2>1. Open /\ ~Open' /\ total' = Plus(total, sums)
    BY <1>4 DEF RowAdded, Row, tally
  <2>2. total'[f] = total[f] + sums[f]
    BY <1>1, <2>1 DEF Plus
  <2>3. QED
    BY <1>1, <2>1, <2>2 DEF StillOpen
<1>5. ASSUME NEW p \in Pods, Entered(p) PROVE StillOpen(f)' = StillOpen(f)
  <2>1. Open /\ Open' /\ UNCHANGED <<total>> /\ Tally(p) /\ Uncounted(p)
    BY <1>5 DEF Entered, report
  <2>2. CASE jvm[p] \in WithJdk
    <3>1. counted' = [counted EXCEPT ![p] = @ + 1]
      BY <2>1, <2>2, WhatTallyDoes
    <3>2. CountedPods' = CountedPods \union {p} /\ p \notin CountedPods
      BY <2>1, <3>1, OneMoreCounted
    <3>3. QED
      BY <3>2 DEF CountedPods
  <2>3. CASE jvm[p] \notin WithJdk
    BY <2>1, <2>3, WhatTallyDoes DEF tally, StillOpen
  <2>4. QED
    BY <2>2, <2>3
<1>6. QED
  BY <1>2, <1>3, <1>4, <1>5 DEF BookStep

LEMMA NextStill ==
  ASSUME TypesInv, RestTypes, BookTypes, Books, StillInv, BookStep, [Next]_vars
  PROVE  StillInv'
<1>0. changes \in Nat /\ faults \in Nat
  BY DEF RestTypes
<1>1. faults' = 0 => blamed' = {}
  BY <1>0, StepsOfCluster DEF StillInv
<1>2. SUFFICES ASSUME changes' = 0 PROVE Still'
  BY <1>1 DEF StillInv
<1>3. UNCHANGED <<jvm, steady>> /\ Still
  BY <1>0, <1>2, StepsOfCluster DEF StillInv
<1>4. Users(Base)' = Users(Base)
  BY <1>3 DEF Users, JvmsWith
<1>5. CASE UNCHANGED counted
  <2>1. CountedPods' = CountedPods
    BY <1>5 DEF CountedPods
  <2>2. ASSUME NEW c \in {Base, Top} PROVE PssOf(c)' = PssOf(c) /\ RssOf(c)' = RssOf(c)
    BY <1>3, <2>1 DEF PssOf, RssOf, CountedWith, Users, JvmsWith, SharesOf, Share, MapperCount,
       Mappers, Sharers
  <2>3. StillOpen("Pss")' = StillOpen("Pss") /\ StillOpen("Rss")' = StillOpen("Rss")
    BY <1>5, SizesStay DEF Sizes
  <2>4. QED
    BY <1>3, <1>4, <2>1, <2>2, <2>3 DEF Still
<1>6. CASE ~UNCHANGED counted
  <2>1. PICK p \in Pods : Entered(p)
    BY <1>6 DEF BookStep, Quiet, Cleared, RowAdded, tally
  <2>2. Open /\ Open' /\ UNCHANGED <<total>> /\ Tally(p) /\ Uncounted(p)
    BY <2>1 DEF Entered, report
  <2>3. jvm[p] \in WithJdk
    BY <1>6, <2>2, WhatTallyDoes DEF tally
  <2>4. sums' = Plus(sums, SumsOf(p)) /\ counted' = [counted EXCEPT ![p] = @ + 1]
    BY <2>2, <2>3, WhatTallyDoes
  <2>5. CountedPods' = CountedPods \union {p} /\ p \notin CountedPods
    BY <2>2, <2>4, OneMoreCounted
  <2> DEFINE a == ArchiveSums(Jdk, OneOf(p)[1])
             b == ArchiveSums(Archive, OneOf(p)[2])
  <2>6. /\ SumsOf(p)["Rss"] = a["Rss"] + b["Rss"] /\ SumsOf(p)["Pss"] = a["Pss"] + b["Pss"]
        /\ a["Rss"] \in Nat /\ a["Pss"] \in Nat /\ b["Rss"] \in Nat /\ b["Pss"] \in Nat
    <3>1. OneOf(p)[1] \in Nat /\ OneOf(p)[2] \in Nat /\ Jdk \in Nat /\ Archive \in Nat
      BY WhatIsRead, PerJvmType DEF Numbers
    <3>2. a \in Sums /\ b \in Sums
      BY <3>1, OfOneArchive
    <3>3. QED
      BY <3>2, OfOneJvm DEF Sums, Counted
  <2>7. /\ Base.kib = Jdk /\ MapperCount(Base, p) = OneOf(p)[1]
        /\ Top.kib = Archive /\ MapperCount(Top, p) = OneOf(p)[2]
    BY DEF Base, Top, MapperCount, OneOf
  <2>8. PssOf(Base)' = PssOf(Base) + a["Pss"] /\ RssOf(Base)' = RssOf(Base) + a["Rss"]
    <3>1. LET z == ArchiveSums(Base.kib, MapperCount(Base, p))
          IN  PssOf(Base)' = PssOf(Base) + z["Pss"] /\ RssOf(Base)' = RssOf(Base) + z["Rss"]
      BY <1>3, <2>5, LayerGrows
    <3>2. QED
      BY <2>7, <3>1
  <2>9. PssOf(Top)' = PssOf(Top) + b["Pss"] /\ RssOf(Top)' = RssOf(Top) + b["Rss"]
    <3>1. LET z == ArchiveSums(Top.kib, MapperCount(Top, p))
          IN  PssOf(Top)' = PssOf(Top) + z["Pss"] /\ RssOf(Top)' = RssOf(Top) + z["Rss"]
      BY <1>3, <2>5, LayerGrows
    <3>2. QED
      BY <2>7, <3>1
  <2> HIDE DEF a, b
  <2>10. /\ sums \in Sums /\ "Pss" \in Counted /\ "Rss" \in Counted
         /\ sums["Pss"] \in Nat /\ total["Pss"] \in Nat /\ sums["Rss"] \in Nat /\ total["Rss"] \in Nat
    BY DEF BookTypes, Sums, Counted
  <2>11. /\ sums'["Pss"] = sums["Pss"] + (a["Pss"] + b["Pss"])
         /\ sums'["Rss"] = sums["Rss"] + (a["Rss"] + b["Rss"])
    BY <2>4, <2>6, <2>10 DEF Plus
  <2>12. PssOf(Base) \in Nat /\ PssOf(Top) \in Nat /\ RssOf(Base) \in Nat /\ RssOf(Top) \in Nat
    BY CountedWithTypes
  <2>13. /\ total["Pss"] + sums["Pss"] = PssOf(Base) + PssOf(Top)
         /\ total["Rss"] + sums["Rss"] = RssOf(Base) + RssOf(Top)
    BY <1>3, <2>2 DEF Still, StillOpen
  <2>14. /\ total["Pss"] + sums'["Pss"] = PssOf(Base)' + PssOf(Top)'
         /\ total["Rss"] + sums'["Rss"] = RssOf(Base)' + RssOf(Top)'
    <3>1. total["Pss"] + (sums["Pss"] + (a["Pss"] + b["Pss"]))
            = (PssOf(Base) + a["Pss"]) + (PssOf(Top) + b["Pss"])
      <4> DEFINE u == total["Pss"]
                 v == sums["Pss"]
                 w == PssOf(Base)
                 x == PssOf(Top)
                 y == a["Pss"]
                 z == b["Pss"]
      <4>1. /\ u \in Nat /\ v \in Nat /\ w \in Nat /\ x \in Nat /\ y \in Nat /\ z \in Nat
            /\ u + v = w + x
        BY <2>6, <2>10, <2>12, <2>13
      <4> HIDE DEF u, v, w, x, y, z
      <4>2. u + (v + (y + z)) = (w + y) + (x + z)
        BY <4>1
      <4>3. QED
        BY <4>2 DEF u, v, w, x, y, z
    <3>2. total["Rss"] + (sums["Rss"] + (a["Rss"] + b["Rss"]))
            = (RssOf(Base) + a["Rss"]) + (RssOf(Top) + b["Rss"])
      <4> DEFINE u == total["Rss"]
                 v == sums["Rss"]
                 w == RssOf(Base)
                 x == RssOf(Top)
                 y == a["Rss"]
                 z == b["Rss"]
      <4>1. /\ u \in Nat /\ v \in Nat /\ w \in Nat /\ x \in Nat /\ y \in Nat /\ z \in Nat
            /\ u + v = w + x
        BY <2>6, <2>10, <2>12, <2>13
      <4> HIDE DEF u, v, w, x, y, z
      <4>2. u + (v + (y + z)) = (w + y) + (x + z)
        BY <4>1
      <4>3. QED
        BY <4>2 DEF u, v, w, x, y, z
    <3>3. QED
      BY <2>8, <2>9, <2>11, <3>1, <3>2
  <2>15. StillOpen("Pss")' = PssOf(Base)' + PssOf(Top)' /\ StillOpen("Rss")' = RssOf(Base)' + RssOf(Top)'
    BY <2>2, <2>14 DEF StillOpen
  <2>16. CountedPods' \subseteq Users(Base)' /\ steady' = Users(Base)'
    BY <1>3, <1>4, <2>3, <2>5 DEF Still, Users, JvmsWith, Base
  <2>17. QED
    BY <2>15, <2>16 DEF Still
<1>7. QED
  BY <1>5, <1>6

(* The groups of JVMs that share the pages of a file. *)
Groups(c) == {Group(c, p) : p \in Users(c)}

LEMMA GroupsPartition ==
  ASSUME NEW c
  PROVE  /\ UNION Groups(c) = Users(c)
         /\ \A G, H \in Groups(c) : G # H => G \intersect H = {}
         /\ \A G \in Groups(c) : G \subseteq Users(c) /\ \A q \in G : Group(c, q) = G
<1>1. ASSUME NEW p \in Users(c), NEW q \in Group(c, p) PROVE q \in Users(c) /\ Group(c, q) = Group(c, p)
  BY DEF Group, Sharers, Users, JvmsWith
<1>2. \A p \in Users(c) : p \in Group(c, p)
  BY DEF Group, Sharers, Users, JvmsWith
<1>3. \A G \in Groups(c) : G \subseteq Users(c) /\ \A q \in G : Group(c, q) = G
  BY <1>1 DEF Groups
<1>4. UNION Groups(c) = Users(c)
  BY <1>2, <1>3 DEF Groups
<1>5. QED
  BY <1>3, <1>4

(* A group's shares make one file. *)
LEMMA GroupIsOneFile ==
  ASSUME NEW c \in {Base, Top}, NEW G \in Groups(c)
  PROVE  Cardinality(SharesOf(c, G)) = c.kib
<1> DEFINE m == Cardinality(G)
           a == c.kib
           k == a \div m
<1>1. G \subseteq Users(c) /\ \A q \in G : Group(c, q) = G
  BY GroupsPartition
<1>2. PICK p \in Users(c) : G = Group(c, p)
  BY DEF Groups
<1>3. IsFiniteSet(G) /\ m \in 1..Cardinality(Pods) /\ m \in Nat \ {0}
  BY <1>2, MapperCounts
<1>4. ASSUME NEW q \in G PROVE MapperCount(c, q) = m
  BY <1>1, MapperCounts
<1>5. SharesOf(c, G) = G \X (1..k)
  BY <1>4 DEF SharesOf, Share
<1>6. a % m = 0 /\ a \in Nat
  BY <1>3, LayerTypes
<1> HIDE DEF m, a
<1>7. k \in Nat /\ m * k = a
  BY <1>3, <1>6
<1> HIDE DEF k
<1>8. IsFiniteSet(1..k) /\ Cardinality(1..k) = k
  <2>1. IsFiniteSet(1..k) /\ Cardinality(1..k) = IF 1 > k THEN 0 ELSE k - 1 + 1
    BY <1>7, FS_Interval
  <2>2. QED
    BY <1>7, <2>1
<1>9. Cardinality(G \X (1..k)) = m * k
  <2>1. Cardinality(G \X (1..k)) = Cardinality(G) * Cardinality(1..k)
    BY <1>3, <1>8, FS_Product, Zenon
  <2>2. QED
    BY <1>8, <2>1 DEF m
<1>10. QED
  BY <1>5, <1>7, <1>9 DEF a

LEMMA GroupsAreFinite ==
  ASSUME NEW c
  PROVE  IsFiniteSet(Groups(c)) /\ Cardinality(Groups(c)) \in Nat
<1>1. Groups(c) \in SUBSET (SUBSET Pods)
  BY DEF Groups, Group, Sharers
<1>2. IsFiniteSet(SUBSET Pods)
  BY FS_SUBSET
<1>3. QED
  BY <1>1, <1>2, FS_Subset, FS_CardinalityType

(* All shares make one file for every group. *)
LEMMA OneFilePerGroup ==
  ASSUME NEW c \in {Base, Top}
  PROVE  Cardinality(SharesOf(c, Users(c))) = Cardinality(Groups(c)) * c.kib
<1> DEFINE GS == Groups(c)
           N == Cardinality(GS)
           a == c.kib
           Adds(T) == Cardinality(SharesOf(c, UNION T)) = Cardinality(T) * a
           K == {n \in 0..N : \A T \in SUBSET GS : Cardinality(T) = n => Adds(T)}
<1>1. N \in Nat /\ a \in Nat
  BY GroupsAreFinite, LayerTypes
<1>2. \A T \in SUBSET GS : IsFiniteSet(T) /\ Cardinality(T) \in Nat /\ UNION T \subseteq Users(c)
  BY GroupsAreFinite, GroupsPartition, FS_Subset, FS_CardinalityType
<1> HIDE DEF a
<1>3. 0 \in K
  <2>1. ASSUME NEW T \in SUBSET GS, Cardinality(T) = 0 PROVE Adds(T)
    <3>1. T = {} /\ UNION T = {} /\ SharesOf(c, UNION T) = {}
      BY <1>2, <2>1, FS_EmptySet DEF SharesOf
    <3>2. Cardinality(SharesOf(c, UNION T)) = 0
      <4>1. Cardinality({}) = 0
        BY FS_EmptySet
      <4>2. QED
        BY <3>1, <4>1
    <3>3. 0 * a = 0
      BY <1>1
    <3>4. QED
      BY <2>1, <3>2, <3>3
  <2> HIDE DEF Adds
  <2>2. QED
    BY <1>1, <2>1
<1>4. ASSUME NEW n \in 1..N, n - 1 \in K PROVE n \in K
  <2>1. ASSUME NEW T \in SUBSET GS, Cardinality(T) = n PROVE Adds(T)
    <3>1. PICK G : G \in T
      BY <1>2, <1>4, <2>1, FS_EmptySet
    <3> DEFINE R == T \ {G}
    <3>2. R \in SUBSET GS /\ Cardinality(R) = n - 1
      BY <1>2, <2>1, <3>1, FS_RemoveElement
    <3>3. Adds(R)
      BY <1>4, <3>2
    <3>4. /\ UNION T = (UNION R) \union G /\ (UNION R) \intersect G = {}
          /\ UNION R \in SUBSET Users(c) /\ G \in SUBSET Users(c)
      BY <3>1, <3>2, GroupsPartition
    <3> HIDE DEF R
    <3>5. Cardinality(SharesOf(c, UNION T)) = Cardinality(SharesOf(c, UNION R)) + Cardinality(SharesOf(c, G))
      BY <3>4, SharesAdd
    <3>6. Cardinality(SharesOf(c, G)) = a
      BY <3>1, GroupIsOneFile DEF a
    <3>7. (n - 1) * a + a = n * a
      BY <1>1
    <3>8. QED
      BY <2>1, <3>2, <3>3, <3>5, <3>6, <3>7
  <2> HIDE DEF Adds
  <2>2. QED
    BY <1>1, <2>1
<1>5. N \in K
  <2> HIDE DEF K
  <2>1. \A n \in 0..N : n \in K
    BY <1>1, <1>3, <1>4, UpTo
  <2>2. QED
    BY <1>1, <2>1
<1>6. Adds(GS)
  BY <1>5
<1>7. QED
  BY <1>6, GroupsPartition DEF a

(* What the measure is: in a cluster that holds still, with no call        *)
(* failing, either tool finds every JVM that maps an archive, the JDK's    *)
(* own as well as its ClassCache's, counts each file once for a node,      *)
(* whichever workloads' JVMs map it, and what it says is saved is one copy *)
(* for all other JVMs of that file (stats.c:68-160, app.go:251-341).       *)
THEOREM SavedIsWhatIsShared == Spec => []MeasuredIsShared
<1>1. ASSUME TypesInv, CountInv, SteadyInv, ComingInv, BookTypes, Books, StillInv
      PROVE  MeasuredIsShared
  <2> DEFINE n == Cardinality(JvmsWith(WithJdk))
             k == Cardinality(JvmsWith(WithArchive))
             jdks == Cardinality(FilesIn(WithJdk, JdkOf))
             archives == Cardinality(FilesIn(WithArchive, ArchiveOf))
             r == total["Rss"]
             q == total["Pss"]
  <2>1. SUFFICES ASSUME Done, changes = 0, faults = 0, tool = "desktop" => labelled = Workloads
                 PROVE  /\ totalJvms = n
                        /\ r = n * (Jdk + Cow) + k * (Archive + Cow)
                        /\ q = jdks * Jdk + archives * Archive + (n + k) * Cow
                        /\ Saved = (n - jdks) * Jdk + (k - archives) * Archive
    BY DEF MeasuredIsShared
  <2>2. Still /\ blamed = {} /\ ~Open
    BY <1>1, <2>1 DEF StillInv, Done, Open
  <2>3. CountedPods = Users(Base)
    <3>1. ASSUME NEW p \in Users(Base) PROVE p \in CountedPods
      <4>1. p \in Pods /\ Due(p)
        BY <1>1, <2>1, <2>2 DEF Users, JvmsWith, Still, Due, TypesInv
      <4>2. Expected(p) /\ ~Coming(p)
        BY <1>1, <2>1, <4>1 DEF ComingInv, Coming, Done
      <4>3. QED
        BY <4>1, <4>2 DEF Expected, Uncounted, CountedPods
    <3>2. QED
      BY <2>2, <3>1 DEF Still
  <2>4. ASSUME NEW c \in {Base, Top}
        PROVE  /\ CountedWith(c) = Users(c) /\ Cardinality(Users(c)) \in Nat
               /\ PssOf(c) = Cardinality(Groups(c)) * c.kib + Cardinality(Users(c)) * Cow
               /\ RssOf(c) = Cardinality(Users(c)) * (c.kib + Cow)
    <3>1. CountedWith(c) = Users(c)
      BY <2>3, LayerTypes DEF CountedWith
    <3>2. QED
      BY <3>1, CountedWithTypes, OneFilePerGroup DEF PssOf, RssOf
  <2>5. /\ Users(Base) = JvmsWith(WithJdk) /\ Users(Top) = JvmsWith(WithArchive)
        /\ Groups(Base) = FilesIn(WithJdk, JdkOf) /\ Groups(Top) = FilesIn(WithArchive, ArchiveOf)
        /\ Base.kib = Jdk /\ Top.kib = Archive
    BY DEF Users, Groups, Group, FilesIn, Base, Top
  <2>6. /\ n \in Nat /\ k \in Nat /\ jdks \in Nat /\ archives \in Nat
        /\ Jdk \in Nat /\ Archive \in Nat /\ Cow \in Nat
    BY <2>4, <2>5, GroupsAreFinite, PerJvmType
  <2>7. /\ PssOf(Base) = jdks * Jdk + n * Cow /\ PssOf(Top) = archives * Archive + k * Cow
        /\ RssOf(Base) = n * (Jdk + Cow) /\ RssOf(Top) = k * (Archive + Cow)
    BY <2>4, <2>5
  <2>8. totalJvms = n
    BY <1>1, <2>2, <2>3, <2>5 DEF Books, BookTypes
  <2> HIDE DEF n, k, jdks, archives
  <2>9. r \in Nat /\ q \in Nat
    BY <1>1 DEF BookTypes, Sums, Counted
  <2>10. q = PssOf(Base) + PssOf(Top) /\ r = RssOf(Base) + RssOf(Top)
    BY <2>2, <2>9 DEF Still, StillOpen
  <2>11. Saved = r - q
    BY <1>1, SavedIs
  <2> HIDE DEF r, q
  <2>12. r = n * (Jdk + Cow) + k * (Archive + Cow)
    BY <2>7, <2>10
  <2>13. q = jdks * Jdk + archives * Archive + (n + k) * Cow
    BY <2>6, <2>7, <2>10
  <2>14. r - q = (n - jdks) * Jdk + (k - archives) * Archive
    BY <2>6, <2>12, <2>13
  <2>15. QED
    BY <2>8, <2>11, <2>12, <2>13, <2>14 DEF r, q
<1>2. TypesInv /\ StageInv /\ CountInv /\ BookTypes /\ Books /\ [Next]_vars => BookTypes' /\ Books'
  BY StepsOfBooks, NextBooks
<1>3. TypesInv /\ StageInv /\ CountInv /\ RestTypes /\ BookTypes /\ Books /\ StillInv /\ [Next]_vars
        => StillInv'
  BY StepsOfBooks, NextStill
<1>4. TypesInv /\ SteadyInv /\ StageInv /\ ComingInv /\ [Next]_vars => ComingInv'
  BY NextComing
<1>5. QED
  BY <1>1, <1>2, <1>3, <1>4, InitTypes, NextTypes, InitCount, NextCount, InitComing, NextSteady,
     InitBooks, InitRest, NextRest, InitStill, PTL DEF Spec

=============================================================================
