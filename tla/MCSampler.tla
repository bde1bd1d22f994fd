------------------------------ MODULE MCSampler ------------------------------
(* Small instances of Sampler: two workloads on two nodes, whose           *)
(* ClassCaches have the same archive and whose images have JDKs of their   *)
(* own.                                                                    *)
EXTENDS Sampler, TLC

CONSTANTS p1, p2, p3, p4, n1, n2, w1, w2, jdk1, jdk2, jsa

MCPods == {p1, p2, p3, p4}
MCNodeOf == [p \in MCPods |-> IF p = p3 THEN n2 ELSE n1]
MCWorkloadOf == [p \in MCPods |-> IF p = p4 THEN w2 ELSE w1]
MCJdkOf == [p \in MCPods |-> IF p = p4 THEN jdk2 ELSE jdk1]
MCArchiveOf == [p \in MCPods |-> jsa]
MCKindsOf == (p1 :> Kinds) @@ (p2 :> Kinds) @@ (p3 :> WithArchive) @@ (p4 :> WithJdk)

Replicas == Permutations({p1, p2})

=============================================================================
