------------------------------ MODULE MCRollout ------------------------------
(* Small instances of Rollout: nodes of one architecture or of two. *)
EXTENDS Rollout

CONSTANTS n1, n2

Machines == {"amd64", "arm64"}
MCKey == Release \X Profile \X Machines
KeysOf(machine) ==
  [r \in Release |-> [p \in Profile |-> [n \in Node |-> <<r, p, machine[n]>>]]]
OneMachine == KeysOf([n \in Node |-> "amd64"])
TwoMachines == KeysOf([n \in Node |-> IF n = n1 THEN "amd64" ELSE "arm64"])
MCClusters == {OneMachine, TwoMachines}
MCStarts == {<<"Owned", FALSE, TwoMachines>>, <<"Webhook", TRUE, OneMachine>>}

=============================================================================
