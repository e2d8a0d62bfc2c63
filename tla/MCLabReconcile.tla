---------------------------- MODULE MCLabReconcile ----------------------------
(* Two labs whose ranges overlap without being equal; the second may be on *)
(* a bridge.                                                               *)
EXTENDS LabReconcile

FirstLab == CHOOSE l \in Labs : TRUE

MCWants ==
    [l \in Labs |->
        IF l = FirstLab THEN {[cidr |-> {1, 2}, subnet |-> {1, 2}, mode |-> "sdn"]}
        ELSE {[cidr |-> {2}, subnet |-> {2}, mode |-> m] : m \in {"sdn", "bridge"}}]
=============================================================================
