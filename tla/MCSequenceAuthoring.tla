-------------------------- MODULE MCSequenceAuthoring --------------------------
(* Small bodies: nested groups and a step after them, a flat tree for      *)
(* Ubuntu, and an id used twice.  The draft is empty at first.             *)
EXTENDS SequenceAuthoring

Node(id, parent, type, on, cond, refs) ==
    [client_id |-> id, parent_id |-> parent, node_type |-> type, enabled |-> on,
     fits |-> {"windows"}, condition |-> cond, content_refs |-> refs]

Ubuntu(drawn) == [i \in DOMAIN drawn |-> [drawn[i] EXCEPT !.fits = {"ubuntu"}]]

Grouped ==
    <<Node("g", None, "group", FALSE, "always", {}),
      Node("h", "g", "group", TRUE, "always", {}),
      Node("b", "h", "step", TRUE, "chosen", {"app"}),
      Node("d", None, "step", TRUE, "mixed", {})>>

Flat == <<Node("a", None, "step", FALSE, "always", {}), Node("b", None, "step", TRUE, "chosen", {})>>

Twice == <<Node("a", None, "step", TRUE, "always", {}), Node("a", None, "step", TRUE, "always", {})>>

MCBodies ==
    {[target_os |-> "windows", nodes |-> Grouped],
     [target_os |-> "ubuntu",  nodes |-> Ubuntu(Flat)],
     [target_os |-> "windows", nodes |-> Twice]}

MCExtra ==
    [positions |-> {2}, fits |-> {"windows", "ubuntu"}, condition |-> "always",
     content_refs |-> {"app"}]

MCRunBodies == {[value |-> "x", resolve |-> TRUE], [value |-> None, resolve |-> FALSE]}

MCConditions ==
    [always |-> [op |-> "empty"],
     chosen |-> [op |-> "eq", expected |-> "x"],
     given  |-> [op |-> "exists"],
     other  |-> [op |-> "ne", expected |-> "x"],
     both   |-> [op |-> "all", of |-> <<"given", "other">>],
     absent |-> [op |-> "not", of |-> "given"],
     mixed  |-> [op |-> "any", of |-> <<"both", "absent">>]]
=============================================================================
