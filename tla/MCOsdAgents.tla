------------------------------ MODULE MCOsdAgents ------------------------------
(* Small instances of OsdAgents: run plans of two and three steps.         *)
EXTENDS OsdAgents, TLC

MCKinds == {"package", "role", "join"}

(* OsdClient knows packages, the service knows server roles, both know how *)
(* to join a domain.                                                       *)
MCSupported == ("osd" :> {"package", "join"}) @@ ("svc" :> {"role", "join"})

(* OsdClient repeats a request, the service does not.                      *)
MCAttempts == ("osd" :> 2) @@ ("svc" :> 1)

Row(k, rc, rb, ce) ==
    [kind |-> k, retry_count |-> rc, reboot_behavior |-> rb, continue_on_error |-> ce]

PlanOf(rows) ==
    [phase             |-> [s \in Steps |-> Phase],
     kind              |-> [s \in Steps |-> rows[s].kind],
     enabled           |-> [s \in Steps |-> TRUE],
     retry_count       |-> [s \in Steps |-> rows[s].retry_count],
     reboot_behavior   |-> [s \in Steps |-> rows[s].reboot_behavior],
     continue_on_error |-> [s \in Steps |-> rows[s].continue_on_error]]

(* Steps both clients can run: a retry, a reboot, a plain step.            *)
SharedPlans ==
    { PlanOf(<<Row("join", 1, "required", FALSE),
               Row("join", 1, "none", FALSE),
               Row("join", 0, "none", FALSE)>>),
      PlanOf(<<Row("join", 0, "none", FALSE),
               Row("join", 1, "none", FALSE),
               Row("join", 0, "required", FALSE)>>) }

(* Plans without a reboot: a package, then steps of the service, so the    *)
(* clients hand over; or steps that both compete for.                      *)
HandoverPlans ==
    { PlanOf(<<Row("package", 1, "none", FALSE),
               Row("join", 0, "none", FALSE),
               Row("role", 1, "none", FALSE)>>),
      PlanOf(<<Row("join", 1, "none", FALSE),
               Row("join", 0, "none", FALSE),
               Row("join", 2, "none", FALSE)>>) }

(* A first step that may fail, and a package after a role, which OsdClient *)
(* may find when it has ended already.                                     *)
StuckPlans ==
    { PlanOf(<<Row("join", 0, "none", TRUE),
               Row("join", 0, "none", FALSE),
               Row("join", 0, "none", FALSE)>>),
      PlanOf(<<Row("role", 0, "required", FALSE),
               Row("package", 1, "none", FALSE),
               Row("join", 0, "none", FALSE)>>) }

AllPlans == SharedPlans \cup HandoverPlans \cup StuckPlans

BothClients == [p \in Plans |-> {{"osd", "svc"}}]

AnyClients == [p \in Plans |-> {{"osd"}, {"svc"}, {"osd", "svc"}}]
=============================================================================
