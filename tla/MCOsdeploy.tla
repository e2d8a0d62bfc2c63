------------------------------ MODULE MCOsdeploy ------------------------------
(* One child of a Lab in a Box bundle, with one agent that supports the    *)
(* steps of its role.                                                      *)
EXTENDS OsdeployRun

MCNumSteps == Len(RunSequence)
MCPlans == {CreateSequenceForRun}
MCPhases == {"pe", "full_os"}
MCKinds == AllKinds
MCSupported == [a \in Agents |-> RoleActionKinds]
=============================================================================
