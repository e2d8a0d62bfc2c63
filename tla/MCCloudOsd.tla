------------------------------ MODULE MCCloudOsd ------------------------------
(* One CloudOSD run with an online domain join and one agent.              *)
EXTENDS CloudOsdMonitor

MCPlans == {CreateSequenceForRun}
MCPhases == {"pe", "full_os"}
MCKinds == PeKinds \cup FullOsKinds
MCSupported == [a \in Agents |-> {}]
=============================================================================
