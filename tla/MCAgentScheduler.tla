-------------------------- MODULE MCAgentScheduler --------------------------
(***************************************************************************)
(* Instances of AgentScheduler for TLC: two monitors and the heartbeat.     *)
(***************************************************************************)
EXTENDS AgentScheduler

CONSTANTS Process, Network, Beat

MCJobs == {Process, Network, Beat}

AllOn == [on |-> MCJobs, refused |-> {}, nan |-> FALSE]
NoProcess == [on |-> {Network, Beat}, refused |-> {}, nan |-> FALSE]
RefusedNetwork == [on |-> MCJobs, refused |-> {Network}, nan |-> FALSE]
NaNNetwork == [on |-> MCJobs, refused |-> {Network}, nan |-> TRUE]

MCConfigs == {AllOn, NoProcess, RefusedNetwork, NaNNetwork}

=============================================================================
