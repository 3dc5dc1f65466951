------------------------------- MODULE MCAgentRun -------------------------------
(* Small instances of AgentRun for TLC.                                    *)
EXTENDS AgentRun
CONSTANT s1
================================================================================
