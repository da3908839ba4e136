----------------------------- MODULE MCAgentLoop -----------------------------
(* Plans for TLC: a step that asks for exit code 0 and one that checks the *)
(* workspace.                                                              *)
EXTENDS AgentLoop

MCPlans == {<<"exit_zero", "check">>, <<"check">>}
=============================================================================
