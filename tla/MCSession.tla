----------------------------- MODULE MCSession -----------------------------
(* One behaviour opens and binds a checkpoint (LayerBind) or runs the      *)
(* sessions of EngineSession, whose texts have tokens of none to three     *)
(* bytes and stop strings that a token may hold, end or begin.             *)
EXTENDS MCWeights, SessionText

MCBytes == [a |-> <<"a">>, b |-> <<"b">>, bab |-> <<"b", "a", "b">>, none |-> <<>>]
MCStops == {<<>>, <<<<"b", "a", "b">>>>, <<<<"a", "b", "b">>, <<"b", "a">>>>, <<<<>>, <<"a", "a">>>>}

NoEngine ==
  /\ pc = "off" /\ opts = <<>> /\ held = <<>> /\ n_bound = 0 /\ engine = FALSE
  /\ call = NoCall /\ result = NoResult /\ lost = FALSE

NoCheckpoint ==
  /\ dir = <<>> /\ hash = (CHOOSE h \in Hashes : TRUE) /\ st = Closed /\ fds = {} /\ io = Idle
  /\ plan_layer = <<>> /\ bound = Unbound /\ streamed = Unbound

MCNext ==
  \/ pc = "off" /\ BindNext /\ UNCHANGED engineVars
  \/ pc # "off" /\ EngineNext /\ UNCHANGED <<shardVars, bindVars>>

MCSpec ==
  /\ (BindInit /\ NoEngine) \/ (NoCheckpoint /\ EngineInit)
  /\ [][MCNext]_<<shardVars, bindVars, engineVars>>
=============================================================================
