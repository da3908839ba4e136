---------------------------- MODULE MCWorkspace ----------------------------
(* Two files of the same name in two directories. *)
EXTENDS Workspace, TLC

MCBaseOf == [f \in Files |-> "notes"]
MCPrefixed == {<<"notes", "notes">>}
Policy(ap, au, off, conf, appr) ==
  [approval |-> ap, autonomy |-> au, off |-> off, conf |-> conf, approver |-> appr]
MCSymmetry == Permutations(Files) \cup Permutations(Contents)
MCPolicies ==
  { Policy("never", 3, {}, {}, TRUE),
    Policy("risky", 3, {"edit_file"}, {"write_file"}, TRUE),
    Policy("risky", 1, {"shell_execute"}, {}, FALSE),
    Policy("always", 2, {"delete_file"}, {}, TRUE) }
=============================================================================
