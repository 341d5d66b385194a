---------------------------- MODULE MCRetention ----------------------------
(* Two applications; a table of one of them, one of both and one of joins. *)
EXTENDS RetentionPolicies, TLC
CONSTANTS x, y, tx, txy, tnone
MCAppsOf == tx :> {x} @@ txy :> {x, y} @@ tnone :> {}
MCStamp == tx :> 0 @@ txy :> 0 @@ tnone :> 0
MCFromEnv == [global |-> Forever, applications |-> x :> 1 @@ y :> Unset]
MCChanges == {
  [name |-> "global", days |-> 1],
  [name |-> "set", application |-> x, days |-> Forever],
  [name |-> "set", application |-> y, days |-> 2],
  [name |-> "remove", application |-> x]}
=============================================================================
