---------------------------- MODULE MCApiTokens ----------------------------
(* Instances of ApiTokens for TLC: alice has t1 and t2, bob has t3.         *)
EXTENDS ApiTokens, TLC
CONSTANTS t1, t2, t3
AllCreatedBy == t1 :> "alice" @@ t2 :> "alice" @@ t3 :> "bob"
MCCreatedBy == [t \in Tokens |-> AllCreatedBy[t]]
=============================================================================
