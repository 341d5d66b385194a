------------------------------- MODULE MCWal -------------------------------
(* Instances of Wal for TLC: f1 and f2 have payloads of one and two units, *)
(* big has one that does not fit the buffer of ten units.                  *)
EXTENDS Wal, TLC

CONSTANTS f1, f2, f3, big

AllSize == f1 :> 1 @@ f2 :> 2 @@ f3 :> 1 @@ big :> 11
MCSize == [f \in Frames |-> AllSize[f]]
=============================================================================
