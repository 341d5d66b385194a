-------------------------- MODULE MCStorageEngine --------------------------
(* Instances of StorageEngine for TLC: four frames of two devices.  f1 and *)
(* f2 share device and timestamp (a redelivery), so compaction keeps one.  *)
EXTENDS StorageEngine, TLC

CONSTANTS f1, f2, f3, f4, d1, d2

AllDevOf == f1 :> d1 @@ f2 :> d1 @@ f3 :> d1 @@ f4 :> d2
AllKeyOf == f1 :> 1 @@ f2 :> 1 @@ f3 :> 2 @@ f4 :> 3
MCDevOf == [f \in Frames |-> AllDevOf[f]]
MCKeyOf == [f \in Frames |-> AllKeyOf[f]]
MCDevices == {MCDevOf[f] : f \in Frames}
\* Neither writers nor the two frames of one key can be told apart: constants treat them
\* alike, and no choice is made among them.
Alike == {p @@ q : p \in Permutations(Writers), q \in Permutations({f1, f2})}
=============================================================================
