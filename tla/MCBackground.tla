---------------------------- MODULE MCBackground ----------------------------
(* Bounds on the behaviours of StorageEngine next to a writer that flushes. *)
EXTENDS MCStorageEngine

Active == {t \in Deleters \union Sweepers \union Timers : pc[t] # "idle"}
Flushing == \E t \in Timers : pc[t] # "idle"

\* Background tasks act one at a time; a behaviour has deletions or retention, and the
\* periodic flush before either.  The periodic flush, and a deletion with a crash, take two frames.
Bounds ==
  /\ Cardinality(Active) <= 1
  /\ doomed = {} \/ swept = {}
  /\ doomed \union swept # {} => ~Flushing
  /\ Flushing \/ (doomed # {} /\ crashes > 0) => Cardinality(issued) <= 2
=============================================================================
