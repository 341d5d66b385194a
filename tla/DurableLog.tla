----------------------------- MODULE DurableLog -----------------------------
(***************************************************************************)
(* What the write-ahead log promises the engine, entries being whole       *)
(* things here.  A frame is in the log for good from the moment its append *)
(* returns.  One whose append failed or was cut short may be there or not, *)
(* and as long as there is none of those a start finds all that is logged  *)
(* and nothing else.                                                       *)
(***************************************************************************)
CONSTANTS Frames, None

VARIABLES
  up,
  pending,  \* the frame being appended, or None
  logged,   \* the frames whose append returned Ok since the log was last emptied
  synced,   \* those of them that a loss of power leaves
  doubtful, \* the frames whose append failed or was cut short, or that power may have taken
  served,   \* what the engine has from the log and from its appends
  damaged   \* a start has found the log cut

vars == <<up, pending, logged, synced, doubtful, served, damaged>>

Init ==
  /\ up = TRUE /\ pending = None
  /\ logged = {} /\ synced = {} /\ doubtful = {} /\ served = {}
  /\ damaged = FALSE

Begin(f) ==
  /\ up /\ pending = None
  /\ f \notin logged \union doubtful
  /\ pending' = f
  /\ UNCHANGED <<up, logged, synced, doubtful, served, damaged>>

Working == up /\ pending # None

Commit ==
  /\ Working
  /\ logged' = logged \union {pending}
  /\ served' = served \union {pending}
  /\ pending' = None
  /\ UNCHANGED <<up, synced, doubtful, damaged>>

Refuse ==
  /\ Working
  /\ doubtful' = doubtful \union {pending}
  /\ pending' = None
  /\ UNCHANGED <<up, logged, synced, served, damaged>>

Empty ==
  /\ up /\ pending = None
  /\ logged' = {} /\ synced' = {} /\ doubtful' = {} /\ served' = {}
  /\ damaged' = FALSE
  /\ UNCHANGED <<up, pending>>

Sync ==
  /\ up /\ pending = None
  /\ synced' = logged
  /\ UNCHANGED <<up, pending, logged, doubtful, served, damaged>>

\* The process ends, and with it the frames of S.
Stop(S) ==
  /\ up /\ up' = FALSE
  /\ logged' = logged \ S
  /\ doubtful' = doubtful \union S \union ({pending} \ {None})
  /\ pending' = None
  /\ served' = {}
  /\ UNCHANGED <<synced, damaged>>

\* A start serves what is logged unless it finds the log cut, which takes a doubtful frame.
Start ==
  /\ ~up /\ up' = TRUE
  /\ served' \in SUBSET (logged \union doubtful)
  /\ damaged' \in BOOLEAN
  /\ damaged => damaged'
  /\ damaged' => damaged \/ doubtful # {}
  /\ ~damaged' => logged \subseteq served'
  /\ UNCHANGED <<pending, logged, synced, doubtful>>

Next ==
  \/ \E f \in Frames : Begin(f)
  \/ Commit \/ Refuse \/ Empty \/ Sync
  \/ Stop({}) \/ Stop(logged \ synced)
  \/ Start

Spec == Init /\ [][Next]_vars
=============================================================================
