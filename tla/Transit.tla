------------------------------ MODULE Transit ------------------------------
(***************************************************************************)
(* What ingestion over MQTT promises: per broker a queue of the frames     *)
(* taken in.  Its head is stored, or dropped with a report; frames vanish  *)
(* unreported only when what consumes the queues ends.                     *)
(***************************************************************************)
EXTENDS Naturals, Sequences, SequencesExt

CONSTANTS Sources, Frames

VARIABLES
  transit,  \* per source, the frames taken in and not settled, oldest first
  stored,   \* the frames stored
  reported, \* the frames dropped with a report
  alive     \* the queues are consumed

vars == <<transit, stored, reported, alive>>

TypeOK ==
  /\ transit \in [Sources -> Seq(Frames)]
  /\ stored \subseteq Frames
  /\ reported \subseteq Frames
  /\ alive \in BOOLEAN

Init ==
  /\ transit = [s \in Sources |-> <<>>]
  /\ stored = {}
  /\ reported = {}
  /\ alive \in BOOLEAN

\* A frame is taken in once.
Accept(s) == \E f \in Frames :
  /\ f \notin stored \union reported
  /\ \A t \in Sources : f \notin Range(transit[t])
  /\ transit' = [transit EXCEPT ![s] = Append(@, f)]
  /\ UNCHANGED <<stored, reported, alive>>

Settle(s) == transit' = [transit EXCEPT ![s] = Tail(@)]

Store(s) ==
  /\ alive /\ transit[s] # <<>>
  /\ Settle(s)
  /\ stored' = stored \union {Head(transit[s])}
  /\ UNCHANGED <<reported, alive>>

Report(s) ==
  /\ transit[s] # <<>>
  /\ Settle(s)
  /\ reported' = reported \union {Head(transit[s])}
  /\ UNCHANGED <<stored, alive>>

\* The consumer ends, and with it the oldest frames of each source.
End ==
  /\ alive' = FALSE
  /\ transit' \in [Sources -> UNION {Suffixes(transit[s]) : s \in Sources}]
  /\ \A s \in Sources : IsSuffix(transit'[s], transit[s])
  /\ UNCHANGED <<stored, reported>>

Resume ==
  /\ ~alive
  /\ alive' = TRUE
  /\ UNCHANGED <<transit, stored, reported>>

Next ==
  \/ \E s \in Sources : Accept(s) \/ Store(s) \/ Report(s)
  \/ End
  \/ Resume

Spec == Init /\ [][Next]_vars
=============================================================================
