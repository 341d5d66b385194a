---------------------------- MODULE DurableStore ----------------------------
(***************************************************************************)
(* What the storage engine promises its clients, without log, memtable,    *)
(* tables, flushes, compactions or recovery: an answer has every frame     *)
(* acknowledged before it was asked for, across any number of crashes, and *)
(* no frame that was not written.  Two frames of one key are the same to a *)
(* reader.  Not promised are frames whose write met a change of the log,   *)
(* frames of a device being deleted, and keys that retention took.         *)
(***************************************************************************)
EXTENDS Naturals

CONSTANTS Frames, Devices, DevOf, KeyOf, TooOld, Queriers, None

VARIABLES
  written,   \* frames whose write has begun
  acked,     \* frames whose write returned Ok
  raced,     \* frames whose write met a change of the log
  forgotten, \* frames written before or during a deletion of their device
  expired,   \* frames that went with what retention removed
  moving,    \* the log is being changed for an empty one
  deleting,  \* devices being deleted
  requests   \* what each client has asked for and was answered

vars == <<written, acked, raced, forgotten, expired, moving, deleting, requests>>

OfDevice(d) == {f \in Frames : DevOf[f] = d}
Keys(S) == {KeyOf[f] : f \in S}
NoRequest == [stage |-> "none", device |-> None, owed |-> {}, frames |-> {}]
Pending == written \ acked

Init ==
  /\ written = {} /\ acked = {} /\ raced = {} /\ forgotten = {} /\ expired = {}
  /\ moving = FALSE /\ deleting = {}
  /\ requests = [q \in Queriers |-> NoRequest]

Write(f) ==
  /\ written' = written \union {f}
  /\ forgotten' = IF DevOf[f] \in deleting THEN forgotten \union {f} ELSE forgotten
  /\ UNCHANGED <<acked, raced, expired, moving, deleting, requests>>

\* The log begins to change, and meets some of the writes under way.
Change ==
  /\ moving'
  /\ \E S \in SUBSET Pending : raced' = raced \union S
  /\ UNCHANGED <<written, acked, forgotten, expired, deleting, requests>>

\* A write under way comes while it changes.
Race(f) ==
  /\ raced' = raced \union {f}
  /\ moving
  /\ UNCHANGED <<written, acked, forgotten, expired, moving, deleting, requests>>

Settle ==
  /\ moving /\ moving' = FALSE
  /\ UNCHANGED <<written, acked, raced, forgotten, expired, deleting, requests>>

\* A write returns Ok; the one that filled the memtable does when its flush is over.
Acknowledge(f) ==
  /\ acked' = acked \union {f}
  /\ moving' \in {moving, FALSE}
  /\ UNCHANGED <<written, raced, forgotten, expired, deleting, requests>>

Delete(d) ==
  /\ deleting' = deleting \union {d}
  /\ forgotten' = forgotten \union (written \intersect OfDevice(d))
  /\ UNCHANGED <<written, acked, raced, expired, moving, requests>>

EndDelete(d) ==
  /\ d \in deleting
  /\ deleting' = deleting \ {d}
  /\ UNCHANGED <<written, acked, raced, forgotten, expired, moving, requests>>

\* Retention judges a table by its largest key: what it removes has one frame too old that
\* no other frame of it comes after.
Expire(f, S) ==
  /\ expired' = expired \union S
  /\ f \in S /\ \A g \in S : KeyOf[g] <= KeyOf[f]
  /\ UNCHANGED <<written, acked, raced, forgotten, moving, deleting, requests>>

Ask(q, d) ==
  /\ requests[q] = NoRequest
  /\ requests' = [requests EXCEPT ![q] =
       [stage |-> "asked", device |-> d, owed |-> (acked \ raced) \intersect OfDevice(d), frames |-> {}]]
  /\ UNCHANGED <<written, acked, raced, forgotten, expired, moving, deleting>>

Due(S) == Keys(S \ (raced \union forgotten)) \ Keys(expired)
Answer(q) ==
  /\ requests[q].stage = "asked"
  /\ \E R \in SUBSET (written \intersect OfDevice(requests[q].device)) :
       /\ Due(requests[q].owed) \subseteq Keys(R)
       /\ requests' = [requests EXCEPT ![q] =
            [stage |-> "answered", device |-> @.device, owed |-> @.owed, frames |-> R]]
  /\ UNCHANGED <<written, acked, raced, forgotten, expired, moving, deleting>>

Done(q) ==
  /\ requests[q].stage = "answered"
  /\ requests' = [requests EXCEPT ![q] = NoRequest]
  /\ UNCHANGED <<written, acked, raced, forgotten, expired, moving, deleting>>

\* What is acknowledged stays so.
Crash ==
  /\ moving' = FALSE /\ deleting' = {}
  /\ requests' = [q \in Queriers |-> NoRequest]
  /\ UNCHANGED <<written, acked, raced, forgotten, expired>>

Next ==
  \/ \E f \in Frames \ written : Write(f)
  \/ \E f \in Pending : Race(f) \/ Acknowledge(f)
  \/ Change \/ Settle
  \/ \E d \in Devices : Delete(d) \/ EndDelete(d)
  \/ \E f \in written \intersect TooOld : \E S \in SUBSET written : Expire(f, S)
  \/ \E q \in Queriers : Answer(q) \/ Done(q) \/ \E d \in Devices : Ask(q, d)
  \/ Crash

Spec == Init /\ [][Next]_vars
=============================================================================
