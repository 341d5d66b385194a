------------------------------ MODULE Memtable ------------------------------
(***************************************************************************)
(* The memtable step by step: a skip list several tasks change at once     *)
(* under one read lock, with a counter of its bytes and one of its         *)
(* sequence numbers beside it (src/engine/memtable.rs).                    *)
(***************************************************************************)
EXTENDS Naturals, FiniteSets, FiniteSetsExt

CONSTANTS
  Rows,     \* frames; each is inserted at most once between two flushes
  Motes,    \* devices
  DevOf, RowTime, SizeOf,
  Inserters,  \* tasks in insert
  Erasers,    \* tasks in delete_device
  Idle,       \* no frame or device
  MaxSequence, \* bound: sequence numbers between two flushes
  MaxErasures \* bound: calls of delete_device

ASSUME RowsAssumption ==
  /\ DevOf \in [Rows -> Motes] /\ RowTime \in [Rows -> Nat] /\ SizeOf \in [Rows -> Nat]
  /\ Idle \notin Rows \union Motes
ASSUME MemtableBoundsAssumption == MaxSequence \in Nat /\ MaxErasures \in Nat

MemtableKeys == Motes \X Nat \X Nat
Item == [key : MemtableKeys, frame : Rows]

VARIABLES
  data,     \* the skip list, a map from keys
  size,     \* size_bytes
  sequence, \* the next sequence number
  inserting, \* per inserter, "idle", "put" or "count"
  new,      \* the frame it inserts
  number,   \* its sequence number
  erasing,  \* per eraser, "idle", "collect", "remove", "load" or "store"
  device,   \* the device it deletes
  doomed,   \* the keys it has still to remove
  bytes,    \* deleted_bytes
  current,  \* what it has loaded of size
  held,     \* history: the frames put in and not taken out
  raced,    \* history: since the last flush a delete's arithmetic has overlapped another change
  erasures

insertion == <<inserting, new, number>>
erasure == <<erasing, device, doomed, bytes, current>>
memtableVars == <<data, size, sequence, insertion, erasure, held, raced, erasures>>

KeyOf(t) == <<DevOf[new[t]], RowTime[new[t]], number[t]>>

----------------------------------------------------------------------------
(* insert                                                                  *)

NextSequence_Same == sequence
\* fetch_add.
NextSequence == sequence + 1
TakeNumber(t, f) ==
  /\ inserting[t] = "idle" /\ f \notin held /\ \A u \in Inserters : new[u] # f
  /\ sequence < MaxSequence
  /\ number' = [number EXCEPT ![t] = sequence]
  /\ sequence' = NextSequence
  /\ new' = [new EXCEPT ![t] = f]
  /\ inserting' = [inserting EXCEPT ![t] = "put"]
  /\ UNCHANGED <<data, size, erasure, held, raced, erasures>>

\* SkipMap::insert replaces what has the same key.
Put(t) ==
  /\ inserting[t] = "put"
  /\ data' = {e \in data : e.key # KeyOf(t)} \union {[key |-> KeyOf(t), frame |-> new[t]]}
  /\ held' = held \union {new[t]}
  /\ inserting' = [inserting EXCEPT ![t] = "count"]
  /\ UNCHANGED <<size, sequence, new, number, erasure, raced, erasures>>

Subtracting == \E u \in Erasers : erasing[u] = "store"
Count(t) ==
  /\ inserting[t] = "count"
  /\ size' = size + SizeOf[new[t]]
  /\ raced' = (raced \/ Subtracting)
  /\ inserting' = [inserting EXCEPT ![t] = "idle"]
  /\ new' = [new EXCEPT ![t] = Idle]
  /\ UNCHANGED <<data, sequence, number, erasure, held, erasures>>

----------------------------------------------------------------------------
(* delete_device                                                           *)

EraseBegin(t, d) ==
  /\ erasing[t] = "idle" /\ erasures < MaxErasures
  /\ erasures' = erasures + 1
  /\ erasing' = [erasing EXCEPT ![t] = "collect"]
  /\ device' = [device EXCEPT ![t] = d]
  /\ UNCHANGED <<data, size, sequence, insertion, doomed, bytes, current, held, raced>>

Collect(t) ==
  /\ erasing[t] = "collect"
  /\ doomed' = [doomed EXCEPT ![t] = {e.key : e \in {e \in data : e.key[1] = device[t]}}]
  /\ erasing' = [erasing EXCEPT ![t] = "remove"]
  /\ UNCHANGED <<data, size, sequence, insertion, device, bytes, current, held, raced, erasures>>

BytesOf(S) == MapThenSumSet(LAMBDA e : SizeOf[e.frame], S)
\* Only what this task itself takes out counts.
TakeOut(t, k) ==
  LET gone == {e \in data : e.key = k}
  IN /\ erasing[t] = "remove" /\ k \in doomed[t]
     /\ data' = data \ gone
     /\ held' = held \ {e.frame : e \in gone}
     /\ doomed' = [doomed EXCEPT ![t] = @ \ {k}]
     /\ bytes' = [bytes EXCEPT ![t] = @ + BytesOf(gone)]
     /\ UNCHANGED <<size, sequence, insertion, erasing, device, current, raced, erasures>>

Load(t) ==
  /\ erasing[t] = "remove" /\ doomed[t] = {}
  /\ current' = [current EXCEPT ![t] = size]
  /\ raced' = (raced \/ Subtracting)
  /\ erasing' = [erasing EXCEPT ![t] = "store"]
  /\ UNCHANGED <<data, size, sequence, insertion, device, doomed, bytes, held, erasures>>

Difference_NotSubtracted(t) == current[t]
\* saturating_sub.
Difference(t) == IF bytes[t] <= current[t] THEN current[t] - bytes[t] ELSE 0
Store(t) ==
  /\ erasing[t] = "store"
  /\ size' = Difference(t)
  /\ raced' = (raced \/ bytes[t] > current[t])
  /\ erasing' = [erasing EXCEPT ![t] = "idle"]
  /\ device' = [device EXCEPT ![t] = Idle]
  /\ bytes' = [bytes EXCEPT ![t] = 0]
  /\ current' = [current EXCEPT ![t] = 0]
  /\ UNCHANGED <<data, sequence, insertion, doomed, held, erasures>>

----------------------------------------------------------------------------
(* clear, under the write lock                                             *)

Quiet == /\ \A t \in Inserters : inserting[t] = "idle"
         /\ \A t \in Erasers : erasing[t] = "idle"
Clear ==
  /\ Quiet
  /\ data' = {} /\ size' = 0 /\ sequence' = 0
  /\ held' = {} /\ raced' = FALSE
  /\ UNCHANGED <<insertion, erasure, erasures>>

----------------------------------------------------------------------------
MemtableInit ==
  /\ data = {} /\ size = 0 /\ sequence = 0
  /\ inserting = [t \in Inserters |-> "idle"]
  /\ new = [t \in Inserters |-> Idle]
  /\ number = [t \in Inserters |-> 0]
  /\ erasing = [t \in Erasers |-> "idle"]
  /\ device = [t \in Erasers |-> Idle]
  /\ doomed = [t \in Erasers |-> {}]
  /\ bytes = [t \in Erasers |-> 0]
  /\ current = [t \in Erasers |-> 0]
  /\ held = {} /\ raced = FALSE
  /\ erasures = 0

Insert(t) == (\E f \in Rows : TakeNumber(t, f)) \/ Put(t) \/ Count(t)
Erase(t) ==
  \/ \E d \in Motes : EraseBegin(t, d)
  \/ Collect(t) \/ (\E k \in doomed[t] : TakeOut(t, k)) \/ Load(t) \/ Store(t)
MemtableNext == (\E t \in Inserters : Insert(t)) \/ (\E t \in Erasers : Erase(t)) \/ Clear
MemtableSpec == MemtableInit /\ [][MemtableNext]_memtableVars

----------------------------------------------------------------------------
(* Properties                                                              *)

\* The type invariant.
MemtableTypeOK ==
  /\ data \subseteq Item
  /\ size \in Nat /\ sequence \in Nat
  /\ inserting \in [Inserters -> {"idle", "put", "count"}]
  /\ new \in [Inserters -> Rows \union {Idle}]
  /\ number \in [Inserters -> Nat]
  /\ erasing \in [Erasers -> {"idle", "collect", "remove", "load", "store"}]
  /\ device \in [Erasers -> Motes \union {Idle}]
  /\ doomed \in [Erasers -> SUBSET MemtableKeys]
  /\ bytes \in [Erasers -> Nat] /\ current \in [Erasers -> Nat]
  /\ held \subseteq Rows
  /\ raced \in BOOLEAN
  /\ erasures \in 0..MaxErasures

\* insert: frames of one device and time do not replace each other, however inserts,
\* deletions and flushes that reset the sequence run into one another.
NothingOverwritten == held = {e.frame : e \in data}

\* should_flush goes by the counter: at rest it is what the map holds, unless since the last
\* flush a deletion's load and store overlapped another change or it counted a frame before
\* its insert did.
CountExact == (Quiet /\ ~raced) => size = BytesOf(data)
=============================================================================
