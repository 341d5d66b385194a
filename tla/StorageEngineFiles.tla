------------------------- MODULE StorageEngineFiles -------------------------
(***************************************************************************)
(* ListedFilesExist and ListedTablesFixed hold of every behaviour of       *)
(* StorageEngine, however many flushes, compactions, deletions and         *)
(* retention checks overlap: a table in the list has its file, and the     *)
(* file does not change.  What is shown of the ids is that a table under   *)
(* construction is nobody's victim, and that a victim has left the list by *)
(* the time its file goes.                                                 *)
(***************************************************************************)
EXTENDS StorageEngineProofs

USE DEF At, Goto, SetLocals, Leave, Fail, Panic, Succeed, Serving, Ids, IdAfter

Batching == {"merge", "merging", "install"}
Rewriting == {"open", "rewrite", "replace"}
Leaving == {"purge", "erase"}

\* Tables a task is writing, or has written and not yet put in the list.
New(at, locals) ==
  (IF at \in {"copy", "merging", "install"} THEN {locals.id} ELSE {})
    \union (IF at \in Rewriting THEN Elems(locals.fresh) ELSE {})
\* Tables a task has found in the list and will take from it, or from the disk.
Old(at, locals) ==
  locals.expired
    \union (IF at = "remove" THEN {locals.id} ELSE {})
    \union (IF at \in Batching \union Rewriting \union Leaving
            THEN Elems(locals.victims) ELSE {})
NewOf(t) == New(pc[t], op[t])
OldOf(t) == Old(pc[t], op[t])
Distinct(s) == \A i, j \in DOMAIN s : s[i] = s[j] => i = j

\* No table is both one task's new table and another's, or listed, or to be deleted.
IdsApart ==
  /\ Distinct(sstables)
  /\ \A t \in Tasks :
       /\ Distinct(op[t].fresh)
       /\ \A i \in NewOf(t) \union OldOf(t) : i < nextId
       /\ \A i \in NewOf(t) : i \notin Elems(sstables)
       /\ \A u \in Tasks : \A i \in NewOf(t) :
            i \notin OldOf(u) /\ (t # u => i \notin NewOf(u))

\* New tables hold data by the time they can be listed.
HoldsData(t) ==
  /\ pc[t] = "merging" => op[t].must # {}
  /\ pc[t] \in Rewriting \union {"install"} => \A i \in NewOf(t) : files[i] # {}

\* The batch of a compaction only moves towards the front of the list, so draining a
\* prefix of its length takes all of it that is left; then its files may go.
LeavesList(t) ==
  /\ pc[t] \in Batching =>
       \A k \in DOMAIN sstables : sstables[k] \in Elems(op[t].victims) => k <= op[t].size
  /\ pc[t] \in Leaving => \A i \in Elems(op[t].victims) : i \notin Elems(sstables)
  /\ pc[t] = "remove" => op[t].id \notin Elems(sstables)

ListInv ==
  /\ IdsApart
  /\ \A t \in Tasks : HoldsData(t) /\ LeavesList(t)
  /\ ListedFilesExist

----------------------------------------------------------------------------
(* What one step may do                                                    *)

\* A step of one task leaves the others where they are; it may change what another
\* flush has still to copy.
Untouched(u) ==
  /\ pc'[u] = pc[u] /\ Same(u, op'[u])
  /\ pc[u] # "copy" => op'[u] = op[u]

\* The files a step of t may change: an id just handed out, a table t is writing, or one
\* that t has seen leave the list.
Writes(t) ==
  \A i \in Ids : \/ files'[i] = files[i]
                 \/ nextId <= i
                 \/ i \in NewOf(t)
                 \/ i \in OldOf(t) /\ i \notin Elems(sstables)

\* What every step of a task is shown to do.
ListKept(t) == ListInv' /\ Writes(t)

\* Another task's new and old tables, and what holds of them, are not disturbed.
LEMMA OthersKeep ==
  ASSUME IdInv, ListInv, NEW u \in Tasks, Untouched(u), nextId' \in Nat, nextId <= nextId'
  PROVE  /\ NewOf(u)' = NewOf(u) /\ OldOf(u)' = OldOf(u)
         /\ op'[u].fresh = op[u].fresh /\ op'[u].victims = op[u].victims
         /\ op'[u].size = op[u].size /\ op'[u].id = op[u].id
         /\ pc'[u] = pc[u] /\ (pc[u] = "merging" => op'[u].must = op[u].must)
  BY DEF Untouched, Same, NewOf, OldOf, New, Old

\* The ids of ListInv are natural numbers.
LEMMA IdsAreNat ==
  ASSUME IdInv, NEW t \in Tasks
  PROVE  /\ \A i \in Elems(op[t].fresh) \union Elems(op[t].victims) \union op[t].expired : i \in Ids
         /\ \A i \in NewOf(t) : i \in Ids
         /\ \A i \in OldOf(t) : i \in Ids
<1>1. op[t].fresh \in Seq(Ids) /\ op[t].victims \in Seq(Ids) /\ op[t].expired \in SUBSET Ids
  BY Here DEF Locals
<1>2. \A s \in Seq(Ids) : \A i \in Elems(s) : i \in Ids
  <2> HIDE DEF Ids
  <2> QED BY LenProperties, ElementOfSeq DEF Elems
<1>3. pc[t] \in {"copy", "merging", "install", "remove"} => op[t].id \in Ids
  BY Here DEF Fits
<1> HIDE DEF Ids
<1> QED BY <1>1, <1>2, <1>3 DEF NewOf, OldOf, New, Old

\* A step of t keeps ListInv if it takes its tables from the list, puts only its own new
\* tables there, moves no table towards the end, and writes where it may.
LEMMA ListStep ==
  ASSUME IdInv, ListInv, NEW t \in Tasks,
         \A u \in Tasks \ {t} : Untouched(u),
         sstables' \in Seq(Ids), nextId' \in Nat, nextId <= nextId', Writes(t),
         \A i \in NewOf(t)' : /\ i \in NewOf(t) \/ (i \in Nat /\ nextId <= i /\ i < nextId')
                              /\ i \notin Elems(sstables'),
         \A i \in OldOf(t)' : i \in OldOf(t) \/ i \in Elems(sstables),
         Distinct(sstables'), Distinct(op'[t].fresh),
         \A k \in DOMAIN sstables' :
            \/ sstables'[k] \in NewOf(t) /\ files'[sstables'[k]] # {}
            \/ \E j \in DOMAIN sstables : k <= j /\ sstables[j] = sstables'[k],
         HoldsData(t)', LeavesList(t)'
  PROVE  ListKept(t)
<1>1. ASSUME NEW u \in Tasks, u # t
      PROVE  /\ NewOf(u)' = NewOf(u) /\ OldOf(u)' = OldOf(u)
             /\ op'[u].fresh = op[u].fresh /\ op'[u].victims = op[u].victims
             /\ op'[u].size = op[u].size /\ op'[u].id = op[u].id
             /\ pc'[u] = pc[u] /\ (pc[u] = "merging" => op'[u].must = op[u].must)
  BY <1>1, OthersKeep
<1>2. /\ Distinct(sstables)
      /\ \A u \in Tasks :
           /\ Distinct(op[u].fresh)
           /\ \A i \in NewOf(u) : i \in Ids /\ i < nextId /\ i \notin Elems(sstables)
           /\ \A i \in OldOf(u) : i \in Ids /\ i < nextId
           /\ \A v \in Tasks : \A i \in NewOf(u) :
                i \notin OldOf(v) /\ (u # v => i \notin NewOf(v))
  BY IdsAreNat DEF ListInv, IdsApart
<1>3. \A i \in Elems(sstables) : i \in Ids /\ i < nextId
  BY ListedIds
<1>4. nextId \in Nat
  BY Typed
\* The list only gets new tables of t.
<1>5. \A i \in Elems(sstables') : i \in Elems(sstables) \/ i \in NewOf(t)
  BY DEF Elems
<1>6. \A i \in Elems(sstables) : files'[i] = files[i]
  BY <1>2, <1>3, <1>4 DEF Writes
<1>7. \A u \in Tasks \ {t} : \A i \in NewOf(u) : files'[i] = files[i]
  BY <1>2, <1>4 DEF Writes
<1>8. IdsApart'
  <2>1. ASSUME NEW u \in Tasks
        PROVE  /\ \A i \in NewOf(u)' : i < nextId' /\ i \notin Elems(sstables')
               /\ \A i \in OldOf(u)' : i < nextId'
    <3>1. CASE u = t
      BY <1>2, <1>3, <1>4, <3>1
    <3>2. CASE u # t
      <4>1. NewOf(u)' = NewOf(u) /\ OldOf(u)' = OldOf(u)
        BY <1>1, <3>2
      <4>2. \A i \in NewOf(u) : i \notin Elems(sstables) /\ i \notin NewOf(t)
        BY <1>2, <3>2
      <4> QED BY <1>2, <1>4, <1>5, <4>1, <4>2
    <3> QED BY <3>1, <3>2
  <2>2. ASSUME NEW u \in Tasks, NEW v \in Tasks, NEW i \in NewOf(u)'
        PROVE  i \notin OldOf(v)' /\ (u # v => i \notin NewOf(v)')
    <3>1. CASE u = t /\ v = t
      <4>1. i \in NewOf(t) \/ (i \in Nat /\ nextId <= i)
        BY <2>2, <3>1
      <4>2. i \notin OldOf(t) /\ i \notin Elems(sstables)
        BY <1>2, <1>3, <1>4, <4>1
      <4> QED BY <3>1, <4>2
    <3>2. CASE u = t /\ v # t
      <4>1. i \in NewOf(t) \/ (i \in Nat /\ nextId <= i)
        BY <2>2, <3>2
      <4>2. i \notin OldOf(v) /\ i \notin NewOf(v)
        BY <1>2, <1>4, <3>2, <4>1
      <4> QED BY <1>1, <3>2, <4>2
    <3>3. CASE u # t /\ v = t
      <4>1. i \in NewOf(u) /\ i \in Ids /\ i < nextId
        BY <1>1, <1>2, <2>2, <3>3
      <4>2. i \notin OldOf(t) /\ i \notin NewOf(t) /\ i \notin Elems(sstables)
        BY <1>2, <3>3, <4>1
      <4> QED BY <1>4, <3>3, <4>1, <4>2
    <3>4. CASE u # t /\ v # t
      BY <1>1, <1>2, <2>2, <3>4
    <3> QED BY <3>1, <3>2, <3>3, <3>4
  <2>3. \A u \in Tasks : Distinct(op'[u].fresh)
    BY <1>1, <1>2
  <2> QED BY <2>1, <2>2, <2>3 DEF IdsApart, Distinct
<1>9. ASSUME NEW u \in Tasks PROVE HoldsData(u)' /\ LeavesList(u)'
  <2>1. CASE u = t
    BY <2>1
  <2>2. CASE u # t
    <3>1. HoldsData(u) /\ LeavesList(u)
      BY DEF ListInv
    <3>2. HoldsData(u)'
      BY <1>1, <1>7, <2>2, <3>1 DEF HoldsData
    <3>3. \A i \in NewOf(t) : i \notin OldOf(u)
      BY <1>2
    <3>4. pc[u] \in Batching \union Leaving => \A i \in Elems(op[u].victims) : i \in OldOf(u)
      BY DEF OldOf, Old
    <3>5. pc[u] = "remove" => op[u].id \in OldOf(u)
      BY DEF OldOf, Old
    <3>6. pc[u] \in Batching =>
            \A k \in DOMAIN sstables' : sstables'[k] \in Elems(op[u].victims) => k <= op[u].size
      <4> SUFFICES ASSUME pc[u] \in Batching, NEW k \in DOMAIN sstables',
                          sstables'[k] \in Elems(op[u].victims)
                   PROVE  k <= op[u].size
        OBVIOUS
      <4>1. sstables'[k] \notin NewOf(t)
        BY <3>3, <3>4
      <4>2. PICK j \in DOMAIN sstables : k <= j /\ sstables[j] = sstables'[k]
        BY <4>1
      <4>3. j <= op[u].size
        BY <3>1, <4>2 DEF LeavesList
      <4>4. k \in Nat /\ j \in Nat /\ op[u].size \in Nat
        <5>1. DOMAIN sstables = 1..Len(sstables) /\ DOMAIN sstables' = 1..Len(sstables')
          BY Typed
        <5> QED BY <5>1, Here DEF Locals
      <4> QED BY <4>2, <4>3, <4>4
    <3>7. pc[u] \in Leaving => \A i \in Elems(op[u].victims) : i \notin Elems(sstables')
      BY <1>5, <3>1, <3>3, <3>4 DEF LeavesList
    <3>8. pc[u] = "remove" => op[u].id \notin Elems(sstables')
      BY <1>5, <3>1, <3>3, <3>5 DEF LeavesList
    <3> QED BY <1>1, <2>2, <3>2, <3>6, <3>7, <3>8 DEF LeavesList
  <2> QED BY <2>1, <2>2
<1>10. ListedFilesExist'
  <2> SUFFICES ASSUME NEW k \in DOMAIN sstables' PROVE files'[sstables'[k]] # {}
    BY DEF ListedFilesExist, Elems
  <2>1. CASE sstables'[k] \in NewOf(t) /\ files'[sstables'[k]] # {}
    BY <2>1
  <2>2. CASE \E j \in DOMAIN sstables : k <= j /\ sstables[j] = sstables'[k]
    <3>1. sstables'[k] \in Elems(sstables)
      BY <2>2 DEF Elems
    <3> QED BY <1>6, <3>1 DEF ListInv, ListedFilesExist
  <2> QED BY <2>1, <2>2
<1> QED BY <1>8, <1>9, <1>10 DEF ListInv, ListKept

\* What a step of one task makes of the tasks, when it copies to no other's locals.
LEMMA OneMoves ==
  ASSUME IdInv, NEW t \in Tasks, NEW at, NEW r,
         pc' = [pc EXCEPT ![t] = at], op' = [op EXCEPT ![t] = r]
  PROVE  /\ pc'[t] = at /\ op'[t] = r
         /\ \A u \in Tasks \ {t} : Untouched(u)
  BY DEF IdInv, TypeOK, TasksType, Untouched, Same

\* ListStep for the steps that leave the list alone.
LEMMA SameListStep ==
  ASSUME IdInv, ListInv, NEW t \in Tasks,
         \A u \in Tasks \ {t} : Untouched(u),
         sstables' = sstables, nextId' \in Nat, nextId <= nextId', Writes(t),
         \A i \in NewOf(t)' : \/ i \in NewOf(t)
                              \/ i \in Nat /\ nextId <= i /\ i < nextId',
         \A i \in OldOf(t)' : i \in OldOf(t) \/ i \in Elems(sstables),
         Distinct(op'[t].fresh), HoldsData(t)', LeavesList(t)'
  PROVE  ListKept(t)
<1>1. sstables' \in Seq(Ids) /\ Distinct(sstables')
  BY Typed DEF ListInv, IdsApart
<1>2. \A i \in NewOf(t)' : i \notin Elems(sstables')
  <2>1. \A i \in NewOf(t) : i \notin Elems(sstables)
    BY DEF ListInv, IdsApart
  <2>2. \A i \in Elems(sstables) : i \in Nat /\ i < nextId
    BY ListedIds
  <2> QED BY <2>1, <2>2, Typed
<1>3. \A k \in DOMAIN sstables' :
         \E j \in DOMAIN sstables : k <= j /\ sstables[j] = sstables'[k]
  <2>1. DOMAIN sstables = 1..Len(sstables)
    BY Typed
  <2> QED BY <2>1
<1> QED BY <1>1, <1>2, <1>3, ListStep

\* A step that touches neither tables nor list, after which the task holds no table.
LEMMA QuietStep ==
  ASSUME IdInv, ListInv, NEW t \in Tasks,
         \A u \in Tasks \ {t} : Untouched(u),
         sstables' = sstables, files' = files, nextId' = nextId,
         pc'[t] \notin Batching \union Rewriting \union Leaving \union {"copy", "remove"},
         op'[t].expired \subseteq op[t].expired,
         op'[t].fresh = op[t].fresh \/ op'[t].fresh = <<>>
  PROVE  ListKept(t)
<1>1. NewOf(t)' = {} /\ OldOf(t)' \subseteq OldOf(t)
  BY DEF NewOf, OldOf, New, Old, Batching, Rewriting
<1>2. Distinct(op[t].fresh) /\ Distinct(<<>>)
  BY DEF ListInv, IdsApart, Distinct
<1>3. Distinct(op'[t].fresh)
  BY <1>2
<1>4. HoldsData(t)' /\ LeavesList(t)'
  BY DEF HoldsData, LeavesList, Batching, Rewriting, Leaving
<1>5. Writes(t)
  BY DEF Writes
<1> QED BY <1>1, <1>3, <1>4, <1>5, Typed, SameListStep

\* NoOp, with which an operation ends, holds no table.
LEMMA Ended == NoOp.expired = {} /\ NoOp.fresh = <<>>
  BY DEF NoOp

\* A step that ends the operation.
LEMMA QuietEnd ==
  ASSUME IdInv, ListInv, NEW t \in Tasks, NEW at \in {"idle", "dead"},
         pc' = [pc EXCEPT ![t] = at], op' = [op EXCEPT ![t] = NoOp],
         sstables' = sstables, files' = files, nextId' = nextId
  PROVE  ListKept(t)
<1>1. /\ pc'[t] = at /\ op'[t] = NoOp
      /\ \A u \in Tasks \ {t} : Untouched(u)
  BY OneMoves
<1>2. pc'[t] \notin Batching \union Rewriting \union Leaving \union {"copy", "remove"}
  BY <1>1 DEF Batching, Rewriting, Leaving
<1> QED BY <1>1, <1>2, Ended, QuietStep

\* A step to another point of the operation.
LEMMA QuietMove ==
  ASSUME IdInv, ListInv, NEW t \in Tasks, NEW at, NEW r,
         pc' = [pc EXCEPT ![t] = at], op' = [op EXCEPT ![t] = r],
         at \notin Batching \union Rewriting \union Leaving \union {"copy", "remove"},
         r.expired = op[t].expired, r.fresh = op[t].fresh \/ r.fresh = <<>>,
         sstables' = sstables, files' = files, nextId' = nextId
  PROVE  ListKept(t)
<1>1. /\ pc'[t] = at /\ op'[t] = r
      /\ \A u \in Tasks \ {t} : Untouched(u)
  BY OneMoves
<1> QED BY <1>1, QuietStep

\* A write touches no table.
LEMMA WriteListOK ==
  ASSUME IdInv, ListInv, NEW t \in Tasks, Write(t) PROVE ListKept(t)
<1>1. ASSUME NEW f \in Frames, WriteBegin(t, f) PROVE ListKept(t)
  <2>1. /\ pc' = [pc EXCEPT ![t] = "append"]
        /\ op' = [op EXCEPT ![t] = [op[t] EXCEPT !.arg = f]]
        /\ sstables' = sstables /\ files' = files /\ nextId' = nextId
    BY <1>1 DEF WriteBegin, disk
  <2>2. /\ [op[t] EXCEPT !.arg = f].expired = op[t].expired
        /\ [op[t] EXCEPT !.arg = f].fresh = op[t].fresh
    BY Here DEF Locals
  <2> QED BY <2>1, <2>2, QuietMove DEF Batching, Rewriting, Leaving
<1>2. ASSUME WriteAppend(t) PROVE ListKept(t)
  <2>1. /\ pc' = [pc EXCEPT ![t] = "insert"] /\ op' = [op EXCEPT ![t] = op[t]]
        /\ sstables' = sstables /\ files' = files /\ nextId' = nextId
    BY <1>2, Here DEF WriteAppend, memory
  <2> QED BY <2>1, QuietMove DEF Batching, Rewriting, Leaving
<1>3. ASSUME WriteInsert(t) PROVE ListKept(t)
  <2>1. /\ pc[t] = "insert" /\ pc' = [pc EXCEPT ![t] = "full"] /\ op' = Coming({op[t].arg})
        /\ sstables' = sstables /\ files' = files /\ nextId' = nextId
    BY <1>3 DEF WriteInsert, disk
  <2>2. op[t].arg \in Frames
    BY <2>1, Here, Writing DEF Fits
  <2>3. \A u \in Tasks : /\ Same(u, op'[u])
                         /\ pc[u] # "copy" => op'[u] = op[u]
    BY <2>1, <2>2, Copies DEF Coming
  <2>4. pc'[t] = "full" /\ \A u \in Tasks \ {t} : pc'[u] = pc[u]
    BY <2>1 DEF IdInv, TypeOK, TasksType
  <2>5. \A u \in Tasks \ {t} : Untouched(u)
    BY <2>3, <2>4 DEF Untouched
  <2>6. pc'[t] \notin Batching \union Rewriting \union Leaving \union {"copy", "remove"}
    BY <2>4 DEF Batching, Rewriting, Leaving
  <2> QED BY <2>1, <2>3, <2>5, <2>6, QuietStep DEF Same
<1>4. ASSUME WriteFull(t) PROVE ListKept(t)
  <2>1. sstables' = sstables /\ files' = files /\ nextId' = nextId
    BY <1>4 DEF WriteFull, disk, memory
  <2>2. CASE pc' = [pc EXCEPT ![t] = "flush"] /\ op' = [op EXCEPT ![t] = op[t]]
    BY <2>1, <2>2, QuietMove DEF Batching, Rewriting, Leaving
  <2>3. CASE pc' = [pc EXCEPT ![t] = "idle"] /\ op' = [op EXCEPT ![t] = NoOp]
    BY <2>1, <2>3, QuietEnd
  <2> QED BY <1>4, <2>2, <2>3, Here DEF WriteFull
<1> QED BY <1>1, <1>2, <1>3, <1>4 DEF Write

\* What expired before a step is among the old tables of the task.
LEMMA ExpiredOld ==
  ASSUME NEW t \in Tasks PROVE op[t].expired \subseteq OldOf(t)
  BY DEF OldOf, Old

\* The list with one more table at its end.
LEMMA Appended ==
  ASSUME IdInv, NEW i \in Ids, i \notin Elems(sstables), Distinct(sstables)
  PROVE  /\ Append(sstables, i) \in Seq(Ids) /\ Distinct(Append(sstables, i))
         /\ \A k \in DOMAIN Append(sstables, i) :
              \/ Append(sstables, i)[k] = i
              \/ \E j \in DOMAIN sstables : k <= j /\ sstables[j] = Append(sstables, i)[k]
<1> DEFINE s == Append(sstables, i)
           n == Len(sstables)
<1>1. /\ sstables \in Seq(Ids) /\ n \in Nat /\ DOMAIN sstables = 1..n
  BY Typed
<1>2. /\ s \in Seq(Ids) /\ DOMAIN s = 1..(n + 1) /\ s[n + 1] = i
      /\ \A k \in 1..n : s[k] = sstables[k]
  BY <1>1
<1>3. \A k \in 1..n : sstables[k] # i
  BY <1>1 DEF Elems
<1> HIDE DEF s, n
<1>4. Distinct(s)
  <2> SUFFICES ASSUME NEW j \in 1..(n + 1), NEW k \in 1..(n + 1), s[j] = s[k] PROVE j = k
    BY <1>2 DEF Distinct
  <2>1. j \in 1..n \/ j = n + 1
    BY <1>1
  <2>2. k \in 1..n \/ k = n + 1
    BY <1>1
  <2>3. CASE j \in 1..n /\ k \in 1..n
    BY <1>1, <1>2, <2>3 DEF Distinct
  <2> QED BY <1>2, <1>3, <2>1, <2>2, <2>3
<1>5. \A k \in DOMAIN s : s[k] = i \/ \E j \in DOMAIN sstables : k <= j /\ sstables[j] = s[k]
  <2> SUFFICES ASSUME NEW k \in 1..(n + 1)
               PROVE s[k] = i \/ \E j \in DOMAIN sstables : k <= j /\ sstables[j] = s[k]
    BY <1>2
  <2>1. k \in 1..n \/ k = n + 1
    BY <1>1
  <2>2. CASE k \in 1..n
    BY <1>1, <1>2, <2>2
  <2> QED BY <1>2, <2>1, <2>2
<1> QED BY <1>2, <1>4, <1>5 DEF s

\* A flush writes one new table and puts it at the end of the list.
LEMMA FlushListOK ==
  ASSUME IdInv, ListInv, NEW t \in Tasks, Flush(t) PROVE ListKept(t)
<1>1. ASSUME TimerTick(t) PROVE ListKept(t)
  <2>1. /\ pc' = [pc EXCEPT ![t] = "flush"] /\ op' = [op EXCEPT ![t] = op[t]]
        /\ sstables' = sstables /\ files' = files /\ nextId' = nextId
    BY <1>1, Here DEF TimerTick, disk, memory
  <2> QED BY <2>1, QuietMove DEF Batching, Rewriting, Leaving
<1>2. ASSUME FlushBegin(t) PROVE ListKept(t)
  <2> DEFINE r == [op[t] EXCEPT !.id = nextId, !.must = memtable, !.may = {}]
  <2>1. /\ pc' = [pc EXCEPT ![t] = "copy"] /\ op' = [op EXCEPT ![t] = r]
        /\ sstables' = sstables /\ files' = [files EXCEPT ![nextId] = {}]
        /\ nextId' = nextId + 1
    BY <1>2 DEF FlushBegin, Allocate
  <2>2. r.id = nextId /\ r.expired = op[t].expired /\ r.fresh = op[t].fresh
    BY Here DEF Locals
  <2> HIDE DEF r
  <2>3. pc'[t] = "copy" /\ op'[t] = r /\ \A u \in Tasks \ {t} : Untouched(u)
    BY <2>1, OneMoves
  <2>4. NewOf(t)' = {nextId} /\ OldOf(t)' = op[t].expired
    BY <2>2, <2>3 DEF NewOf, OldOf, New, Old, Batching, Rewriting, Leaving
  <2>5. Distinct(op'[t].fresh)
    BY <2>2, <2>3 DEF ListInv, IdsApart
  <2>6. HoldsData(t)' /\ LeavesList(t)'
    BY <2>3 DEF HoldsData, LeavesList, Batching, Rewriting, Leaving
  <2>7. Writes(t)
    BY <2>1, Typed DEF Writes
  <2> QED BY <2>1, <2>3, <2>4, <2>5, <2>6, <2>7, ExpiredOld, Typed, SameListStep
<1>3. ASSUME NEW extra \in SUBSET op[t].may, FlushPublish(t, op[t].must \union extra)
      PROVE  ListKept(t)
  <2> DEFINE copied == op[t].must \union extra
             r == [op[t] EXCEPT !.must = {}, !.may = {}]
  <2>1. CASE copied = {}
    <3>1. /\ pc' = [pc EXCEPT ![t] = "idle"] /\ op' = [op EXCEPT ![t] = NoOp]
          /\ sstables' = sstables /\ files' = files /\ nextId' = nextId
      BY <1>3, <2>1 DEF FlushPublish
    <3> QED BY <3>1, QuietEnd
  <2>2. CASE copied # {}
    <3>1. /\ pc[t] = "copy" /\ pc' = [pc EXCEPT ![t] = "clear"]
          /\ op' = [op EXCEPT ![t] = r] /\ nextId' = nextId
          /\ files' = [files EXCEPT ![op[t].id] = copied]
          /\ sstables' = Append(sstables, op[t].id)
      BY <1>3, <2>2 DEF FlushPublish
    <3>2. r.expired = op[t].expired /\ r.fresh = op[t].fresh
      BY Here DEF Locals
    <3> HIDE DEF r, copied
    <3>3. pc'[t] = "clear" /\ op'[t] = r /\ \A u \in Tasks \ {t} : Untouched(u)
      BY <3>1, OneMoves
    <3>4. op[t].id \in Ids /\ NewOf(t) = {op[t].id}
      BY <3>1, Here DEF Fits, NewOf, New, Rewriting
    <3>5. NewOf(t)' = {} /\ OldOf(t)' = op[t].expired
      BY <3>2, <3>3 DEF NewOf, OldOf, New, Old, Batching, Rewriting, Leaving
    <3>6. op[t].id \notin Elems(sstables) /\ Distinct(sstables) /\ Distinct(op'[t].fresh)
      BY <3>2, <3>3, <3>4 DEF ListInv, IdsApart
    <3>7. HoldsData(t)' /\ LeavesList(t)'
      BY <3>3 DEF HoldsData, LeavesList, Batching, Rewriting, Leaving
    <3>8. Writes(t)
      BY <3>1, <3>4, Typed DEF Writes
    <3>9. /\ sstables' \in Seq(Ids) /\ Distinct(sstables')
          /\ \A k \in DOMAIN sstables' :
                \/ sstables'[k] = op[t].id
                \/ \E j \in DOMAIN sstables : k <= j /\ sstables[j] = sstables'[k]
      BY <3>1, <3>4, <3>6, Appended
    <3>10. files'[op[t].id] # {}
      BY <2>2, <3>1, <3>4, Typed
    <3>11. \A k \in DOMAIN sstables' :
                \/ sstables'[k] \in NewOf(t) /\ files'[sstables'[k]] # {}
                \/ \E j \in DOMAIN sstables : k <= j /\ sstables[j] = sstables'[k]
      BY <3>4, <3>9, <3>10
    <3>12. \A i \in OldOf(t)' : i \in OldOf(t) \/ i \in Elems(sstables)
      BY <3>5, ExpiredOld
    <3>13. nextId' \in Nat /\ nextId <= nextId'
      BY <3>1, Typed
    <3> QED BY <3>3, <3>5, <3>6, <3>7, <3>8, <3>9, <3>11, <3>12, <3>13, ListStep
  <2> QED BY <2>1, <2>2
<1>4. ASSUME FlushClear(t) PROVE ListKept(t)
  <2>1. /\ pc' = [pc EXCEPT ![t] = "check"] /\ op' = [op EXCEPT ![t] = op[t]]
        /\ sstables' = sstables /\ files' = files /\ nextId' = nextId
    BY <1>4, Here DEF FlushClear, disk
  <2> QED BY <2>1, QuietMove DEF Batching, Rewriting, Leaving
<1>5. ASSUME TruncateCheck(t) PROVE ListKept(t)
  <2> DEFINE at == IF walPath # None THEN "unlink" ELSE "reopen"
  <2>1. /\ pc' = [pc EXCEPT ![t] = at] /\ op' = [op EXCEPT ![t] = op[t]]
        /\ sstables' = sstables /\ files' = files /\ nextId' = nextId
    BY <1>5, Here DEF TruncateCheck, disk, memory
  <2>2. at \notin Batching \union Rewriting \union Leaving \union {"copy", "remove"}
    BY DEF Batching, Rewriting, Leaving
  <2> HIDE DEF at
  <2> QED BY <2>1, <2>2, QuietMove
<1>6. ASSUME TruncateUnlink(t) PROVE ListKept(t)
  <2>1. sstables' = sstables /\ files' = files /\ nextId' = nextId
    BY <1>6 DEF TruncateUnlink, memory
  <2>2. CASE pc' = [pc EXCEPT ![t] = "reopen"] /\ op' = [op EXCEPT ![t] = op[t]]
    BY <2>1, <2>2, QuietMove DEF Batching, Rewriting, Leaving
  <2>3. CASE pc' = [pc EXCEPT ![t] = "idle"] /\ op' = [op EXCEPT ![t] = NoOp]
    BY <2>1, <2>3, QuietEnd
  <2> QED BY <1>6, <2>2, <2>3, Here DEF TruncateUnlink
<1>7. ASSUME TruncateReopen(t) PROVE ListKept(t)
  <2>1. PICK i \in Inodes : op' = [op EXCEPT ![t] = [op[t] EXCEPT !.inode = i]]
    BY <1>7 DEF TruncateReopen
  <2>2. /\ pc' = [pc EXCEPT ![t] = "swap"]
        /\ sstables' = sstables /\ files' = files /\ nextId' = nextId
    BY <1>7 DEF TruncateReopen, memory
  <2>3. /\ [op[t] EXCEPT !.inode = i].expired = op[t].expired
        /\ [op[t] EXCEPT !.inode = i].fresh = op[t].fresh
    BY Here DEF Locals
  <2> QED BY <2>1, <2>2, <2>3, QuietMove DEF Batching, Rewriting, Leaving
<1>8. ASSUME TruncateSwap(t) PROVE ListKept(t)
  <2> DEFINE r == [op[t] EXCEPT !.inode = None, !.id = 0]
  <2>1. sstables' = sstables /\ files' = files /\ nextId' = nextId
    BY <1>8 DEF TruncateSwap, disk
  <2>2. r.expired = op[t].expired /\ r.fresh = op[t].fresh
    BY Here DEF Locals
  <2>3. CASE pc' = [pc EXCEPT ![t] = "measure"] /\ op' = [op EXCEPT ![t] = r]
    BY <2>1, <2>2, <2>3, QuietMove DEF Batching, Rewriting, Leaving
  <2>4. CASE pc' = [pc EXCEPT ![t] = "idle"] /\ op' = [op EXCEPT ![t] = NoOp]
    BY <2>1, <2>4, QuietEnd
  <2> QED BY <1>8, <2>3, <2>4 DEF TruncateSwap
<1> QED BY <1>1, <1>2, <1>3, <1>4, <1>5, <1>6, <1>7, <1>8 DEF Flush

\* A batch: a prefix of the list, whose tables are nowhere else in it.
LEMMA BatchElems ==
  ASSUME IdInv, Distinct(sstables), NEW n \in 0..Len(sstables)
  PROVE  /\ \A i \in Elems(SubSeq(sstables, 1, n)) : i \in Elems(sstables)
         /\ \A k \in DOMAIN sstables :
              sstables[k] \in Elems(SubSeq(sstables, 1, n)) => k <= n
<1> DEFINE b == SubSeq(sstables, 1, n)
<1>1. /\ DOMAIN sstables = 1..Len(sstables) /\ Len(sstables) \in Nat
      /\ \A i \in 1..n : sstables[i] \in Ids
  <2> HIDE DEF Ids
  <2> QED BY Typed, LenProperties, ElementOfSeq
<1>2. b \in Seq(Ids) /\ Len(b) = n
  BY Batch
<1>3. DOMAIN b = 1..n /\ \A i \in 1..n : b[i] = sstables[i]
  <2> HIDE DEF Ids
  <2>1. /\ Len(b) = IF 1 <= n THEN n - 1 + 1 ELSE 0
        /\ \A i \in 1..(n - 1 + 1) : b[i] = sstables[1 + i - 1]
    BY <1>1, SubSeqProperties
  <2>2. \A i \in 1..n : i \in 1..(n - 1 + 1) /\ 1 + i - 1 = i
    OBVIOUS
  <2>3. DOMAIN b = 1..n
    BY <1>2, LenProperties
  <2> HIDE DEF b
  <2> QED BY <2>1, <2>2, <2>3
<1> HIDE DEF b
<1>4. \A i \in Elems(b) : i \in Elems(sstables)
  BY <1>1, <1>3 DEF Elems
<1>5. \A k \in DOMAIN sstables : sstables[k] \in Elems(b) => k <= n
  <2> SUFFICES ASSUME NEW k \in DOMAIN sstables, NEW i \in 1..n, sstables[k] = b[i]
               PROVE  k <= n
    BY <1>3 DEF Elems
  <2>1. i \in DOMAIN sstables /\ sstables[k] = sstables[i]
    BY <1>1, <1>3
  <2> QED BY <2>1 DEF Distinct
<1> QED BY <1>4, <1>5 DEF b

\* What is left to delete was to be deleted.
LEMMA TailElems ==
  ASSUME NEW v \in Seq(Ids), v # <<>>
  PROVE  /\ Head(v) \in Elems(v)
         /\ \A i \in Elems(Tail(v)) : i \in Elems(v)
<1> HIDE DEF Ids
<1>1. /\ Len(v) \in Nat \ {0} /\ DOMAIN v = 1..Len(v) /\ Head(v) = v[1]
  BY EmptySeq, LenProperties
<1>2. /\ Tail(v) \in Seq(Ids) /\ Len(Tail(v)) = Len(v) - 1
      /\ \A i \in 1..Len(Tail(v)) : Tail(v)[i] = v[i + 1]
  BY HeadTailProperties
<1>3. DOMAIN Tail(v) = 1..(Len(v) - 1)
  BY <1>2, LenProperties
<1> QED BY <1>1, <1>2, <1>3 DEF Elems

\* A merge of a batch whose tables all hold data holds data.
LEMMA MergedHolds ==
  ASSUME NEW batch \in Seq(Ids), batch # <<>>, NEW merged, Merges(batch, merged),
         \A v \in Elems(batch) : files[v] # {}
  PROVE  merged # {}
<1> HIDE DEF Ids
<1>1. 1 \in DOMAIN batch
  BY EmptySeq, LenProperties
<1>2. files[batch[1]] # {}
  BY <1>1 DEF Elems
<1> DEFINE pool == UNION {files[batch[i]] : i \in DOMAIN batch}
<1>3. PICK f \in pool : TRUE
  BY <1>1, <1>2
<1>4. {MergeKey(g) : g \in merged} = {MergeKey(g) : g \in pool}
  BY DEF Merges
<1> HIDE DEF pool
<1>5. MergeKey(f) \in {MergeKey(g) : g \in merged}
  BY <1>3, <1>4
<1> QED BY <1>5

\* A compaction puts its merged table in front of what drain leaves of the list.
LEMMA Installed ==
  ASSUME IdInv, Distinct(sstables), NEW id \in Ids, id \notin Elems(sstables),
         NEW n \in Nat, 1 <= n, n <= Len(sstables)
  PROVE  LET s == <<id>> \o AfterDrain(n)
         IN  /\ s \in Seq(Ids) /\ Distinct(s)
             /\ \A k \in DOMAIN s :
                  \/ s[k] = id
                  \/ \E j \in DOMAIN sstables : k <= j /\ n < j /\ sstables[j] = s[k]
<1> DEFINE rest == AfterDrain(n)
           s == <<id>> \o rest
           m == Len(sstables)
<1>1. /\ rest \in Seq(Ids) /\ Len(rest) = m - n
      /\ \A i \in 1..(m - n) : rest[i] = sstables[n + i]
  BY Drained
<1>2. DOMAIN sstables = 1..m /\ m \in Nat /\ sstables \in Seq(Ids)
  BY Typed
<1> HIDE DEF rest
<1>3. /\ s \in Seq(Ids) /\ Len(s) = m - n + 1 /\ s[1] = id
      /\ \A k \in 2..(m - n + 1) : s[k] = rest[k - 1]
  <2> HIDE DEF Ids
  <2> DEFINE a == <<id>>
  <2>1. a \in Seq(Ids) /\ Len(a) = 1 /\ a[1] = id
    OBVIOUS
  <2>2. s = a \o rest
    OBVIOUS
  <2> HIDE DEF a, s
  <2>3. /\ s \in Seq(Ids) /\ Len(s) = Len(a) + Len(rest)
        /\ \A k \in 1..(Len(a) + Len(rest)) :
             s[k] = IF k <= Len(a) THEN a[k] ELSE rest[k - Len(a)]
    BY <1>1, <2>1, <2>2, ConcatProperties
  <2>4. m - n \in Nat /\ Len(rest) = m - n
    BY <1>1, <1>2
  <2> HIDE DEF m
  <2>5. /\ Len(s) = m - n + 1
        /\ \A k \in 1..(m - n + 1) : s[k] = IF k <= 1 THEN a[k] ELSE rest[k - 1]
    BY <2>1, <2>3, <2>4
  <2> QED BY <2>1, <2>3, <2>4, <2>5
<1>4. DOMAIN s = 1..(m - n + 1)
  BY <1>3
<1> HIDE DEF s, m
<1>5. \A k \in 2..(m - n + 1) : /\ n + k - 1 \in DOMAIN sstables
                                /\ s[k] = sstables[n + k - 1]
                                /\ k <= n + k - 1 /\ n < n + k - 1
  <2> SUFFICES ASSUME NEW k \in 2..(m - n + 1)
               PROVE /\ n + k - 1 \in DOMAIN sstables /\ s[k] = sstables[n + k - 1]
                     /\ k <= n + k - 1 /\ n < n + k - 1
    OBVIOUS
  <2>1. k - 1 \in 1..(m - n) /\ n + (k - 1) = n + k - 1
    BY <1>2
  <2>2. s[k] = sstables[n + k - 1]
    BY <1>1, <1>3, <2>1
  <2> QED BY <1>2, <2>2
<1>6. \A k \in DOMAIN s : k = 1 \/ k \in 2..(m - n + 1)
  BY <1>2, <1>4
<1>7. \A k \in DOMAIN s :
        s[k] = id \/ \E j \in DOMAIN sstables : k <= j /\ n < j /\ sstables[j] = s[k]
  BY <1>3, <1>5, <1>6
<1>8. Distinct(s)
  <2> SUFFICES ASSUME NEW j \in DOMAIN s, NEW k \in DOMAIN s, s[j] = s[k] PROVE j = k
    BY DEF Distinct
  <2>1. \A i \in 2..(m - n + 1) : s[i] # id
    BY <1>5 DEF Elems
  <2>2. CASE j \in 2..(m - n + 1) /\ k \in 2..(m - n + 1)
    <3>1. n + j - 1 = n + k - 1
      BY <1>5, <2>2 DEF Distinct
    <3> QED BY <2>2, <3>1
  <2> QED BY <1>3, <1>6, <2>1, <2>2
<1> QED BY <1>3, <1>7, <1>8 DEF s, rest

\* A compaction takes its batch from the front of the list, and deletes it only then.
LEMMA CompactListOK ==
  ASSUME IdInv, ListInv, NEW t \in Tasks, Compact(t) PROVE ListKept(t)
<1>1. ASSUME CompactMeasure(t) PROVE ListKept(t)
  <2> DEFINE r == [op[t] EXCEPT !.size = IF CompactionThreshold < Len(sstables)
                                         THEN CompactionThreshold ELSE Len(sstables)]
  <2>1. /\ pc' = [pc EXCEPT ![t] = "snapshot"] /\ op' = [op EXCEPT ![t] = r]
        /\ sstables' = sstables /\ files' = files /\ nextId' = nextId
    BY <1>1 DEF CompactMeasure, disk, memory
  <2>2. r.expired = op[t].expired /\ r.fresh = op[t].fresh
    BY Here DEF Locals
  <2> HIDE DEF r
  <2> QED BY <2>1, <2>2, QuietMove DEF Batching, Rewriting, Leaving
<1>2. ASSUME CompactSnapshot(t) PROVE ListKept(t)
  <2>1. sstables' = sstables /\ files' = files /\ nextId' = nextId
    BY <1>2 DEF CompactSnapshot, disk, memory
  <2>2. CASE Len(sstables) < op[t].size
    <3>1. pc' = [pc EXCEPT ![t] = "dead"] /\ op' = [op EXCEPT ![t] = NoOp]
      BY <1>2, <2>2 DEF CompactSnapshot
    <3> QED BY <2>1, <3>1, QuietEnd
  <2>3. CASE ~(Len(sstables) < op[t].size)
    <3> DEFINE r == [op[t] EXCEPT !.victims = SubSeq(sstables, 1, op[t].size)]
    <3>1. pc' = [pc EXCEPT ![t] = "merge"] /\ op' = [op EXCEPT ![t] = r]
      BY <1>2, <2>3 DEF CompactSnapshot
    <3>2. /\ r.expired = op[t].expired /\ r.fresh = op[t].fresh /\ r.size = op[t].size
          /\ r.victims = SubSeq(sstables, 1, op[t].size)
      BY Here DEF Locals
    <3>3. op[t].size \in 0..Len(sstables)
      BY <2>3, Here, Typed DEF Locals
    <3>4. Distinct(sstables) /\ Distinct(op[t].fresh)
      BY DEF ListInv, IdsApart
    <3>5. /\ \A i \in Elems(r.victims) : i \in Elems(sstables)
          /\ \A k \in DOMAIN sstables : sstables[k] \in Elems(r.victims) => k <= op[t].size
      BY <3>2, <3>3, <3>4, BatchElems
    <3> HIDE DEF r
    <3>6. pc'[t] = "merge" /\ op'[t] = r /\ \A u \in Tasks \ {t} : Untouched(u)
      BY <3>1, OneMoves
    <3>7. NewOf(t)' = {} /\ OldOf(t)' = op[t].expired \union Elems(r.victims)
      BY <3>2, <3>6 DEF NewOf, OldOf, New, Old, Batching, Rewriting, Leaving
    <3>8. \A i \in OldOf(t)' : i \in OldOf(t) \/ i \in Elems(sstables)
      BY <3>5, <3>7, ExpiredOld
    <3>9. HoldsData(t)'
      BY <3>6 DEF HoldsData, Rewriting
    <3>10. LeavesList(t)'
      BY <2>1, <3>2, <3>5, <3>6 DEF LeavesList, Batching, Leaving
    <3>11. Writes(t) /\ Distinct(op'[t].fresh)
      BY <2>1, <3>2, <3>4, <3>6 DEF Writes
    <3>12. nextId' \in Nat /\ nextId <= nextId'
      BY <2>1, Typed
    <3> QED BY <2>1, <3>6, <3>7, <3>8, <3>9, <3>10, <3>11, <3>12, SameListStep
  <2> QED BY <2>2, <2>3
<1>3. ASSUME NEW merged \in SUBSET Stored, CompactBegin(t, merged) PROVE ListKept(t)
  <2>1. pc[t] = "merge" /\ sstables' = sstables
    BY <1>3 DEF CompactBegin
  <2>2. CASE op[t].victims = <<>> \/ \E v \in Elems(op[t].victims) : files[v] = {}
    <3>1. /\ pc' = [pc EXCEPT ![t] = "idle"] /\ op' = [op EXCEPT ![t] = NoOp]
          /\ files' = files /\ nextId' = nextId
      BY <1>3, <2>2 DEF CompactBegin
    <3> QED BY <2>1, <3>1, QuietEnd
  <2>3. CASE ~(op[t].victims = <<>> \/ \E v \in Elems(op[t].victims) : files[v] = {})
    <3> DEFINE r == [op[t] EXCEPT !.id = nextId, !.must = merged]
    <3>1. /\ pc' = [pc EXCEPT ![t] = "merging"] /\ op' = [op EXCEPT ![t] = r]
          /\ files' = [files EXCEPT ![nextId] = {}] /\ nextId' = nextId + 1
          /\ Merges(op[t].victims, merged)
      BY <1>3, <2>3 DEF CompactBegin, Allocate
    <3>2. /\ r.expired = op[t].expired /\ r.fresh = op[t].fresh /\ r.size = op[t].size
          /\ r.victims = op[t].victims /\ r.id = nextId /\ r.must = merged
          /\ op[t].victims \in Seq(Ids)
      BY Here DEF Locals
    <3> HIDE DEF r
    <3>3. pc'[t] = "merging" /\ op'[t] = r /\ \A u \in Tasks \ {t} : Untouched(u)
      BY <3>1, OneMoves
    <3>4. NewOf(t)' = {nextId} /\ OldOf(t)' = OldOf(t)
      BY <2>1, <3>2, <3>3 DEF NewOf, OldOf, New, Old, Batching, Rewriting, Leaving
    <3>5. merged # {}
      BY <2>3, <3>1, <3>2, MergedHolds
    <3>6. HoldsData(t)'
      BY <3>2, <3>3, <3>5 DEF HoldsData, Rewriting
    <3>7. LeavesList(t)'
      BY <2>1, <3>2, <3>3 DEF ListInv, LeavesList, Batching, Leaving
    <3>8. Writes(t) /\ Distinct(op'[t].fresh)
      BY <3>1, <3>2, <3>3, Typed DEF Writes, ListInv, IdsApart
    <3>9. nextId' \in Nat /\ nextId <= nextId' /\ nextId < nextId'
      BY <3>1, Typed
    <3>10. \A i \in NewOf(t)' : i \in Nat /\ nextId <= i /\ i < nextId'
      BY <3>4, <3>9, Typed
    <3> QED BY <2>1, <3>3, <3>4, <3>6, <3>7, <3>8, <3>9, <3>10, SameListStep
  <2> QED BY <2>2, <2>3
<1>4. ASSUME CompactFinish(t) PROVE ListKept(t)
  <2> DEFINE r == [op[t] EXCEPT !.must = {}]
  <2>1. /\ pc[t] = "merging" /\ pc' = [pc EXCEPT ![t] = "install"]
        /\ op' = [op EXCEPT ![t] = r] /\ files' = [files EXCEPT ![op[t].id] = op[t].must]
        /\ sstables' = sstables /\ nextId' = nextId
    BY <1>4 DEF CompactFinish
  <2>2. /\ r.expired = op[t].expired /\ r.fresh = op[t].fresh /\ r.size = op[t].size
        /\ r.victims = op[t].victims /\ r.id = op[t].id
    BY Here DEF Locals
  <2> HIDE DEF r
  <2>3. pc'[t] = "install" /\ op'[t] = r /\ \A u \in Tasks \ {t} : Untouched(u)
    BY <2>1, OneMoves
  <2>4. /\ NewOf(t)' = NewOf(t) /\ OldOf(t)' = OldOf(t)
        /\ NewOf(t) = {op[t].id} /\ op[t].id \in Ids
    BY <2>1, <2>2, <2>3, Here
    DEF NewOf, OldOf, New, Old, Batching, Rewriting, Leaving, Fits
  <2>5. files'[op[t].id] # {}
    BY <2>1, <2>4, Typed DEF ListInv, HoldsData
  <2>6. HoldsData(t)'
    BY <2>3, <2>4, <2>5 DEF HoldsData
  <2>7. LeavesList(t)'
    BY <2>1, <2>2, <2>3 DEF ListInv, LeavesList, Batching, Leaving
  <2>8. Writes(t) /\ Distinct(op'[t].fresh)
    BY <2>1, <2>2, <2>3, <2>4, Typed DEF Writes, ListInv, IdsApart
  <2>9. nextId' \in Nat /\ nextId <= nextId'
    BY <2>1, Typed
  <2> QED BY <2>1, <2>3, <2>4, <2>6, <2>7, <2>8, <2>9, SameListStep
<1>5. ASSUME CompactInstall(t) PROVE ListKept(t)
  <2>1. pc[t] = "install" /\ files' = files /\ nextId' = nextId
    BY <1>5 DEF CompactInstall, disk
  <2>2. CASE Len(sstables) < op[t].size
    <3>1. /\ pc' = [pc EXCEPT ![t] = "dead"] /\ op' = [op EXCEPT ![t] = NoOp]
          /\ sstables' = sstables
      BY <1>5, <2>2 DEF CompactInstall
    <3> QED BY <2>1, <3>1, QuietEnd
  <2>3. CASE ~(Len(sstables) < op[t].size)
    <3>1. /\ pc' = [pc EXCEPT ![t] = "purge"] /\ op' = [op EXCEPT ![t] = op[t]]
          /\ sstables' = <<op[t].id>> \o AfterDrain(op[t].size)
      BY <1>5, <2>3, Here DEF CompactInstall
    <3>2. pc'[t] = "purge" /\ op'[t] = op[t] /\ \A u \in Tasks \ {t} : Untouched(u)
      BY <3>1, OneMoves
    <3>3. /\ NewOf(t)' = {} /\ OldOf(t)' = OldOf(t)
          /\ NewOf(t) = {op[t].id} /\ op[t].id \in Ids
          /\ \A i \in Elems(op[t].victims) : i \in OldOf(t)
      BY <2>1, <3>2, Here
      DEF NewOf, OldOf, New, Old, Batching, Rewriting, Leaving, Fits
    <3>4. op[t].size \in Nat /\ 1 <= op[t].size /\ op[t].size <= Len(sstables)
      <4>1. op[t].victims \in Seq(Ids) /\ op[t].victims # <<>>
            /\ op[t].size = Len(op[t].victims)
        BY <2>1, Here DEF Fits, Locals
      <4>2. Len(op[t].victims) \in Nat /\ 1 <= Len(op[t].victims)
        BY <4>1, OneVictim
      <4> QED BY <2>3, <4>1, <4>2, Typed
    <3>5. /\ op[t].id \notin Elems(sstables) /\ Distinct(sstables) /\ Distinct(op[t].fresh)
          /\ \A i \in OldOf(t) : i # op[t].id
      BY <3>3 DEF ListInv, IdsApart
    <3>6. /\ sstables' \in Seq(Ids) /\ Distinct(sstables')
          /\ \A k \in DOMAIN sstables' :
               \/ sstables'[k] = op[t].id
               \/ \E j \in DOMAIN sstables :
                     k <= j /\ op[t].size < j /\ sstables[j] = sstables'[k]
      BY <3>1, <3>3, <3>4, <3>5, Installed
    <3>7. files[op[t].id] # {}
      BY <2>1, <3>3 DEF ListInv, HoldsData
    <3>8. \A k \in DOMAIN sstables' :
            \/ sstables'[k] \in NewOf(t) /\ files'[sstables'[k]] # {}
            \/ \E j \in DOMAIN sstables : k <= j /\ sstables[j] = sstables'[k]
      BY <2>1, <3>3, <3>6, <3>7
    <3>9. \A k \in DOMAIN sstables' : sstables'[k] \notin Elems(op[t].victims)
      <4> SUFFICES ASSUME NEW k \in DOMAIN sstables', sstables'[k] \in Elems(op[t].victims)
                   PROVE  FALSE
        OBVIOUS
      <4>1. sstables'[k] # op[t].id
        BY <3>3, <3>5
      <4>2. PICK j \in DOMAIN sstables : op[t].size < j /\ sstables[j] = sstables'[k]
        BY <3>6, <4>1
      <4>3. j <= op[t].size
        BY <2>1, <4>2 DEF ListInv, LeavesList, Batching
      <4>4. j \in Nat
        BY Typed
      <4> QED BY <3>4, <4>2, <4>3, <4>4
    <3>10. HoldsData(t)'
      BY <3>2 DEF HoldsData, Rewriting
    <3>11. LeavesList(t)'
      BY <3>2, <3>9 DEF LeavesList, Batching, Elems
    <3>12. Writes(t) /\ Distinct(op'[t].fresh)
      BY <2>1, <3>2, <3>5 DEF Writes
    <3>13. nextId' \in Nat /\ nextId <= nextId'
      BY <2>1, Typed
    <3> QED BY <3>2, <3>3, <3>6, <3>8, <3>10, <3>11, <3>12, <3>13, ListStep
  <2> QED BY <2>2, <2>3
<1>6. ASSUME CompactPurge(t) PROVE ListKept(t)
  <2> DEFINE v == op[t].victims
             r == [op[t] EXCEPT !.victims = Tail(op[t].victims)]
  <2>1. /\ pc[t] = "purge" /\ sstables' = sstables /\ nextId' = nextId
        /\ files' = [files EXCEPT ![Head(v)] = {}]
    BY <1>6 DEF CompactPurge, memory
  <2>2. v \in Seq(Ids) /\ v # <<>>
    BY <2>1, Here DEF Fits, Locals
  <2>3. /\ Head(v) \in Elems(v) /\ Head(v) \in Ids /\ Tail(v) \in Seq(Ids)
        /\ \A i \in Elems(Tail(v)) : i \in Elems(v)
    BY <2>2, TailElems, OneVictim
  <2>4. /\ \A i \in Elems(v) : i \notin Elems(sstables)
        /\ Distinct(op[t].fresh)
    BY <2>1 DEF ListInv, LeavesList, Leaving, IdsApart
  <2>5. OldOf(t) = op[t].expired \union Elems(v)
    BY <2>1 DEF OldOf, Old, Batching, Rewriting, Leaving
  <2>6. Writes(t)
    BY <2>1, <2>3, <2>4, <2>5, Typed DEF Writes
  <2>7. nextId' \in Nat /\ nextId <= nextId'
    BY <2>1, Typed
  <2>8. CASE pc' = [pc EXCEPT ![t] = "idle"] /\ op' = [op EXCEPT ![t] = NoOp]
    <3>1. pc'[t] = "idle" /\ op'[t] = NoOp /\ \A u \in Tasks \ {t} : Untouched(u)
      BY <2>8, OneMoves
    <3>2. NewOf(t)' = {} /\ OldOf(t)' = {} /\ Distinct(op'[t].fresh)
      BY <3>1, Ended DEF NewOf, OldOf, New, Old, Batching, Rewriting, Leaving, Distinct
    <3>3. HoldsData(t)' /\ LeavesList(t)'
      BY <3>1 DEF HoldsData, LeavesList, Batching, Rewriting, Leaving
    <3> QED BY <2>1, <2>6, <2>7, <3>1, <3>2, <3>3, SameListStep
  <2>9. CASE pc' = pc /\ op' = [op EXCEPT ![t] = r]
    <3>1. pc' = [pc EXCEPT ![t] = "purge"]
      BY <2>1, <2>9, Here
    <3>2. r.expired = op[t].expired /\ r.fresh = op[t].fresh /\ r.victims = Tail(v)
      BY Here DEF Locals
    <3> HIDE DEF r, v
    <3>3. pc'[t] = "purge" /\ op'[t] = r /\ \A u \in Tasks \ {t} : Untouched(u)
      BY <2>9, <3>1, OneMoves
    <3>4. NewOf(t)' = {} /\ OldOf(t)' = op[t].expired \union Elems(Tail(v))
      BY <3>2, <3>3 DEF NewOf, OldOf, New, Old, Batching, Rewriting, Leaving
    <3>5. HoldsData(t)' /\ Distinct(op'[t].fresh)
      BY <2>4, <3>2, <3>3 DEF HoldsData, Rewriting
    <3>6. LeavesList(t)'
      BY <2>1, <2>3, <2>4, <3>2, <3>3 DEF LeavesList, Batching
    <3>7. \A i \in OldOf(t)' : i \in OldOf(t)
      BY <2>3, <2>5, <3>4
    <3> QED BY <2>1, <2>6, <2>7, <3>3, <3>4, <3>5, <3>6, <3>7, SameListStep
  <2> HIDE DEF r
  <2> QED BY <1>6, <2>8, <2>9 DEF CompactPurge, r
<1> QED BY <1>1, <1>2, <1>3, <1>4, <1>5, <1>6 DEF Compact

\* A device deletion writes tables nobody else knows, lists them in place of what it found,
\* and deletes what it found only then.
LEMMA DeleteListOK ==
  ASSUME IdInv, ListInv, NEW t \in Tasks, Delete(t) PROVE ListKept(t)
<1>1. ASSUME NEW d \in Devices, DeleteBegin(t, d) PROVE ListKept(t)
  <2> DEFINE S == FramesOf(d)
             may == acked \intersect FramesOf(d)
  <2>1. /\ pc' = [pc EXCEPT ![t] = "list"] /\ pc[t] = "idle"
        /\ op' = [Going(S) EXCEPT ![t].arg = d, ![t].may = may]
        /\ sstables' = sstables /\ files' = files /\ nextId' = nextId
    BY <1>1 DEF DeleteBegin, disk
  <2>2. S \in SUBSET Frames
    BY DEF FramesOf
  <2> HIDE DEF S, may
  <2>3. /\ Going(S) \in [Tasks -> Locals]
        /\ \A u \in Tasks : Same(u, Going(S)[u]) /\ (pc[u] # "copy" => Going(S)[u] = op[u])
    BY <2>2, Copies DEF Going
  <2>4. pc'[t] = "list" /\ \A u \in Tasks \ {t} : pc'[u] = pc[u] /\ op'[u] = Going(S)[u]
    BY <2>1, <2>3 DEF IdInv, TypeOK, TasksType
  <2>5. \A u \in Tasks \ {t} : Untouched(u)
    BY <2>3, <2>4 DEF Untouched
  <2>6. op'[t] = [op[t] EXCEPT !.arg = d, !.may = may]
    BY <2>1, <2>3
  <2>7. op'[t].expired = op[t].expired /\ op'[t].fresh = op[t].fresh
    BY <2>6, Here DEF Locals
  <2>8. pc'[t] \notin Batching \union Rewriting \union Leaving \union {"copy", "remove"}
    BY <2>4 DEF Batching, Rewriting, Leaving
  <2> QED BY <2>1, <2>5, <2>7, <2>8, QuietStep
<1>2. ASSUME DeleteSnapshot(t) PROVE ListKept(t)
  <2> DEFINE r == [op[t] EXCEPT !.victims = sstables, !.fresh = <<>>, !.size = 0]
             at == IF sstables = <<>> THEN "unregister" ELSE "open"
  <2>1. /\ pc' = [pc EXCEPT ![t] = at] /\ op' = [op EXCEPT ![t] = r]
        /\ sstables' = sstables /\ files' = files /\ nextId' = nextId
    BY <1>2 DEF DeleteSnapshot, disk, memory
  <2>2. r.expired = op[t].expired /\ r.fresh = <<>> /\ r.victims = sstables
    BY Here DEF Locals
  <2>3. at \in {"unregister", "open"}
    OBVIOUS
  <2> HIDE DEF r, at
  <2>4. pc'[t] = at /\ op'[t] = r /\ \A u \in Tasks \ {t} : Untouched(u)
    BY <2>1, OneMoves
  <2>5. /\ NewOf(t)' = {}
        /\ \A i \in OldOf(t)' : i \in op[t].expired \/ i \in Elems(sstables)
    BY <2>2, <2>3, <2>4 DEF NewOf, OldOf, New, Old, Batching, Rewriting, Leaving, Elems
  <2>6. Distinct(op'[t].fresh)
    BY <2>2, <2>4 DEF Distinct
  <2>7. HoldsData(t)' /\ LeavesList(t)'
    BY <2>3, <2>4, <2>5 DEF HoldsData, LeavesList, Batching, Rewriting, Leaving
  <2>8. Writes(t) /\ nextId' \in Nat /\ nextId <= nextId'
    BY <2>1, Typed DEF Writes
  <2> QED BY <2>1, <2>4, <2>5, <2>6, <2>7, <2>8, ExpiredOld, SameListStep
<1>3. ASSUME DeleteOpen(t) PROVE ListKept(t)
  <2>1. /\ pc[t] = "open" /\ sstables' = sstables /\ files' = files /\ nextId' = nextId
    BY <1>3 DEF DeleteOpen, disk, memory
  <2>2. CASE pc' = [pc EXCEPT ![t] = "idle"] /\ op' = [op EXCEPT ![t] = NoOp]
    BY <2>1, <2>2, QuietEnd
  <2>3. CASE pc' = [pc EXCEPT ![t] = "rewrite"] /\ op' = [op EXCEPT ![t] = op[t]]
    <3>1. pc'[t] = "rewrite" /\ op'[t] = op[t] /\ \A u \in Tasks \ {t} : Untouched(u)
      BY <2>3, OneMoves
    <3>2. NewOf(t)' = NewOf(t) /\ OldOf(t)' = OldOf(t)
      BY <2>1, <3>1 DEF NewOf, OldOf, New, Old, Batching, Rewriting, Leaving
    <3>3. Distinct(op'[t].fresh)
      BY <3>1 DEF ListInv, IdsApart
    <3>4. HoldsData(t)'
      BY <2>1, <3>1, <3>2 DEF ListInv, HoldsData, Rewriting
    <3>5. LeavesList(t)'
      BY <3>1 DEF LeavesList, Batching, Leaving
    <3>6. Writes(t) /\ nextId' \in Nat /\ nextId <= nextId'
      BY <2>1, Typed DEF Writes
    <3> QED BY <2>1, <3>1, <3>2, <3>3, <3>4, <3>5, <3>6, SameListStep
  <2> QED BY <1>3, <2>2, <2>3, Here DEF DeleteOpen
<1>4. ASSUME DeleteRewrite(t) PROVE ListKept(t)
  <2> DEFINE source == files[op[t].victims[op[t].size + 1]]
             rest == Kept(source, op[t].arg)
             at == IF op[t].size + 1 = Len(op[t].victims) THEN "replace" ELSE "rewrite"
  <2>1. pc[t] = "rewrite" /\ sstables' = sstables
    BY <1>4 DEF DeleteRewrite
  <2>2. CASE source = {}
    <3>1. /\ pc' = [pc EXCEPT ![t] = "idle"] /\ op' = [op EXCEPT ![t] = NoOp]
          /\ files' = files /\ nextId' = nextId
      BY <1>4, <2>2 DEF DeleteRewrite
    <3> QED BY <2>1, <3>1, QuietEnd
  <2>3. CASE source # {} /\ rest = {}
    <3> DEFINE r == [op[t] EXCEPT !.size = op[t].size + 1]
    <3>1. /\ pc' = [pc EXCEPT ![t] = at] /\ op' = [op EXCEPT ![t] = r]
          /\ files' = files /\ nextId' = nextId
      BY <1>4, <2>3 DEF DeleteRewrite
    <3>2. /\ r.expired = op[t].expired /\ r.fresh = op[t].fresh
          /\ r.victims = op[t].victims
      BY Here DEF Locals
    <3>3. at \in {"rewrite", "replace"}
      OBVIOUS
    <3> HIDE DEF r, at
    <3>4. pc'[t] = at /\ op'[t] = r /\ \A u \in Tasks \ {t} : Untouched(u)
      BY <3>1, OneMoves
    <3>5. NewOf(t)' = NewOf(t) /\ OldOf(t)' = OldOf(t)
      BY <2>1, <3>2, <3>3, <3>4 DEF NewOf, OldOf, New, Old, Batching, Rewriting, Leaving
    <3>6. Distinct(op'[t].fresh)
      BY <3>2, <3>4 DEF ListInv, IdsApart
    <3>7. HoldsData(t)'
      BY <2>1, <3>1, <3>3, <3>4, <3>5 DEF ListInv, HoldsData, Rewriting
    <3>8. LeavesList(t)'
      BY <3>3, <3>4 DEF LeavesList, Batching, Leaving
    <3>9. Writes(t) /\ nextId' \in Nat /\ nextId <= nextId'
      BY <3>1, Typed DEF Writes
    <3> QED BY <2>1, <3>4, <3>5, <3>6, <3>7, <3>8, <3>9, SameListStep
  <2>4. CASE source # {} /\ rest # {}
    <3> DEFINE r == [op[t] EXCEPT !.size = op[t].size + 1,
                                  !.fresh = Append(op[t].fresh, nextId)]
    <3>1. /\ pc' = [pc EXCEPT ![t] = at] /\ op' = [op EXCEPT ![t] = r]
          /\ files' = [files EXCEPT ![nextId] = rest] /\ nextId' = nextId + 1
          /\ nextId \in Ids
      BY <1>4, <2>4 DEF DeleteRewrite, Allocate
    <3>2. /\ r.expired = op[t].expired /\ r.fresh = Append(op[t].fresh, nextId)
          /\ r.victims = op[t].victims /\ op[t].fresh \in Seq(Ids)
      BY Here DEF Locals
    <3>3. at \in {"rewrite", "replace"}
      OBVIOUS
    <3> HIDE DEF r, at, rest
    <3>4. pc'[t] = at /\ op'[t] = r /\ \A u \in Tasks \ {t} : Untouched(u)
      BY <3>1, OneMoves
    <3>5. /\ NewOf(t) = Elems(op[t].fresh) /\ NewOf(t)' = Elems(r.fresh)
          /\ OldOf(t)' = OldOf(t)
      BY <2>1, <3>2, <3>3, <3>4 DEF NewOf, OldOf, New, Old, Batching, Rewriting, Leaving
    <3>6. \A i \in Elems(op[t].fresh) : i \in Nat /\ i < nextId
      BY <3>5, IdsAreNat DEF ListInv, IdsApart
    <3>7. \A i \in NewOf(t)' : i \in NewOf(t) \/ i = nextId
      BY <3>2, <3>5 DEF Elems
    <3>8. Distinct(op'[t].fresh)
      <4>1. Distinct(op[t].fresh)
        BY DEF ListInv, IdsApart
      <4>2. \A i \in DOMAIN op[t].fresh : op[t].fresh[i] # nextId
        BY <3>6, Typed DEF Elems
      <4>3. /\ DOMAIN r.fresh = 1..(Len(op[t].fresh) + 1)
            /\ r.fresh[Len(op[t].fresh) + 1] = nextId /\ Len(op[t].fresh) \in Nat
            /\ DOMAIN op[t].fresh = 1..Len(op[t].fresh)
            /\ \A i \in 1..Len(op[t].fresh) : r.fresh[i] = op[t].fresh[i]
        BY <3>2
      <4>4. op'[t].fresh = r.fresh
        BY <3>4
      <4> DEFINE old == op[t].fresh  new == r.fresh  n == Len(op[t].fresh)
      <4>5. \A i, j \in DOMAIN old : i # j => old[i] # old[j]
        BY <4>1 DEF Distinct
      <4>6. \A i \in DOMAIN new : i \in DOMAIN old \/ i = n + 1
        BY <4>3
      <4>7. \A i \in DOMAIN old : new[i] = old[i] /\ old[i] # nextId
        BY <4>2, <4>3
      <4>8. new[n + 1] = nextId
        BY <4>3
      <4> HIDE DEF old, new, n
      <4>9. \A i, j \in DOMAIN new : i # j => new[i] # new[j]
        BY <4>5, <4>6, <4>7, <4>8
      <4>10. op'[t].fresh = new
        BY <4>4 DEF new
      <4> QED BY <4>9, <4>10 DEF Distinct
    <3>9. \A i \in NewOf(t)' : files'[i] # {}
      <4>1. \A i \in NewOf(t) : i \in Ids /\ i # nextId /\ files[i] # {}
        BY <2>1, <3>5, <3>6, IdsAreNat, Typed DEF ListInv, HoldsData, Rewriting
      <4> QED BY <2>4, <3>1, <3>7, <4>1, Typed
    <3>10. HoldsData(t)' /\ LeavesList(t)'
      BY <3>3, <3>4, <3>9 DEF HoldsData, LeavesList, Batching, Leaving
    <3>11. Writes(t) /\ nextId' \in Nat /\ nextId <= nextId' /\ nextId < nextId'
      BY <3>1, Typed DEF Writes
    <3>12. \A i \in NewOf(t)' : i \in NewOf(t) \/ (i \in Nat /\ nextId <= i /\ i < nextId')
      BY <3>7, <3>11, Typed
    <3> QED BY <2>1, <3>4, <3>5, <3>8, <3>10, <3>11, <3>12, SameListStep
  <2> HIDE DEF source, rest, at
  <2> QED BY <2>2, <2>3, <2>4
<1>5. ASSUME DeleteReplace(t) PROVE ListKept(t)
  <2> DEFINE r == [op[t] EXCEPT !.fresh = <<>>, !.size = 0]
  <2>1. /\ pc[t] = "replace" /\ pc' = [pc EXCEPT ![t] = "erase"]
        /\ op' = [op EXCEPT ![t] = r] /\ sstables' = op[t].fresh
        /\ files' = files /\ nextId' = nextId
    BY <1>5 DEF DeleteReplace, disk
  <2>2. /\ r.expired = op[t].expired /\ r.fresh = <<>> /\ r.victims = op[t].victims
        /\ op[t].fresh \in Seq(Ids)
    BY Here DEF Locals
  <2> HIDE DEF r
  <2>3. pc'[t] = "erase" /\ op'[t] = r /\ \A u \in Tasks \ {t} : Untouched(u)
    BY <2>1, OneMoves
  <2>4. /\ NewOf(t) = Elems(op[t].fresh) /\ NewOf(t)' = {} /\ OldOf(t)' = OldOf(t)
        /\ \A i \in Elems(op[t].victims) : i \in OldOf(t)
    BY <2>1, <2>2, <2>3 DEF NewOf, OldOf, New, Old, Batching, Rewriting, Leaving
  <2>5. Distinct(op[t].fresh) /\ Distinct(op'[t].fresh)
    BY <2>2, <2>3 DEF ListInv, IdsApart, Distinct
  <2>6. \A i \in Elems(op[t].fresh) : files[i] # {} /\ i \notin OldOf(t)
    BY <2>1, <2>4 DEF ListInv, HoldsData, Rewriting, IdsApart
  <2>7. \A k \in DOMAIN sstables' : sstables'[k] \in NewOf(t) /\ files'[sstables'[k]] # {}
    BY <2>1, <2>4, <2>6 DEF Elems
  <2>8. HoldsData(t)'
    BY <2>3 DEF HoldsData, Rewriting
  <2>9. LeavesList(t)'
    BY <2>1, <2>2, <2>3, <2>4, <2>6 DEF LeavesList, Batching
  <2>10. Writes(t) /\ nextId' \in Nat /\ nextId <= nextId'
    BY <2>1, Typed DEF Writes
  <2> QED BY <2>1, <2>2, <2>3, <2>4, <2>5, <2>7, <2>8, <2>9, <2>10, ListStep
<1>6. ASSUME DeleteErase(t) PROVE ListKept(t)
  <2> DEFINE v == op[t].victims
             r == [op[t] EXCEPT !.victims = Tail(op[t].victims)]
             at == IF Len(v) = 1 THEN "unregister" ELSE "erase"
  <2>1. /\ pc[t] = "erase" /\ sstables' = sstables /\ nextId' = nextId
        /\ files' = [files EXCEPT ![Head(v)] = {}]
        /\ pc' = [pc EXCEPT ![t] = at] /\ op' = [op EXCEPT ![t] = r]
    BY <1>6 DEF DeleteErase, memory
  <2>2. v \in Seq(Ids) /\ v # <<>>
    BY <2>1, Here DEF Fits, Locals
  <2>3. /\ Head(v) \in Elems(v) /\ Head(v) \in Ids /\ Tail(v) \in Seq(Ids)
        /\ \A i \in Elems(Tail(v)) : i \in Elems(v)
    BY <2>2, TailElems, OneVictim
  <2>4. /\ \A i \in Elems(v) : i \notin Elems(sstables)
        /\ Distinct(op[t].fresh)
    BY <2>1 DEF ListInv, LeavesList, Leaving, IdsApart
  <2>5. OldOf(t) = op[t].expired \union Elems(v)
    BY <2>1 DEF OldOf, Old, Batching, Rewriting, Leaving
  <2>6. Writes(t)
    BY <2>1, <2>3, <2>4, <2>5, Typed DEF Writes
  <2>7. nextId' \in Nat /\ nextId <= nextId'
    BY <2>1, Typed
  <2>8. r.expired = op[t].expired /\ r.fresh = op[t].fresh /\ r.victims = Tail(v)
    BY Here DEF Locals
  <2>9. at \in {"unregister", "erase"}
    OBVIOUS
  <2> HIDE DEF r, v, at
  <2>10. pc'[t] = at /\ op'[t] = r /\ \A u \in Tasks \ {t} : Untouched(u)
    BY <2>1, OneMoves
  <2>11. /\ NewOf(t)' = {}
         /\ \A i \in OldOf(t)' : i \in op[t].expired \/ i \in Elems(Tail(v))
    BY <2>8, <2>9, <2>10 DEF NewOf, OldOf, New, Old, Batching, Rewriting, Leaving
  <2>12. HoldsData(t)' /\ Distinct(op'[t].fresh)
    BY <2>4, <2>8, <2>9, <2>10 DEF HoldsData, Rewriting
  <2>13. LeavesList(t)'
    BY <2>1, <2>3, <2>4, <2>8, <2>9, <2>10 DEF LeavesList, Batching
  <2>14. \A i \in OldOf(t)' : i \in OldOf(t)
    BY <2>3, <2>5, <2>11
  <2> QED BY <2>1, <2>6, <2>7, <2>10, <2>11, <2>12, <2>13, <2>14, SameListStep
<1>7. ASSUME DeleteUnregister(t) PROVE ListKept(t)
  <2>1. /\ pc' = [pc EXCEPT ![t] = "idle"] /\ op' = [op EXCEPT ![t] = NoOp]
        /\ sstables' = sstables /\ files' = files /\ nextId' = nextId
    BY <1>7 DEF DeleteUnregister, disk
  <2> QED BY <2>1, QuietEnd
<1> QED BY <1>1, <1>2, <1>3, <1>4, <1>5, <1>6, <1>7 DEF Delete

\* retain takes the one table out of the list and moves none towards its end.
LEMMA Dropped ==
  ASSUME IdInv, Distinct(sstables), NEW i
  PROVE  LET s == Without(sstables, i)
         IN  /\ Distinct(s) /\ i \notin Elems(s)
             /\ \A k \in DOMAIN s : \E j \in DOMAIN sstables : k <= j /\ sstables[j] = s[k]
             /\ \A j \in Elems(sstables) : j # i => j \in Elems(s)
<1> DEFINE m == Len(sstables)
<1>1. /\ sstables \in Seq(Ids) /\ m \in Nat /\ DOMAIN sstables = 1..m
      /\ \A j \in 1..m : sstables[j] \in Ids
  <2> HIDE DEF Ids
  <2> QED BY Typed, LenProperties, ElementOfSeq
<1>2. CASE i \notin Elems(sstables)
  <2>1. Without(sstables, i) = sstables
    BY <1>2 DEF Without
  <2>2. \A k \in DOMAIN sstables : k <= k
    BY <1>1
  <2> QED BY <1>2, <2>1, <2>2
<1>3. CASE i \in Elems(sstables)
  <2> DEFINE p == CHOOSE k \in DOMAIN sstables : sstables[k] = i
             a == SubSeq(sstables, 1, p - 1)
             b == SubSeq(sstables, p + 1, m)
             s == a \o b
  <2>1. p \in DOMAIN sstables /\ sstables[p] = i
    BY <1>3 DEF Elems
  <2>2. Without(sstables, i) = s
    BY <1>3 DEF Without
  <2>3. p \in 1..m
    BY <1>1, <2>1
  <2> HIDE DEF p, m, Ids
  <2>4. /\ a \in Seq(Ids) /\ Len(a) = p - 1
        /\ \A k \in 1..(p - 1) : a[k] = sstables[k]
    <3>1. 1 \in Int /\ p - 1 \in Int /\ \A k \in 1..(p - 1) : sstables[k] \in Ids
      BY <1>1, <2>3
    <3>2. /\ a \in Seq(Ids) /\ Len(a) = IF 1 <= p - 1 THEN p - 1 - 1 + 1 ELSE 0
          /\ \A k \in 1..(p - 1 - 1 + 1) : a[k] = sstables[1 + k - 1]
      BY <3>1, SubSeqProperties
    <3>3. \A k \in 1..(p - 1) : k \in 1..(p - 1 - 1 + 1) /\ 1 + k - 1 = k
      BY <2>3
    <3>4. (IF 1 <= p - 1 THEN p - 1 - 1 + 1 ELSE 0) = p - 1
      BY <2>3
    <3>5. \A k \in 1..(p - 1) : a[k] = sstables[k]
      <4> HIDE DEF a
      <4> QED BY <3>2, <3>3
    <3>6. a \in Seq(Ids) /\ Len(a) = p - 1
      BY <3>2, <3>4
    <3> QED BY <3>5, <3>6
  <2>5. /\ b \in Seq(Ids) /\ Len(b) = m - p
        /\ \A k \in 1..(m - p) : b[k] = sstables[p + k]
    <3>1. p + 1 \in Int /\ m \in Int /\ \A k \in (p + 1)..m : sstables[k] \in Ids
      BY <1>1, <2>3
    <3>2. /\ b \in Seq(Ids) /\ Len(b) = IF p + 1 <= m THEN m - (p + 1) + 1 ELSE 0
          /\ \A k \in 1..(m - (p + 1) + 1) : b[k] = sstables[p + 1 + k - 1]
      BY <3>1, SubSeqProperties
    <3>3. \A k \in 1..(m - p) : k \in 1..(m - (p + 1) + 1) /\ p + 1 + k - 1 = p + k
      BY <1>1, <2>3
    <3>4. (IF p + 1 <= m THEN m - (p + 1) + 1 ELSE 0) = m - p
      BY <1>1, <2>3
    <3>5. \A k \in 1..(m - p) : b[k] = sstables[p + k]
      <4> HIDE DEF b
      <4> QED BY <3>2, <3>3
    <3>6. b \in Seq(Ids) /\ Len(b) = m - p
      BY <3>2, <3>4
    <3> QED BY <3>5, <3>6
  <2> HIDE DEF a, b
  <2>6. /\ s \in Seq(Ids) /\ Len(s) = Len(a) + Len(b)
        /\ \A k \in 1..(Len(a) + Len(b)) :
             s[k] = IF k <= Len(a) THEN a[k] ELSE b[k - Len(a)]
    BY <2>4, <2>5, ConcatProperties
  <2> HIDE DEF s
  <2>7. /\ DOMAIN s = 1..(m - 1)
        /\ \A k \in 1..(m - 1) : s[k] = IF k <= p - 1 THEN a[k] ELSE b[k - (p - 1)]
    <3>1. Len(a) + Len(b) = m - 1
      BY <1>1, <2>3, <2>4, <2>5
    <3>2. DOMAIN s = 1..Len(s)
      BY <2>6, LenProperties
    <3> QED BY <2>4, <2>6, <3>1, <3>2
  <2>8. \A k \in 1..(m - 1) : s[k] = IF k < p THEN sstables[k] ELSE sstables[k + 1]
    <3> SUFFICES ASSUME NEW k \in 1..(m - 1)
                 PROVE  s[k] = IF k < p THEN sstables[k] ELSE sstables[k + 1]
      OBVIOUS
    <3>1. CASE k < p
      <4>1. k \in 1..(p - 1) /\ k <= p - 1
        BY <1>1, <2>3, <3>1
      <4> QED BY <2>4, <2>7, <3>1, <4>1
    <3>2. CASE ~(k < p)
      <4>1. k - (p - 1) \in 1..(m - p) /\ ~(k <= p - 1) /\ p + (k - (p - 1)) = k + 1
        BY <1>1, <2>3, <3>2
      <4> QED BY <2>5, <2>7, <3>2, <4>1
    <3> QED BY <3>1, <3>2
  \* The position in the list of what is left at k.
  <2> DEFINE from(k) == IF k < p THEN k ELSE k + 1
  <2>9. \A k \in 1..(m - 1) : /\ from(k) \in 1..m /\ k <= from(k) /\ from(k) # p
                              /\ s[k] = sstables[from(k)]
    BY <1>1, <2>3, <2>8
  <2>10. \A j, k \in 1..(m - 1) : from(j) = from(k) => j = k
    BY <1>1, <2>3
  <2> HIDE DEF from
  <2>11. \A k \in 1..(m - 1) : s[k] # i
    BY <1>1, <2>1, <2>9 DEF Distinct
  <2>12. Distinct(s)
    BY <1>1, <2>7, <2>9, <2>10 DEF Distinct
  <2>13. i \notin Elems(s)
    BY <2>7, <2>11 DEF Elems
  <2>14. \A k \in DOMAIN s : \E j \in DOMAIN sstables : k <= j /\ sstables[j] = s[k]
    BY <1>1, <2>7, <2>9
  <2>15. ASSUME NEW q \in 1..m, q # p PROVE sstables[q] \in Elems(s)
    <3>1. CASE q < p
      <4>1. q \in 1..(m - 1)
        BY <1>1, <2>3, <3>1
      <4> QED BY <2>7, <2>8, <3>1, <4>1 DEF Elems
    <3>2. CASE ~(q < p)
      <4>1. q - 1 \in 1..(m - 1) /\ ~(q - 1 < p) /\ q - 1 + 1 = q
        BY <1>1, <2>3, <2>15, <3>2
      <4> QED BY <2>7, <2>8, <4>1 DEF Elems
    <3> QED BY <3>1, <3>2
  <2>16. \A j \in Elems(sstables) : j # i => j \in Elems(s)
    BY <1>1, <2>1, <2>15 DEF Elems
  <2> QED BY <2>2, <2>12, <2>13, <2>14, <2>16
<1> QED BY <1>2, <1>3

\* The retention check takes a table from the list before it removes the file.
LEMMA SweepListOK ==
  ASSUME IdInv, ListInv, NEW t \in Tasks, Sweep(t) PROVE ListKept(t)
<1>0. Distinct(sstables) /\ Distinct(op[t].fresh)
  BY DEF ListInv, IdsApart
<1>1. ASSUME SweepSelect(t) PROVE ListKept(t)
  <2> DEFINE r == [op[t] EXCEPT !.expired = {i \in Elems(sstables) : Expires(i)}]
  <2>1. /\ pc' = [pc EXCEPT ![t] = "sweep"] /\ op' = [op EXCEPT ![t] = r]
        /\ sstables' = sstables /\ files' = files /\ nextId' = nextId
    BY <1>1 DEF SweepSelect, disk, memory
  <2>2. r.expired \subseteq Elems(sstables) /\ r.fresh = op[t].fresh
    BY Here DEF Locals
  <2> HIDE DEF r
  <2>3. pc'[t] = "sweep" /\ op'[t] = r /\ \A u \in Tasks \ {t} : Untouched(u)
    BY <2>1, OneMoves
  <2>4. NewOf(t)' = {} /\ OldOf(t)' = r.expired
    BY <2>3 DEF NewOf, OldOf, New, Old, Batching, Rewriting, Leaving
  <2>5. HoldsData(t)' /\ LeavesList(t)' /\ Distinct(op'[t].fresh)
    BY <1>0, <2>2, <2>3 DEF HoldsData, LeavesList, Batching, Rewriting, Leaving
  <2>6. Writes(t) /\ nextId' \in Nat /\ nextId <= nextId'
    BY <2>1, Typed DEF Writes
  <2>7. \A i \in OldOf(t)' : i \in Elems(sstables)
    BY <2>2, <2>4
  <2> QED BY <2>1, <2>3, <2>4, <2>5, <2>6, <2>7, SameListStep
<1>2. ASSUME NEW i \in op[t].expired, SweepUnlist(t, i) PROVE ListKept(t)
  <2> DEFINE r == [op[t] EXCEPT !.expired = op[t].expired \ {i}, !.id = i]
  <2>1. /\ pc' = [pc EXCEPT ![t] = "remove"] /\ op' = [op EXCEPT ![t] = r]
        /\ sstables' = Without(sstables, i) /\ files' = files /\ nextId' = nextId
    BY <1>2 DEF SweepUnlist, disk
  <2>2. r.expired = op[t].expired \ {i} /\ r.fresh = op[t].fresh /\ r.id = i
    BY Here DEF Locals
  <2> HIDE DEF r
  <2>3. pc'[t] = "remove" /\ op'[t] = r /\ \A u \in Tasks \ {t} : Untouched(u)
    BY <2>1, OneMoves
  <2>4. NewOf(t)' = {} /\ OldOf(t)' = (op[t].expired \ {i}) \union {i}
    BY <2>2, <2>3 DEF NewOf, OldOf, New, Old, Batching, Rewriting, Leaving
  <2>5. /\ Distinct(sstables') /\ i \notin Elems(sstables') /\ sstables' \in Seq(Ids)
        /\ \A k \in DOMAIN sstables' :
             \E j \in DOMAIN sstables : k <= j /\ sstables[j] = sstables'[k]
    BY <1>0, <2>1, Dropped, Removed
  <2>6. HoldsData(t)' /\ LeavesList(t)' /\ Distinct(op'[t].fresh)
    BY <1>0, <2>2, <2>3, <2>5 DEF HoldsData, LeavesList, Batching, Rewriting, Leaving
  <2>7. Writes(t) /\ nextId' \in Nat /\ nextId <= nextId'
    BY <2>1, Typed DEF Writes
  <2>8. \A j \in OldOf(t)' : j \in OldOf(t)
    BY <2>4, ExpiredOld
  <2> QED BY <2>3, <2>4, <2>5, <2>6, <2>7, <2>8, ListStep
<1>3. ASSUME SweepErase(t) PROVE ListKept(t)
  <2> DEFINE r == [op[t] EXCEPT !.id = 0]
             at == IF op[t].expired = {} THEN "idle" ELSE "sweep"
  <2>1. /\ pc[t] = "remove" /\ pc' = [pc EXCEPT ![t] = at] /\ op' = [op EXCEPT ![t] = r]
        /\ files' = [files EXCEPT ![op[t].id] = {}]
        /\ sstables' = sstables /\ nextId' = nextId
    BY <1>3 DEF SweepErase, memory
  <2>2. r.expired = op[t].expired /\ r.fresh = op[t].fresh
    BY Here DEF Locals
  <2>3. at \in {"idle", "sweep"}
    OBVIOUS
  <2> HIDE DEF r, at
  <2>4. pc'[t] = at /\ op'[t] = r /\ \A u \in Tasks \ {t} : Untouched(u)
    BY <2>1, OneMoves
  <2>5. NewOf(t)' = {} /\ OldOf(t)' = op[t].expired
    BY <2>2, <2>3, <2>4 DEF NewOf, OldOf, New, Old, Batching, Rewriting, Leaving
  <2>6. HoldsData(t)' /\ LeavesList(t)' /\ Distinct(op'[t].fresh)
    BY <1>0, <2>2, <2>3, <2>4 DEF HoldsData, LeavesList, Batching, Rewriting, Leaving
  <2>7. op[t].id \in OldOf(t) /\ op[t].id \notin Elems(sstables) /\ op[t].id \in Ids
    BY <2>1, Here DEF ListInv, LeavesList, OldOf, Old, Fits
  <2>8. Writes(t) /\ nextId' \in Nat /\ nextId <= nextId'
    BY <2>1, <2>7, Typed DEF Writes
  <2> QED BY <2>1, <2>4, <2>5, <2>6, <2>8, ExpiredOld, SameListStep
<1> QED BY <1>1, <1>2, <1>3 DEF Sweep

\* A query changes nothing but its locals.
LEMMA QueryListOK ==
  ASSUME IdInv, ListInv, NEW t \in Tasks, Query(t) PROVE ListKept(t)
<1>1. ASSUME NEW d \in Devices, QueryMemtable(t, d) PROVE ListKept(t)
  <2> DEFINE r == [op[t] EXCEPT !.arg = d, !.must = memtable \intersect FramesOf(d),
                                !.may = (acked \ racy) \intersect FramesOf(d)]
  <2>1. /\ pc' = [pc EXCEPT ![t] = "tables"] /\ op' = [op EXCEPT ![t] = r]
        /\ sstables' = sstables /\ files' = files /\ nextId' = nextId
    BY <1>1 DEF QueryMemtable, disk, memory
  <2>2. r.expired = op[t].expired /\ r.fresh = op[t].fresh
    BY Here DEF Locals
  <2> HIDE DEF r
  <2> QED BY <2>1, <2>2, QuietMove DEF Batching, Rewriting, Leaving
<1>2. ASSUME QueryTables(t) PROVE ListKept(t)
  <2> DEFINE r == [op[t] EXCEPT !.must = @ \union (Listed \intersect FramesOf(op[t].arg))]
  <2>1. sstables' = sstables /\ files' = files /\ nextId' = nextId
    BY <1>2 DEF QueryTables, disk, memory
  <2>2. r.expired = op[t].expired /\ r.fresh = op[t].fresh
    BY Here DEF Locals
  <2>3. CASE pc' = [pc EXCEPT ![t] = "answer"] /\ op' = [op EXCEPT ![t] = r]
    <3> HIDE DEF r
    <3> QED BY <2>1, <2>2, <2>3, QuietMove DEF Batching, Rewriting, Leaving
  <2>4. CASE pc' = [pc EXCEPT ![t] = "idle"] /\ op' = [op EXCEPT ![t] = NoOp]
    BY <2>1, <2>4, QuietEnd
  <2> QED BY <1>2, <2>3, <2>4 DEF QueryTables
<1>3. ASSUME QueryReply(t) PROVE ListKept(t)
  <2>1. /\ pc' = [pc EXCEPT ![t] = "idle"] /\ op' = [op EXCEPT ![t] = NoOp]
        /\ sstables' = sstables /\ files' = files /\ nextId' = nextId
    BY <1>3 DEF QueryReply, disk, memory
  <2> QED BY <2>1, QuietEnd
<1> QED BY <1>1, <1>2, <1>3 DEF Query

----------------------------------------------------------------------------
(* Start-up, and the theorems                                              *)

\* A task that runs nothing is at work on no table.
LEMMA Idle == /\ New("idle", NoOp) = {} /\ Old("idle", NoOp) = {} /\ Distinct(NoOp.fresh)
              /\ Elems(<<>>) = {} /\ DOMAIN <<>> = {} /\ Distinct(<<>>)
  BY Ended DEF New, Old, Batching, Rewriting, Leaving, Elems, Distinct

\* The empty data directory.
LEMMA ListInit == Init => ListInv
<1> SUFFICES ASSUME Init PROVE ListInv
  OBVIOUS
<1>1. /\ sstables = <<>> /\ pc = [t \in Tasks |-> "idle"] /\ op = [t \in Tasks |-> NoOp]
  BY DEF Init
<1>2. \A t \in Tasks : pc[t] = "idle" /\ op[t] = NoOp /\ NewOf(t) = {} /\ OldOf(t) = {}
  BY <1>1, Idle DEF NewOf, OldOf
<1>3. IdsApart
  BY <1>1, <1>2, Idle DEF IdsApart
<1>4. \A t \in Tasks : HoldsData(t) /\ LeavesList(t)
  BY <1>2 DEF HoldsData, LeavesList, Batching, Rewriting, Leaving
<1>5. ListedFilesExist
  BY <1>1, Idle DEF ListedFilesExist
<1> QED BY <1>3, <1>4, <1>5 DEF ListInv

\* A crash leaves no list, and no task.
LEMMA CrashListOK == Crash => ListInv'
<1> SUFFICES ASSUME Crash PROVE ListInv'
  OBVIOUS
<1>1. sstables' = <<>> /\ pc' = [t \in Tasks |-> "idle"] /\ op' = [t \in Tasks |-> NoOp]
  BY DEF Crash
<1>2. \A t \in Tasks : /\ pc'[t] = "idle" /\ op'[t] = NoOp
                       /\ NewOf(t)' = {} /\ OldOf(t)' = {}
  BY <1>1, Idle DEF NewOf, OldOf
<1>3. IdsApart'
  BY <1>1, <1>2, Idle DEF IdsApart, Distinct
<1>4. \A t \in Tasks : HoldsData(t)' /\ LeavesList(t)'
  BY <1>2 DEF HoldsData, LeavesList, Batching, Rewriting, Leaving
<1>5. ListedFilesExist'
  BY <1>1, Idle DEF ListedFilesExist
<1> QED BY <1>3, <1>4, <1>5 DEF ListInv

\* Start-up appends a table it has opened, with an id above those of the list.
LEMMA OpenListOK == ASSUME IdInv, ListInv, RecoverOpen PROVE ListInv'
<1>1. /\ scan \in Ids /\ files' = files /\ pc' = pc /\ op' = op
      /\ nextId \in Nat /\ nextId <= scan
      /\ \A i \in Elems(sstables) : i \in Ids /\ i < nextId
  BY ListedIds, Typed DEF RecoverOpen, disk, IdInv, ScanOK
<1>2. CASE files[scan] = {}
  <2>1. sstables' = sstables /\ nextId' = nextId
    BY <1>2 DEF RecoverOpen
  <2> QED BY <1>1, <2>1
      DEF ListInv, IdsApart, HoldsData, LeavesList, ListedFilesExist, NewOf, OldOf, Distinct
<1>3. CASE files[scan] # {}
  <2>1. sstables' = Append(sstables, scan) /\ nextId' = scan + 1
    BY <1>3 DEF RecoverOpen
  <2>2. scan \notin Elems(sstables) /\ Distinct(sstables)
    BY <1>1 DEF ListInv, IdsApart
  <2>3. /\ Distinct(sstables') /\ sstables' \in Seq(Ids)
        /\ \A k \in DOMAIN sstables' :
             \/ sstables'[k] = scan
             \/ \E j \in DOMAIN sstables : k <= j /\ sstables[j] = sstables'[k]
    BY <1>1, <2>1, <2>2, Appended
  <2>4. \A i \in Elems(sstables') : i \in Elems(sstables) \/ i = scan
    BY <2>3 DEF Elems
  <2>5. \A t \in Tasks : NewOf(t)' = NewOf(t) /\ OldOf(t)' = OldOf(t)
    BY <1>1 DEF NewOf, OldOf
  <2>6. \A t \in Tasks : \A i \in NewOf(t) \union OldOf(t) : i \in Nat /\ i < nextId /\ i # scan
    BY <1>1, IdsAreNat DEF ListInv, IdsApart
  <2>7. IdsApart'
    <3>1. ASSUME NEW t \in Tasks
          PROVE  /\ \A i \in NewOf(t)' \union OldOf(t)' : i < nextId'
                 /\ \A i \in NewOf(t)' : i \notin Elems(sstables')
      BY <1>1, <2>1, <2>4, <2>5, <2>6 DEF ListInv, IdsApart
    <3>2. ASSUME NEW t \in Tasks
          PROVE  /\ Distinct(op'[t].fresh)
                 /\ \A u \in Tasks : \A i \in NewOf(t)' :
                      i \notin OldOf(u)' /\ (t # u => i \notin NewOf(u)')
      BY <1>1, <2>5 DEF ListInv, IdsApart
    <3> QED BY <2>3, <3>1, <3>2 DEF IdsApart, Distinct
  <2>8. ASSUME NEW t \in Tasks PROVE HoldsData(t)' /\ LeavesList(t)'
    <3>1. HoldsData(t) /\ LeavesList(t)
      BY DEF ListInv
    <3>2. HoldsData(t)'
      BY <1>1, <2>5, <3>1 DEF HoldsData
    <3>3. pc[t] \in Batching \union Leaving => \A i \in Elems(op[t].victims) : i # scan
      BY <2>6 DEF OldOf, Old
    <3>4. pc[t] = "remove" => op[t].id # scan
      BY <2>6 DEF OldOf, Old
    <3>5. pc[t] \in Batching =>
            \A k \in DOMAIN sstables' : sstables'[k] \in Elems(op[t].victims) => k <= op[t].size
      <4> SUFFICES ASSUME pc[t] \in Batching, NEW k \in DOMAIN sstables',
                          sstables'[k] \in Elems(op[t].victims)
                   PROVE  k <= op[t].size
        OBVIOUS
      <4>1. PICK j \in DOMAIN sstables : k <= j /\ sstables[j] = sstables'[k]
        BY <2>3, <3>3
      <4>2. j <= op[t].size
        BY <3>1, <4>1 DEF LeavesList
      <4>3. k \in Nat /\ j \in Nat /\ op[t].size \in Nat
        <5>1. DOMAIN sstables = 1..Len(sstables) /\ DOMAIN sstables' = 1..Len(sstables')
          BY <2>3, Typed
        <5> QED BY <5>1, Here DEF Locals
      <4> QED BY <4>1, <4>2, <4>3
    <3>6. /\ pc[t] \in Leaving => \A i \in Elems(op[t].victims) : i \notin Elems(sstables')
          /\ pc[t] = "remove" => op[t].id \notin Elems(sstables')
      BY <2>4, <3>1, <3>3, <3>4 DEF LeavesList
    <3> QED BY <1>1, <3>2, <3>5, <3>6 DEF LeavesList
  <2>9. ListedFilesExist'
    BY <1>1, <1>3, <2>4 DEF ListInv, ListedFilesExist
  <2> QED BY <2>7, <2>8, <2>9 DEF ListInv
<1> QED BY <1>2, <1>3

\* The end of start-up changes neither list nor tables.
LEMMA ServeListOK == ASSUME IdInv, ListInv, RecoverServe PROVE ListInv'
<1>1. /\ files' = files /\ pc' = pc /\ op' = op /\ sstables' = sstables /\ nextId' = nextId
  BY DEF RecoverServe, disk
<1> QED BY <1>1
    DEF ListInv, IdsApart, HoldsData, LeavesList, ListedFilesExist, NewOf, OldOf, Distinct

\* Every step of a task keeps ListInv, and writes where it may.
LEMMA TaskKeepsList ==
  ASSUME IdInv, ListInv, NEW t \in Tasks,
         Write(t) \/ Flush(t) \/ Compact(t) \/ Delete(t) \/ Sweep(t) \/ Query(t)
  PROVE  ListInv' /\ Writes(t)
<1>1. ListKept(t)
  BY WriteListOK, FlushListOK, CompactListOK, DeleteListOK, SweepListOK, QueryListOK
<1> QED BY <1>1 DEF ListKept

\* Every step keeps ListInv.
LEMMA ListInvStep == IdInv /\ ListInv /\ [Next]_vars => ListInv'
<1> SUFFICES ASSUME IdInv, ListInv, [Next]_vars PROVE ListInv'
  OBVIOUS
<1>1. CASE UNCHANGED vars
  BY <1>1 DEF vars, disk, memory, ListInv, IdsApart, HoldsData, LeavesList, ListedFilesExist,
     NewOf, OldOf, Distinct
<1>2. ASSUME NEW t \in Tasks,
             Write(t) \/ Flush(t) \/ Compact(t) \/ Delete(t) \/ Sweep(t) \/ Query(t)
      PROVE  ListInv'
  BY <1>2, TaskKeepsList
<1>3. CASE Crash
  BY <1>3, CrashListOK
<1>4. CASE Recover
  BY <1>4, OpenListOK, ServeListOK DEF Recover
<1> QED BY <1>1, <1>2, <1>3, <1>4 DEF Next

----------------------------------------------------------------------------

\* IdInv and ListInv hold throughout; they are inductive together, because a new table
\* is apart from the old ones only as long as ids are handed out in order.
THEOREM ListInductive == Spec => [](IdInv /\ ListInv)
<1>1. Init => IdInv /\ ListInv
  BY IdInit, ListInit
<1>2. (IdInv /\ ListInv) /\ [Next]_vars => (IdInv /\ ListInv)'
  BY IdStep, ListInvStep
<1> QED BY <1>1, <1>2, PTL DEF Spec

\* StorageEngine::query never meets a listed table whose file is gone: flush, compaction,
\* delete_device and enforce_retention, in any number and any order, take a table from
\* the list before its file goes, and put no unfinished one there.
THEOREM ListedFilesAlways == Spec => []ListedFilesExist
<1>1. IdInv /\ ListInv => ListedFilesExist
  BY DEF ListInv
<1> QED BY <1>1, ListInductive, PTL

\* No step changes the file of a table that is in the list when it is taken: no id of the
\* list is handed out again, and no purge reaches a table before the list has let go of it.
THEOREM ListedFixed == Spec => ListedTablesFixed
<1>1. ASSUME IdInv, ListInv, [Next]_vars
      PROVE  [\A i \in Elems(sstables) : files'[i] = files[i]]_vars
  <2>1. ASSUME NEW t \in Tasks, NEW i \in Elems(sstables),
               Write(t) \/ Flush(t) \/ Compact(t) \/ Delete(t) \/ Sweep(t) \/ Query(t)
        PROVE  files'[i] = files[i]
    <3>1. i \in Ids /\ i < nextId /\ nextId \in Nat
      BY <1>1, ListedIds, Typed
    <3>2. i \notin NewOf(t)
      BY <1>1 DEF ListInv, IdsApart
    <3>3. Writes(t)
      BY <1>1, <2>1, TaskKeepsList
    <3> QED BY <3>1, <3>2, <3>3 DEF Writes
  <2>2. CASE Crash \/ Recover
    BY <2>2 DEF Crash, Recover, RecoverOpen, RecoverServe, disk
  <2> QED BY <1>1, <2>1, <2>2 DEF Next
<1> QED BY <1>1, ListInductive, PTL DEF Spec, ListedTablesFixed
=============================================================================
