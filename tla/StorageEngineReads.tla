------------------------- MODULE StorageEngineReads -------------------------
(***************************************************************************)
(* When a query of StorageEngine misses nothing, and when the log handle   *)
(* stays on the log: for all values of the constants, on the condition the *)
(* code leaves to its callers.                                             *)
(*                                                                         *)
(* A compaction and a device deletion replace the list by position and as  *)
(* a whole, by what they read of it earlier.  As long as each takes from   *)
(* the list only tables it has read (TakesOwn), every acknowledged frame   *)
(* is in the memtable or in a listed table, and the query that reads       *)
(* first the one and then the other finds it (QueryComplete).  TakesOwn    *)
(* holds when no two tasks are between reading the list and replacing it   *)
(* (OneReplaces).  LogAttached holds when no two flushes are in their      *)
(* window (OneFlushes).                                                    *)
(*                                                                         *)
(* Under TakesOwn the engine implements DurableStore (StoreRefined).  What *)
(* the mapping needs beside the invariants above is StoreInv: every frame  *)
(* in log, memtable, tables or hands was written, each write under way has *)
(* a frame of its own that is not acknowledged, only a deletion holds a    *)
(* device and a query only frames of the one it asks for, and what a       *)
(* retention check takes out is what its rule let it take.                 *)
(***************************************************************************)
EXTENDS StorageEngineDurable

USE DEF At, Goto, SetLocals, Leave, Fail, Panic, Succeed, Serving, Ids, IdAfter

\* What CompactInstall drains, and what DeleteReplace drops, is what the task has read:
\* "Replace only the compacted batch with the new merged SSTable".
TakesOwn ==
  \A t \in Tasks :
    /\ pc[t] = "install" => \A k \in DOMAIN sstables :
                              k <= op[t].size => sstables[k] \in Elems(op[t].victims)
    /\ pc[t] = "replace" => \A i \in Elems(sstables) : i \in Elems(op[t].victims)

\* A listed table has the frame, or another with its key.
Seen(f) == KeyOf[f] \in Keys(Listed)
\* A flush brings what it takes from the memtable to the list.
FlushSees(t) ==
  /\ pc[t] = "copy" => \A f \in Safe : f \in op[t].must \/ Seen(f)
  /\ pc[t] = "clear" => \A f \in Safe : Seen(f)
\* What a query owes it has from the memtable, or will find in the list.
Found(t, f) == KeyOf[f] \in Keys(op[t].must)
QuerySees(t) ==
  /\ pc[t] \in {"tables", "answer"} => op[t].may \subseteq acked
  /\ pc[t] = "tables" => \A f \in Safe \intersect op[t].may :
                           DevOf[f] = op[t].arg /\ (Found(t, f) \/ Seen(f))
  /\ pc[t] = "answer" => \A f \in Safe \intersect op[t].may : Found(t, f)
\* Start-up has listed the tables it has been at.
ScanSees == scan # 0 => \A i \in Ids : i < scan /\ files[i] # {} => i \in Elems(sstables)
Readable == scan = 0 => \A f \in Safe : f \in memtable \/ Seen(f)
ReadInv == Readable /\ ScanSees /\ \A t \in Tasks : FlushSees(t) /\ QuerySees(t)

----------------------------------------------------------------------------
(* What one step keeps                                                     *)

\* A step of a task keeps in sight what the tables it leaves in the list hold.
LEMMA SeenKept ==
  ASSUME IdInv, ListInv, NEW t \in Tasks, Writes(t),
         NEW f, NEW i \in Elems(sstables), KeyOf[f] \in Keys(files[i]), i \in Elems(sstables')
  PROVE  Seen(f)'
<1>1. i \in Ids /\ i < nextId /\ nextId \in Nat
  BY ListedIds, Typed
<1>2. i \notin NewOf(t)
  BY DEF ListInv, IdsApart
<1>3. files'[i] = files[i]
  BY <1>1, <1>2 DEF Writes
<1> QED BY <1>3 DEF Seen, Listed, Keys

\* A table that has a frame in sight.
LEMMA SeenIn ==
  ASSUME NEW f PROVE Seen(f) <=> \E i \in Elems(sstables) : KeyOf[f] \in Keys(files[i])
  BY DEF Seen, Listed, Keys

\* A step of t keeps ReadInv if what was in memtable, list or another flush's copy stays in
\* sight, a frame newly inserted meets no flush, and t's own claims hold after it.
LEMMA ReadStep ==
  ASSUME IdInv, ReadInv, NEW t \in Tasks, \A u \in Tasks \ {t} : Untouched(u),
         scan' = 0, acked \subseteq acked',
         \A f \in Safe' : f \in Safe \/ (f \notin acked /\ f \in memtable' /\ ~FlushRunning'),
         \A f \in Safe : f \in Safe' =>
           /\ Seen(f) => Seen(f)'
           /\ scan = 0 /\ f \in memtable => f \in memtable' \/ Seen(f)'
           /\ \A u \in Tasks \ {t} : pc[u] = "copy" /\ f \in op[u].must => f \in op'[u].must,
         scan = 0, FlushSees(t)', QuerySees(t)'
  PROVE  ReadInv'
<1>1. Readable'
  BY DEF ReadInv, Readable
<1>2. ScanSees'
  BY DEF ScanSees
<1>3. ASSUME NEW u \in Tasks, u # t PROVE FlushSees(u)' /\ QuerySees(u)'
  <2>1. FlushSees(u) /\ QuerySees(u) /\ pc'[u] = pc[u] /\ (pc[u] # "copy" => op'[u] = op[u])
    BY <1>3 DEF ReadInv, Untouched
  <2>2. pc[u] \in {"copy", "clear"} => FlushRunning'
    BY <2>1 DEF FlushRunning, InWindow
  <2>3. FlushSees(u)'
    BY <1>3, <2>1, <2>2 DEF FlushSees
  <2>4. ASSUME pc[u] = "tables" \/ pc[u] = "answer", NEW f \in Safe' \intersect op[u].may
        PROVE  f \in Safe
    BY <2>1, <2>4 DEF QuerySees
  <2>5. QuerySees(u)'
    BY <2>1, <2>4 DEF QuerySees, Found
  <2> QED BY <2>3, <2>5
<1> QED BY <1>1, <1>2, <1>3 DEF ReadInv

\* A step that moves t alone, to a point at which it claims nothing, and leaves memtable and
\* list as they are.
Moved(t) ==
  /\ \A u \in Tasks \ {t} : pc'[u] = pc[u] /\ op'[u] = op[u]
  /\ pc'[t] \notin {"copy", "clear", "tables", "answer"}
  /\ t \in Writers /\ Past(pc'[t]) => Past(pc[t]) /\ op'[t].arg = op[t].arg
  /\ sstables' = sstables /\ memtable' = memtable /\ scan = 0 /\ scan' = 0
  /\ racy \subseteq racy' /\ doomed \subseteq doomed' /\ swept \subseteq swept'
  /\ acked \subseteq acked'
  /\ \A f \in acked' : f \in acked \/ (t \in Writers /\ Past(pc[t]) /\ f = op[t].arg)

\* The other tasks are as they were.
LEMMA OthersUntouched ==
  ASSUME NEW u \in Tasks, pc'[u] = pc[u], op'[u] = op[u] PROVE Untouched(u)
  BY DEF Untouched, Same

\* Such a step keeps ReadInv.
LEMMA MovedReads ==
  ASSUME IdInv, ListInv, ReadInv, NEW t \in Tasks, Writes(t), Moved(t) PROVE ReadInv'
<1>1. \A u \in Tasks \ {t} : Untouched(u)
  BY OthersUntouched DEF Moved
<1>2. \A f \in Safe' : f \in Safe
  BY <1>1, SafeShrinks DEF Moved
<1>3. \A f : Seen(f) => Seen(f)'
  BY SeenIn, SeenKept DEF Moved
<1>4. FlushSees(t)' /\ QuerySees(t)'
  BY DEF Moved, FlushSees, QuerySees
<1>5. /\ scan = 0 /\ scan' = 0 /\ acked \subseteq acked' /\ memtable' = memtable
      /\ \A u \in Tasks \ {t} : op'[u] = op[u]
  BY DEF Moved
<1> QED BY <1>1, <1>2, <1>3, <1>4, <1>5, ReadStep

\* Such a step goes on with the operation, or ends it.
LEMMA MovesOn ==
  ASSUME IdInv, NEW t \in Tasks, NEW at, NEW r,
         pc' = [pc EXCEPT ![t] = at], op' = [op EXCEPT ![t] = r], r.arg = op[t].arg,
         at \notin {"copy", "clear", "tables", "answer"}, Past(pc[t]), acked' = acked,
         sstables' = sstables, memtable' = memtable, scan = 0, scan' = 0,
         racy' = racy, doomed' = doomed, swept' = swept
  PROVE  Moved(t)
  BY DEF IdInv, TypeOK, TasksType, Moved

LEMMA MovesOut ==
  ASSUME IdInv, NEW t \in Tasks, NEW at \in {"idle", "dead"},
         pc' = [pc EXCEPT ![t] = at], op' = [op EXCEPT ![t] = NoOp], Past(pc[t]),
         acked' = acked \/ (acked' = IF t \in Writers THEN acked \union {op[t].arg} ELSE acked),
         sstables' = sstables, memtable' = memtable, scan = 0, scan' = 0,
         racy' = racy, doomed' = doomed, swept' = swept
  PROVE  Moved(t)
  BY DEF IdInv, TypeOK, TasksType, Moved, Past

\* The steps of which no more need be said.
LEMMA WriteMoves ==
  ASSUME IdInv, NEW t \in Tasks,
         \/ \E f \in Frames : WriteBegin(t, f)
         \/ WriteAppend(t) \/ WriteFull(t)
  PROVE  Moved(t)
<1>1. ASSUME NEW f \in Frames, WriteBegin(t, f) PROVE Moved(t)
  BY <1>1, Here, Typed DEF WriteBegin, Moved, Past, IdInv, TypeOK, TasksType
<1>2. CASE WriteAppend(t)
  BY <1>2, Here, Typed DEF WriteAppend, Moved, Past, memory, IdInv, TypeOK, TasksType
<1>3. CASE WriteFull(t)
  BY <1>3, Here, Typed DEF WriteFull, Moved, Past, disk, memory, IdInv, TypeOK, TasksType
<1> QED BY <1>1, <1>2, <1>3

\* Starting a flush, and what truncates the log after it.
LEMMA FlushMoves ==
  ASSUME IdInv, NEW t \in Tasks,
         TimerTick(t) \/ TruncateCheck(t) \/ TruncateUnlink(t) \/ TruncateReopen(t)
           \/ TruncateSwap(t)
  PROVE  Moved(t)
<1>1. CASE TimerTick(t)
  <2>1. t \notin Writers
    BY <1>1, RolesAssumption DEF TimerTick
  <2> QED BY <1>1, <2>1, Here, Typed DEF TimerTick, Moved, Past, disk, memory, history,
      IdInv, TypeOK, TasksType
<1>2. CASE TruncateCheck(t)
  BY <1>2, Here, Typed DEF TruncateCheck, Moved, Past, disk, memory, history, IdInv,
      TypeOK, TasksType
<1>3. CASE TruncateUnlink(t)
  BY <1>3, Here, Typed DEF TruncateUnlink, Moved, Past, memory, IdInv, TypeOK, TasksType
<1>4. CASE TruncateReopen(t)
  BY <1>4, Here, Typed DEF TruncateReopen, Moved, Past, memory, history, IdInv, TypeOK, TasksType
<1>5. CASE TruncateSwap(t)
  <2> DEFINE r == [op[t] EXCEPT !.inode = None, !.id = 0]
  <2>1. /\ pc[t] = "swap" /\ Past(pc[t]) /\ sstables' = sstables /\ memtable' = memtable /\ scan = 0
        /\ scan' = 0 /\ racy' = racy /\ doomed' = doomed /\ swept' = swept
    BY <1>5 DEF TruncateSwap, Past
  <2>2. r.arg = op[t].arg
    BY Here DEF Locals
  <2>3. CASE pc' = [pc EXCEPT ![t] = "measure"] /\ op' = [op EXCEPT ![t] = r] /\ acked' = acked
    <3> HIDE DEF r
    <3> QED BY <2>1, <2>2, <2>3, MovesOn
  <2>4. CASE Succeed(t)
    BY <2>1, <2>4, MovesOut
  <2> QED BY <1>5, <2>3, <2>4 DEF TruncateSwap
<1> QED BY <1>1, <1>2, <1>3, <1>4, <1>5

\* A compaction, up to its replacement of the list.
LEMMA CompactMoves ==
  ASSUME IdInv, NEW t \in Tasks,
         \/ CompactMeasure(t) \/ CompactSnapshot(t) \/ CompactFinish(t) \/ CompactPurge(t)
         \/ \E merged \in SUBSET Stored : CompactBegin(t, merged)
  PROVE  Moved(t)
<1>1. CASE CompactMeasure(t)
  BY <1>1, Here, Typed DEF CompactMeasure, Moved, Past, disk, memory, history, IdInv,
      TypeOK, TasksType
<1>2. CASE CompactSnapshot(t)
  <2> DEFINE r == [op[t] EXCEPT !.victims = SubSeq(sstables, 1, op[t].size)]
  <2>1. /\ pc[t] = "snapshot" /\ Past(pc[t])
        /\ sstables' = sstables /\ memtable' = memtable /\ scan = 0
        /\ scan' = 0 /\ racy' = racy /\ doomed' = doomed /\ swept' = swept /\ acked' = acked
    BY <1>2 DEF CompactSnapshot, memory, Past
  <2>2. r.arg = op[t].arg
    BY Here DEF Locals
  <2>3. CASE pc' = [pc EXCEPT ![t] = "merge"] /\ op' = [op EXCEPT ![t] = r]
    <3> HIDE DEF r
    <3> QED BY <2>1, <2>2, <2>3, MovesOn
  <2>4. CASE Panic(t)
    BY <2>1, <2>4, MovesOut
  <2> QED BY <1>2, <2>3, <2>4 DEF CompactSnapshot
<1>3. CASE CompactFinish(t)
  BY <1>3, Here, Typed DEF CompactFinish, Moved, Past, history, IdInv, TypeOK, TasksType
<1>4. CASE CompactPurge(t)
  <2> DEFINE r == [op[t] EXCEPT !.victims = Tail(op[t].victims)]
  <2>1. /\ pc[t] = "purge" /\ Past(pc[t])
        /\ sstables' = sstables /\ memtable' = memtable /\ scan = 0
        /\ scan' = 0 /\ racy' = racy /\ doomed' = doomed /\ swept' = swept
    BY <1>4 DEF CompactPurge, memory, Past
  <2>2. r.arg = op[t].arg
    BY Here DEF Locals
  <2>3. CASE pc' = [pc EXCEPT ![t] = "purge"] /\ op' = [op EXCEPT ![t] = r] /\ acked' = acked
    <3> HIDE DEF r
    <3> QED BY <2>1, <2>2, <2>3, MovesOn
  <2>4. CASE Succeed(t)
    BY <2>1, <2>4, MovesOut
  <2>5. pc = [pc EXCEPT ![t] = pc[t]]
    BY Here
  <2> QED BY <1>4, <2>1, <2>3, <2>4, <2>5 DEF CompactPurge
<1>5. ASSUME NEW merged \in SUBSET Stored, CompactBegin(t, merged) PROVE Moved(t)
  <2> DEFINE r == [op[t] EXCEPT !.id = nextId, !.must = merged]
  <2>1. /\ pc[t] = "merge" /\ Past(pc[t])
        /\ sstables' = sstables /\ memtable' = memtable /\ scan = 0
        /\ scan' = 0 /\ racy' = racy /\ doomed' = doomed /\ swept' = swept /\ acked' = acked
    BY <1>5 DEF CompactBegin, Past
  <2>2. r.arg = op[t].arg
    BY Here DEF Locals
  <2>3. CASE pc' = [pc EXCEPT ![t] = "merging"] /\ op' = [op EXCEPT ![t] = r]
    <3> HIDE DEF r
    <3> QED BY <2>1, <2>2, <2>3, MovesOn
  <2>4. CASE Fail(t)
    BY <2>1, <2>4, MovesOut
  <2> QED BY <1>5, <2>3, <2>4 DEF CompactBegin
<1> QED BY <1>1, <1>2, <1>3, <1>4, <1>5

\* A deletion, but for its replacement of the list.
LEMMA DeleteMoves ==
  ASSUME IdInv, NEW t \in Tasks,
         DeleteSnapshot(t) \/ DeleteOpen(t) \/ DeleteRewrite(t) \/ DeleteErase(t)
           \/ DeleteUnregister(t)
  PROVE  Moved(t)
<1>1. CASE DeleteSnapshot(t)
  BY <1>1, Here, Typed DEF DeleteSnapshot, Moved, Past, disk, memory, history, IdInv,
      TypeOK, TasksType
<1>2. CASE DeleteOpen(t)
  BY <1>2, Here, Typed DEF DeleteOpen, Moved, Past, disk, memory, IdInv, TypeOK, TasksType
<1>3. CASE DeleteRewrite(t)
  <2> DEFINE q == [op[t] EXCEPT !.size = op[t].size + 1]
             r == [op[t] EXCEPT !.size = op[t].size + 1, !.fresh = Append(op[t].fresh, nextId)]
             at == IF op[t].size + 1 = Len(op[t].victims) THEN "replace" ELSE "rewrite"
  <2>1. /\ pc[t] = "rewrite" /\ Past(pc[t])
        /\ sstables' = sstables /\ memtable' = memtable /\ scan = 0
        /\ scan' = 0 /\ racy' = racy /\ doomed' = doomed /\ swept' = swept /\ acked' = acked
    BY <1>3 DEF DeleteRewrite, Past
  <2>2. q.arg = op[t].arg /\ r.arg = op[t].arg /\ at \in {"replace", "rewrite"}
    BY Here DEF Locals
  <2>3. \/ Fail(t)
        \/ pc' = [pc EXCEPT ![t] = at] /\ op' = [op EXCEPT ![t] = q]
        \/ pc' = [pc EXCEPT ![t] = at] /\ op' = [op EXCEPT ![t] = r]
    BY <1>3 DEF DeleteRewrite
  <2>4. CASE Fail(t)
    BY <2>1, <2>4, MovesOut
  <2> HIDE DEF q, r, at
  <2> QED BY <2>1, <2>2, <2>3, <2>4, MovesOn
<1>4. CASE DeleteErase(t)
  BY <1>4, Here, Typed DEF DeleteErase, Moved, Past, memory, history, IdInv, TypeOK, TasksType
<1>5. CASE DeleteUnregister(t)
  BY <1>5, Here, Typed DEF DeleteUnregister, Moved, Past, disk, IdInv, TypeOK, TasksType
<1> QED BY <1>1, <1>2, <1>3, <1>4, <1>5

LEMMA SweepMoves ==
  ASSUME IdInv, NEW t \in Tasks, SweepSelect(t) \/ SweepErase(t) PROVE Moved(t)
<1>1. CASE SweepSelect(t)
  <2>1. t \notin Writers
    BY <1>1, RolesAssumption DEF SweepSelect
  <2> QED BY <1>1, <2>1, Here, Typed DEF SweepSelect, Moved, Past, disk, memory, history,
      IdInv, TypeOK, TasksType
<1>2. CASE SweepErase(t)
  BY <1>2, Here, Typed DEF SweepErase, Moved, Past, memory, history, IdInv, TypeOK, TasksType
<1> QED BY <1>1, <1>2

\* A write puts its frame in the memtable; one that overlaps a flush is excepted.
LEMMA WriteReadsOK ==
  ASSUME IdInv, ListInv, DurableInv, ReadInv, NEW t \in Tasks, Writes(t), Write(t)
  PROVE  ReadInv'
<1>1. ASSUME WriteInsert(t) PROVE ReadInv'
  <2>1. /\ pc[t] = "insert" /\ pc' = [pc EXCEPT ![t] = "full"] /\ op' = Coming({op[t].arg})
        /\ memtable' = memtable \union {op[t].arg} /\ scan = 0 /\ scan' = 0
        /\ sstables' = sstables /\ swept' = swept /\ acked' = acked /\ doomed' = doomed
        /\ racy' = IF FlushRunning THEN racy \union {op[t].arg} ELSE racy
    BY <1>1 DEF WriteInsert
  <2>2. t \in Writers /\ op[t].arg \in Frames
    BY <2>1, Here, Writing DEF Fits
  <2>3. \A u \in Tasks : /\ Same(u, op'[u]) /\ op'[u].must = op[u].must
                         /\ pc[u] # "copy" => op'[u] = op[u]
    <3>1. \A u \in Tasks : Same(u, op'[u]) /\ (pc[u] # "copy" => op'[u] = op[u])
      BY <2>1, <2>2, Copies DEF Coming
    <3>2. \A u \in Tasks : op'[u].must = op[u].must
      BY <2>1, Here DEF Coming, Locals
    <3> QED BY <3>1, <3>2
  <2>4. pc'[t] = "full" /\ \A u \in Tasks \ {t} : pc'[u] = pc[u]
    BY <2>1 DEF IdInv, TypeOK, TasksType
  <2>5. \A u \in Tasks \ {t} : Untouched(u)
    BY <2>3, <2>4 DEF Untouched
  <2>6. FlushRunning' => FlushRunning
    BY <2>4, <2>5, WindowStep DEF InWindow
  <2>7. ASSUME NEW f \in Safe', f \notin Safe
        PROVE  f \notin acked /\ f \in memtable' /\ ~FlushRunning'
    <3>1. /\ f \in Frames /\ f \notin racy /\ f \notin doomed /\ KeyOf[f] \notin Keys(swept)
          /\ Inserted(f)' /\ f \notin racy'
      BY <2>1 DEF Safe
    <3>2. ~Inserted(f)
      BY <2>7, <3>1 DEF Safe
    <3>3. f = op[t].arg
      <4>1. PICK w \in Writers : Past(pc'[w]) /\ op'[w].arg = f
        BY <2>1, <3>1, <3>2 DEF Inserted
      <4>2. w \in Tasks /\ op'[w].arg = op[w].arg
        BY <2>3 DEF Same, Tasks
      <4>3. w # t => pc'[w] = pc[w]
        BY <2>4, <4>2
      <4> QED BY <3>2, <4>1, <4>2, <4>3 DEF Inserted
    <3>4. ~FlushRunning
      BY <2>1, <3>1, <3>3
    <3> QED BY <2>1, <2>6, <3>2, <3>3, <3>4 DEF Inserted
  <2>8. \A f : Seen(f) => Seen(f)'
    BY <2>1, SeenIn, SeenKept
  <2>9. FlushSees(t)' /\ QuerySees(t)'
    BY <2>4 DEF FlushSees, QuerySees
  <2> QED BY <2>1, <2>3, <2>5, <2>7, <2>8, <2>9, ReadStep
<1>2. CASE (\E f \in Frames : WriteBegin(t, f)) \/ WriteAppend(t) \/ WriteFull(t)
  BY <1>2, WriteMoves, MovedReads
<1> QED BY <1>1, <1>2 DEF Write

\* A flush puts what it copies in the list before it clears the memtable.
LEMMA FlushReadsOK ==
  ASSUME IdInv, ListInv, DurableInv, ReadInv, NEW t \in Tasks, Writes(t), Flush(t)
  PROVE  ReadInv'
<1>1. ASSUME FlushBegin(t) PROVE ReadInv'
  <2> DEFINE r == [op[t] EXCEPT !.id = nextId, !.must = memtable, !.may = {}]
  <2>1. /\ pc[t] = "flush" /\ scan = 0 /\ scan' = 0
        /\ pc' = [pc EXCEPT ![t] = "copy"] /\ op' = [op EXCEPT ![t] = r]
        /\ memtable' = memtable /\ sstables' = sstables
        /\ doomed' = doomed /\ swept' = swept /\ acked' = acked /\ racy \subseteq racy'
    BY <1>1 DEF FlushBegin
  <2>2. r.must = memtable /\ r.arg = op[t].arg
    BY Here DEF Locals
  <2> HIDE DEF r
  <2>3. pc'[t] = "copy" /\ op'[t] = r /\ \A u \in Tasks \ {t} : Untouched(u)
    BY <2>1, OneMoves
  <2>4. Past(pc[t]) /\ \A u \in Tasks \ {t} : op'[u] = op[u]
    BY <2>1 DEF Past, IdInv, TypeOK, TasksType
  <2>5. \A f \in Safe' : f \in Safe
    BY <2>1, <2>2, <2>3, <2>4, SafeShrinks
  <2>6. \A f : Seen(f) => Seen(f)'
    BY <2>1, SeenIn, SeenKept
  <2>7. FlushSees(t)' /\ QuerySees(t)'
    BY <2>1, <2>2, <2>3, <2>5, <2>6 DEF FlushSees, QuerySees, ReadInv, Readable
  <2> QED BY <2>1, <2>3, <2>4, <2>5, <2>6, <2>7, ReadStep
<1>2. ASSUME NEW extra \in SUBSET op[t].may, FlushPublish(t, op[t].must \union extra)
      PROVE  ReadInv'
  <2> DEFINE copied == op[t].must \union extra
             r == [op[t] EXCEPT !.must = {}, !.may = {}]
  <2>1. /\ pc[t] = "copy" /\ Past(pc[t]) /\ memtable' = memtable /\ scan = 0 /\ scan' = 0
        /\ racy' = racy /\ doomed' = doomed /\ swept' = swept /\ acked' = acked
    BY <1>2 DEF FlushPublish, Past
  <2>2. CASE copied = {}
    <3>1. sstables' = sstables /\ Fail(t)
      BY <1>2, <2>2 DEF FlushPublish
    <3>2. Moved(t)
      BY <2>1, <3>1, MovesOut
    <3> QED BY <3>2, MovedReads
  <2>3. CASE copied # {}
    <3>1. /\ pc' = [pc EXCEPT ![t] = "clear"] /\ op' = [op EXCEPT ![t] = r]
          /\ files' = [files EXCEPT ![op[t].id] = copied]
          /\ sstables' = Append(sstables, op[t].id)
      BY <1>2, <2>3 DEF FlushPublish
    <3>2. r.arg = op[t].arg /\ op[t].id \in Ids /\ op[t].must \subseteq copied
      BY <2>1, Here DEF Locals, Fits
    <3> HIDE DEF r, copied
    <3>3. pc'[t] = "clear" /\ op'[t] = r /\ \A u \in Tasks \ {t} : Untouched(u)
      BY <3>1, OneMoves
    <3>4. files'[op[t].id] = copied /\ Elems(sstables') = Elems(sstables) \union {op[t].id}
      BY <3>1, <3>2, Typed, MoreElems
    <3>5. \A u \in Tasks \ {t} : op'[u] = op[u]
      BY <3>1 DEF IdInv, TypeOK, TasksType
    <3>6. \A f \in Safe' : f \in Safe
      BY <2>1, <3>2, <3>3, SafeShrinks
    <3>7. \A f : Seen(f) => Seen(f)'
      BY <3>4, SeenIn, SeenKept
    <3>8. ASSUME NEW f \in op[t].must PROVE Seen(f)'
      <4>1. KeyOf[f] \in Keys(files'[op[t].id])
        BY <3>2, <3>4 DEF Keys
      <4> QED BY <3>4, <4>1 DEF Seen, Listed, Keys
    <3>9. FlushSees(t)' /\ QuerySees(t)'
      BY <2>1, <3>3, <3>6, <3>7, <3>8 DEF FlushSees, QuerySees, ReadInv
    <3> QED BY <2>1, <3>3, <3>5, <3>6, <3>7, <3>9, ReadStep
  <2> QED BY <2>2, <2>3
<1>3. ASSUME FlushClear(t) PROVE ReadInv'
  <2>1. /\ pc[t] = "clear" /\ pc' = [pc EXCEPT ![t] = "check"] /\ op' = [op EXCEPT ![t] = op[t]]
        /\ sstables' = sstables /\ scan = 0 /\ scan' = 0
        /\ racy' = racy /\ doomed' = doomed /\ swept' = swept /\ acked' = acked
    BY <1>3, Here DEF FlushClear, history
  <2>2. pc'[t] = "check" /\ op'[t] = op[t] /\ \A u \in Tasks \ {t} : Untouched(u)
    BY <2>1, OneMoves
  <2>3. Past(pc[t]) /\ \A u \in Tasks \ {t} : op'[u] = op[u]
    BY <2>1 DEF Past, IdInv, TypeOK, TasksType
  <2>4. \A f \in Safe' : f \in Safe
    BY <2>1, <2>2, <2>3, SafeShrinks
  <2>5. \A f : Seen(f) => Seen(f)'
    BY <2>1, SeenIn, SeenKept
  <2>6. \A f \in Safe : Seen(f)
    BY <2>1 DEF ReadInv, FlushSees
  <2>7. FlushSees(t)' /\ QuerySees(t)'
    BY <2>2 DEF FlushSees, QuerySees
  <2> QED BY <2>1, <2>2, <2>3, <2>4, <2>5, <2>6, <2>7, ReadStep
<1>4. CASE TimerTick(t) \/ TruncateCheck(t) \/ TruncateUnlink(t) \/ TruncateReopen(t)
             \/ TruncateSwap(t)
  BY <1>4, FlushMoves, MovedReads
<1> QED BY <1>1, <1>2, <1>3, <1>4 DEF Flush

\* A compaction that takes its own tables puts their keys in front of the list.
LEMMA CompactReadsOK ==
  ASSUME IdInv, ListInv, DurableInv, ReadInv, TakesOwn, NEW t \in Tasks, Writes(t), Compact(t)
  PROVE  ReadInv'
<1>1. ASSUME CompactInstall(t) PROVE ReadInv'
  <2>1. /\ pc[t] = "install" /\ Past(pc[t]) /\ memtable' = memtable /\ scan = 0 /\ scan' = 0
        /\ files' = files /\ racy' = racy /\ doomed' = doomed /\ swept' = swept
        /\ acked' = acked
    BY <1>1 DEF CompactInstall, Past, disk
  <2>2. CASE Panic(t) /\ sstables' = sstables
    BY <2>1, <2>2, MovesOut, MovedReads
  <2>3. CASE ~(Panic(t) /\ sstables' = sstables)
    <3> DEFINE n == op[t].size
    <3>1. /\ pc' = [pc EXCEPT ![t] = "purge"] /\ op' = [op EXCEPT ![t] = op[t]]
          /\ sstables' = <<op[t].id>> \o AfterDrain(n) /\ ~(Len(sstables) < n)
      BY <1>1, <2>3, Here DEF CompactInstall
    <3>2. /\ n \in Nat /\ op[t].id \in Ids /\ Len(sstables) \in Nat
          /\ DOMAIN sstables = 1..Len(sstables)
      BY <2>1, Here, Typed DEF Locals, Fits
    <3> HIDE DEF n
    <3>3. pc'[t] = "purge" /\ op'[t] = op[t] /\ \A u \in Tasks \ {t} : Untouched(u)
      BY <3>1, OneMoves
    <3>4. \A u \in Tasks \ {t} : op'[u] = op[u]
      BY <3>1 DEF IdInv, TypeOK, TasksType
    <3>5. \A f \in Safe' : f \in Safe
      BY <2>1, <3>3, SafeShrinks
    <3>6. /\ op[t].id \in Elems(sstables')
          /\ \A k \in DOMAIN sstables : n < k => sstables[k] \in Elems(sstables')
      <4> DEFINE rest == AfterDrain(n)
                 m == Len(sstables)
      <4>1. /\ rest \in Seq(Ids) /\ Len(rest) = m - n /\ m \in Nat /\ n <= m
            /\ \A i \in 1..(m - n) : rest[i] = sstables[n + i]
        BY <3>1, <3>2, Drained
      <4> HIDE DEF rest
      <4>2. /\ DOMAIN sstables' = 1..(m - n + 1) /\ sstables'[1] = op[t].id
            /\ \A i \in 1..(m - n) : sstables'[i + 1] = rest[i]
        <5>1. /\ <<op[t].id>> \in Seq(Ids) /\ Len(<<op[t].id>>) = 1 /\ <<op[t].id>>[1] = op[t].id
              /\ sstables' = <<op[t].id>> \o rest
          BY <3>1, <3>2 DEF rest
        <5> HIDE DEF Ids
        <5>2. /\ sstables' \in Seq(Ids) /\ Len(sstables') = 1 + Len(rest)
              /\ \A i \in 1..(1 + Len(rest)) :
                   sstables'[i] = IF i <= 1 THEN <<op[t].id>>[i] ELSE rest[i - 1]
          BY <4>1, <5>1, ConcatProperties
        <5>3. DOMAIN sstables' = 1..(m - n + 1)
          BY <3>2, <4>1, <5>2, LenProperties
        <5>4. sstables'[1] = op[t].id
          BY <3>2, <4>1, <5>1, <5>2
        <5>5. ASSUME NEW i \in 1..(m - n) PROVE sstables'[i + 1] = rest[i]
          <6>1. i + 1 \in 1..(1 + Len(rest)) /\ ~(i + 1 <= 1) /\ i + 1 - 1 = i
            BY <3>2, <4>1
          <6> QED BY <5>2, <6>1
        <5> QED BY <5>3, <5>4, <5>5
      <4>3. op[t].id \in Elems(sstables')
        <5>1. 1 \in DOMAIN sstables'
          BY <3>2, <4>1, <4>2
        <5> QED BY <4>2, <5>1 DEF Elems
      <4>4. ASSUME NEW k \in DOMAIN sstables, n < k PROVE sstables[k] \in Elems(sstables')
        <5>1. k \in Nat /\ k - n \in 1..(m - n) /\ k - n + 1 \in 1..(m - n + 1)
              /\ n + (k - n) = k
          BY <3>2, <4>1, <4>4
        <5>2. sstables'[k - n + 1] = sstables[k]
          BY <4>1, <4>2, <5>1
        <5> QED BY <4>2, <5>1, <5>2 DEF Elems
      <4> QED BY <4>3, <4>4
    <3>7. Knows(t)
      BY DEF DurableInv
    <3>8. ASSUME NEW f, Seen(f) PROVE Seen(f)'
      <4>1. PICK k \in DOMAIN sstables : KeyOf[f] \in Keys(files[sstables[k]])
        BY <3>8, SeenIn DEF Elems
      <4>2. CASE k <= n
        <5>1. sstables[k] \in Elems(op[t].victims)
          BY <2>1, <4>2 DEF TakesOwn, n
        <5>2. Keys(files[sstables[k]]) \subseteq Keys(files[op[t].id])
          BY <2>1, <3>7, <5>1 DEF Knows, Merged
        <5>3. KeyOf[f] \in Keys(files[op[t].id])
          BY <4>1, <5>2
        <5> QED BY <2>1, <3>6, <5>3 DEF Seen, Listed, Keys
      <4>3. CASE n < k
        <5>1. sstables[k] \in Elems(sstables') /\ sstables[k] \in Elems(sstables)
          BY <3>6, <4>3 DEF Elems
        <5> QED BY <4>1, <5>1, SeenKept
      <4> QED BY <3>2, <4>2, <4>3
    <3>9. FlushSees(t)' /\ QuerySees(t)'
      BY <3>3 DEF FlushSees, QuerySees
    <3> QED BY <2>1, <3>3, <3>4, <3>5, <3>8, <3>9, ReadStep
  <2> QED BY <2>2, <2>3
<1>2. CASE \/ CompactMeasure(t) \/ CompactSnapshot(t) \/ CompactFinish(t) \/ CompactPurge(t)
           \/ \E merged \in SUBSET Stored : CompactBegin(t, merged)
  BY <1>2, CompactMoves, MovedReads
<1> QED BY <1>1, <1>2 DEF Compact

\* A deletion that drops only tables it has read leaves the frames of the other devices in
\* the list, in its new tables.
LEMMA DeleteReadsOK ==
  ASSUME IdInv, ListInv, DurableInv, ReadInv, TakesOwn, NEW t \in Tasks, Writes(t), Delete(t)
  PROVE  ReadInv'
<1>1. ASSUME NEW d \in Devices, DeleteBegin(t, d) PROVE ReadInv'
  <2> DEFINE S == FramesOf(d)
             may == acked \intersect FramesOf(d)
  <2>1. /\ pc[t] = "idle" /\ t \in Deleters /\ pc' = [pc EXCEPT ![t] = "list"]
        /\ op' = [Going(S) EXCEPT ![t].arg = d, ![t].may = may]
        /\ memtable' = memtable \ S /\ doomed' = doomed \union (issued \intersect S)
        /\ sstables' = sstables /\ scan = 0 /\ scan' = 0
        /\ racy' = racy /\ swept' = swept /\ acked' = acked
    BY <1>1 DEF DeleteBegin
  <2>2. S \in SUBSET Frames
    BY DEF FramesOf
  <2>3. /\ Going(S) \in [Tasks -> Locals]
        /\ \A u \in Tasks : /\ Same(u, Going(S)[u]) /\ (pc[u] # "copy" => Going(S)[u] = op[u])
                            /\ op[u].must \ S \subseteq Going(S)[u].must
    <3>1. \A u \in Tasks : op[u].must \ S \subseteq Going(S)[u].must
      BY Here DEF Going, Locals
    <3> QED BY <2>2, <3>1, Copies DEF Going
  <2> HIDE DEF S, may
  <2>4. pc'[t] = "list" /\ \A u \in Tasks \ {t} : pc'[u] = pc[u] /\ op'[u] = Going(S)[u]
    BY <2>1, <2>3 DEF IdInv, TypeOK, TasksType
  <2>5. \A u \in Tasks \ {t} : Untouched(u)
    BY <2>3, <2>4 DEF Untouched
  <2>6. t \notin Writers
    BY <2>1, RolesAssumption
  <2>7. doomed \subseteq doomed'
    BY <2>1
  <2>8. ASSUME NEW f \in Safe, f \in Safe' PROVE f \notin S
    <3>1. Inserted(f) /\ f \in Frames /\ f \notin doomed'
      BY <2>8 DEF Safe
    <3>2. f \in issued
      BY <3>1 DEF Inserted, DurableInv, Knows, Past, Tasks
    <3> QED BY <2>1, <3>1, <3>2
  <2>9. \A f \in Safe' : f \in Safe
    BY <2>1, <2>5, <2>6, <2>7, SafeShrinks
  <2>10. \A f : Seen(f) => Seen(f)'
    BY <2>1, SeenIn, SeenKept
  <2>11. \A f \in Safe : f \in Safe' =>
           /\ scan = 0 /\ f \in memtable => f \in memtable'
           /\ \A u \in Tasks \ {t} : pc[u] = "copy" /\ f \in op[u].must => f \in op'[u].must
    BY <2>1, <2>3, <2>4, <2>8
  <2>12. FlushSees(t)' /\ QuerySees(t)'
    BY <2>4 DEF FlushSees, QuerySees
  <2> QED BY <2>1, <2>5, <2>9, <2>10, <2>11, <2>12, ReadStep
<1>2. ASSUME DeleteReplace(t) PROVE ReadInv'
  <2>1. /\ pc[t] = "replace" /\ Past(pc[t]) /\ files' = files /\ memtable' = memtable
        /\ sstables' = op[t].fresh /\ scan = 0 /\ scan' = 0 /\ racy' = racy
        /\ doomed' = doomed /\ swept' = swept /\ acked' = acked
        /\ pc' = [pc EXCEPT ![t] = "erase"]
    BY <1>2 DEF DeleteReplace, disk, history, Past
  <2>2. pc'[t] = "erase" /\ \A u \in Tasks \ {t} : pc'[u] = pc[u] /\ op'[u] = op[u]
    BY <1>2 DEF DeleteReplace, IdInv, TypeOK, TasksType
  <2>3. \A u \in Tasks \ {t} : Untouched(u)
    BY <2>2, OthersUntouched
  <2>4. Knows(t) /\ t \in Deleters /\ t \notin Writers /\ Rewritten(t)
    BY <2>1, RolesAssumption DEF DurableInv, Knows, Deleting, Rewriting
  <2>5. \A f \in Safe' : f \in Safe
    BY <2>1, <2>3, <2>4, SafeShrinks
  <2>6. op[t].victims \in Seq(Ids) /\ op[t].size = Len(op[t].victims)
    BY <2>1, <2>4, Here DEF Locals, Rewritten
  <2>7. ASSUME NEW f \in Safe, Seen(f) PROVE Seen(f)'
    <3>1. PICK v \in Elems(sstables) : KeyOf[f] \in Keys(files[v])
      BY <2>7, SeenIn
    <3>2. PICK g \in files[v] : KeyOf[g] = KeyOf[f]
      BY <3>1 DEF Keys
    <3>3. v \in Ids /\ f \in Frames /\ g \in Frames
      BY ListedIds, Typed DEF Safe
    <3>4. DevOf[g] = DevOf[f]
      BY <3>2, <3>3, FramesAssumption
    <3>5. f \in issued /\ f \notin doomed
      BY DEF Safe, Inserted, DurableInv, Knows, Past, Tasks
    <3>6. DevOf[g] # op[t].arg
      BY <2>1, <2>4, <3>4, <3>5 DEF Knows, Deleting
    <3>7. v \in Elems(op[t].victims)
      BY <2>1, <3>1 DEF TakesOwn
    <3>8. PICK p \in 1..op[t].size : op[t].victims[p] = v
      BY <2>6, <3>7 DEF Elems
    <3>9. PICK x \in Elems(op[t].fresh) : g \in files[x]
      BY <2>4, <3>2, <3>6, <3>8 DEF Rewritten
    <3>10. x \in Elems(sstables') /\ KeyOf[f] \in Keys(files'[x])
      BY <2>1, <3>2, <3>9 DEF Keys
    <3> QED BY <3>10 DEF Seen, Listed, Keys
  <2>8. FlushSees(t)' /\ QuerySees(t)'
    BY <2>2 DEF FlushSees, QuerySees
  <2> QED BY <2>1, <2>2, <2>3, <2>5, <2>7, <2>8, ReadStep
<1>3. CASE DeleteSnapshot(t) \/ DeleteOpen(t) \/ DeleteRewrite(t) \/ DeleteErase(t)
             \/ DeleteUnregister(t)
  BY <1>3, DeleteMoves, MovedReads
<1> QED BY <1>1, <1>2, <1>3 DEF Delete

\* The retention check takes out of the list what it declares swept.
LEMMA SweepReadsOK ==
  ASSUME IdInv, ListInv, DurableInv, ReadInv, NEW t \in Tasks, Writes(t), Sweep(t)
  PROVE  ReadInv'
<1>1. ASSUME NEW i \in op[t].expired, SweepUnlist(t, i) PROVE ReadInv'
  <2>1. /\ pc[t] = "sweep" /\ Past(pc[t]) /\ memtable' = memtable /\ scan = 0 /\ scan' = 0
        /\ sstables' = Without(sstables, i) /\ racy' = racy /\ doomed' = doomed
        /\ swept' = swept \union files[i] /\ acked' = acked
    BY <1>1 DEF SweepUnlist, Past
  <2>2. /\ pc'[t] = "remove" /\ op'[t].arg = op[t].arg
        /\ \A u \in Tasks \ {t} : pc'[u] = pc[u] /\ op'[u] = op[u]
    BY <1>1, Here DEF SweepUnlist, IdInv, TypeOK, TasksType, Locals
  <2>3. \A u \in Tasks \ {t} : Untouched(u)
    BY <2>2, OthersUntouched
  <2>4. \A f \in Safe' : f \in Safe
    BY <2>1, <2>2, <2>3, SafeShrinks
  <2>5. ASSUME NEW f \in Safe', Seen(f) PROVE Seen(f)'
    <3>1. PICK v \in Elems(sstables) : KeyOf[f] \in Keys(files[v])
      BY <2>5, SeenIn
    <3>2. KeyOf[f] \notin Keys(files[i])
      BY <2>1 DEF Safe, Keys
    <3>3. v \in Elems(sstables')
      <4>1. Distinct(sstables)
        BY DEF ListInv, IdsApart
      <4> QED BY <2>1, <3>1, <3>2, <4>1, Dropped
    <3> QED BY <3>1, <3>3, SeenKept
  <2>6. FlushSees(t)' /\ QuerySees(t)'
    BY <2>2 DEF FlushSees, QuerySees
  <2> QED BY <2>1, <2>2, <2>3, <2>4, <2>5, <2>6, ReadStep
<1>2. CASE SweepSelect(t) \/ SweepErase(t)
  BY <1>2, SweepMoves, MovedReads
<1> QED BY <1>1, <1>2 DEF Sweep

\* A query reads the memtable before the list, and data moves from the one to the other.
LEMMA QueryReadsOK ==
  ASSUME IdInv, ListInv, DurableInv, ReadInv, NEW t \in Tasks, Writes(t), Query(t)
  PROVE  ReadInv'
<1>1. ASSUME NEW d \in Devices, QueryMemtable(t, d) PROVE ReadInv'
  <2> DEFINE r == [op[t] EXCEPT !.arg = d, !.must = memtable \intersect FramesOf(d),
                                !.may = (acked \ racy) \intersect FramesOf(d)]
  <2>1. /\ t \in Queriers /\ pc' = [pc EXCEPT ![t] = "tables"] /\ op' = [op EXCEPT ![t] = r]
        /\ memtable' = memtable /\ sstables' = sstables /\ scan = 0 /\ scan' = 0
        /\ racy' = racy /\ doomed' = doomed /\ swept' = swept /\ acked' = acked
    BY <1>1 DEF QueryMemtable, memory, history
  <2>2. /\ r.arg = d /\ r.must = memtable \intersect FramesOf(d)
        /\ r.may = (acked \ racy) \intersect FramesOf(d)
    BY Here DEF Locals
  <2> HIDE DEF r
  <2>3. pc'[t] = "tables" /\ op'[t] = r /\ \A u \in Tasks \ {t} : Untouched(u)
    BY <2>1, OneMoves
  <2>4. t \notin Writers /\ \A u \in Tasks \ {t} : op'[u] = op[u]
    BY <2>1, RolesAssumption DEF IdInv, TypeOK, TasksType
  <2>5. \A f \in Safe' : f \in Safe
    BY <2>1, <2>3, <2>4, SafeShrinks
  <2>6. \A f : Seen(f) => Seen(f)'
    BY <2>1, SeenIn, SeenKept
  <2>7. ASSUME NEW f \in Safe', f \in r.may
        PROVE  DevOf[f] = d /\ (KeyOf[f] \in Keys(r.must) \/ Seen(f)')
    <3>1. f \in memtable \/ Seen(f)
      BY <2>1, <2>5 DEF ReadInv, Readable
    <3> QED BY <2>2, <2>6, <2>7, <3>1 DEF FramesOf, Keys
  <2>8. FlushSees(t)' /\ QuerySees(t)'
    BY <2>1, <2>2, <2>3, <2>7 DEF FlushSees, QuerySees, Found
  <2> QED BY <2>1, <2>3, <2>4, <2>5, <2>6, <2>8, ReadStep
<1>2. ASSUME QueryTables(t) PROVE ReadInv'
  <2>1. /\ pc[t] = "tables" /\ Past(pc[t]) /\ memtable' = memtable /\ sstables' = sstables
        /\ scan = 0 /\ scan' = 0
        /\ racy' = racy /\ doomed' = doomed /\ swept' = swept /\ acked' = acked
    BY <1>2 DEF QueryTables, memory, Past
  <2>2. CASE Fail(t)
    BY <2>1, <2>2, MovesOut, MovedReads
  <2>3. CASE ~Fail(t)
    <3> DEFINE read == Listed \intersect FramesOf(op[t].arg)
               r == [op[t] EXCEPT !.must = op[t].must \union read]
    <3>1. pc' = [pc EXCEPT ![t] = "answer"] /\ op' = [op EXCEPT ![t] = r]
      BY <1>2, <2>3 DEF QueryTables
    <3>2. r.arg = op[t].arg /\ r.must = op[t].must \union read /\ r.may = op[t].may
      BY Here DEF Locals
    <3> HIDE DEF r
    <3>3. pc'[t] = "answer" /\ op'[t] = r /\ \A u \in Tasks \ {t} : Untouched(u)
      BY <3>1, OneMoves
    <3>4. \A u \in Tasks \ {t} : op'[u] = op[u]
      BY <3>1 DEF IdInv, TypeOK, TasksType
    <3>5. \A f \in Safe' : f \in Safe
      BY <2>1, <3>2, <3>3, SafeShrinks
    <3>6. \A f : Seen(f) => Seen(f)'
      BY <2>1, SeenIn, SeenKept
    <3>7. ASSUME NEW f \in Safe, f \in op[t].may PROVE KeyOf[f] \in Keys(r.must)
      <4>1. DevOf[f] = op[t].arg /\ (Found(t, f) \/ Seen(f)) /\ f \in Frames
        BY <2>1, <3>7 DEF ReadInv, QuerySees, Safe
      <4>2. CASE Found(t, f)
        BY <3>2, <4>2 DEF Found, Keys
      <4>3. CASE Seen(f)
        <5>1. PICK v \in Elems(sstables) : KeyOf[f] \in Keys(files[v])
          BY <4>3, SeenIn
        <5>2. PICK g \in files[v] : KeyOf[g] = KeyOf[f]
          BY <5>1 DEF Keys
        <5>3. g \in Frames /\ DevOf[g] = op[t].arg
          BY <4>1, <5>2, ListedIds, Typed, FramesAssumption
        <5>4. g \in read
          BY <5>1, <5>3 DEF FramesOf, Listed
        <5> QED BY <3>2, <5>2, <5>4 DEF Keys
      <4> QED BY <4>1, <4>2, <4>3
    <3>8. op[t].may \subseteq acked
      BY <2>1 DEF ReadInv, QuerySees
    <3>9. FlushSees(t)' /\ QuerySees(t)'
      BY <2>1, <3>2, <3>3, <3>5, <3>7, <3>8 DEF FlushSees, QuerySees, Found
    <3> QED BY <2>1, <3>3, <3>4, <3>5, <3>6, <3>9, ReadStep
  <2> QED BY <2>2, <2>3
<1>3. ASSUME QueryReply(t) PROVE ReadInv'
  <2>1. /\ pc[t] = "answer" /\ Past(pc[t]) /\ memtable' = memtable /\ sstables' = sstables
        /\ scan = 0 /\ scan' = 0 /\ Leave(t, "idle")
        /\ racy' = racy /\ doomed' = doomed /\ swept' = swept /\ acked' = acked
    BY <1>3 DEF QueryReply, memory, history, Past
  <2> QED BY <2>1, MovesOut, MovedReads
<1> QED BY <1>1, <1>2, <1>3 DEF Query

----------------------------------------------------------------------------
(* Start-up, and the theorems about queries                                *)

\* After a crash nothing serves, until start-up has listed every table that opens and
\* replayed the log: Durable's invariant says that one of them has the frame.
LEMMA CrashReadsOK == ASSUME IdInv, Crash PROVE ReadInv'
<1>1. scan' = 1 /\ \A t \in Tasks : pc'[t] = "idle"
  BY DEF Crash
<1>2. ScanSees'
  BY <1>1, Typed DEF ScanSees
<1> QED BY <1>1, <1>2 DEF ReadInv, Readable, FlushSees, QuerySees

\* A start reads back what the log has.
LEMMA RecoverReadsOK == ASSUME IdInv, ListInv, DurableInv, ReadInv, Recover PROVE ReadInv'
<1>1. /\ pc' = pc /\ op' = op /\ files' = files /\ acked' = acked /\ Safe' = Safe
      /\ scan # 0 /\ scan \in Nat /\ MaxId \in Nat
  <2>1. /\ pc' = pc /\ op' = op /\ files' = files /\ acked' = acked /\ racy' = racy
        /\ doomed' = doomed /\ swept' = swept
    BY DEF Recover, RecoverOpen, RecoverServe, disk, history
  <2>2. Safe' = Safe
    BY <2>1 DEF Safe, Inserted
  <2>3. scan # 0 /\ scan \in Nat /\ MaxId \in Nat
    BY Typed DEF Recover, RecoverOpen, RecoverServe, IdInv, TypeOK, MemoryType
  <2> QED BY <2>1, <2>2, <2>3
<1>2. Elems(sstables) \subseteq Elems(sstables')
  <2>1. CASE sstables' = sstables
    BY <2>1
  <2>2. CASE sstables' = Append(sstables, scan) /\ scan \in Ids
    BY <2>2, Typed, MoreElems
  <2> QED BY <2>1, <2>2 DEF Recover, RecoverOpen, RecoverServe
<1>3. \A f : Seen(f) => Seen(f)'
  BY <1>1, <1>2 DEF Seen, Listed, Keys
<1>4. ASSUME NEW t \in Tasks PROVE FlushSees(t)' /\ QuerySees(t)'
  <2>1. FlushSees(t) /\ QuerySees(t)
    BY DEF ReadInv
  <2> QED BY <1>1, <1>3, <2>1 DEF FlushSees, QuerySees, Found
<1>5. CASE RecoverOpen
  <2>1. scan' = scan + 1 /\ scan \in Ids
    BY <1>5 DEF RecoverOpen
  <2>2. files[scan] # {} => scan \in Elems(sstables')
    <3> SUFFICES ASSUME files[scan] # {} PROVE scan \in Elems(sstables')
      OBVIOUS
    <3>1. sstables' = Append(sstables, scan)
      BY <1>5 DEF RecoverOpen
    <3> QED BY <2>1, <3>1, Typed, MoreElems
  <2>3. \A i \in Ids : i < scan' => i < scan \/ i = scan
    BY <1>1, <2>1
  <2>4. ScanSees'
    BY <1>1, <1>2, <2>2, <2>3 DEF ReadInv, ScanSees
  <2>5. Readable'
    BY <1>1, <2>1 DEF Readable
  <2> QED BY <1>4, <2>4, <2>5 DEF ReadInv
<1>6. CASE RecoverServe
  <2>1. scan = MaxId + 1 /\ scan' = 0 /\ memtable' = walLog /\ sstables' = sstables
    BY <1>6 DEF RecoverServe
  <2>2. ASSUME NEW f \in Safe, f \notin walLog PROVE Seen(f)
    <3>1. Reach(f) = 0
      BY <2>2 DEF Reach, InLog
    <3>2. Covered(f, 0) /\ Held(KeyOf[f], 0)
      BY <3>1 DEF DurableInv, Covers, Held
    <3>3. PICK j \in Ids : KeyOf[f] \in Keys(files[j])
      BY <1>1, <3>2 DEF Covered, Above
    <3>4. j < scan /\ files[j] # {}
      BY <1>1, <2>1, <3>3 DEF Keys
    <3>5. j \in Elems(sstables)
      BY <1>1, <3>4 DEF ReadInv, ScanSees
    <3> QED BY <3>3, <3>5, SeenIn
  <2>3. Readable'
    BY <1>1, <1>3, <2>1, <2>2 DEF Readable
  <2>4. ScanSees'
    BY <2>1 DEF ScanSees
  <2> QED BY <1>4, <2>3, <2>4 DEF ReadInv
<1> QED BY <1>5, <1>6 DEF Recover

\* At first there is nothing to miss.
LEMMA ReadInit == Init => ReadInv
<1> SUFFICES ASSUME Init PROVE ReadInv
  OBVIOUS
<1>1. \A t \in Tasks : pc[t] = "idle"
  BY DEF Init
<1>2. Safe = {}
  BY <1>1 DEF Init, Safe, Inserted, Past, Tasks
<1> QED BY <1>1, <1>2 DEF Init, ReadInv, Readable, ScanSees, FlushSees, QuerySees

\* Every step keeps ReadInv, if compaction and deletion take their own.
LEMMA ReadInvStep ==
  IdInv /\ ListInv /\ DurableInv /\ ReadInv /\ TakesOwn /\ [Next]_vars => ReadInv'
<1> SUFFICES ASSUME IdInv, ListInv, DurableInv, ReadInv, TakesOwn, [Next]_vars PROVE ReadInv'
  OBVIOUS
<1>1. CASE UNCHANGED vars
  <2>1. /\ pc' = pc /\ op' = op /\ files' = files /\ acked' = acked /\ racy' = racy
        /\ doomed' = doomed /\ swept' = swept /\ sstables' = sstables /\ memtable' = memtable
        /\ scan' = scan
    BY <1>1 DEF vars, disk, memory, history
  <2>2. Safe' = Safe /\ \A f : Seen(f)' <=> Seen(f)
    BY <2>1 DEF Safe, Inserted, Seen, Listed
  <2>3. ASSUME NEW t \in Tasks PROVE FlushSees(t)' /\ QuerySees(t)'
    <3>1. FlushSees(t) /\ QuerySees(t)
      BY DEF ReadInv
    <3> QED BY <2>1, <2>2, <3>1 DEF FlushSees, QuerySees, Found
  <2>4. Readable' /\ ScanSees'
    BY <2>1, <2>2 DEF ReadInv, Readable, ScanSees
  <2> QED BY <2>3, <2>4 DEF ReadInv
<1>2. ASSUME NEW t \in Tasks,
             Write(t) \/ Flush(t) \/ Compact(t) \/ Delete(t) \/ Sweep(t) \/ Query(t)
      PROVE  ReadInv'
  <2>1. Writes(t)
    BY <1>2, TaskKeepsList
  <2> QED BY <1>2, <2>1, WriteReadsOK, FlushReadsOK, CompactReadsOK, DeleteReadsOK,
             SweepReadsOK, QueryReadsOK
<1>3. CASE Crash
  BY <1>3, CrashReadsOK
<1>4. CASE Recover
  BY <1>4, RecoverReadsOK
<1> QED BY <1>1, <1>2, <1>3, <1>4 DEF Next

\* What ReadInv says of the acknowledged frames.
LEMMA ReadInvHelps == IdInv /\ ReadInv => AckedReadable /\ QueryComplete
<1> SUFFICES ASSUME IdInv, ReadInv PROVE AckedReadable /\ QueryComplete
  OBVIOUS
<1>1. \A f \in acked : f \notin racy \union doomed /\ KeyOf[f] \notin Keys(swept) => f \in Safe
  BY Typed DEF Safe, Inserted
<1>2. ASSUME scan = 0, NEW f \in acked \ (racy \union doomed), KeyOf[f] \notin Keys(swept)
      PROVE  KeyOf[f] \in Keys(memtable \union Listed)
  BY <1>1, <1>2 DEF ReadInv, Readable, Seen, Keys
<1>3. AckedReadable
  BY <1>2 DEF AckedReadable, Owed, Keys
<1>4. ASSUME NEW t \in Queriers, pc[t] = "answer",
             NEW f \in op[t].may \ (racy \union doomed), KeyOf[f] \notin Keys(swept)
      PROVE  KeyOf[f] \in Keys(op[t].must)
  <2>1. t \in Tasks
    BY DEF Tasks
  <2>2. f \in Safe
    BY <1>1, <1>4, <2>1 DEF ReadInv, QuerySees
  <2> QED BY <1>4, <2>1, <2>2 DEF ReadInv, QuerySees, Found
<1>5. QueryComplete
  BY <1>4 DEF QueryComplete, Owed, Keys
<1> QED BY <1>3, <1>5

\* StorageEngine::query answers with every frame acknowledged before it began (with the
\* exceptions of Durable), and what is acknowledged stays in memtable or list, in every
\* behaviour in which compact and delete_device take from the list only what they have
\* read of it: then flush, compaction, deletion, retention and recovery pass no query
\* unseen, at whatever point of their work it comes.
THEOREM ReadsComplete == Spec /\ []TakesOwn => [](QueryComplete /\ AckedReadable)
<1>1. Init => ReadInv
  BY ReadInit
<1>2. (IdInv /\ ListInv /\ DurableInv) /\ ReadInv /\ TakesOwn /\ [Next]_vars => ReadInv'
  BY ReadInvStep
<1>3. (IdInv /\ ListInv /\ DurableInv) /\ ReadInv => QueryComplete /\ AckedReadable
  BY ReadInvHelps
<1> QED BY <1>1, <1>2, <1>3, DurableInductive, PTL DEF Spec

----------------------------------------------------------------------------
(* When tasks do not cross each other                                      *)

\* No two flushes are in their window.
OneFlushes == \A t, u \in Tasks : InWindow(t) /\ InWindow(u) => t = u
\* A task has read the list and has not yet replaced what it read.
Replacing(t) == pc[t] \in Batching \union Rewriting \union {"sweep"}
\* No two tasks are doing so, and none adds a table while a deletion does.
OneReplaces ==
  \A t, u \in Tasks : t # u /\ Replacing(t) =>
    ~Replacing(u) /\ ~(pc[t] \in Rewriting /\ pc[u] = "copy")

\* The log handle is on the log, or a flush is about to put it there.
LogInv ==
  /\ walCur = walPath \/ \E t \in Tasks : pc[t] \in {"reopen", "swap"}
  /\ \A t \in Tasks : pc[t] = "swap" => op[t].inode = walPath
\* What a compaction or a deletion has read is still what it will replace.
ListerInv ==
  /\ scan # 0 => \A t \in Tasks : pc[t] = "idle"
  /\ \A t \in Tasks :
       /\ pc[t] \in Batching =>
            /\ op[t].size <= Len(sstables)
            /\ \A k \in DOMAIN sstables :
                 k <= op[t].size => sstables[k] \in Elems(op[t].victims)
       /\ pc[t] \in Rewriting => \A i \in Elems(sstables) : i \in Elems(op[t].victims)

\* The tasks that flush: a writer does when the memtable can become full.
Flushers ==
  Timers \union {t \in Writers : \E S \in SUBSET Frames : Cardinality(S) >= MemtableLimit}
Busy(at) == at \notin {"idle", "dead", "append", "insert", "full", "tables", "answer"}
\* With one task that flushes, and neither deletions nor retention.
OneFlusher == Deleters = {} /\ Sweepers = {} /\ \A t, u \in Flushers : t = u
FlusherInv == \A t \in Tasks : Busy(pc[t]) => t \in Flushers

\* What the steps of a task have in common.
Reads(t) ==
  /\ pc[t] = "snapshot" /\ op'[t].size \in 0..Len(sstables)
  /\ op'[t].victims = SubSeq(sstables, 1, op'[t].size)
Keeps(t) == op'[t].victims = op[t].victims /\ op'[t].size = op[t].size
Shape(t) ==
  /\ scan = 0 /\ scan' = 0
  /\ \A u \in Tasks \ {t} : /\ pc'[u] = pc[u] /\ op'[u].inode = op[u].inode
                            /\ op'[u].victims = op[u].victims /\ op'[u].size = op[u].size
  /\ \/ sstables' = sstables
     \/ pc[t] = "copy" /\ op[t].id \in Ids /\ sstables' = Append(sstables, op[t].id)
     \/ pc[t] \in {"install", "replace", "sweep"}
  /\ pc'[t] \in Batching => sstables' = sstables /\ (Reads(t) \/ (pc[t] \in Batching /\ Keeps(t)))
  /\ pc'[t] \in Rewriting =>
       /\ sstables' = sstables
       /\ \/ op'[t].victims = sstables
          \/ pc[t] \in Rewriting /\ op'[t].victims = op[t].victims
  /\ Busy(pc'[t]) => Busy(pc[t]) \/ t \in Flushers \union Deleters \union Sweepers
  /\ pc[t] \notin {"unlink", "reopen", "swap"} =>
       walPath' = walPath /\ walCur' = walCur /\ pc'[t] # "swap"

\* A write goes from point to point.
LEMMA WriteShape == ASSUME IdInv, NEW t \in Tasks, Write(t) PROVE Shape(t)
<1> USE DEF IdInv, TypeOK, TasksType, Batching, Rewriting, Busy
<1>1. ASSUME NEW f \in Frames, WriteBegin(t, f) PROVE Shape(t)
  <2>1. /\ scan = 0 /\ scan' = 0 /\ walPath' = walPath /\ walCur' = walCur
        /\ pc'[t] = "append" /\ sstables' = sstables
        /\ \A u \in Tasks \ {t} : pc'[u] = pc[u] /\ op'[u] = op[u]
    BY <1>1 DEF WriteBegin, disk
  <2> QED BY <2>1 DEF Shape
<1>2. CASE WriteAppend(t)
  BY <1>2 DEF WriteAppend, Shape, memory
<1>3. CASE WriteInsert(t)
  <2>1. op[t].arg \in Frames
    BY <1>3, Here, Writing DEF WriteInsert, Fits
  <2>2. \A u \in Tasks : Same(u, op'[u])
    BY <1>3, <2>1, Copies DEF WriteInsert
  <2> QED BY <1>3, <2>2 DEF WriteInsert, Shape, disk, Same
<1>4. CASE WriteFull(t)
  <2>1. /\ pc[t] = "full" /\ scan = 0 /\ scan' = 0 /\ sstables' = sstables
        /\ walPath' = walPath /\ walCur' = walCur
        /\ \A u \in Tasks \ {t} : pc'[u] = pc[u] /\ op'[u] = op[u]
    BY <1>4 DEF WriteFull, disk, memory
  <2>2. pc'[t] = "idle" \/ (pc'[t] = "flush" /\ t \in Flushers)
    <3>1. t \in Writers /\ memtable \in SUBSET Frames
      BY <2>1, Here, Typed DEF Fits
    <3> QED BY <1>4, <3>1 DEF WriteFull, Flushers
  <2> QED BY <2>1, <2>2 DEF Shape
<1> QED BY <1>1, <1>2, <1>3, <1>4 DEF Write

\* So does a flush, with the truncation after it.
LEMMA FlushShape == ASSUME IdInv, NEW t \in Tasks, Flush(t) PROVE Shape(t)
<1> USE DEF IdInv, TypeOK, TasksType, Batching, Rewriting, Busy
<1>1. CASE TimerTick(t)
  BY <1>1 DEF TimerTick, Shape, Flushers, disk, memory, history
<1>2. CASE FlushBegin(t)
  BY <1>2 DEF FlushBegin, Shape
<1>3. ASSUME NEW extra \in SUBSET op[t].may, FlushPublish(t, op[t].must \union extra)
      PROVE  Shape(t)
  <2>1. /\ pc[t] = "copy" /\ scan = 0 /\ scan' = 0 /\ walPath' = walPath /\ walCur' = walCur
        /\ \A u \in Tasks \ {t} : pc'[u] = pc[u] /\ op'[u] = op[u]
        /\ sstables' = sstables \/ sstables' = Append(sstables, op[t].id)
        /\ pc'[t] \in {"idle", "clear"}
    BY <1>3 DEF FlushPublish
  <2>2. op[t].id \in Ids
    BY <2>1, Here DEF Fits
  <2> QED BY <2>1, <2>2 DEF Shape
<1>4. CASE FlushClear(t)
  BY <1>4 DEF FlushClear, Shape, disk, history
<1>5. CASE TruncateCheck(t)
  BY <1>5 DEF TruncateCheck, Shape, disk, memory, history
<1>6. CASE TruncateUnlink(t)
  BY <1>6 DEF TruncateUnlink, Shape, memory
<1>7. CASE TruncateReopen(t)
  BY <1>7 DEF TruncateReopen, Shape, memory, history
<1>8. CASE TruncateSwap(t)
  <2>1. /\ pc[t] = "swap" /\ scan = 0 /\ scan' = 0 /\ sstables' = sstables
        /\ \A u \in Tasks \ {t} : pc'[u] = pc[u] /\ op'[u] = op[u]
        /\ pc'[t] \in {"idle", "measure"}
    BY <1>8 DEF TruncateSwap, disk
  <2> QED BY <2>1 DEF Shape
<1> QED BY <1>1, <1>2, <1>3, <1>4, <1>5, <1>6, <1>7, <1>8 DEF Flush

\* So does a compaction.
LEMMA CompactShape == ASSUME IdInv, NEW t \in Tasks, Compact(t) PROVE Shape(t)
<1> USE DEF IdInv, TypeOK, TasksType, Batching, Rewriting, Busy
<1>1. /\ scan = 0 /\ scan' = 0 /\ walPath' = walPath /\ walCur' = walCur
      /\ \A u \in Tasks \ {t} : pc'[u] = pc[u] /\ op'[u] = op[u]
  BY DEF Compact, CompactMeasure, CompactSnapshot, CompactBegin, CompactFinish, CompactInstall,
     CompactPurge, disk, memory, history
<1>2. CASE CompactMeasure(t)
  BY <1>1, <1>2 DEF CompactMeasure, Shape, memory
<1>3. CASE CompactSnapshot(t)
  <2> DEFINE r == [op[t] EXCEPT !.victims = SubSeq(sstables, 1, op[t].size)]
  <2>1. pc[t] = "snapshot" /\ sstables' = sstables
    BY <1>3 DEF CompactSnapshot, memory
  <2>2. /\ r.victims = SubSeq(sstables, 1, op[t].size) /\ r.size = op[t].size
        /\ op[t].size \in Nat /\ Len(sstables) \in Nat
    BY Here, Typed, SMTT(30) DEF Locals
  <2>3. CASE pc'[t] = "merge" /\ op'[t] = r /\ ~(Len(sstables) < op[t].size)
    <3> HIDE DEF r
    <3> QED BY <1>1, <2>1, <2>2, <2>3 DEF Shape, Reads
  <2>4. CASE pc'[t] = "dead"
    BY <1>1, <2>1, <2>4 DEF Shape
  <2> QED BY <1>3, <2>3, <2>4 DEF CompactSnapshot
<1>4. ASSUME NEW merged \in SUBSET Stored, CompactBegin(t, merged) PROVE Shape(t)
  <2> DEFINE r == [op[t] EXCEPT !.id = nextId, !.must = merged]
  <2>1. pc[t] = "merge" /\ sstables' = sstables
    BY <1>4 DEF CompactBegin
  <2>2. r.victims = op[t].victims /\ r.size = op[t].size
    BY Here DEF Locals
  <2>3. CASE pc'[t] = "merging" /\ op'[t] = r
    <3> HIDE DEF r
    <3> QED BY <1>1, <2>1, <2>2, <2>3 DEF Shape, Keeps
  <2>4. CASE pc'[t] = "idle"
    BY <1>1, <2>1, <2>4 DEF Shape
  <2> QED BY <1>4, <2>3, <2>4 DEF CompactBegin
<1>5. CASE CompactFinish(t)
  <2>1. /\ pc[t] = "merging" /\ pc'[t] = "install" /\ sstables' = sstables
        /\ op'[t] = [op[t] EXCEPT !.must = {}]
    BY <1>5 DEF CompactFinish
  <2>2. Keeps(t)
    BY <2>1, Here DEF Keeps, Locals
  <2> QED BY <1>1, <2>1, <2>2 DEF Shape
<1>6. CASE CompactInstall(t)
  <2>1. pc[t] = "install" /\ pc'[t] \in {"dead", "purge"}
    BY <1>6 DEF CompactInstall
  <2> QED BY <1>1, <2>1 DEF Shape
<1>7. CASE CompactPurge(t)
  <2>1. pc[t] = "purge" /\ pc'[t] \in {"idle", "purge"} /\ sstables' = sstables
    BY <1>7 DEF CompactPurge, memory
  <2> QED BY <1>1, <2>1 DEF Shape
<1> QED BY <1>2, <1>3, <1>4, <1>5, <1>6, <1>7 DEF Compact

\* So does a deletion.
LEMMA DeleteShape == ASSUME IdInv, NEW t \in Tasks, Delete(t) PROVE Shape(t)
<1> USE DEF IdInv, TypeOK, TasksType, Batching, Rewriting, Busy
<1>1. ASSUME NEW d \in Devices, DeleteBegin(t, d) PROVE Shape(t)
  <2> DEFINE S == FramesOf(d)
             may == acked \intersect FramesOf(d)
  <2>1. /\ pc' = [pc EXCEPT ![t] = "list"] /\ t \in Deleters /\ scan = 0 /\ scan' = 0
        /\ sstables' = sstables /\ walPath' = walPath /\ walCur' = walCur
        /\ op' = [Going(S) EXCEPT ![t].arg = d, ![t].may = may]
    BY <1>1 DEF DeleteBegin, disk
  <2>2. Going(S) \in [Tasks -> Locals] /\ \A u \in Tasks : Same(u, Going(S)[u])
    BY Copies DEF FramesOf
  <2> HIDE DEF S, may
  <2>3. \A u \in Tasks \ {t} : op'[u] = Going(S)[u]
    BY <2>1, <2>2
  <2> QED BY <2>1, <2>2, <2>3 DEF Shape, Same
<1>2. CASE DeleteSnapshot(t)
  <2> DEFINE r == [op[t] EXCEPT !.victims = sstables, !.fresh = <<>>, !.size = 0]
  <2>1. /\ scan = 0 /\ scan' = 0 /\ walPath' = walPath /\ walCur' = walCur
        /\ pc[t] = "list" /\ pc'[t] \in {"unregister", "open"} /\ sstables' = sstables
        /\ op'[t] = r /\ \A u \in Tasks \ {t} : pc'[u] = pc[u] /\ op'[u] = op[u]
    BY <1>2 DEF DeleteSnapshot, disk, memory, history
  <2>2. r.victims = sstables
    BY Here DEF Locals
  <2> HIDE DEF r
  <2> QED BY <2>1, <2>2 DEF Shape
<1>3. CASE DeleteOpen(t)
  <2>1. /\ scan = 0 /\ scan' = 0 /\ walPath' = walPath /\ walCur' = walCur
        /\ pc[t] = "open" /\ sstables' = sstables
        /\ pc'[t] = "idle" \/ (pc'[t] = "rewrite" /\ op' = op)
        /\ \A u \in Tasks \ {t} : pc'[u] = pc[u] /\ op'[u] = op[u]
    BY <1>3 DEF DeleteOpen, disk, memory
  <2> QED BY <2>1 DEF Shape
<1>4. CASE DeleteRewrite(t)
  <2> DEFINE q == [op[t] EXCEPT !.size = op[t].size + 1]
             r == [op[t] EXCEPT !.size = op[t].size + 1, !.fresh = Append(op[t].fresh, nextId)]
             at == IF op[t].size + 1 = Len(op[t].victims) THEN "replace" ELSE "rewrite"
  <2>1. /\ scan = 0 /\ scan' = 0 /\ walPath' = walPath /\ walCur' = walCur
        /\ pc[t] = "rewrite" /\ sstables' = sstables
        /\ \A u \in Tasks \ {t} : pc'[u] = pc[u] /\ op'[u] = op[u]
    BY <1>4 DEF DeleteRewrite
  <2>2. pc'[t] = "idle" \/ (pc'[t] = at /\ (op'[t] = q \/ op'[t] = r))
    BY <1>4 DEF DeleteRewrite
  <2>3. /\ q.victims = op[t].victims /\ r.victims = op[t].victims
        /\ at \in {"replace", "rewrite"}
    BY Here DEF Locals
  <2> HIDE DEF q, r, at
  <2> QED BY <2>1, <2>2, <2>3 DEF Shape
<1>5. CASE DeleteReplace(t)
  <2>1. /\ scan = 0 /\ scan' = 0 /\ walPath' = walPath /\ walCur' = walCur
        /\ pc[t] = "replace" /\ pc'[t] = "erase"
        /\ \A u \in Tasks \ {t} : pc'[u] = pc[u] /\ op'[u] = op[u]
    BY <1>5 DEF DeleteReplace, disk
  <2> QED BY <2>1 DEF Shape
<1>6. CASE DeleteErase(t)
  <2>1. /\ scan = 0 /\ scan' = 0 /\ walPath' = walPath /\ walCur' = walCur
        /\ pc[t] = "erase" /\ pc'[t] \in {"unregister", "erase"} /\ sstables' = sstables
        /\ \A u \in Tasks \ {t} : pc'[u] = pc[u] /\ op'[u] = op[u]
    BY <1>6 DEF DeleteErase, memory, history
  <2> QED BY <2>1 DEF Shape
<1>7. CASE DeleteUnregister(t)
  BY <1>7 DEF DeleteUnregister, Shape, disk
<1> QED BY <1>1, <1>2, <1>3, <1>4, <1>5, <1>6, <1>7 DEF Delete

\* So does the retention check.
LEMMA SweepShape == ASSUME IdInv, NEW t \in Tasks, Sweep(t) PROVE Shape(t)
<1> USE DEF IdInv, TypeOK, TasksType, Batching, Rewriting, Busy
<1>1. /\ scan = 0 /\ scan' = 0 /\ walPath' = walPath /\ walCur' = walCur
      /\ \A u \in Tasks \ {t} : pc'[u] = pc[u] /\ op'[u] = op[u]
  BY DEF Sweep, SweepSelect, SweepUnlist, SweepErase, disk, memory, history
<1>2. CASE SweepSelect(t)
  <2>1. pc'[t] = "sweep" /\ t \in Sweepers /\ sstables' = sstables
    BY <1>2 DEF SweepSelect, memory
  <2> QED BY <1>1, <2>1 DEF Shape
<1>3. ASSUME NEW i \in op[t].expired, SweepUnlist(t, i) PROVE Shape(t)
  <2>1. pc[t] = "sweep" /\ pc'[t] = "remove"
    BY <1>3 DEF SweepUnlist
  <2> QED BY <1>1, <2>1 DEF Shape
<1>4. CASE SweepErase(t)
  <2>1. pc[t] = "remove" /\ pc'[t] \in {"idle", "sweep"} /\ sstables' = sstables
    BY <1>4 DEF SweepErase, memory
  <2> QED BY <1>1, <2>1 DEF Shape
<1> QED BY <1>2, <1>3, <1>4 DEF Sweep

\* So does a query.
LEMMA QueryShape == ASSUME IdInv, NEW t \in Tasks, Query(t) PROVE Shape(t)
<1> USE DEF IdInv, TypeOK, TasksType
<1>1. /\ scan = 0 /\ scan' = 0 /\ walPath' = walPath /\ walCur' = walCur /\ sstables' = sstables
      /\ pc'[t] \in {"tables", "answer", "idle"}
      /\ \A u \in Tasks \ {t} : pc'[u] = pc[u] /\ op'[u] = op[u]
  BY DEF Query, QueryMemtable, QueryTables, QueryReply, disk, memory, history
<1> QED BY <1>1 DEF Shape, Batching, Rewriting, Busy

\* And so any task.
LEMMA StepShape ==
  ASSUME IdInv, NEW t \in Tasks,
         Write(t) \/ Flush(t) \/ Compact(t) \/ Delete(t) \/ Sweep(t) \/ Query(t)
  PROVE  Shape(t)
  BY WriteShape, FlushShape, CompactShape, DeleteShape, SweepShape, QueryShape

\* At a point of truncate the task can but go on with it.
LEMMA AtTruncate ==
  ASSUME NEW t \in Tasks,
         Write(t) \/ Flush(t) \/ Compact(t) \/ Delete(t) \/ Sweep(t) \/ Query(t)
  PROVE  /\ pc[t] = "unlink" => TruncateUnlink(t)
         /\ pc[t] = "reopen" => TruncateReopen(t)
         /\ pc[t] = "swap" => TruncateSwap(t)
<1> SUFFICES ASSUME pc[t] \in {"unlink", "reopen", "swap"}
             PROVE  TruncateUnlink(t) \/ TruncateReopen(t) \/ TruncateSwap(t)
  BY DEF TruncateUnlink, TruncateReopen, TruncateSwap
<1>1. ~Write(t) /\ ~Query(t)
  BY DEF Write, WriteBegin, WriteAppend, WriteInsert, WriteFull, Query, QueryMemtable,
     QueryTables, QueryReply
<1>2. ~Compact(t)
  BY DEF Compact, CompactMeasure, CompactSnapshot, CompactBegin, CompactFinish,
     CompactInstall, CompactPurge
<1>3. ~Delete(t) /\ ~Sweep(t)
  BY DEF Delete, DeleteBegin, DeleteSnapshot, DeleteOpen, DeleteRewrite, DeleteReplace,
     DeleteErase, DeleteUnregister, Sweep, SweepSelect, SweepUnlist, SweepErase
<1>4. Flush(t)
  BY <1>1, <1>2, <1>3
<1> QED BY <1>4 DEF Flush, TimerTick, FlushBegin, FlushPublish, FlushClear, TruncateCheck

\* With one flush in its window at a time the handle comes back to the log.
LEMMA LogStep == IdInv /\ LogInv /\ OneFlushes /\ [Next]_vars => LogInv'
<1> SUFFICES ASSUME IdInv, LogInv, OneFlushes, [Next]_vars PROVE LogInv'
  OBVIOUS
<1>1. CASE UNCHANGED vars
  BY <1>1 DEF vars, disk, memory, LogInv
<1>2. ASSUME NEW t \in Tasks,
             Write(t) \/ Flush(t) \/ Compact(t) \/ Delete(t) \/ Sweep(t) \/ Query(t)
      PROVE  LogInv'
  <2>1. Shape(t)
    BY <1>2, StepShape
  <2>2. CASE pc[t] \notin {"unlink", "reopen", "swap"}
    <3>1. /\ walPath' = walPath /\ walCur' = walCur /\ pc'[t] # "swap"
          /\ \A u \in Tasks \ {t} : pc'[u] = pc[u] /\ op'[u].inode = op[u].inode
      BY <2>1, <2>2 DEF Shape
    <3>2. ASSUME NEW u \in Tasks, pc[u] \in {"reopen", "swap"} PROVE pc'[u] = pc[u]
      BY <2>2, <3>1, <3>2
    <3> QED BY <3>1, <3>2 DEF LogInv
  <2>3. CASE pc[t] \in {"unlink", "reopen", "swap"}
    <3>1. \A u \in Tasks \ {t} : pc[u] \notin {"reopen", "swap"} /\ pc'[u] = pc[u]
      BY <2>1, <2>3 DEF OneFlushes, InWindow, Shape
    <3>2. CASE pc[t] = "unlink"
      <4>1. walCur = walPath /\ walPath # None
        BY <3>1, <3>2, Typed, NoneAssumption DEF LogInv
      <4>2. TruncateUnlink(t)
        BY <1>2, <3>2, AtTruncate
      <4>3. pc' = [pc EXCEPT ![t] = "reopen"]
        BY <4>1, <4>2 DEF TruncateUnlink
      <4>4. pc'[t] = "reopen"
        BY <4>3 DEF IdInv, TypeOK, TasksType
      <4> QED BY <3>1, <4>4 DEF LogInv
    <3>3. CASE pc[t] = "reopen"
      <4>1. TruncateReopen(t)
        BY <1>2, <3>3, AtTruncate
      <4>2. PICK i \in Inodes : walPath' = i /\ SetLocals(t, [op[t] EXCEPT !.inode = i])
        BY <4>1 DEF TruncateReopen
      <4>3. pc'[t] = "swap" /\ op'[t] = [op[t] EXCEPT !.inode = i]
        BY <4>1, <4>2 DEF TruncateReopen, IdInv, TypeOK, TasksType
      <4>4. op'[t].inode = walPath'
        BY <4>2, <4>3, Here DEF Locals
      <4> QED BY <3>1, <4>3, <4>4 DEF LogInv
    <3>4. CASE pc[t] = "swap"
      <4>1. TruncateSwap(t)
        BY <1>2, <3>4, AtTruncate
      <4>2. walCur' = op[t].inode /\ walPath' = walPath /\ pc'[t] \in {"measure", "idle"}
        BY <4>1 DEF TruncateSwap, NewHandle, disk, IdInv, TypeOK, TasksType
      <4>3. op[t].inode = walPath
        BY <3>4 DEF LogInv
      <4> QED BY <3>1, <4>2, <4>3 DEF LogInv
    <3> QED BY <2>3, <3>2, <3>3, <3>4
  <2> QED BY <2>2, <2>3
<1>3. CASE Crash
  BY <1>3 DEF Crash, LogInv
<1>4. CASE Recover
  BY <1>4 DEF Recover, RecoverOpen, RecoverServe, disk, LogInv
<1> QED BY <1>1, <1>2, <1>3, <1>4 DEF Next

\* What was read of the list is a prefix of it, all its tables.
LEMMA PrefixElems ==
  ASSUME IdInv, NEW n \in 0..Len(sstables), NEW k \in DOMAIN sstables, k <= n
  PROVE  sstables[k] \in Elems(SubSeq(sstables, 1, n))
<1> DEFINE b == SubSeq(sstables, 1, n)
<1>1. /\ sstables \in Seq(Ids) /\ Len(sstables) \in Nat /\ DOMAIN sstables = 1..Len(sstables)
      /\ \A i \in 1..Len(sstables) : sstables[i] \in Ids
  <2> HIDE DEF Ids
  <2> QED BY Typed, LenProperties, ElementOfSeq
<1> HIDE DEF Ids
<1>2. 1 \in Int /\ n \in Int /\ \A i \in 1..n : sstables[i] \in Ids
  BY <1>1
<1>3. /\ b \in Seq(Ids) /\ Len(b) = IF 1 <= n THEN n - 1 + 1 ELSE 0
      /\ \A i \in 1..(n - 1 + 1) : b[i] = sstables[1 + i - 1]
  BY <1>2, SubSeqProperties
<1>4. k \in 1..n /\ k \in 1..(n - 1 + 1) /\ 1 + k - 1 = k /\ 1 <= n /\ n - 1 + 1 = n
  BY <1>1
<1>5. b[k] = sstables[k]
  BY <1>3, <1>4
<1> HIDE DEF b
<1>6. DOMAIN b = 1..n
  BY <1>3, <1>4, LenProperties
<1>7. b[k] \in Elems(b)
  BY <1>4, <1>6 DEF Elems
<1> QED BY <1>5, <1>7 DEF b

\* When tasks do not cross each other the list changes under none of them.
LEMMA ListerStep == IdInv /\ ListerInv /\ OneReplaces /\ [Next]_vars => ListerInv'
<1> SUFFICES ASSUME IdInv, ListerInv, OneReplaces, [Next]_vars PROVE ListerInv'
  OBVIOUS
<1> DEFINE Prefix(t) == /\ op[t].size <= Len(sstables)
                        /\ \A k \in DOMAIN sstables :
                             k <= op[t].size => sstables[k] \in Elems(op[t].victims)
           All(t) == \A i \in Elems(sstables) : i \in Elems(op[t].victims)
<1>1. CASE UNCHANGED vars
  BY <1>1 DEF vars, memory, ListerInv
<1>2. ASSUME NEW t \in Tasks,
             Write(t) \/ Flush(t) \/ Compact(t) \/ Delete(t) \/ Sweep(t) \/ Query(t)
      PROVE  ListerInv'
  <2>1. Shape(t)
    BY <1>2, StepShape
  <2>2. /\ sstables \in Seq(Ids) /\ Len(sstables) \in Nat /\ DOMAIN sstables = 1..Len(sstables)
    BY Typed
  <2>3. pc'[t] \in Batching => Prefix(t)'
    <3>1. CASE pc'[t] \in Batching /\ Reads(t)
      <4>1. sstables' = sstables /\ op'[t].size \in 0..Len(sstables)
        BY <2>1, <3>1 DEF Shape, Reads
      <4>2. \A k \in DOMAIN sstables : k <= op'[t].size => sstables[k] \in Elems(op'[t].victims)
        BY <3>1, <4>1, PrefixElems DEF Reads
      <4> QED BY <2>2, <4>1, <4>2
    <3>2. CASE pc'[t] \in Batching /\ pc[t] \in Batching /\ Keeps(t)
      BY <2>1, <3>2 DEF Shape, Keeps, ListerInv
    <3> QED BY <2>1, <3>1, <3>2 DEF Shape
  <2>4. pc'[t] \in Rewriting => All(t)'
    BY <2>1 DEF Shape, ListerInv
  <2>5. ASSUME NEW u \in Tasks, u # t, pc'[u] \in Batching PROVE Prefix(u)'
    <3>1. /\ pc[u] \in Batching /\ op'[u].victims = op[u].victims /\ op'[u].size = op[u].size
          /\ op[u].size \in Nat /\ Prefix(u)
      BY <2>1, <2>5, Here DEF Shape, ListerInv, Locals
    <3>2. pc[t] \notin {"install", "replace", "sweep"}
      BY <2>5, <3>1 DEF OneReplaces, Replacing, Batching, Rewriting
    <3>3. CASE sstables' = sstables
      BY <3>1, <3>3
    <3>4. CASE sstables' = Append(sstables, op[t].id) /\ op[t].id \in Ids
      <4>1. /\ Len(sstables') = Len(sstables) + 1 /\ DOMAIN sstables' = 1..(Len(sstables) + 1)
            /\ \A k \in 1..Len(sstables) : sstables'[k] = sstables[k]
        BY <2>2, <3>4
      <4>2. op[u].size <= Len(sstables')
        BY <2>2, <3>1, <4>1
      <4>3. ASSUME NEW k \in DOMAIN sstables', k <= op[u].size
            PROVE  sstables'[k] \in Elems(op[u].victims)
        <5>1. k \in 1..Len(sstables)
          BY <2>2, <3>1, <4>1, <4>3
        <5> QED BY <2>2, <3>1, <4>1, <4>3, <5>1
      <4> QED BY <3>1, <4>2, <4>3
    <3> QED BY <2>1, <3>2, <3>3, <3>4 DEF Shape
  <2>6. ASSUME NEW u \in Tasks, u # t, pc'[u] \in Rewriting PROVE All(u)'
    <3>1. pc[u] \in Rewriting /\ op'[u].victims = op[u].victims /\ All(u)
      BY <2>1, <2>6 DEF Shape, ListerInv
    <3>2. pc[t] \notin {"copy", "install", "replace", "sweep"}
      BY <2>6, <3>1 DEF OneReplaces, Replacing, Batching, Rewriting
    <3>3. sstables' = sstables
      BY <2>1, <3>2 DEF Shape
    <3> QED BY <3>1, <3>3
  <2>7. scan' = 0
    BY <2>1 DEF Shape
  <2> QED BY <2>3, <2>4, <2>5, <2>6, <2>7 DEF ListerInv
<1>3. CASE Crash
  <2>1. \A t \in Tasks : pc'[t] = "idle"
    BY <1>3 DEF Crash
  <2> QED BY <2>1 DEF ListerInv, Batching, Rewriting
<1>4. CASE Recover
  <2>1. pc' = pc /\ scan # 0
    BY <1>4, Typed DEF Recover, RecoverOpen, RecoverServe
  <2>2. \A t \in Tasks : pc'[t] = "idle"
    BY <2>1 DEF ListerInv
  <2> QED BY <2>2 DEF ListerInv, Batching, Rewriting
<1> QED BY <1>1, <1>2, <1>3, <1>4 DEF Next

\* Only a task that flushes gets to flush or compact.
LEMMA FlusherStep == IdInv /\ OneFlusher /\ FlusherInv /\ [Next]_vars => FlusherInv'
<1> SUFFICES ASSUME IdInv, OneFlusher, FlusherInv, [Next]_vars PROVE FlusherInv'
  OBVIOUS
<1>1. CASE UNCHANGED vars
  BY <1>1 DEF vars, FlusherInv
<1>2. ASSUME NEW t \in Tasks,
             Write(t) \/ Flush(t) \/ Compact(t) \/ Delete(t) \/ Sweep(t) \/ Query(t)
      PROVE  FlusherInv'
  <2>1. Shape(t)
    BY <1>2, StepShape
  <2>2. \A u \in Tasks \ {t} : pc'[u] = pc[u]
    BY <2>1 DEF Shape
  <2>3. Busy(pc'[t]) => Busy(pc[t]) \/ t \in Flushers
    BY <2>1 DEF Shape, OneFlusher
  <2> QED BY <2>2, <2>3 DEF FlusherInv
<1>3. CASE Crash
  BY <1>3 DEF Crash, FlusherInv, Busy
<1>4. CASE Recover
  BY <1>4 DEF Recover, RecoverOpen, RecoverServe, FlusherInv
<1> QED BY <1>1, <1>2, <1>3, <1>4 DEF Next

\* Nothing runs yet.
LEMMA ApartInit == Init => LogInv /\ ListerInv /\ FlusherInv
  BY DEF Init, LogInv, ListerInv, FlusherInv, Batching, Rewriting, Busy

\* Between flushes the log handle is open on the file that replay will read, in every
\* behaviour in which no two flushes are in their window at a time: truncate, and a crash
\* at any point of it, leave the handle on the segment they have made.
THEOREM AttachedAlone == Spec /\ []OneFlushes => []LogAttached
<1>1. Init => LogInv
  BY ApartInit
<1>2. IdInv /\ LogInv /\ OneFlushes /\ [Next]_vars => LogInv'
  BY LogStep
<1>3. LogInv => LogAttached
  BY DEF LogInv, LogAttached, FlushRunning, InWindow
<1> QED BY <1>1, <1>2, <1>3, Inductive, PTL DEF Spec

\* A compaction and a deletion take from the list only what they have read of it, in every
\* behaviour in which no task replaces part of the list while another is between reading
\* and replacing.  Flushes may go on: they add at the end of the list.
THEOREM OwnWhenApart == Spec /\ []OneReplaces => []TakesOwn
<1>1. Init => ListerInv
  BY ApartInit
<1>2. IdInv /\ ListerInv /\ OneReplaces /\ [Next]_vars => ListerInv'
  BY ListerStep
<1>3. ListerInv => TakesOwn
  BY DEF ListerInv, TakesOwn, Batching, Rewriting
<1> QED BY <1>1, <1>2, <1>3, Inductive, PTL DEF Spec

\* With one task that flushes (the periodic flush where the memtable cannot become full, or
\* one writer without it) and neither deletions nor retention, as in the first run, none
\* flushes or replaces tables while another does.
LEMMA OneFlusherApart == OneFlusher /\ Spec => [](OneFlushes /\ OneReplaces)
<1>1. OneFlusher => []OneFlusher
  <2>1. OneFlusher => OneFlusher'
    BY DEF OneFlusher, Flushers
  <2> QED BY <2>1, PTL
<1>2. Init => FlusherInv
  BY ApartInit
<1>3. IdInv /\ OneFlusher /\ FlusherInv /\ [Next]_vars => FlusherInv'
  BY FlusherStep
<1>4. OneFlusher /\ FlusherInv => OneFlushes /\ OneReplaces
  BY DEF OneFlusher, FlusherInv, Busy, OneFlushes, OneReplaces, InWindow, Replacing, Batching,
     Rewriting
<1> QED BY <1>1, <1>2, <1>3, <1>4, Inductive, PTL DEF Spec

\* Then queries miss nothing and the log handle stays on the log, in every behaviour.
THEOREM OneFlusherSuffices == OneFlusher /\ Spec => [](QueryComplete /\ LogAttached)
  BY OneFlusherApart, AttachedAlone, OwnWhenApart, ReadsComplete, PTL

----------------------------------------------------------------------------
(* What a client sees: the refinement of DurableStore                      *)

Working(at) == at \notin {"idle", "dead"}
\* Nothing is in log, memtable, tables or a task's hands that no write has brought.
Origin ==
  /\ memtable \subseteq issued /\ walLog \subseteq issued
  /\ \A i \in Ids : files[i] \subseteq issued
  /\ \A t \in Tasks : op[t].must \subseteq issued /\ op[t].may \subseteq issued
\* A write under way is not acknowledged, and is of a frame of its own.
Owner(t) ==
  t \in Writers /\ Working(pc[t]) =>
    /\ op[t].arg \in issued /\ op[t].arg \notin acked
    /\ \A u \in Writers \ {t} : Working(pc[u]) => op[u].arg # op[t].arg
\* Deletions delete, and queries have what is of their device.
Role(t) ==
  /\ t \in Deleters => pc[t] \in Deleting \union {"idle"}
  /\ pc[t] \in Deleting => t \in Deleters /\ op[t].arg \in Devices
  /\ pc[t] \in {"tables", "answer"} =>
       t \in Queriers /\ op[t].arg \in Devices /\ op[t].must \subseteq FramesOf(op[t].arg)
\* The retention check's verdict on a table stays right as long as there is the table.
Verdict(t) == \A i \in op[t].expired : files[i] = {} \/ Expires(i)
StoreInv == Origin /\ \A t \in Tasks : Owner(t) /\ Role(t) /\ Verdict(t)

\* A step changes no file but by removing it, or by writing a table of its own.
Removes(t) ==
  \A i \in Ids : files'[i] = files[i] \/ files'[i] = {} \/ i \in NewOf(t) \/ nextId <= i
\* The write of t returns, if t is one.
Returns(t) ==
  /\ ~Working(pc'[t])
  /\ acked' = acked \/ (t \in Writers /\ Working(pc[t]) /\ acked' = acked \union {op[t].arg})
\* t goes on with its frame, or takes up a new one.
GoesOn(t) ==
  /\ acked' = acked
  /\ t \in Writers /\ Working(pc'[t]) =>
       \/ Working(pc[t]) /\ op'[t].arg = op[t].arg
       \/ op'[t].arg \in issued' /\ op'[t].arg \notin issued

\* A step of t keeps StoreInv if it brings no frame but from what is written, and keeps what
\* t has to say of itself.
LEMMA StoreStep ==
  ASSUME IdInv, ListInv, DurableInv, StoreInv, NEW t \in Tasks,
         \A u \in Tasks \ {t} : Untouched(u), Removes(t),
         issued \subseteq issued', GoesOn(t) \/ Returns(t), Origin', Role(t)',
         \A i \in op'[t].expired : i \in op[t].expired \/ Expires(i)'
  PROVE  StoreInv'
<1>1. \A u \in Tasks \ {t} : /\ pc'[u] = pc[u] /\ op'[u].arg = op[u].arg /\ op'[u].expired = op[u].expired
                             /\ pc[u] # "copy" => op'[u] = op[u]
  BY DEF Untouched, Same
<1>2. Writers \subseteq Tasks
  BY DEF Tasks
<1>3. acked \subseteq issued
  BY DEF DurableInv
<1>4. ASSUME NEW u \in Tasks PROVE Owner(u)'
  <2>1. SUFFICES ASSUME u \in Writers, Working(pc'[u])
                 PROVE  /\ op'[u].arg \in issued' /\ op'[u].arg \notin acked'
                        /\ \A v \in Writers \ {u} : Working(pc'[v]) => op'[v].arg # op'[u].arg
    BY DEF Owner
  <2>2. \A v \in Writers : Working(pc[v]) =>
          /\ op[v].arg \in issued /\ op[v].arg \notin acked
          /\ \A w \in Writers \ {v} : Working(pc[w]) => op[w].arg # op[v].arg
    BY <1>2 DEF StoreInv, Owner
  <2>3. CASE Returns(t)
    <3>1. \A v \in Writers : Working(pc'[v]) => v # t /\ Working(pc[v]) /\ op'[v].arg = op[v].arg
      BY <1>1, <1>2, <2>3 DEF Returns
    <3> QED BY <2>1, <2>2, <2>3, <3>1 DEF Returns
  <2>4. CASE GoesOn(t)
    <3>1. \A v \in Writers : Working(pc'[v]) =>
            \/ Working(pc[v]) /\ op'[v].arg = op[v].arg
            \/ v = t /\ op'[v].arg \in issued' /\ op'[v].arg \notin issued
      BY <1>1, <1>2, <2>4 DEF GoesOn
    <3>2. acked' = acked
      BY <2>4 DEF GoesOn
    <3> QED BY <1>3, <2>1, <2>2, <3>1, <3>2
  <2> QED BY <2>3, <2>4
<1>5. ASSUME NEW u \in Tasks PROVE Role(u)'
  <2>1. CASE u = t
    BY <2>1
  <2>2. CASE u # t
    <3>1. /\ pc'[u] = pc[u] /\ op'[u].arg = op[u].arg
          /\ pc[u] \in {"tables", "answer"} => op'[u].must = op[u].must
      BY <1>1, <2>2
    <3>2. Role(u)
      BY DEF StoreInv
    <3> QED BY <3>1, <3>2 DEF Role
  <2> QED BY <2>1, <2>2
<1>6. ASSUME NEW u \in Tasks PROVE Verdict(u)'
  <2>1. ASSUME NEW i \in op[u].expired PROVE files'[i] = {} \/ Expires(i)'
    <3>1. i \in OldOf(u) /\ i \in Ids /\ i < nextId
      BY IdsAreNat DEF OldOf, Old, ListInv, IdsApart
    <3>2. i \notin NewOf(t)
      BY <3>1 DEF ListInv, IdsApart
    <3>3. files'[i] = files[i] \/ files'[i] = {}
      BY <3>1, <3>2, Typed DEF Removes
    <3>4. files[i] = {} \/ Expires(i)
      BY <2>1 DEF StoreInv, Verdict
    <3> QED BY <3>3, <3>4 DEF Expires
  <2>2. \A i \in op'[u].expired : i \in op[u].expired \/ Expires(i)'
    BY <1>1
  <2> QED BY <2>1, <2>2 DEF Verdict
<1> QED BY <1>4, <1>5, <1>6 DEF StoreInv

\* A step that changes one file.
LEMMA OneFile ==
  ASSUME IdInv, StoreInv, NEW t \in Tasks, NEW e, NEW S, S \subseteq issued,
         files' = [files EXCEPT ![e] = S], S = {} \/ e \in NewOf(t) \/ e = nextId
  PROVE  Removes(t) /\ \A i \in Ids : files'[i] \subseteq issued
<1>1. ASSUME NEW i \in Ids PROVE files'[i] = IF i = e THEN S ELSE files[i]
  BY Typed
<1>2. \A i \in Ids : files[i] \subseteq issued
  BY DEF StoreInv, Origin
<1> QED BY <1>1, <1>2, Typed DEF Removes
LEMMA NoFile ==
  ASSUME StoreInv, NEW t \in Tasks, files' = files
  PROVE  Removes(t) /\ \A i \in Ids : files'[i] \subseteq issued
  BY DEF StoreInv, Origin, Removes

\* What the tasks have of the engine's frames, after a step of t alone.
LEMMA OriginStep ==
  ASSUME IdInv, StoreInv, NEW t \in Tasks, \A u \in Tasks \ {t} : op'[u] = op[u],
         issued \subseteq issued', memtable' \subseteq issued', walLog' \subseteq issued',
         \A i \in Ids : files'[i] \subseteq issued', op'[t].must \subseteq issued', op'[t].may \subseteq issued'
  PROVE  Origin'
<1>1. ASSUME NEW u \in Tasks PROVE op'[u].must \subseteq issued' /\ op'[u].may \subseteq issued'
  BY DEF StoreInv, Origin
<1> QED BY <1>1 DEF Origin

\* The store is as it was.
AtRest == /\ issued' = issued /\ acked' = acked /\ racy' = racy /\ doomed' = doomed /\ swept' = swept
          /\ (MovingNow' <=> MovingNow) /\ DeletingNow' = DeletingNow /\ RequestsNow' = RequestsNow
LEMMA Rests == AtRest => UNCHANGED Store!vars
  BY DEF AtRest, Store!vars, MovingNow

\* Requests are seen while a query runs, deletions while one runs.
LEMMA SameRequests ==
  ASSUME NEW t \in Tasks, \A u \in Tasks \ {t} : Untouched(u), t \in Queriers => RequestOf(t)' = RequestOf(t)
  PROVE  RequestsNow' = RequestsNow
<1>1. ASSUME NEW u \in Queriers PROVE RequestOf(u)' = RequestOf(u)
  <2>1. CASE u = t
    BY <2>1
  <2>2. CASE u # t
    <3>1. pc'[u] = pc[u] /\ (pc[u] # "copy" => op'[u] = op[u])
      BY <2>2 DEF Untouched, Tasks
    <3> QED BY <3>1 DEF RequestOf
  <2> QED BY <2>1, <2>2
<1> QED BY <1>1 DEF RequestsNow
LEMMA SameDeleting ==
  ASSUME NEW t \in Tasks, \A u \in Tasks \ {t} : Untouched(u),
         t \in Deleters => pc[t] # "idle" /\ pc'[t] # "idle" /\ op'[t].arg = op[t].arg
  PROVE  DeletingNow' = DeletingNow
<1>1. \A u \in Deleters : (pc'[u] # "idle" <=> pc[u] # "idle")
                          /\ (pc[u] # "idle" => op'[u].arg = op[u].arg)
  BY DEF Untouched, Same, Tasks
<1> QED BY <1>1 DEF DeletingNow

\* A step within a window, or out of one, or that leaves the log and its handle where they are.
Steady(t) == InWindow(t) \/ (~InWindow(t)' /\ walCur' = walCur /\ walPath' = walPath)
LEMMA MovingStep ==
  ASSUME NEW t \in Tasks, \A u \in Tasks \ {t} : Untouched(u), Steady(t), MovingNow'
  PROVE  MovingNow
<1>1. \A u \in Tasks \ {t} : InWindow(u)' <=> InWindow(u)
  BY DEF InWindow, Untouched
<1> QED BY <1>1 DEF MovingNow, FlushRunning, Steady

\* A step that makes no exceptions and brings no frames.
Calm(t) ==
  /\ issued' = issued /\ racy' = racy /\ doomed' = doomed /\ swept' = swept
  /\ memtable' \subseteq issued /\ walLog' \subseteq issued
  /\ Removes(t) /\ \A i \in Ids : files'[i] \subseteq issued
  /\ Steady(t)
\* One of t, alone, that a client may see only as the end of a write.
Unseen(t) ==
  /\ Calm(t)
  /\ \A u \in Tasks \ {t} : pc'[u] = pc[u] /\ op'[u] = op[u]
  /\ pc[t] \notin {"tables", "answer"} /\ pc'[t] \notin {"tables", "answer"}
  /\ GoesOn(t) \/ Returns(t)
  /\ t \in Deleters => pc[t] # "idle" /\ pc'[t] \in Deleting /\ op'[t].arg = op[t].arg
  /\ t \notin Deleters => pc'[t] \notin Deleting
  /\ op'[t].must \subseteq issued /\ op'[t].may \subseteq issued
  /\ \A i \in op'[t].expired : i \in op[t].expired \/ Expires(i)'
LEMMA UnseenStep ==
  ASSUME IdInv, ListInv, DurableInv, StoreInv, NEW t \in Tasks, Unseen(t)
  PROVE  StoreInv' /\ (Store!Next \/ AtRest)
<1>1. \A u \in Tasks \ {t} : Untouched(u)
  BY OthersUntouched DEF Unseen
<1> USE DEF Calm
<1>2. StoreInv'
  <2>1. Origin'
    BY OriginStep DEF Unseen
  <2>2. Role(t)'
    <3>1. Role(t)
      BY DEF StoreInv
    <3> QED BY <3>1 DEF Role, Unseen
  <2> QED BY <1>1, <2>1, <2>2, StoreStep DEF Unseen
<1>3. RequestsNow' = RequestsNow
  BY <1>1, SameRequests DEF Unseen, RequestOf
<1>4. DeletingNow' = DeletingNow
  <2>1. t \in Deleters => pc[t] # "idle" /\ pc'[t] # "idle" /\ op'[t].arg = op[t].arg
    BY DEF Unseen, Deleting
  <2> QED BY <1>1, <2>1, SameDeleting
<1>5. issued' = issued /\ racy' = racy /\ doomed' = doomed /\ swept' = swept
  BY DEF Unseen
<1>6. MovingNow' => MovingNow
  BY <1>1, MovingStep DEF Unseen
<1>7. CASE acked' = acked
  <2>1. CASE MovingNow' <=> MovingNow
    BY <1>2, <1>3, <1>4, <1>5, <1>7, <2>1 DEF AtRest
  <2>2. CASE MovingNow /\ ~MovingNow'
    <3>1. Store!Settle
      BY <1>3, <1>4, <1>5, <1>7, <2>2 DEF Store!Settle
    <3> QED BY <1>2, <3>1 DEF Store!Next
  <2> QED BY <1>2, <1>6, <2>1, <2>2
<1>8. CASE acked' # acked
  <2>1. t \in Writers /\ Working(pc[t]) /\ acked' = acked \union {op[t].arg}
    BY <1>8 DEF Unseen, GoesOn, Returns
  <2>2. op[t].arg \in issued \ acked
    BY <2>1 DEF StoreInv, Owner
  <2>3. MovingNow' \in {MovingNow, FALSE}
    BY <1>6 DEF MovingNow
  <2>4. Store!Acknowledge(op[t].arg)
    BY <1>3, <1>4, <1>5, <2>1, <2>3 DEF Store!Acknowledge
  <2> QED BY <1>2, <2>2, <2>4 DEF Store!Next, Store!Pending
<1> QED BY <1>2, <1>7, <1>8

\* A step with which t goes on with its operation, or ends it.
Alone(t, at, r) == pc' = [pc EXCEPT ![t] = at] /\ op' = [op EXCEPT ![t] = r]
LEMMA AloneIs ==
  ASSUME IdInv, NEW t \in Tasks, NEW at, NEW r, Alone(t, at, r)
  PROVE  pc'[t] = at /\ op'[t] = r /\ \A u \in Tasks \ {t} : pc'[u] = pc[u] /\ op'[u] = op[u]
  BY DEF Alone, IdInv, TypeOK, TasksType
\* What it has of frames is nothing new.
Hands(t, r) == /\ r.arg = op[t].arg /\ r.must \subseteq issued /\ r.may \subseteq issued
               /\ r.expired \subseteq op[t].expired
InQuery(at) == at \in {"tables", "answer"}
Onwards(t, at) == /\ Working(pc[t]) /\ Working(at) /\ ~InQuery(pc[t]) /\ ~InQuery(at)
                  /\ pc[t] \in Deleting <=> at \in Deleting
Outwards(t, at) == Working(pc[t]) /\ ~InQuery(pc[t]) /\ pc[t] \notin Deleting /\ at \in {"idle", "dead"}
LEMMA UnseenOn ==
  ASSUME IdInv, StoreInv, NEW t \in Tasks, NEW at, NEW r, Alone(t, at, r), Hands(t, r),
         Onwards(t, at), acked' = acked, Calm(t)
  PROVE  Unseen(t)
<1>1. Role(t)
  BY DEF StoreInv
<1>2. /\ pc'[t] = at /\ op'[t] = r
      /\ \A u \in Tasks \ {t} : pc'[u] = pc[u] /\ op'[u] = op[u]
  BY AloneIs
<1>3. GoesOn(t)
  BY <1>2 DEF GoesOn, Hands, Onwards
<1>4. pc[t] \in Deleting <=> t \in Deleters
  BY <1>1 DEF Role, Working, Onwards
<1> QED BY <1>2, <1>3, <1>4 DEF Unseen, Working, Hands, InQuery, Onwards
LEMMA NoOpHas == NoOp.must = {} /\ NoOp.may = {} /\ NoOp.expired = {}
  BY DEF NoOp
LEMMA UnseenOut ==
  ASSUME IdInv, StoreInv, NEW t \in Tasks, NEW at, Alone(t, at, NoOp), Outwards(t, at), Calm(t),
         acked' = acked \/ (acked' = IF t \in Writers THEN acked \union {op[t].arg} ELSE acked)
  PROVE  Unseen(t)
<1>1. Role(t)
  BY DEF StoreInv
<1>2. /\ pc'[t] = at /\ op'[t] = NoOp
      /\ \A u \in Tasks \ {t} : pc'[u] = pc[u] /\ op'[u] = op[u]
  BY AloneIs
<1>3. Returns(t)
  BY <1>2 DEF Returns, Working, Outwards
<1>4. t \notin Deleters
  BY <1>1 DEF Role, Working, Outwards
<1>5. at \notin Deleting \union {"tables", "answer"}
  BY DEF Deleting, Outwards
<1> QED BY <1>2, <1>3, <1>4, <1>5, NoOpHas DEF Unseen, InQuery, Outwards

\* A step that changes no file, and takes from memtable and log at most.
LEMMA SameFrames ==
  ASSUME StoreInv, NEW t \in Tasks
  PROVE  /\ op[t].must \subseteq issued /\ op[t].may \subseteq issued
         /\ memtable \subseteq issued /\ walLog \subseteq issued
  BY DEF StoreInv, Origin
LEMMA CalmStep ==
  ASSUME StoreInv, NEW t \in Tasks, files' = files, memtable' \subseteq memtable, walLog' \subseteq walLog,
         issued' = issued, racy' = racy, doomed' = doomed, swept' = swept, Steady(t)
  PROVE  Calm(t)
  BY NoFile, SameFrames DEF Calm

\* What a flush does after it began.
LEMMA FlushUnseen ==
  ASSUME IdInv, ListInv, DurableInv, StoreInv, NEW t \in Tasks, Flush(t), ~FlushBegin(t)
  PROVE  Unseen(t)
<1>1. ASSUME TimerTick(t) PROVE Unseen(t)
  <2>1. /\ pc[t] = "idle" /\ t \in Timers /\ pc' = [pc EXCEPT ![t] = "flush"] /\ op' = op
        /\ files' = files /\ memtable' = memtable /\ walLog' = walLog
        /\ walCur' = walCur /\ walPath' = walPath
        /\ issued' = issued /\ acked' = acked /\ racy' = racy /\ doomed' = doomed /\ swept' = swept
    BY <1>1 DEF TimerTick, disk, memory, history
  <2>2. t \notin Writers /\ t \notin Deleters
    BY <2>1, RolesAssumption
  <2>3. pc'[t] = "flush" /\ \A u \in Tasks \ {t} : pc'[u] = pc[u] /\ op'[u] = op[u]
    BY <2>1 DEF IdInv, TypeOK, TasksType
  <2>4. GoesOn(t) /\ Steady(t)
    BY <2>1, <2>2, <2>3 DEF GoesOn, Steady, InWindow
  <2>5. Calm(t)
    BY <2>1, <2>4, CalmStep
  <2> QED BY <2>1, <2>2, <2>3, <2>4, <2>5, SameFrames DEF Unseen, Deleting
<1>2. ASSUME NEW extra \in SUBSET op[t].may, FlushPublish(t, op[t].must \union extra)
      PROVE  Unseen(t)
  <2> DEFINE copied == op[t].must \union extra
             r == [op[t] EXCEPT !.must = {}, !.may = {}]
  <2>1. /\ pc[t] = "copy" /\ memtable' = memtable /\ walLog' = walLog
        /\ issued' = issued /\ acked' = acked /\ racy' = racy /\ doomed' = doomed /\ swept' = swept
    BY <1>2 DEF FlushPublish
  <2>2. copied \subseteq issued
    BY SameFrames
  <2>3. Steady(t) /\ Onwards(t, "clear") /\ Outwards(t, "idle")
    BY <2>1 DEF Steady, InWindow, Onwards, Outwards, Working, InQuery, Deleting
  <2>4. CASE copied = {}
    <3>1. Alone(t, "idle", NoOp) /\ files' = files
      BY <1>2, <2>4 DEF FlushPublish, Alone
    <3>2. Calm(t)
      BY <2>1, <2>3, <3>1, CalmStep
    <3> QED BY <2>1, <2>3, <3>1, <3>2, UnseenOut
  <2>5. CASE copied # {}
    <3>1. Alone(t, "clear", r) /\ files' = [files EXCEPT ![op[t].id] = copied]
      BY <1>2, <2>5 DEF FlushPublish, Alone
    <3>2. Hands(t, r)
      BY Here DEF Locals, Hands
    <3> HIDE DEF r, copied
    <3>3. op[t].id \in NewOf(t)
      BY <2>1 DEF NewOf, New
    <3>4. Removes(t) /\ \A i \in Ids : files'[i] \subseteq issued
      BY <2>2, <3>1, <3>3, OneFile
    <3>5. Calm(t)
      BY <2>1, <2>3, <3>4, SameFrames DEF Calm
    <3> QED BY <2>1, <2>3, <3>1, <3>2, <3>5, UnseenOn
  <2> QED BY <2>4, <2>5
<1>3. ASSUME FlushClear(t) \/ TruncateCheck(t) \/ TruncateReopen(t) PROVE Unseen(t)
  <2>1. /\ files' = files /\ memtable' \subseteq memtable /\ walLog' = walLog
        /\ issued' = issued /\ acked' = acked /\ racy' = racy /\ doomed' = doomed /\ swept' = swept
        /\ pc[t] \in {"clear", "check", "reopen"}
    BY <1>3 DEF FlushClear, TruncateCheck, TruncateReopen, disk, memory, history
  <2>2. Calm(t)
    <3>1. pc[t] \in {"clear", "check", "reopen"}
      BY <2>1
    <3>2. InWindow(t)
      BY <3>1 DEF InWindow
    <3>3. Steady(t)
      BY <3>2 DEF Steady
    <3> QED BY <2>1, <3>3, CalmStep
  <2>3. PICK at \in {"check", "unlink", "reopen", "swap"},
             r \in {[op[t] EXCEPT !.inode = i] : i \in Inodes} \union {op[t]} : Alone(t, at, r)
    <3>1. CASE FlushClear(t)
      BY <3>1, Here DEF FlushClear, Alone
    <3>2. CASE TruncateCheck(t)
      BY <3>2, Here DEF TruncateCheck, history, Alone
    <3>3. CASE TruncateReopen(t)
      BY <3>3, Here DEF TruncateReopen, history, Alone
    <3> QED BY <1>3, <3>1, <3>2, <3>3
  <2>4. Hands(t, r)
    <3>1. /\ r.arg = op[t].arg /\ r.must = op[t].must /\ r.may = op[t].may
          /\ r.expired = op[t].expired
      BY <2>3, Here DEF Locals
    <3> QED BY <3>1, SameFrames DEF Hands
  <2>5. Onwards(t, at)
    BY <2>1 DEF Onwards, Working, InQuery, Deleting
  <2> QED BY <2>1, <2>2, <2>3, <2>4, <2>5, UnseenOn
<1>4. ASSUME TruncateUnlink(t) PROVE Unseen(t)
  <2>1. /\ pc[t] = "unlink" /\ files' = files /\ memtable' = memtable /\ walLog' \subseteq walLog
        /\ issued' = issued /\ acked' = acked /\ racy' = racy /\ doomed' = doomed /\ swept' = swept
    BY <1>4 DEF TruncateUnlink, memory
  <2>2. Calm(t)
    BY <2>1, CalmStep DEF Steady, InWindow
  <2>3. Onwards(t, "reopen") /\ Outwards(t, "idle")
    BY <2>1 DEF Onwards, Outwards, Working, InQuery, Deleting
  <2>4. CASE Alone(t, "idle", NoOp)
    BY <2>1, <2>2, <2>3, <2>4, UnseenOut
  <2>5. CASE Alone(t, "reopen", op[t])
    <3>1. Hands(t, op[t])
      BY SameFrames DEF Hands
    <3> QED BY <2>1, <2>2, <2>3, <2>5, <3>1, UnseenOn
  <2> QED BY <1>4, <2>4, <2>5, Here DEF TruncateUnlink, Alone
<1>5. ASSUME TruncateSwap(t) PROVE Unseen(t)
  <2> DEFINE r == [op[t] EXCEPT !.inode = None, !.id = 0]
  <2>1. /\ pc[t] = "swap" /\ files' = files /\ memtable' = memtable /\ walLog' = walLog
        /\ issued' = issued /\ racy' = racy /\ doomed' = doomed /\ swept' = swept
    BY <1>5 DEF TruncateSwap, disk
  <2>2. Calm(t)
    BY <2>1, CalmStep DEF Steady, InWindow
  <2>3. Onwards(t, "measure") /\ Outwards(t, "idle")
    BY <2>1 DEF Onwards, Outwards, Working, InQuery, Deleting
  <2>4. Hands(t, r)
    BY Here, SameFrames DEF Locals, Hands
  <2>5. CASE Alone(t, "measure", r) /\ acked' = acked
    <3> HIDE DEF r
    <3> QED BY <2>2, <2>3, <2>4, <2>5, UnseenOn
  <2>6. CASE Succeed(t)
    <3>1. Alone(t, "idle", NoOp)
      BY <2>6 DEF Alone
    <3> QED BY <2>2, <2>3, <2>6, <3>1, UnseenOut
  <2> QED BY <1>5, <2>5, <2>6 DEF TruncateSwap, Alone
<1> QED BY <1>1, <1>2, <1>3, <1>4, <1>5 DEF Flush

\* A compaction is not seen but for the end of the write that ran it.
LEMMA CompactUnseen ==
  ASSUME IdInv, ListInv, DurableInv, StoreInv, NEW t \in Tasks, Compact(t) PROVE Unseen(t)
<1>0. /\ memtable' = memtable /\ walLog' = walLog /\ walCur' = walCur /\ walPath' = walPath
      /\ issued' = issued /\ racy' = racy /\ doomed' = doomed /\ swept' = swept
  BY DEF Compact, CompactMeasure, CompactSnapshot, CompactBegin, CompactFinish, CompactInstall,
     CompactPurge, disk, memory, history
<1>1. ASSUME pc[t] \in {"measure", "snapshot", "merge", "merging", "install", "purge"},
             NEW at \in {"snapshot", "merge", "merging", "install", "purge"}, NEW r, Alone(t, at, r)
      PROVE  Onwards(t, at) /\ Steady(t)
  BY <1>0, <1>1, AloneIs DEF Onwards, Working, InQuery, Deleting, Steady, InWindow
<1>2. ASSUME pc[t] \in {"snapshot", "merge", "install", "purge"}, NEW at \in {"idle", "dead"}, NEW r,
             Alone(t, at, r)
      PROVE  Outwards(t, at) /\ Steady(t)
  BY <1>0, <1>2, AloneIs DEF Outwards, Working, InQuery, Deleting, Steady, InWindow
<1>3. ASSUME CompactMeasure(t) PROVE Unseen(t)
  <2> DEFINE n == IF CompactionThreshold < Len(sstables) THEN CompactionThreshold ELSE Len(sstables)
             r == [op[t] EXCEPT !.size = n]
  <2>1. /\ pc[t] = "measure" /\ Alone(t, "snapshot", r) /\ files' = files /\ acked' = acked
    BY <1>3 DEF CompactMeasure, disk, history, Alone
  <2>2. Hands(t, r)
    BY Here, SameFrames DEF Locals, Hands
  <2> HIDE DEF r, n
  <2>3. Onwards(t, "snapshot") /\ Steady(t)
    BY <1>1, <2>1
  <2>4. Calm(t)
    BY <1>0, <2>1, <2>3, CalmStep
  <2> QED BY <2>1, <2>2, <2>3, <2>4, UnseenOn
<1>4. ASSUME CompactSnapshot(t) PROVE Unseen(t)
  <2> DEFINE r == [op[t] EXCEPT !.victims = SubSeq(sstables, 1, op[t].size)]
  <2>1. /\ pc[t] = "snapshot" /\ files' = files /\ acked' = acked
        /\ Alone(t, "dead", NoOp) \/ Alone(t, "merge", r)
    BY <1>4 DEF CompactSnapshot, disk, Alone
  <2>2. Hands(t, r)
    BY Here, SameFrames DEF Locals, Hands
  <2> HIDE DEF r
  <2>3. CASE Alone(t, "merge", r)
    <3>1. Onwards(t, "merge") /\ Steady(t)
      BY <1>1, <2>1, <2>3
    <3>2. Calm(t)
      BY <1>0, <2>1, <3>1, CalmStep
    <3> QED BY <2>1, <2>2, <2>3, <3>1, <3>2, UnseenOn
  <2>4. CASE Alone(t, "dead", NoOp)
    <3>1. Outwards(t, "dead") /\ Steady(t)
      BY <1>2, <2>1, <2>4
    <3>2. Calm(t)
      BY <1>0, <2>1, <3>1, CalmStep
    <3> QED BY <2>1, <2>4, <3>1, <3>2, UnseenOut
  <2> QED BY <2>1, <2>3, <2>4
<1>5. ASSUME NEW merged \in SUBSET Stored, CompactBegin(t, merged) PROVE Unseen(t)
  <2> DEFINE r == [op[t] EXCEPT !.id = nextId, !.must = merged]
  <2>1. /\ pc[t] = "merge" /\ acked' = acked
        /\ \/ Alone(t, "idle", NoOp) /\ files' = files
           \/ Alone(t, "merging", r) /\ files' = [files EXCEPT ![nextId] = {}]
    BY <1>5 DEF CompactBegin, Alone
  <2>2. merged \subseteq issued
    BY DEF Stored, StoreInv, Origin
  <2>3. Hands(t, r)
    BY <2>2, Here, SameFrames DEF Locals, Hands
  <2> HIDE DEF r
  <2>4. CASE Alone(t, "merging", r) /\ files' = [files EXCEPT ![nextId] = {}]
    <3>1. Onwards(t, "merging") /\ Steady(t)
      BY <1>1, <2>1, <2>4
    <3>2. Removes(t) /\ \A i \in Ids : files'[i] \subseteq issued
      <4>1. \A i \in Ids : files'[i] = files[i] \/ files'[i] = {}
        BY <2>4, Typed
      <4> QED BY <4>1 DEF Removes, StoreInv, Origin
    <3>3. Calm(t)
      BY <1>0, <3>1, <3>2, SameFrames DEF Calm
    <3> QED BY <2>1, <2>3, <2>4, <3>1, <3>3, UnseenOn
  <2>5. CASE Alone(t, "idle", NoOp) /\ files' = files
    <3>1. Outwards(t, "idle") /\ Steady(t)
      BY <1>2, <2>1, <2>5
    <3>2. Calm(t)
      BY <1>0, <2>5, <3>1, CalmStep
    <3> QED BY <2>1, <2>5, <3>1, <3>2, UnseenOut
  <2> QED BY <2>1, <2>4, <2>5
<1>6. ASSUME CompactFinish(t) PROVE Unseen(t)
  <2> DEFINE r == [op[t] EXCEPT !.must = {}]
  <2>1. /\ pc[t] = "merging" /\ acked' = acked /\ Alone(t, "install", r)
        /\ files' = [files EXCEPT ![op[t].id] = op[t].must]
    BY <1>6 DEF CompactFinish, history, Alone
  <2>2. Hands(t, r)
    BY Here, SameFrames DEF Locals, Hands
  <2> HIDE DEF r
  <2>3. Onwards(t, "install") /\ Steady(t)
    BY <1>1, <2>1
  <2>4. op[t].id \in NewOf(t) /\ op[t].must \subseteq issued
    BY <2>1, SameFrames DEF NewOf, New
  <2>5. Removes(t) /\ \A i \in Ids : files'[i] \subseteq issued
    BY <2>1, <2>4, OneFile
  <2>6. Calm(t)
    BY <1>0, <2>3, <2>5, SameFrames DEF Calm
  <2> QED BY <2>1, <2>2, <2>3, <2>6, UnseenOn
<1>7. ASSUME CompactInstall(t) PROVE Unseen(t)
  <2>1. /\ pc[t] = "install" /\ files' = files /\ acked' = acked
        /\ Alone(t, "dead", NoOp) \/ Alone(t, "purge", op[t])
    BY <1>7, Here DEF CompactInstall, disk, Alone
  <2>2. Hands(t, op[t])
    BY SameFrames DEF Hands
  <2>3. CASE Alone(t, "purge", op[t])
    <3>1. Onwards(t, "purge") /\ Steady(t)
      BY <1>1, <2>1, <2>3
    <3>2. Calm(t)
      BY <1>0, <2>1, <3>1, CalmStep
    <3> QED BY <2>1, <2>2, <2>3, <3>1, <3>2, UnseenOn
  <2>4. CASE Alone(t, "dead", NoOp)
    <3>1. Outwards(t, "dead") /\ Steady(t)
      BY <1>2, <2>1, <2>4
    <3>2. Calm(t)
      BY <1>0, <2>1, <3>1, CalmStep
    <3> QED BY <2>1, <2>4, <3>1, <3>2, UnseenOut
  <2> QED BY <2>1, <2>3, <2>4
<1>8. ASSUME CompactPurge(t) PROVE Unseen(t)
  <2> DEFINE r == [op[t] EXCEPT !.victims = Tail(op[t].victims)]
  <2>1. /\ pc[t] = "purge" /\ files' = [files EXCEPT ![Head(op[t].victims)] = {}]
        /\ \/ Alone(t, "idle", NoOp) /\ acked' = IF t \in Writers THEN acked \union {op[t].arg} ELSE acked
           \/ Alone(t, "purge", r) /\ acked' = acked
    BY <1>8, Here DEF CompactPurge, Alone
  <2>2. Hands(t, r)
    BY Here, SameFrames DEF Locals, Hands
  <2> HIDE DEF r
  <2>3. Removes(t) /\ \A i \in Ids : files'[i] \subseteq issued
    <3>1. PICK e : files' = [files EXCEPT ![e] = {}]
      BY <2>1
    <3>2. {} \subseteq issued
      OBVIOUS
    <3> QED BY <3>1, <3>2, OneFile
  <2>4. CASE Alone(t, "purge", r) /\ acked' = acked
    <3>1. Onwards(t, "purge") /\ Steady(t)
      BY <1>1, <2>1, <2>4
    <3>2. Calm(t)
      BY <1>0, <2>3, <3>1, SameFrames DEF Calm
    <3> QED BY <2>2, <2>4, <3>1, <3>2, UnseenOn
  <2>5. CASE Alone(t, "idle", NoOp) /\ acked' = IF t \in Writers THEN acked \union {op[t].arg} ELSE acked
    <3>1. Outwards(t, "idle") /\ Steady(t)
      BY <1>2, <2>1, <2>5
    <3>2. Calm(t)
      BY <1>0, <2>3, <3>1, SameFrames DEF Calm
    <3> QED BY <2>5, <3>1, <3>2, UnseenOut
  <2> QED BY <2>1, <2>4, <2>5
<1> QED BY <1>3, <1>4, <1>5, <1>6, <1>7, <1>8 DEF Compact

\* A deletion between its begin and its end.
LEMMA DeleteUnseen ==
  ASSUME IdInv, ListInv, DurableInv, StoreInv, NEW t \in Tasks, Delete(t), pc[t] \in Deleting,
         pc'[t] \in Deleting
  PROVE  Unseen(t)
<1>0. /\ memtable' = memtable /\ walLog' = walLog /\ walCur' = walCur /\ walPath' = walPath
      /\ issued' = issued /\ acked' = acked /\ racy' = racy /\ doomed' = doomed /\ swept' = swept
  <2>1. \A d \in Devices : ~DeleteBegin(t, d)
    BY DEF DeleteBegin, Deleting
  <2>2. ~DeleteUnregister(t)
    BY DEF DeleteUnregister, IdInv, TypeOK, TasksType, Deleting
  <2> QED BY <2>1, <2>2 DEF Delete, DeleteSnapshot, DeleteOpen, DeleteRewrite, DeleteReplace,
     DeleteErase, disk, memory, history
<1>1. Onwards(t, pc'[t]) /\ Steady(t)
  BY <1>0 DEF Onwards, Working, InQuery, Deleting, Steady, InWindow
<1>2. ASSUME NEW at, NEW r, Alone(t, at, r), Hands(t, r),
             \/ files' = files
             \/ \E e, S : files' = [files EXCEPT ![e] = S] /\ S \subseteq issued /\ (S = {} \/ e = nextId)
      PROVE  Unseen(t)
  <2>1. Removes(t) /\ \A i \in Ids : files'[i] \subseteq issued
    BY <1>2, NoFile, OneFile
  <2>2. Calm(t)
    BY <1>0, <1>1, <2>1, SameFrames DEF Calm
  <2>3. at = pc'[t]
    BY <1>2, AloneIs
  <2> QED BY <1>0, <1>1, <1>2, <2>2, <2>3, UnseenOn
<1>3. ASSUME DeleteSnapshot(t) PROVE Unseen(t)
  <2> DEFINE r == [op[t] EXCEPT !.victims = sstables, !.fresh = <<>>, !.size = 0]
             at == IF sstables = <<>> THEN "unregister" ELSE "open"
  <2>1. Alone(t, at, r) /\ files' = files
    BY <1>3 DEF DeleteSnapshot, disk, Alone
  <2>2. Hands(t, r)
    BY Here, SameFrames DEF Locals, Hands
  <2> HIDE DEF at, r
  <2> QED BY <1>2, <2>1, <2>2
<1>4. ASSUME DeleteOpen(t) PROVE Unseen(t)
  <2>1. ~Fail(t)
    BY DEF IdInv, TypeOK, TasksType, Deleting
  <2>2. Alone(t, "rewrite", op[t]) /\ files' = files
    BY <1>4, <2>1, Here DEF DeleteOpen, disk, Alone
  <2>3. Hands(t, op[t])
    BY SameFrames DEF Hands
  <2> QED BY <1>2, <2>2, <2>3
<1>5. ASSUME DeleteRewrite(t) PROVE Unseen(t)
  <2> DEFINE source == files[op[t].victims[op[t].size + 1]]
             rest == Kept(source, op[t].arg)
             q == [op[t] EXCEPT !.size = op[t].size + 1]
             r == [op[t] EXCEPT !.size = op[t].size + 1, !.fresh = Append(op[t].fresh, nextId)]
             at == IF op[t].size + 1 = Len(op[t].victims) THEN "replace" ELSE "rewrite"
  <2>1. ~Fail(t)
    BY DEF IdInv, TypeOK, TasksType, Deleting
  <2>2. \/ Alone(t, at, q) /\ files' = files
        \/ Alone(t, at, r) /\ files' = [files EXCEPT ![nextId] = rest]
    BY <1>5, <2>1 DEF DeleteRewrite, Alone
  <2>3. Hands(t, q) /\ Hands(t, r)
    BY Here, SameFrames DEF Locals, Hands
  <2>4. rest \subseteq issued
    <3>1. pc[t] = "rewrite"
      BY <1>5 DEF DeleteRewrite
    <3>2. op[t].victims \in Seq(Ids) /\ op[t].size \in Nat /\ op[t].size < Len(op[t].victims)
      BY <3>1, Here DEF Locals, Fits
    <3>3. op[t].size + 1 \in 1..Len(op[t].victims)
      BY <3>2
    <3>4. op[t].victims[op[t].size + 1] \in Ids
      <4> HIDE DEF Ids
      <4> QED BY <3>2, <3>3, ElementOfSeq
    <3> QED BY <3>4 DEF Kept, StoreInv, Origin
  <2> HIDE DEF at, q, r, rest
  <2> QED BY <1>2, <2>2, <2>3, <2>4
<1>6. ASSUME DeleteReplace(t) PROVE Unseen(t)
  <2> DEFINE r == [op[t] EXCEPT !.fresh = <<>>, !.size = 0]
  <2>1. Alone(t, "erase", r) /\ files' = files
    BY <1>6 DEF DeleteReplace, disk, Alone
  <2>2. Hands(t, r)
    BY Here, SameFrames DEF Locals, Hands
  <2> HIDE DEF r
  <2> QED BY <1>2, <2>1, <2>2
<1>7. ASSUME DeleteErase(t) PROVE Unseen(t)
  <2> DEFINE r == [op[t] EXCEPT !.victims = Tail(op[t].victims)]
             at == IF Len(op[t].victims) = 1 THEN "unregister" ELSE "erase"
  <2>1. Alone(t, at, r) /\ files' = [files EXCEPT ![Head(op[t].victims)] = {}]
    BY <1>7 DEF DeleteErase, Alone
  <2>2. Hands(t, r)
    BY Here, SameFrames DEF Locals, Hands
  <2> HIDE DEF at, r
  <2> QED BY <1>2, <2>1, <2>2
<1>8. \A d \in Devices : ~DeleteBegin(t, d)
  BY DEF DeleteBegin, Deleting
<1>9. ~DeleteUnregister(t)
  BY DEF DeleteUnregister, IdInv, TypeOK, TasksType, Deleting
<1> QED BY <1>3, <1>4, <1>5, <1>6, <1>7, <1>8, <1>9 DEF Delete
\* The end of a deletion.
LEMMA DeleteEnds ==
  ASSUME IdInv, ListInv, DurableInv, StoreInv, NEW t \in Tasks, Delete(t), pc[t] \in Deleting,
         pc'[t] \notin Deleting
  PROVE  StoreInv' /\ (Store!Next \/ AtRest)
<1>1. /\ pc' = [pc EXCEPT ![t] = "idle"] /\ op' = [op EXCEPT ![t] = NoOp]
      /\ files' = files /\ memtable' = memtable /\ walLog' = walLog
      /\ walCur' = walCur /\ walPath' = walPath
      /\ issued' = issued /\ acked' = acked /\ racy' = racy /\ doomed' = doomed /\ swept' = swept
  <2> USE DEF IdInv, TypeOK, TasksType, Deleting
  <2>1. \A d \in Devices : ~DeleteBegin(t, d)
    BY DEF DeleteBegin
  <2>2. ~DeleteSnapshot(t) /\ ~DeleteReplace(t) /\ ~DeleteErase(t)
    BY DEF DeleteSnapshot, DeleteReplace, DeleteErase
  <2>3. CASE DeleteOpen(t)
    BY <2>3 DEF DeleteOpen, disk, memory
  <2>4. CASE DeleteRewrite(t)
    <3>1. Fail(t)
      BY <2>4 DEF DeleteRewrite
    <3>2. files[op[t].victims[op[t].size + 1]] = {}
      BY <2>4 DEF DeleteRewrite
    <3> QED BY <2>4, <3>1, <3>2 DEF DeleteRewrite
  <2>5. CASE DeleteUnregister(t)
    BY <2>5 DEF DeleteUnregister, disk
  <2> QED BY <2>1, <2>2, <2>3, <2>4, <2>5 DEF Delete
<1>2. t \in Deleters /\ op[t].arg \in Devices /\ t \notin Writers /\ t \notin Queriers
  BY RolesAssumption DEF StoreInv, Role
<1>3. /\ pc'[t] = "idle" /\ op'[t] = NoOp /\ \A u \in Tasks \ {t} : pc'[u] = pc[u] /\ op'[u] = op[u]
  BY <1>1, AloneIs DEF Alone
<1>4. \A u \in Tasks \ {t} : Untouched(u)
  BY <1>3, OthersUntouched
<1>5. StoreInv'
  <2>1. Origin'
    BY <1>1, <1>3, NoOpHas, NoFile, SameFrames, OriginStep
  <2>2. Role(t)'
    BY <1>3 DEF Role, Deleting
  <2>3. GoesOn(t)
    BY <1>1, <1>2 DEF GoesOn
  <2> QED BY <1>1, <1>3, <1>4, <2>1, <2>2, <2>3, NoOpHas, NoFile, StoreStep
<1>6. RequestsNow' = RequestsNow
  BY <1>2, <1>4, SameRequests
<1>7. MovingNow' <=> MovingNow
  <2>1. \A u \in Tasks : InWindow(u)' <=> InWindow(u)
    BY <1>3 DEF InWindow, Deleting
  <2> QED BY <1>1, <2>1 DEF MovingNow, FlushRunning
<1>8. \A e : e \in DeletingNow' <=> \E u \in Deleters \ {t} : pc[u] # "idle" /\ op[u].arg = e
  BY <1>3 DEF DeletingNow, Tasks
<1>9. \A e : e \in DeletingNow <=>
        e = op[t].arg \/ \E u \in Deleters \ {t} : pc[u] # "idle" /\ op[u].arg = e
  BY <1>2 DEF DeletingNow, Deleting
\* Another request may be deleting the same device.
<1>10. CASE \E u \in Deleters \ {t} : pc[u] # "idle" /\ op[u].arg = op[t].arg
  <2>1. DeletingNow' = DeletingNow
    BY <1>8, <1>9, <1>10
  <2> QED BY <1>1, <1>5, <1>6, <1>7, <2>1 DEF AtRest
<1>11. CASE ~\E u \in Deleters \ {t} : pc[u] # "idle" /\ op[u].arg = op[t].arg
  <2>1. DeletingNow' = DeletingNow \ {op[t].arg} /\ op[t].arg \in DeletingNow
    BY <1>8, <1>9, <1>11
  <2>2. MovingNow' = MovingNow
    BY <1>7 DEF MovingNow
  <2>3. Store!EndDelete(op[t].arg)
    BY <1>1, <1>6, <2>1, <2>2 DEF Store!EndDelete
  <2> QED BY <1>2, <1>5, <2>3 DEF Store!Next
<1> QED BY <1>10, <1>11

\* Its begin: what has been written of its device is forgotten.
LEMMA DeleteBegins ==
  ASSUME IdInv, ListInv, DurableInv, StoreInv, NEW t \in Tasks, NEW d \in Devices, DeleteBegin(t, d)
  PROVE  StoreInv' /\ (Store!Next \/ AtRest)
<1> DEFINE S == FramesOf(d)
           may == acked \intersect FramesOf(d)
<1>1. /\ pc[t] = "idle" /\ t \in Deleters /\ pc' = [pc EXCEPT ![t] = "list"]
      /\ op' = [Going(S) EXCEPT ![t].arg = d, ![t].may = may]
      /\ memtable' \subseteq memtable /\ doomed' = doomed \union (issued \intersect S)
      /\ files' = files /\ walLog' = walLog /\ walCur' = walCur /\ walPath' = walPath
      /\ racy' = racy /\ swept' = swept /\ acked' = acked /\ issued' = issued
  BY DEF DeleteBegin, disk
<1>2. S \in SUBSET Frames
  BY DEF FramesOf
<1>3. /\ Going(S) \in [Tasks -> Locals]
      /\ \A u \in Tasks : /\ Same(u, Going(S)[u]) /\ (pc[u] # "copy" => Going(S)[u] = op[u])
                          /\ Going(S)[u].must \subseteq op[u].must
                          /\ Going(S)[u].may \subseteq op[u].may \union op[u].must
  <2>1. \A u \in Tasks : /\ Going(S)[u].must \subseteq op[u].must
                         /\ Going(S)[u].may \subseteq op[u].may \union op[u].must
    BY Here DEF Going, Locals
  <2> QED BY <1>2, <2>1, Copies DEF Going
<1>4. may \subseteq issued
  BY DEF DurableInv
<1>5. S = FramesOf(d)
  OBVIOUS
<1> HIDE DEF S, may
<1>6. /\ pc'[t] = "list" /\ op'[t].arg = d /\ op'[t].may = may /\ op'[t].must = Going(S)[t].must
      /\ op'[t].expired = op[t].expired
      /\ \A u \in Tasks \ {t} : pc'[u] = pc[u] /\ op'[u] = Going(S)[u]
  <2>1. Going(S)[t] \in Locals /\ Going(S)[t].expired = op[t].expired
    BY <1>3 DEF Same
  <2> QED BY <1>1, <1>3, <2>1 DEF IdInv, TypeOK, TasksType, Locals
<1>7. \A u \in Tasks \ {t} : Untouched(u)
  BY <1>3, <1>6 DEF Untouched
<1>8. t \notin Writers /\ t \notin Queriers
  BY <1>1, RolesAssumption
<1>9. StoreInv'
  <2>1. Origin'
    <3>1. \A u \in Tasks : op[u].must \subseteq issued /\ op[u].may \subseteq issued
      BY DEF StoreInv, Origin
    <3>2. ASSUME NEW u \in Tasks PROVE op'[u].must \subseteq issued /\ op'[u].may \subseteq issued
      BY <1>3, <1>4, <1>6, <3>1
    <3>3. memtable' \subseteq issued /\ walLog' \subseteq issued /\ \A i \in Ids : files'[i] \subseteq issued
      BY <1>1, NoFile, SameFrames
    <3> QED BY <1>1, <3>2, <3>3 DEF Origin
  <2>2. Role(t)'
    BY <1>1, <1>6 DEF Role, Deleting
  <2>3. GoesOn(t)
    BY <1>1, <1>8 DEF GoesOn
  <2> QED BY <1>1, <1>6, <1>7, <2>1, <2>2, <2>3, NoFile, StoreStep
<1>10. RequestsNow' = RequestsNow
  BY <1>7, <1>8, SameRequests
<1>11. MovingNow' = MovingNow
  <2>1. pc[t] = "idle" /\ pc'[t] = "list" /\ \A u \in Tasks \ {t} : pc'[u] = pc[u]
    BY <1>1, <1>6
  <2>2. ~InWindow(t) /\ ~InWindow(t)' /\ \A u \in Tasks \ {t} : InWindow(u)' <=> InWindow(u)
    BY <2>1 DEF InWindow
  <2> QED BY <1>1, <2>2 DEF MovingNow, FlushRunning
<1>12. DeletingNow' = DeletingNow \union {d}
  <2>1. ASSUME NEW u \in Deleters \ {t} PROVE pc'[u] = pc[u] /\ op'[u].arg = op[u].arg
    <3>1. Untouched(u)
      BY <1>7 DEF Tasks
    <3> QED BY <3>1 DEF Untouched, Same
  <2>2. \A e : e \in DeletingNow' <=> e = d \/ \E u \in Deleters \ {t} : pc[u] # "idle" /\ op[u].arg = e
    <3>1. t \in Deleters /\ pc'[t] # "idle" /\ op'[t].arg = d
      BY <1>1, <1>6
    <3>2. \A e : e \in DeletingNow' <=> \E u \in Deleters : pc'[u] # "idle" /\ op'[u].arg = e
      BY DEF DeletingNow
    <3> QED BY <2>1, <3>1, <3>2
  <2>3. \A e : e \in DeletingNow <=> \E u \in Deleters \ {t} : pc[u] # "idle" /\ op[u].arg = e
    BY <1>1 DEF DeletingNow
  <2> QED BY <2>2, <2>3
<1>13. Store!Delete(d)
  <2>1. Store!OfDevice(d) = S
    BY <1>5 DEF Store!OfDevice, FramesOf
  <2> QED BY <1>1, <1>10, <1>11, <1>12, <2>1 DEF Store!Delete
<1> QED BY <1>9, <1>13 DEF Store!Next

\* A step that moves no task into a window or out of one, and leaves log and handle.
LEMMA SameMoving ==
  ASSUME NEW t \in Tasks, \A u \in Tasks \ {t} : Untouched(u), InWindow(t)' <=> InWindow(t),
         walCur' = walCur, walPath' = walPath
  PROVE  MovingNow' = MovingNow
<1>1. \A u \in Tasks : InWindow(u)' <=> InWindow(u)
  BY DEF InWindow, Untouched
<1> QED BY <1>1 DEF MovingNow, FlushRunning

\* A write: its frame is written when it begins, and raced when it meets a change of the log.
LEMMA WriteRefines ==
  ASSUME IdInv, ListInv, DurableInv, StoreInv, NEW t \in Tasks, Write(t)
  PROVE  StoreInv' /\ (Store!Next \/ AtRest)
<1>1. ASSUME NEW f \in Frames, WriteBegin(t, f) PROVE StoreInv' /\ (Store!Next \/ AtRest)
  <2> DEFINE r == [op[t] EXCEPT !.arg = f]
  <2>1. /\ pc[t] = "idle" /\ t \in Writers /\ f \notin issued /\ Alone(t, "append", r)
        /\ files' = files /\ memtable' = memtable /\ walLog' = walLog
        /\ walCur' = walCur /\ walPath' = walPath
        /\ issued' = issued \union {f} /\ acked' = acked /\ racy' = racy /\ swept' = swept
        /\ doomed' = IF \E u \in Deleters : pc[u] # "idle" /\ op[u].arg = DevOf[f]
                     THEN doomed \union {f} ELSE doomed
    BY <1>1 DEF WriteBegin, disk, Alone
  <2>2. r.arg = f /\ r.must = op[t].must /\ r.may = op[t].may /\ r.expired = op[t].expired
    BY Here DEF Locals
  <2> HIDE DEF r
  <2>3. pc'[t] = "append" /\ op'[t] = r /\ \A u \in Tasks \ {t} : pc'[u] = pc[u] /\ op'[u] = op[u]
    BY <2>1, AloneIs
  <2>4. \A u \in Tasks \ {t} : Untouched(u)
    BY <2>3, OthersUntouched
  <2>5. t \notin Deleters /\ t \notin Queriers
    BY <2>1, RolesAssumption
  <2>6. StoreInv'
    <3>1. Origin'
      BY <2>1, <2>2, <2>3, NoFile, SameFrames, OriginStep
    <3>2. Role(t)'
      BY <2>3, <2>5 DEF Role, Deleting
    <3>3. GoesOn(t)
      BY <2>1, <2>2, <2>3 DEF GoesOn
    <3> QED BY <2>1, <2>2, <2>3, <2>4, <3>1, <3>2, <3>3, NoFile, StoreStep
  <2>7. RequestsNow' = RequestsNow /\ DeletingNow' = DeletingNow
    BY <2>4, <2>5, SameRequests, SameDeleting
  <2>8. MovingNow' = MovingNow
    BY <2>1, <2>3, <2>4, SameMoving DEF InWindow
  <2>9. DevOf[f] \in DeletingNow <=> \E u \in Deleters : pc[u] # "idle" /\ op[u].arg = DevOf[f]
    BY DEF DeletingNow
  <2>10. Store!Write(f)
    BY <2>1, <2>7, <2>8, <2>9 DEF Store!Write
  <2> QED BY <2>1, <2>6, <2>10 DEF Store!Next
<1>2. ASSUME WriteAppend(t) \/ WriteInsert(t) PROVE StoreInv' /\ (Store!Next \/ AtRest)
  <2> DEFINE f == op[t].arg
  <2>1. pc[t] \in {"append", "insert"}
    BY <1>2 DEF WriteAppend, WriteInsert
  <2>2. t \in Writers /\ f \in Frames /\ f \in issued /\ f \notin acked
    BY <2>1, Here, Writing DEF Fits, StoreInv, Owner, Working
  <2>3. /\ files' = files /\ memtable' \subseteq memtable \union {f} /\ walLog' \subseteq walLog \union {f}
        /\ walCur' = walCur /\ walPath' = walPath
        /\ issued' = issued /\ acked' = acked /\ doomed' = doomed /\ swept' = swept
        /\ racy' = racy \/ (racy' = racy \union {f} /\ MovingNow)
    BY <1>2 DEF WriteAppend, WriteInsert, Logged, disk, memory, MovingNow
  <2>4. /\ pc'[t] \in {"insert", "full"} /\ \A u \in Tasks \ {t} : pc'[u] = pc[u]
    BY <1>2 DEF WriteAppend, WriteInsert, IdInv, TypeOK, TasksType
  <2>5. \A u \in Tasks : /\ Same(u, op'[u]) /\ (pc[u] # "copy" => op'[u] = op[u])
                         /\ op'[u].must \subseteq issued /\ op'[u].may \subseteq issued
    <3>1. \A u \in Tasks : op[u].must \subseteq issued /\ op[u].may \subseteq issued
      BY SameFrames
    <3>2. CASE op' = op
      BY <3>1, <3>2 DEF Same
    <3>3. CASE op' = Coming({f})
      <4>1. {f} \in SUBSET Frames
        BY <2>2
      <4>2. \A u \in Tasks : Same(u, Coming({f})[u]) /\ (pc[u] # "copy" => Coming({f})[u] = op[u])
        BY <4>1, Copies DEF Coming
      <4>3. \A u \in Tasks : /\ Coming({f})[u].must = op[u].must
                             /\ Coming({f})[u].may \subseteq op[u].may \union {f}
        BY Here DEF Coming, Locals
      <4> QED BY <2>2, <3>1, <3>3, <4>2, <4>3
    <3> QED BY <1>2, <3>2, <3>3 DEF WriteAppend, WriteInsert
  <2>6. \A u \in Tasks \ {t} : Untouched(u)
    BY <2>4, <2>5 DEF Untouched
  <2>7. t \notin Deleters /\ t \notin Queriers
    BY <2>2, RolesAssumption
  <2>8. op'[t] = op[t]
    BY <2>1, <2>5
  <2> HIDE DEF f
  <2>9. StoreInv'
    <3>1. memtable' \subseteq issued' /\ walLog' \subseteq issued' /\ \A i \in Ids : files'[i] \subseteq issued'
      BY <2>2, <2>3, NoFile, SameFrames
    <3>2. Origin'
      BY <2>3, <2>5, <3>1 DEF Origin
    <3>3. Role(t)'
      BY <2>4, <2>7 DEF Role, Deleting
    <3>4. GoesOn(t)
      BY <2>1, <2>3, <2>8 DEF GoesOn, Working
    <3> QED BY <2>3, <2>6, <2>8, <3>2, <3>3, <3>4, NoFile, StoreStep
  <2>10. RequestsNow' = RequestsNow /\ DeletingNow' = DeletingNow
    BY <2>6, <2>7, SameRequests, SameDeleting
  <2>11. MovingNow' = MovingNow
    BY <2>1, <2>3, <2>4, <2>6, SameMoving DEF InWindow
  <2>12. CASE racy' = racy
    BY <2>3, <2>9, <2>10, <2>11, <2>12 DEF AtRest
  <2>13. CASE racy' = racy \union {f} /\ MovingNow
    <3>1. Store!Race(f)
      BY <2>3, <2>10, <2>11, <2>13 DEF Store!Race
    <3> QED BY <2>2, <2>9, <3>1 DEF Store!Next, Store!Pending
  <2> QED BY <2>3, <2>12, <2>13
<1>3. ASSUME WriteFull(t) PROVE Unseen(t)
  <2>1. /\ pc[t] = "full" /\ files' = files /\ memtable' = memtable /\ walLog' = walLog
        /\ walCur' = walCur /\ walPath' = walPath
        /\ issued' = issued /\ racy' = racy /\ doomed' = doomed /\ swept' = swept
    BY <1>3 DEF WriteFull, disk, memory
  <2>2. Onwards(t, "flush") /\ Outwards(t, "idle")
    BY <2>1 DEF Onwards, Outwards, Working, InQuery, Deleting
  <2>3. CASE Alone(t, "flush", op[t]) /\ acked' = acked
    <3>1. Hands(t, op[t])
      BY SameFrames DEF Hands
    <3>2. Steady(t)
      BY <2>1, <2>3, AloneIs DEF Steady, InWindow
    <3>3. Calm(t)
      BY <2>1, <3>2, CalmStep
    <3> QED BY <2>2, <2>3, <3>1, <3>3, UnseenOn
  <2>4. CASE Succeed(t)
    <3>1. Alone(t, "idle", NoOp)
      BY <2>4 DEF Alone
    <3>2. Steady(t)
      BY <2>1, <3>1, AloneIs DEF Steady, InWindow
    <3>3. Calm(t)
      BY <2>1, <3>2, CalmStep
    <3> QED BY <2>2, <2>4, <3>1, <3>3, UnseenOut
  <2> QED BY <1>3, <2>3, <2>4, Here DEF WriteFull, Alone
<1> QED BY <1>1, <1>2, <1>3, UnseenStep DEF Write

\* A flush begins to change the log, and the writes that meet it are raced.
LEMMA FlushRefines ==
  ASSUME IdInv, ListInv, DurableInv, StoreInv, NEW t \in Tasks, Flush(t)
  PROVE  StoreInv' /\ (Store!Next \/ AtRest)
<1>1. ASSUME FlushBegin(t) PROVE StoreInv' /\ (Store!Next \/ AtRest)
  <2> DEFINE r == [op[t] EXCEPT !.id = nextId, !.must = memtable, !.may = {}]
             met == {op[w].arg : w \in {w \in Writers : pc[w] = "insert"}}
  <2>1. /\ pc[t] = "flush" /\ Alone(t, "copy", r) /\ files' = [files EXCEPT ![nextId] = {}]
        /\ memtable' = memtable /\ walLog' = walLog
        /\ issued' = issued /\ acked' = acked /\ doomed' = doomed /\ swept' = swept
        /\ racy' = racy \union met
    BY <1>1 DEF FlushBegin, Alone
  <2>2. r.arg = op[t].arg /\ r.must = memtable /\ r.may = {} /\ r.expired = op[t].expired
    BY Here DEF Locals
  <2>3. met \subseteq issued \ acked
    BY DEF StoreInv, Owner, Working, Tasks
  <2> HIDE DEF r, met
  <2>4. pc'[t] = "copy" /\ op'[t] = r /\ \A u \in Tasks \ {t} : pc'[u] = pc[u] /\ op'[u] = op[u]
    BY <2>1, AloneIs
  <2>5. \A u \in Tasks \ {t} : Untouched(u)
    BY <2>4, OthersUntouched
  <2>6. t \notin Deleters
    BY <2>1 DEF StoreInv, Role, Deleting
  <2>7. Removes(t) /\ \A i \in Ids : files'[i] \subseteq issued
    <3>1. \A i \in Ids : files'[i] = files[i] \/ files'[i] = {}
      BY <2>1, Typed
    <3> QED BY <3>1 DEF Removes, StoreInv, Origin
  <2>8. StoreInv'
    <3>1. Origin'
      BY <2>1, <2>2, <2>4, <2>7, SameFrames, OriginStep
    <3>2. Role(t)'
      BY <2>4, <2>6 DEF Role, Deleting
    <3>3. GoesOn(t)
      BY <2>1, <2>2, <2>4 DEF GoesOn, Working
    <3> QED BY <2>1, <2>2, <2>4, <2>5, <2>7, <3>1, <3>2, <3>3, StoreStep
  <2>9. RequestsNow' = RequestsNow
    BY <2>1, <2>4, <2>5, SameRequests DEF RequestOf
  <2>10. DeletingNow' = DeletingNow
    BY <2>5, <2>6, SameDeleting
  <2>11. MovingNow'
    BY <2>4 DEF MovingNow, FlushRunning, InWindow
  <2>12. Store!Change
    BY <2>1, <2>3, <2>9, <2>10, <2>11 DEF Store!Change, Store!Pending
  <2> QED BY <2>8, <2>12 DEF Store!Next
<1> QED BY <1>1, FlushUnseen, UnseenStep

\* The retention check: what it unlists has expired as a whole.
LEMMA SweepRefines ==
  ASSUME IdInv, ListInv, DurableInv, StoreInv, NEW t \in Tasks, Sweep(t)
  PROVE  StoreInv' /\ (Store!Next \/ AtRest)
<1>1. ASSUME SweepSelect(t) PROVE Unseen(t)
  <2> DEFINE r == [op[t] EXCEPT !.expired = {i \in Elems(sstables) : Expires(i)}]
  <2>1. /\ pc[t] = "idle" /\ t \in Sweepers /\ Alone(t, "sweep", r)
        /\ files' = files /\ memtable' = memtable /\ walLog' = walLog
        /\ walCur' = walCur /\ walPath' = walPath
        /\ issued' = issued /\ acked' = acked /\ racy' = racy /\ doomed' = doomed /\ swept' = swept
    BY <1>1 DEF SweepSelect, disk, memory, history, Alone
  <2>2. /\ r.must = op[t].must /\ r.may = op[t].may /\ \A i \in r.expired : Expires(i)
    BY Here DEF Locals
  <2> HIDE DEF r
  <2>3. pc'[t] = "sweep" /\ op'[t] = r /\ \A u \in Tasks \ {t} : pc'[u] = pc[u] /\ op'[u] = op[u]
    BY <2>1, AloneIs
  <2>4. t \notin Writers /\ t \notin Deleters
    BY <2>1, RolesAssumption
  <2>5. GoesOn(t) /\ Steady(t)
    BY <2>1, <2>3, <2>4 DEF GoesOn, Steady, InWindow
  <2>6. Calm(t)
    BY <2>1, <2>5, CalmStep
  <2>7. \A i \in op'[t].expired : Expires(i)'
    BY <2>1, <2>2, <2>3 DEF Expires
  <2> QED BY <2>1, <2>2, <2>3, <2>4, <2>5, <2>6, <2>7, SameFrames DEF Unseen, Deleting
<1>2. ASSUME SweepErase(t) PROVE Unseen(t)
  <2> DEFINE r == [op[t] EXCEPT !.id = 0]
             at == IF op[t].expired = {} THEN "idle" ELSE "sweep"
  <2>1. /\ pc[t] = "remove" /\ Alone(t, at, r) /\ files' = [files EXCEPT ![op[t].id] = {}]
        /\ memtable' = memtable /\ walLog' = walLog /\ walCur' = walCur /\ walPath' = walPath
        /\ issued' = issued /\ acked' = acked /\ racy' = racy /\ doomed' = doomed /\ swept' = swept
    BY <1>2 DEF SweepErase, memory, history, Alone
  <2>2. Hands(t, r) /\ at \in {"idle", "sweep"}
    BY Here, SameFrames DEF Locals, Hands
  <2> HIDE DEF r, at
  <2>3. pc'[t] = at /\ op'[t] = r /\ \A u \in Tasks \ {t} : pc'[u] = pc[u] /\ op'[u] = op[u]
    BY <2>1, AloneIs
  <2>4. t \notin Deleters
    BY <2>1 DEF StoreInv, Role, Deleting
  <2>5. GoesOn(t) /\ Steady(t)
    BY <2>1, <2>2, <2>3 DEF GoesOn, Steady, InWindow, Working, Hands
  <2>6. Removes(t) /\ \A i \in Ids : files'[i] \subseteq issued
    <3>1. \A i \in Ids : files'[i] = files[i] \/ files'[i] = {}
      BY <2>1, Typed
    <3> QED BY <3>1 DEF Removes, StoreInv, Origin
  <2>7. Calm(t)
    BY <2>1, <2>5, <2>6, SameFrames DEF Calm
  <2> QED BY <2>1, <2>2, <2>3, <2>4, <2>5, <2>7 DEF Unseen, Deleting, Hands
<1>3. ASSUME NEW i \in op[t].expired, SweepUnlist(t, i) PROVE StoreInv' /\ (Store!Next \/ AtRest)
  <2> DEFINE r == [op[t] EXCEPT !.expired = op[t].expired \ {i}, !.id = i]
  <2>1. /\ pc[t] = "sweep" /\ Alone(t, "remove", r)
        /\ files' = files /\ memtable' = memtable /\ walLog' = walLog
        /\ walCur' = walCur /\ walPath' = walPath
        /\ issued' = issued /\ acked' = acked /\ racy' = racy /\ doomed' = doomed
        /\ swept' = swept \union files[i]
    BY <1>3 DEF SweepUnlist, disk, Alone
  <2>2. /\ r.arg = op[t].arg /\ r.must = op[t].must /\ r.may = op[t].may /\ r.expired \subseteq op[t].expired
    BY Here DEF Locals
  <2> HIDE DEF r
  <2>3. pc'[t] = "remove" /\ op'[t] = r /\ \A u \in Tasks \ {t} : pc'[u] = pc[u] /\ op'[u] = op[u]
    BY <2>1, AloneIs
  <2>4. \A u \in Tasks \ {t} : Untouched(u)
    BY <2>3, OthersUntouched
  <2>5. t \notin Deleters
    BY <2>1 DEF StoreInv, Role, Deleting
  <2>6. StoreInv'
    <3>1. Origin'
      BY <2>1, <2>2, <2>3, NoFile, SameFrames, OriginStep
    <3>2. Role(t)'
      BY <2>3, <2>5 DEF Role, Deleting
    <3>3. GoesOn(t)
      BY <2>1, <2>2, <2>3 DEF GoesOn, Working
    <3> QED BY <2>1, <2>2, <2>3, <2>4, <3>1, <3>2, <3>3, NoFile, StoreStep
  <2>7. RequestsNow' = RequestsNow
    BY <2>1, <2>3, <2>4, SameRequests DEF RequestOf
  <2>8. DeletingNow' = DeletingNow
    BY <2>4, <2>5, SameDeleting
  <2>9. MovingNow' = MovingNow
    BY <2>1, <2>3, <2>4, SameMoving DEF InWindow
  <2>10. CASE files[i] = {}
    BY <2>1, <2>6, <2>7, <2>8, <2>9, <2>10 DEF AtRest
  <2>11. CASE files[i] # {}
    <3>1. Expires(i)
      BY <2>11 DEF StoreInv, Verdict
    <3>2. files[i] \in SUBSET issued
      BY IdsAreNat DEF StoreInv, Origin
    <3>3. PICK f \in files[i] : f \in TooOld /\ \A g \in files[i] : KeyOf[g] <= KeyOf[f]
      BY <3>1 DEF Expires
    <3>4. Store!Expire(f, files[i])
      BY <2>1, <2>7, <2>8, <2>9, <3>3 DEF Store!Expire
    <3>5. \E S \in SUBSET issued : Store!Expire(f, S)
      BY <3>2, <3>4
    <3> QED BY <2>6, <3>2, <3>3, <3>5 DEF Store!Next
  <2> QED BY <2>10, <2>11
<1> QED BY <1>1, <1>2, <1>3, UnseenStep DEF Sweep

\* A step of a query: only its request changes.
LEMMA QueryStep ==
  ASSUME IdInv, ListInv, DurableInv, StoreInv, NEW t \in Queriers, NEW at, NEW r, Alone(t, at, r),
         files' = files, memtable' = memtable, walLog' = walLog, walCur' = walCur, walPath' = walPath,
         issued' = issued, acked' = acked, racy' = racy, doomed' = doomed, swept' = swept,
         r.must \subseteq issued, r.may \subseteq issued, r.expired \subseteq op[t].expired,
         at \in {"idle", "tables", "answer"}, ~InWindow(t),
         at # "idle" => r.arg \in Devices /\ r.must \subseteq FramesOf(r.arg)
  PROVE  /\ StoreInv' /\ MovingNow' = MovingNow /\ DeletingNow' = DeletingNow
         /\ RequestsNow' = [RequestsNow EXCEPT ![t] = RequestOf(t)']
         /\ pc'[t] = at /\ op'[t] = r
<1>0. t \in Tasks /\ t \notin Writers /\ t \notin Deleters
  BY RolesAssumption DEF Tasks
<1>1. pc'[t] = at /\ op'[t] = r /\ \A u \in Tasks \ {t} : pc'[u] = pc[u] /\ op'[u] = op[u]
  BY <1>0, AloneIs
<1>2. \A u \in Tasks \ {t} : Untouched(u)
  BY <1>1, OthersUntouched
<1>3. StoreInv'
  <2>1. Origin'
    BY <1>0, <1>1, NoFile, SameFrames, OriginStep
  <2>2. Role(t)'
    BY <1>0, <1>1 DEF Role, Deleting
  <2>3. GoesOn(t)
    BY <1>0 DEF GoesOn
  <2> QED BY <1>0, <1>1, <1>2, <2>1, <2>2, <2>3, NoFile, StoreStep
<1>4. MovingNow' = MovingNow
  BY <1>0, <1>1, <1>2, SameMoving DEF InWindow
<1>5. DeletingNow' = DeletingNow
  BY <1>0, <1>2, SameDeleting
<1>6. ASSUME NEW u \in Queriers PROVE RequestOf(u)' = IF u = t THEN RequestOf(t)' ELSE RequestOf(u)
  <2>1. u # t => pc'[u] = pc[u] /\ op'[u] = op[u]
    BY <1>1 DEF Tasks
  <2> QED BY <2>1 DEF RequestOf
<1>7. RequestsNow' = [RequestsNow EXCEPT ![t] = RequestOf(t)']
  BY <1>6 DEF RequestsNow
<1> QED BY <1>1, <1>3, <1>4, <1>5, <1>7

\* A query: what it owes it answers, with nothing but frames of its device.
LEMMA QueryRefines ==
  ASSUME IdInv, ListInv, DurableInv, StoreInv, QueryComplete', NEW t \in Tasks, Query(t)
  PROVE  StoreInv' /\ (Store!Next \/ AtRest)
<1>1. ASSUME NEW d \in Devices, QueryMemtable(t, d) PROVE StoreInv' /\ (Store!Next \/ AtRest)
  <2> DEFINE r == [op[t] EXCEPT !.arg = d, !.must = memtable \intersect FramesOf(d),
                                !.may = (acked \ racy) \intersect FramesOf(d)]
  <2>1. /\ pc[t] = "idle" /\ t \in Queriers /\ Alone(t, "tables", r)
        /\ files' = files /\ memtable' = memtable /\ walLog' = walLog
        /\ walCur' = walCur /\ walPath' = walPath
        /\ issued' = issued /\ acked' = acked /\ racy' = racy /\ doomed' = doomed /\ swept' = swept
    BY <1>1 DEF QueryMemtable, disk, memory, history, Alone
  <2>2. /\ r.arg = d /\ r.must = memtable \intersect FramesOf(d)
        /\ r.may = (acked \ racy) \intersect FramesOf(d) /\ r.expired = op[t].expired
    BY Here DEF Locals
  <2> HIDE DEF r
  <2>3. r.must \subseteq issued /\ r.may \subseteq issued
    BY <2>2, SameFrames DEF DurableInv
  <2>4. ~InWindow(t)
    BY <2>1 DEF InWindow
  <2>5. /\ StoreInv' /\ MovingNow' = MovingNow /\ DeletingNow' = DeletingNow
        /\ RequestsNow' = [RequestsNow EXCEPT ![t] = RequestOf(t)']
        /\ pc'[t] = "tables" /\ op'[t] = r
    BY <2>1, <2>2, <2>3, <2>4, QueryStep
  <2>6. RequestsNow[t] = Store!NoRequest
    BY <2>1 DEF RequestsNow, RequestOf, Store!NoRequest
  <2>7. RequestOf(t)' = [stage |-> "asked", device |-> d,
                         owed |-> (acked \ racy) \intersect Store!OfDevice(d), frames |-> {}]
    BY <2>2, <2>5 DEF RequestOf, Store!OfDevice, FramesOf
  <2>8. Store!Ask(t, d)
    BY <2>1, <2>5, <2>6, <2>7 DEF Store!Ask
  <2> QED BY <2>1, <2>5, <2>8 DEF Store!Next
<1>2. ASSUME QueryTables(t) PROVE StoreInv' /\ (Store!Next \/ AtRest)
  <2> DEFINE read == Listed \intersect FramesOf(op[t].arg)
             r == [op[t] EXCEPT !.must = op[t].must \union read]
  <2>1. ~\E i \in Elems(sstables) : files[i] = {}
    BY DEF ListInv, ListedFilesExist
  <2>2. /\ pc[t] = "tables" /\ Alone(t, "answer", r)
        /\ files' = files /\ memtable' = memtable /\ walLog' = walLog
        /\ walCur' = walCur /\ walPath' = walPath
        /\ issued' = issued /\ acked' = acked /\ racy' = racy /\ doomed' = doomed /\ swept' = swept
    BY <1>2, <2>1 DEF QueryTables, disk, memory, Alone
  <2>3. /\ r.arg = op[t].arg /\ r.must = op[t].must \union read /\ r.may = op[t].may
        /\ r.expired = op[t].expired
    BY Here DEF Locals
  <2>4. t \in Queriers /\ op[t].arg \in Devices /\ op[t].must \subseteq FramesOf(op[t].arg)
    BY <2>2 DEF StoreInv, Role
  <2>5. read \subseteq issued /\ read \subseteq FramesOf(op[t].arg)
    BY ListedIds DEF Listed, StoreInv, Origin
  <2> HIDE DEF r, read
  <2>6. r.must \subseteq issued /\ r.may \subseteq issued /\ r.must \subseteq FramesOf(r.arg)
    BY <2>3, <2>4, <2>5, SameFrames
  <2>7. ~InWindow(t)
    BY <2>2 DEF InWindow
  <2>8. /\ StoreInv' /\ MovingNow' = MovingNow /\ DeletingNow' = DeletingNow
        /\ RequestsNow' = [RequestsNow EXCEPT ![t] = RequestOf(t)']
        /\ pc'[t] = "answer" /\ op'[t] = r
    BY <2>2, <2>3, <2>4, <2>6, <2>7, QueryStep
  <2>9. /\ RequestsNow[t] = [stage |-> "asked", device |-> op[t].arg, owed |-> op[t].may, frames |-> {}]
        /\ RequestOf(t)' = [stage |-> "answered", device |-> op[t].arg, owed |-> op[t].may, frames |-> r.must]
    BY <2>2, <2>3, <2>4, <2>8 DEF RequestsNow, RequestOf
  <2>10. r.must \in SUBSET (issued \intersect Store!OfDevice(op[t].arg))
    BY <2>3, <2>6 DEF Store!OfDevice, FramesOf
  <2>11. Owed(op[t].may) \subseteq Keys(r.must)
    <3>1. scan' = 0
      BY <1>2 DEF QueryTables, memory
    <3>2. Owed(op[t].may)' \subseteq Keys(r.must)
      BY <2>3, <2>4, <2>8, <3>1 DEF QueryComplete, Owed
    <3> QED BY <2>2, <2>3, <2>8, <3>2 DEF Owed
  <2>12. Store!Due(op[t].may) \subseteq Store!Keys(r.must)
    BY <2>11 DEF Store!Due, Store!Keys, Owed, Keys
  <2>13. Store!Answer(t)
    <3>1. /\ RequestsNow[t].stage = "asked" /\ RequestsNow[t].device = op[t].arg
          /\ RequestsNow[t].owed = op[t].may
      BY <2>9
    <3>2. RequestsNow' = [RequestsNow EXCEPT ![t] =
            [stage |-> "answered", device |-> @.device, owed |-> @.owed, frames |-> r.must]]
      BY <2>8, <2>9, <3>1
    <3>3. \E R \in SUBSET (issued \intersect Store!OfDevice(RequestsNow[t].device)) :
            /\ Store!Due(RequestsNow[t].owed) \subseteq Store!Keys(R)
            /\ RequestsNow' = [RequestsNow EXCEPT ![t] =
                 [stage |-> "answered", device |-> @.device, owed |-> @.owed, frames |-> R]]
      BY <2>10, <2>12, <3>1, <3>2
    <3> QED BY <2>2, <2>8, <3>1, <3>3 DEF Store!Answer
  <2> QED BY <2>4, <2>8, <2>13 DEF Store!Next
<1>3. ASSUME QueryReply(t) PROVE StoreInv' /\ (Store!Next \/ AtRest)
  <2>1. /\ pc[t] = "answer" /\ Alone(t, "idle", NoOp)
        /\ files' = files /\ memtable' = memtable /\ walLog' = walLog
        /\ walCur' = walCur /\ walPath' = walPath
        /\ issued' = issued /\ acked' = acked /\ racy' = racy /\ doomed' = doomed /\ swept' = swept
    BY <1>3 DEF QueryReply, disk, memory, history, Alone
  <2>2. t \in Queriers
    BY <2>1 DEF StoreInv, Role
  <2>3. ~InWindow(t)
    BY <2>1 DEF InWindow
  <2>4. /\ StoreInv' /\ MovingNow' = MovingNow /\ DeletingNow' = DeletingNow
        /\ RequestsNow' = [RequestsNow EXCEPT ![t] = RequestOf(t)']
        /\ pc'[t] = "idle" /\ op'[t] = NoOp
    BY <2>1, <2>2, <2>3, NoOpHas, QueryStep
  <2>5. RequestsNow[t].stage = "answered" /\ RequestOf(t)' = Store!NoRequest
    BY <2>1, <2>2, <2>4 DEF RequestsNow, RequestOf, Store!NoRequest
  <2>6. Store!Done(t)
    BY <2>1, <2>4, <2>5 DEF Store!Done
  <2> QED BY <2>2, <2>4, <2>6 DEF Store!Next
<1> QED BY <1>1, <1>2, <1>3 DEF Query

LEMMA DeleteRefines ==
  ASSUME IdInv, ListInv, DurableInv, StoreInv, NEW t \in Tasks, Delete(t)
  PROVE  StoreInv' /\ (Store!Next \/ AtRest)
<1>1. ASSUME NEW d \in Devices, DeleteBegin(t, d) PROVE StoreInv' /\ (Store!Next \/ AtRest)
  BY <1>1, DeleteBegins
<1>2. CASE \A d \in Devices : ~DeleteBegin(t, d)
  <2>1. pc[t] \in Deleting
    BY <1>2 DEF Delete, DeleteSnapshot, DeleteOpen, DeleteRewrite, DeleteReplace, DeleteErase,
       DeleteUnregister, Deleting
  <2>2. CASE pc'[t] \in Deleting
    BY <2>1, <2>2, DeleteUnseen, UnseenStep
  <2>3. CASE pc'[t] \notin Deleting
    BY <2>1, <2>3, DeleteEnds
  <2> QED BY <2>2, <2>3
<1> QED BY <1>1, <1>2

\* A crash leaves what is acknowledged, and no task with anything in hand.
LEMMA CrashRefines == ASSUME IdInv, StoreInv, Crash PROVE StoreInv' /\ Store!Next
<1>1. /\ pc' = [t \in Tasks |-> "idle"] /\ op' = [t \in Tasks |-> NoOp] /\ memtable' = {}
      /\ walLog' = walLog /\ files' = files /\ walCur' = walPath' /\ issued' = issued
      /\ acked' = acked /\ racy' = racy /\ doomed' = doomed /\ swept' = swept
  BY DEF Crash
<1>2. \A t \in Tasks : /\ pc'[t] = "idle" /\ op'[t].must = {} /\ op'[t].may = {}
                       /\ op'[t].expired = {}
  BY <1>1, NoOpHas
<1> HIDE DEF Crash
<1>3. StoreInv'
  <2>1. Origin'
    BY <1>1, <1>2 DEF StoreInv, Origin
  <2>2. \A t \in Tasks : Owner(t)' /\ Role(t)' /\ Verdict(t)'
    BY <1>2 DEF Owner, Working, Role, Deleting, Verdict
  <2> QED BY <2>1, <2>2 DEF StoreInv
<1>4. MovingNow' = FALSE
  BY <1>1, <1>2 DEF MovingNow, FlushRunning, InWindow
<1>5. DeletingNow' = {}
  BY <1>2 DEF DeletingNow, Tasks
<1>6. RequestsNow' = [q \in Queriers |-> Store!NoRequest]
  <2>1. \A q \in Queriers : RequestOf(q)' = Store!NoRequest
    BY <1>2 DEF RequestOf, Store!NoRequest, Tasks
  <2> QED BY <2>1 DEF RequestsNow
<1>7. Store!Crash
  BY <1>1, <1>4, <1>5, <1>6 DEF Store!Crash
<1> QED BY <1>3, <1>7 DEF Store!Next

\* Where no task moves and no frame comes in but from the log, a client sees nothing.
LEMMA Stillness ==
  ASSUME StoreInv, pc' = pc, op' = op, files' = files, walLog' = walLog,
         memtable' = memtable \/ memtable' = walLog, walCur' = walCur, walPath' = walPath,
         issued' = issued, acked' = acked, racy' = racy, doomed' = doomed, swept' = swept
  PROVE  StoreInv' /\ AtRest
<1>1. Origin'
  BY DEF StoreInv, Origin
<1>2. ASSUME NEW t \in Tasks PROVE Owner(t)' /\ Role(t)' /\ Verdict(t)'
  <2>1. Owner(t) /\ Role(t) /\ Verdict(t)
    BY DEF StoreInv
  <2> QED BY <2>1 DEF Owner, Role, Verdict, Expires
<1>3. MovingNow' <=> MovingNow
  BY DEF MovingNow, FlushRunning, InWindow
<1>4. DeletingNow' = DeletingNow /\ RequestsNow' = RequestsNow
  BY DEF DeletingNow, RequestsNow, RequestOf
<1> QED BY <1>1, <1>2, <1>3, <1>4 DEF StoreInv, AtRest

\* At first nothing is written.
LEMMA StoreInit == Init => StoreInv /\ Store!Init
<1> SUFFICES ASSUME Init PROVE StoreInv /\ Store!Init
  OBVIOUS
<1>1. \A t \in Tasks : /\ pc[t] = "idle" /\ op[t].must = {} /\ op[t].may = {}
                       /\ op[t].expired = {}
  BY NoOpHas DEF Init
<1>2. StoreInv
  <2>1. Origin
    BY <1>1 DEF Init, Origin
  <2>2. \A t \in Tasks : Owner(t) /\ Role(t) /\ Verdict(t)
    BY <1>1 DEF Owner, Working, Role, Deleting, Verdict
  <2> QED BY <2>1, <2>2 DEF StoreInv
<1>3. MovingNow = FALSE
  BY <1>1 DEF Init, MovingNow, FlushRunning, InWindow
<1>4. DeletingNow = {}
  BY <1>1 DEF DeletingNow, Tasks
<1>5. RequestsNow = [q \in Queriers |-> Store!NoRequest]
  <2>1. \A q \in Queriers : RequestOf(q) = Store!NoRequest
    BY <1>1 DEF RequestOf, Store!NoRequest, Tasks
  <2> QED BY <2>1 DEF RequestsNow
<1> QED BY <1>2, <1>3, <1>4, <1>5 DEF Store!Init, Init

\* An answer after the step is complete.
LEMMA CompleteNext == (IdInv /\ ReadInv => QueryComplete)'
  BY ReadInvHelps, PTL

\* Every step is one of the store, or leaves it as it is.
LEMMA StoreInvStep ==
  IdInv /\ ListInv /\ DurableInv /\ ReadInv /\ TakesOwn /\ StoreInv /\ [Next]_vars
    => StoreInv' /\ [Store!Next]_(Store!vars)
<1> SUFFICES ASSUME IdInv, ListInv, DurableInv, ReadInv, TakesOwn, StoreInv, [Next]_vars
             PROVE  StoreInv' /\ (Store!Next \/ AtRest)
  BY Rests
<1>1. QueryComplete'
  <2>1. IdInv' /\ ReadInv'
    BY IdStep, ReadInvStep
  <2> QED BY <2>1, CompleteNext
<1>2. CASE UNCHANGED vars
  BY <1>2, Stillness DEF vars, disk, memory, history
<1>3. ASSUME NEW t \in Tasks, Write(t) PROVE StoreInv' /\ (Store!Next \/ AtRest)
  BY <1>3, WriteRefines
<1>4. ASSUME NEW t \in Tasks, Flush(t) PROVE StoreInv' /\ (Store!Next \/ AtRest)
  BY <1>4, FlushRefines
<1>5. ASSUME NEW t \in Tasks, Compact(t) PROVE StoreInv' /\ (Store!Next \/ AtRest)
  BY <1>5, CompactUnseen, UnseenStep
<1>6. ASSUME NEW t \in Tasks, Delete(t) PROVE StoreInv' /\ (Store!Next \/ AtRest)
  BY <1>6, DeleteRefines
<1>7. ASSUME NEW t \in Tasks, Sweep(t) PROVE StoreInv' /\ (Store!Next \/ AtRest)
  BY <1>7, SweepRefines
<1>8. ASSUME NEW t \in Tasks, Query(t) PROVE StoreInv' /\ (Store!Next \/ AtRest)
  BY <1>1, <1>8, QueryRefines
<1>9. CASE Crash
  BY <1>9, CrashRefines
<1>10. CASE Recover
  BY <1>10, Stillness DEF Recover, RecoverOpen, RecoverServe, disk, history
<1> QED BY <1>2, <1>3, <1>4, <1>5, <1>6, <1>7, <1>8, <1>9, <1>10 DEF Next

\* The engine is a store that forgets nothing but what DurableStore says, for all frames,
\* tasks, ids and crashes, in every behaviour in which compact and delete_device take from
\* the list only what they have read of it: each answer has what was acknowledged before it
\* was asked for, each acknowledgement is of one write under way, and what is lost to a
\* change of the log, a deletion or retention is lost at that point and no other.
THEOREM StoreRefined == Spec /\ []TakesOwn => ImplementsStore
<1>1. Init => ReadInv /\ StoreInv /\ Store!Init
  BY ReadInit, StoreInit
<1>2. (IdInv /\ ListInv /\ DurableInv) /\ ReadInv /\ TakesOwn /\ [Next]_vars => ReadInv'
  BY ReadInvStep
<1>3. (IdInv /\ ListInv /\ DurableInv) /\ ReadInv /\ TakesOwn /\ StoreInv /\ [Next]_vars
        => StoreInv' /\ [Store!Next]_(Store!vars)
  BY StoreInvStep
<1> QED BY <1>1, <1>2, <1>3, DurableInductive, PTL DEF Spec, ImplementsStore, Store!Spec

\* It is one in every behaviour with a single task that flushes, and no deletions or
\* retention checks beside it, as in the first run.
THEOREM StoreOfOneFlusher == OneFlusher /\ Spec => ImplementsStore
  BY OneFlusherApart, OwnWhenApart, StoreRefined, PTL
=============================================================================
