------------------------ MODULE StorageEngineProofs ------------------------
(***************************************************************************)
(* TypeOK and FreshIds hold of every behaviour of StorageEngine, whatever  *)
(* the workload, the tasks and the bounds.  First what a step makes of the *)
(* tasks: each is at a point of its operation that its locals fit, and the *)
(* ids it holds were handed out; one lemma per operation, one step per     *)
(* action.  Then the disk, the memory and the history, start-up, the crash *)
(* and the theorems.                                                       *)
(***************************************************************************)
EXTENDS StorageEngine, SequenceTheorems, TLAPS

USE DEF At, Goto, SetLocals, Leave, Fail, Panic, Succeed, Serving, Ids, IdAfter

\* What IdInv says of the tasks.
TasksOK == TasksType /\ LocalsOK /\ \A t \in Tasks : AllBelow(op[t], nextId)
\* What is left of IdInv.
RestOK ==
  /\ DiskType /\ MemoryType /\ HistoryType /\ ScanOK /\ FreshIds
  /\ \A i \in Elems(sstables) : i < nextId

\* A task that runs nothing refers to no table.
LEMMA NoOpFits == NoOp \in Locals /\ \A n \in Nat \ {0} : AllBelow(NoOp, n)
  BY BoundsAssumption DEF NoOp, Locals, AllBelow, Elems

\* What IdInv says of one task and of the id counter.
LEMMA Here ==
  ASSUME IdInv, NEW t \in Tasks
  PROVE  /\ op[t] \in Locals /\ pc[t] \in Labels /\ Fits(t, pc[t], op[t])
         /\ op[t].id \in Nat /\ op[t].id < nextId
         /\ \A n \in Nat : nextId <= n => AllBelow(op[t], n)
         /\ nextId \in Nat /\ 1 <= nextId /\ nextId <= MaxId + 1
         /\ op = [op EXCEPT ![t] = op[t]] /\ pc = [pc EXCEPT ![t] = pc[t]]
<1>1. /\ op[t] \in Locals /\ pc[t] \in Labels
      /\ op = [op EXCEPT ![t] = op[t]] /\ pc = [pc EXCEPT ![t] = pc[t]]
  BY DEF IdInv, TypeOK, TasksType
<1>2. Fits(t, pc[t], op[t])
  BY DEF IdInv, LocalsOK
<1>3. AllBelow(op[t], nextId) /\ nextId \in Nat /\ 1 <= nextId /\ nextId <= MaxId + 1
  BY BoundsAssumption DEF IdInv, TypeOK, IdsBelow, MemoryType
<1>4. op[t].id \in Nat /\ op[t].id < nextId
  BY <1>1, <1>3 DEF Locals, AllBelow
<1>5. \A i \in Elems(op[t].fresh) \union op[t].expired : i \in Nat
  BY <1>1, BoundsAssumption DEF Locals, Elems
<1>6. \A n \in Nat : nextId <= n => AllBelow(op[t], n)
  BY <1>3, <1>4, <1>5 DEF AllBelow
<1> QED BY <1>1, <1>2, <1>3, <1>4, <1>6

\* A step that moves one task keeps the tasks well formed if the new locals are.
LEMMA OneTask ==
  ASSUME IdInv, NEW t \in Tasks, NEW at \in Labels, NEW r \in Locals,
         pc' = [pc EXCEPT ![t] = at], op' = [op EXCEPT ![t] = r],
         Fits(t, at, r), AllBelow(r, nextId'), nextId' \in Nat, nextId <= nextId'
  PROVE  TasksOK'
<1>1. pc \in [Tasks -> Labels] /\ op \in [Tasks -> Locals]
  BY DEF IdInv, TypeOK, TasksType
<1>2. \A u \in Tasks : /\ pc'[u] = IF u = t THEN at ELSE pc[u]
                       /\ op'[u] = IF u = t THEN r ELSE op[u]
  BY <1>1
<1>3. TasksType'
  BY <1>1 DEF TasksType
<1>4. LocalsOK'
  BY <1>2 DEF IdInv, LocalsOK
<1>5. \A u \in Tasks : AllBelow(op'[u], nextId')
  <2> TAKE u \in Tasks
  <2>1. AllBelow(op[u], nextId')
    BY Here
  <2> QED BY <2>1, <1>2
<1> QED BY <1>3, <1>4, <1>5 DEF TasksOK

\* A batch is a prefix of the list.
LEMMA Batch ==
  ASSUME IdInv, NEW n \in 0..Len(sstables)
  PROVE  SubSeq(sstables, 1, n) \in Seq(Ids) /\ Len(SubSeq(sstables, 1, n)) = n
<1> HIDE DEF Ids
<1>1. sstables \in Seq(Ids)
  BY DEF IdInv, TypeOK, MemoryType
<1>2. Len(sstables) \in Nat
  BY <1>1, LenProperties
<1>3. \A i \in 1..n : sstables[i] \in Ids
  BY <1>1, <1>2, ElementOfSeq
<1>4. SubSeq(sstables, 1, n) \in Seq(Ids)
  BY <1>2, <1>3, SubSeqProperties
<1>5. Len(SubSeq(sstables, 1, n)) = IF 1 <= n THEN n - 1 + 1 ELSE 0
  BY <1>2, <1>3, SubSeqProperties
<1> QED BY <1>2, <1>4, <1>5

\* Tables are deleted one after the other.
LEMMA OneVictim ==
  ASSUME NEW v \in Seq(Ids), v # <<>>
  PROVE  /\ Tail(v) \in Seq(Ids) /\ Head(v) \in Ids
         /\ Len(v) \in Nat /\ Len(v) >= 1
         /\ Len(v) # 1 => Tail(v) # <<>>
<1> HIDE DEF Ids
<1>1. Tail(v) \in Seq(Ids) /\ Head(v) \in Ids /\ Len(Tail(v)) = Len(v) - 1
  BY HeadTailProperties
<1>2. Len(v) \in Nat \ {0}
  BY EmptySeq
<1>3. Len(v) # 1 => Len(Tail(v)) # 0
  BY <1>1, <1>2
<1>4. Len(v) # 1 => Tail(v) # <<>>
  BY <1>3, EmptySeq
<1> QED BY <1>1, <1>2, <1>4

\* The ids of the list were handed out.
LEMMA ListedIds == IdInv => \A i \in Elems(sstables) : i \in Ids /\ i < nextId
<1> SUFFICES ASSUME IdInv, NEW i \in Elems(sstables) PROVE i \in Ids /\ i < nextId
  OBVIOUS
<1>1. sstables \in Seq(Ids)
  BY DEF IdInv, TypeOK, MemoryType
<1>2. PICK k \in DOMAIN sstables : i = sstables[k]
  BY DEF Elems
<1>3. sstables[k] \in Ids
  <2> HIDE DEF Ids
  <2> QED BY <1>1, <1>2, LenProperties, ElementOfSeq
<1>4. \A j \in Elems(sstables) : j < nextId
  BY DEF IdInv, TypeOK, IdsBelow
<1> QED BY <1>2, <1>3, <1>4

\* Tables hold frames.
LEMMA StoredFrames == IdInv => Stored \in SUBSET Frames
  BY DEF IdInv, TypeOK, DiskType, Stored


\* What a writer or a deletion may do to the locals of another task.
Same(u, r) == /\ r.id = op[u].id /\ r.victims = op[u].victims /\ r.size = op[u].size
              /\ r.inode = op[u].inode /\ r.arg = op[u].arg
              /\ r.fresh = op[u].fresh /\ r.expired = op[u].expired

\* Copying flushes whose must and may change keep every task well formed.
LEMMA Copies ==
  ASSUME IdInv, NEW S \in SUBSET Frames
  PROVE  /\ Coming(S) \in [Tasks -> Locals] /\ \A u \in Tasks : Same(u, Coming(S)[u])
         /\ Going(S) \in [Tasks -> Locals] /\ \A u \in Tasks : Same(u, Going(S)[u])
<1>1. ASSUME NEW u \in Tasks
      PROVE  Coming(S)[u] \in Locals /\ Same(u, Coming(S)[u])
  <2>1. op[u] \in Locals
    BY Here
  <2>2. CASE pc[u] = "copy"
    <3>1. Coming(S)[u] = [op[u] EXCEPT !.may = op[u].may \union S]
      BY <2>2 DEF Coming
    <3>2. op[u].may \union S \in SUBSET Frames
      BY <2>1 DEF Locals
    <3> QED BY <2>1, <3>1, <3>2 DEF Locals, Same
  <2>3. CASE pc[u] # "copy"
    BY <2>1, <2>3 DEF Coming, Same
  <2> QED BY <2>2, <2>3
<1>2. ASSUME NEW u \in Tasks
      PROVE  Going(S)[u] \in Locals /\ Same(u, Going(S)[u])
  <2>1. op[u] \in Locals
    BY Here
  <2>2. CASE pc[u] = "copy"
    <3>1. Going(S)[u] = [op[u] EXCEPT !.must = op[u].must \ S,
                                      !.may = op[u].may \union (op[u].must \intersect S)]
      BY <2>2 DEF Going
    <3>2. /\ op[u].must \ S \in SUBSET Frames
          /\ op[u].may \union (op[u].must \intersect S) \in SUBSET Frames
      BY <2>1 DEF Locals
    <3> QED BY <2>1, <3>1, <3>2 DEF Locals, Same
  <2>3. CASE pc[u] # "copy"
    BY <2>1, <2>3 DEF Going, Same
  <2> QED BY <2>2, <2>3
<1>3. Coming(S) \in [Tasks -> Locals]
  BY <1>1 DEF Coming
<1>4. Going(S) \in [Tasks -> Locals]
  BY <1>2 DEF Going
<1> QED BY <1>1, <1>2, <1>3, <1>4

\* OneTask for the two actions that also touch copying flushes.
LEMMA CopiesMove ==
  ASSUME IdInv, NEW t \in Tasks, NEW at \in Labels,
         pc' = [pc EXCEPT ![t] = at], op' \in [Tasks -> Locals],
         \A u \in Tasks : /\ op'[u].id = op[u].id /\ op'[u].victims = op[u].victims
                          /\ op'[u].size = op[u].size /\ op'[u].inode = op[u].inode
                          /\ op'[u].fresh = op[u].fresh /\ op'[u].expired = op[u].expired
                          /\ u # t => op'[u].arg = op[u].arg,
         Fits(t, at, op'[t]), nextId' = nextId
  PROVE  TasksOK'
<1>1. pc \in [Tasks -> Labels]
  BY DEF IdInv, TypeOK, TasksType
<1>2. \A u \in Tasks : pc'[u] = IF u = t THEN at ELSE pc[u]
  BY <1>1
<1>3. TasksType'
  BY <1>1 DEF TasksType
<1>4. ASSUME NEW u \in Tasks PROVE Fits(u, pc'[u], op'[u])
  <2>1. CASE u = t
    BY <2>1, <1>2
  <2>2. CASE u # t
    <3>1. Fits(u, pc[u], op[u]) /\ pc'[u] = pc[u]
      BY <2>2, <1>2 DEF IdInv, LocalsOK
    <3> QED BY <2>2, <3>1 DEF Fits
  <2> QED BY <2>1, <2>2
<1>5. \A u \in Tasks : AllBelow(op'[u], nextId')
  BY Here DEF AllBelow
<1>6. LocalsOK'
  BY <1>4 DEF LocalsOK
<1> QED BY <1>3, <1>5, <1>6 DEF TasksOK

\* What the steps of a write make of the tasks.
LEMMA WriteTasksOK ==
  ASSUME IdInv, NEW t \in Tasks, Write(t) PROVE TasksOK'
<1>1. ASSUME NEW f \in Frames, WriteBegin(t, f) PROVE TasksOK'
  <2>1. pc[t] = "idle" /\ nextId' \in Nat /\ nextId <= nextId'
    BY <1>1, Here DEF WriteBegin, disk, memory
  <2>2. /\ pc' = [pc EXCEPT ![t] = "append"]
        /\ op' = [op EXCEPT ![t] = [op[t] EXCEPT !.arg = f]]
    BY <1>1, <2>1, Here DEF WriteBegin, disk, memory
  <2> DEFINE r == [op[t] EXCEPT !.arg = f]
  <2>3. f \in Frames
    BY <1>1, <2>1, Here, BoundsAssumption DEF WriteBegin, Locals, Fits, FramesOf, IdInv,
       TypeOK, MemoryType, HistoryType
  <2>4. r \in Locals
    BY <2>3, Here DEF Locals
  <2>5. "append" \in Labels /\ Fits(t, "append", r)
    BY <1>1, <2>1, <2>3, Here, RolesAssumption DEF WriteBegin, Labels, Fits, Locals
  <2>6. AllBelow(r, nextId')
    BY <1>1, <2>1, Here DEF WriteBegin, AllBelow, Locals
  <2>7. op' = [op EXCEPT ![t] = r]
    BY <2>2 DEF r
  <2> HIDE DEF r
  <2> QED BY <2>1, <2>2, <2>4, <2>5, <2>6, <2>7, OneTask
<1>2. ASSUME WriteAppend(t) PROVE TasksOK'
  <2>1. pc[t] = "append" /\ nextId' \in Nat /\ nextId <= nextId'
    BY <1>2, Here DEF WriteAppend, Logged, disk, memory
  <2>2. pc' = [pc EXCEPT ![t] = "insert"] /\ op' = [op EXCEPT ![t] = op[t]]
    BY <1>2, <2>1, Here DEF WriteAppend, Logged, disk, memory
  <2>3. "insert" \in Labels /\ Fits(t, "insert", op[t]) /\ AllBelow(op[t], nextId')
    BY <1>2, <2>1, Here, RolesAssumption DEF WriteAppend, Logged, Labels, Fits
  <2> QED BY <2>1, <2>2, <2>3, Here, OneTask
<1>3. ASSUME WriteInsert(t) PROVE TasksOK'
  <2>2. pc[t] = "insert" /\ pc' = [pc EXCEPT ![t] = "full"] /\ op' = Coming({op[t].arg})
        /\ nextId' = nextId
    BY <1>3 DEF WriteInsert
  <2>3. t \in Writers /\ {op[t].arg} \in SUBSET Frames
    BY <2>2, Here DEF Fits
  <2>4. "full" \in Labels /\ Fits(t, "full", op'[t])
    <3>1. op'[t].arg = op[t].arg /\ op[t].arg \in Frames
      BY <2>2, <2>3, Copies, Here DEF Same, Fits
    <3> QED BY <2>3, <3>1 DEF Labels, Fits
  <2>5. /\ op' \in [Tasks -> Locals]
        /\ \A u \in Tasks : /\ op'[u].id = op[u].id /\ op'[u].victims = op[u].victims
                            /\ op'[u].size = op[u].size /\ op'[u].inode = op[u].inode
                            /\ op'[u].fresh = op[u].fresh /\ op'[u].expired = op[u].expired
                            /\ u # t => op'[u].arg = op[u].arg
    BY <2>2, <2>3, Copies DEF Same
  <2> QED BY <2>2, <2>4, <2>5, CopiesMove
<1>4. ASSUME WriteFull(t) PROVE TasksOK'
  <2>1. pc[t] = "full" /\ nextId' \in Nat /\ nextId <= nextId'
    BY <1>4, Here DEF WriteFull, disk, memory
  <2>2. CASE Cardinality(memtable) >= MemtableLimit
    <3>1. pc' = [pc EXCEPT ![t] = "flush"] /\ op' = [op EXCEPT ![t] = op[t]]
      BY <1>4, <2>2, <2>1, Here DEF WriteFull, disk, memory
    <3>2. "flush" \in Labels /\ Fits(t, "flush", op[t]) /\ AllBelow(op[t], nextId')
      BY <1>4, <2>2, <2>1, Here, RolesAssumption DEF WriteFull, Labels, Fits
    <3> QED BY <2>1, <3>1, <3>2, Here, OneTask
  <2>3. CASE ~(Cardinality(memtable) >= MemtableLimit)
    <3>1. pc' = [pc EXCEPT ![t] = "idle"] /\ op' = [op EXCEPT ![t] = NoOp]
      BY <1>4, <2>3, <2>1, Here DEF WriteFull, disk, memory
    <3>2. "idle" \in Labels /\ Fits(t, "idle", NoOp) /\ AllBelow(NoOp, nextId')
      BY <2>1, NoOpFits, Here DEF Labels, Fits
    <3> QED BY <2>1, <3>1, <3>2, NoOpFits, OneTask
  <2> QED BY <2>2, <2>3
<1> QED BY <1>1, <1>2, <1>3, <1>4 DEF Write

\* The same for a flush.
LEMMA FlushTasksOK ==
  ASSUME IdInv, NEW t \in Tasks, Flush(t) PROVE TasksOK'
<1>1. ASSUME TimerTick(t) PROVE TasksOK'
  <2>1. pc[t] = "idle" /\ nextId' \in Nat /\ nextId <= nextId'
    BY <1>1, Here DEF TimerTick, disk, memory
  <2>2. pc' = [pc EXCEPT ![t] = "flush"] /\ op' = [op EXCEPT ![t] = op[t]]
    BY <1>1, <2>1, Here DEF TimerTick, disk, memory
  <2>3. "flush" \in Labels /\ Fits(t, "flush", op[t]) /\ AllBelow(op[t], nextId')
    BY <1>1, <2>1, Here, RolesAssumption DEF TimerTick, Labels, Fits
  <2> QED BY <2>1, <2>2, <2>3, Here, OneTask
<1>2. ASSUME FlushBegin(t) PROVE TasksOK'
  <2>1. pc[t] = "flush" /\ nextId' \in Nat /\ nextId <= nextId'
    BY <1>2, Here DEF FlushBegin, Allocate, disk, memory
  <2>2. /\ pc' = [pc EXCEPT ![t] = "copy"]
        /\ op' = [op EXCEPT ![t] = [op[t] EXCEPT !.id = nextId, !.must = memtable, !.may = {}]]
    BY <1>2, <2>1, Here DEF FlushBegin, Allocate, disk, memory
  <2> DEFINE r == [op[t] EXCEPT !.id = nextId, !.must = memtable, !.may = {}]
  <2>3. nextId \in Ids /\ nextId \in 0..MaxId /\ memtable \in SUBSET Frames
    BY <1>2, <2>1, Here, BoundsAssumption DEF FlushBegin, Allocate, Locals, Fits,
       FramesOf, IdInv, TypeOK, MemoryType, HistoryType
  <2>4. r \in Locals
    BY <2>3, Here DEF Locals
  <2>5. "copy" \in Labels /\ Fits(t, "copy", r)
    BY <1>2, <2>1, <2>3, Here, RolesAssumption DEF FlushBegin, Allocate, Labels, Fits,
       Locals
  <2>6. AllBelow(r, nextId')
    BY <1>2, <2>1, Here DEF FlushBegin, Allocate, AllBelow, Locals
  <2>7. op' = [op EXCEPT ![t] = r]
    BY <2>2 DEF r
  <2> HIDE DEF r
  <2> QED BY <2>1, <2>2, <2>4, <2>5, <2>6, <2>7, OneTask
<1>3. ASSUME NEW extra \in SUBSET op[t].may, FlushPublish(t, op[t].must \union extra)
      PROVE  TasksOK'
  <2>1. pc[t] = "copy" /\ nextId' \in Nat /\ nextId <= nextId'
    BY <1>3, Here DEF FlushPublish, disk, memory
  <2>2. CASE op[t].must \union extra = {}
    <3>1. pc' = [pc EXCEPT ![t] = "idle"] /\ op' = [op EXCEPT ![t] = NoOp]
      BY <1>3, <2>2, <2>1, Here DEF FlushPublish, disk, memory
    <3>2. "idle" \in Labels /\ Fits(t, "idle", NoOp) /\ AllBelow(NoOp, nextId')
      BY <2>1, NoOpFits, Here DEF Labels, Fits
    <3> QED BY <2>1, <3>1, <3>2, NoOpFits, OneTask
  <2>3. CASE op[t].must \union extra # {}
    <3>1. /\ pc' = [pc EXCEPT ![t] = "clear"]
          /\ op' = [op EXCEPT ![t] = [op[t] EXCEPT !.must = {}, !.may = {}]]
      BY <1>3, <2>3, <2>1, Here DEF FlushPublish, disk, memory
    <3> DEFINE r == [op[t] EXCEPT !.must = {}, !.may = {}]
    <3>2. {} \in SUBSET Frames
      BY <1>3, <2>3, <2>1, Here, BoundsAssumption DEF FlushPublish, Locals, Fits,
         FramesOf, IdInv, TypeOK, MemoryType, HistoryType
    <3>3. r \in Locals
      BY <3>2, Here, ZenonT(30) DEF Locals
    <3>4. "clear" \in Labels /\ Fits(t, "clear", r)
      BY <1>3, <2>3, <2>1, <3>2, Here, RolesAssumption, ZenonT(30) DEF FlushPublish, Labels, Fits,
         Locals
    <3>5. AllBelow(r, nextId')
      BY <1>3, <2>3, <2>1, Here DEF FlushPublish, AllBelow, Locals
    <3>6. op' = [op EXCEPT ![t] = r]
      BY <3>1 DEF r
    <3> HIDE DEF r
    <3> QED BY <2>1, <3>1, <3>3, <3>4, <3>5, <3>6, OneTask
  <2> QED BY <2>2, <2>3
<1>4. ASSUME FlushClear(t) PROVE TasksOK'
  <2>1. pc[t] = "clear" /\ nextId' \in Nat /\ nextId <= nextId'
    BY <1>4, Here DEF FlushClear, disk, memory
  <2>2. pc' = [pc EXCEPT ![t] = "check"] /\ op' = [op EXCEPT ![t] = op[t]]
    BY <1>4, <2>1, Here DEF FlushClear, disk, memory
  <2>3. "check" \in Labels /\ Fits(t, "check", op[t]) /\ AllBelow(op[t], nextId')
    BY <1>4, <2>1, Here, RolesAssumption DEF FlushClear, Labels, Fits
  <2> QED BY <2>1, <2>2, <2>3, Here, OneTask
<1>5. ASSUME TruncateCheck(t) PROVE TasksOK'
  <2>1. pc[t] = "check" /\ nextId' \in Nat /\ nextId <= nextId'
    BY <1>5, Here DEF TruncateCheck, disk, memory
  <2>2. CASE walPath # None
    <3>1. pc' = [pc EXCEPT ![t] = "unlink"] /\ op' = [op EXCEPT ![t] = op[t]]
      BY <1>5, <2>2, <2>1, Here DEF TruncateCheck, disk, memory
    <3>2. "unlink" \in Labels /\ Fits(t, "unlink", op[t]) /\ AllBelow(op[t], nextId')
      BY <1>5, <2>2, <2>1, Here, RolesAssumption DEF TruncateCheck, Labels, Fits
    <3> QED BY <2>1, <3>1, <3>2, Here, OneTask
  <2>3. CASE walPath = None
    <3>1. pc' = [pc EXCEPT ![t] = "reopen"] /\ op' = [op EXCEPT ![t] = op[t]]
      BY <1>5, <2>3, <2>1, Here DEF TruncateCheck, disk, memory
    <3>2. "reopen" \in Labels /\ Fits(t, "reopen", op[t]) /\ AllBelow(op[t], nextId')
      BY <1>5, <2>3, <2>1, Here, RolesAssumption DEF TruncateCheck, Labels, Fits
    <3> QED BY <2>1, <3>1, <3>2, Here, OneTask
  <2> QED BY <2>2, <2>3
<1>6. ASSUME TruncateUnlink(t) PROVE TasksOK'
  <2>1. pc[t] = "unlink" /\ nextId' \in Nat /\ nextId <= nextId'
    BY <1>6, Here DEF TruncateUnlink, disk, memory
  <2>2. CASE walPath = None
    <3>1. pc' = [pc EXCEPT ![t] = "idle"] /\ op' = [op EXCEPT ![t] = NoOp]
      BY <1>6, <2>2, <2>1, Here DEF TruncateUnlink, disk, memory
    <3>2. "idle" \in Labels /\ Fits(t, "idle", NoOp) /\ AllBelow(NoOp, nextId')
      BY <2>1, NoOpFits, Here DEF Labels, Fits
    <3> QED BY <2>1, <3>1, <3>2, NoOpFits, OneTask
  <2>3. CASE walPath # None
    <3>1. pc' = [pc EXCEPT ![t] = "reopen"] /\ op' = [op EXCEPT ![t] = op[t]]
      BY <1>6, <2>3, <2>1, Here DEF TruncateUnlink, disk, memory
    <3>2. "reopen" \in Labels /\ Fits(t, "reopen", op[t]) /\ AllBelow(op[t], nextId')
      BY <1>6, <2>3, <2>1, Here, RolesAssumption DEF TruncateUnlink, Labels, Fits
    <3> QED BY <2>1, <3>1, <3>2, Here, OneTask
  <2> QED BY <2>2, <2>3
<1>7. ASSUME TruncateReopen(t) PROVE TasksOK'
  <2>1. pc[t] = "reopen" /\ nextId' \in Nat /\ nextId <= nextId'
    BY <1>7, Here DEF TruncateReopen, Created, disk, memory
  <2>2. pc[t] = "reopen" /\ pc' = [pc EXCEPT ![t] = "swap"]
    BY <1>7 DEF TruncateReopen
  <2>3. PICK i \in Inodes : op' = [op EXCEPT ![t] = [op[t] EXCEPT !.inode = i]]
    BY <1>7 DEF TruncateReopen
  <2> DEFINE r == [op[t] EXCEPT !.inode = i]
  <2>4. r \in Locals
    BY Here DEF Locals
  <2>5. "swap" \in Labels /\ Fits(t, "swap", r) /\ AllBelow(r, nextId')
    BY <2>1, <2>2, Here, NoneAssumption DEF Labels, Fits, Locals, AllBelow
  <2>6. op' = [op EXCEPT ![t] = r]
    BY <2>3
  <2> HIDE DEF r
  <2> QED BY <2>1, <2>2, <2>4, <2>5, <2>6, OneTask
<1>8. ASSUME TruncateSwap(t) PROVE TasksOK'
  <2>1. pc[t] = "swap" /\ nextId' \in Nat /\ nextId <= nextId'
    BY <1>8, Here DEF TruncateSwap, NewHandle, disk, memory
  <2>2. CASE Len(sstables) > CompactionThreshold
    <3>1. /\ pc' = [pc EXCEPT ![t] = "measure"]
          /\ op' = [op EXCEPT ![t] = [op[t] EXCEPT !.inode = None, !.id = 0]]
      BY <1>8, <2>2, <2>1, Here DEF TruncateSwap, NewHandle, disk, memory
    <3> DEFINE r == [op[t] EXCEPT !.inode = None, !.id = 0]
    <3>2. 0 \in 0..MaxId
      BY <1>8, <2>2, <2>1, Here, BoundsAssumption DEF TruncateSwap, NewHandle, Locals,
         Fits, FramesOf, IdInv, TypeOK, MemoryType, HistoryType
    <3>3. r \in Locals
      BY <3>2, Here, ZenonT(30) DEF Locals
    <3>4. "measure" \in Labels /\ Fits(t, "measure", r)
      BY <1>8, <2>2, <2>1, <3>2, Here, RolesAssumption DEF TruncateSwap, NewHandle,
         Labels, Fits, Locals
    <3>5. AllBelow(r, nextId')
      BY <1>8, <2>2, <2>1, Here DEF TruncateSwap, NewHandle, AllBelow, Locals
    <3>6. op' = [op EXCEPT ![t] = r]
      BY <3>1 DEF r
    <3> HIDE DEF r
    <3> QED BY <2>1, <3>1, <3>3, <3>4, <3>5, <3>6, OneTask
  <2>3. CASE ~(Len(sstables) > CompactionThreshold)
    <3>1. pc' = [pc EXCEPT ![t] = "idle"] /\ op' = [op EXCEPT ![t] = NoOp]
      BY <1>8, <2>3, <2>1, Here DEF TruncateSwap, NewHandle, disk, memory
    <3>2. "idle" \in Labels /\ Fits(t, "idle", NoOp) /\ AllBelow(NoOp, nextId')
      BY <2>1, NoOpFits, Here DEF Labels, Fits
    <3> QED BY <2>1, <3>1, <3>2, NoOpFits, OneTask
  <2> QED BY <2>2, <2>3
<1> QED BY <1>1, <1>2, <1>3, <1>4, <1>5, <1>6, <1>7, <1>8 DEF Flush

\* The same for a compaction: its batch is a prefix of the list, and shrinks.
LEMMA CompactTasksOK ==
  ASSUME IdInv, NEW t \in Tasks, Compact(t) PROVE TasksOK'
<1>1. ASSUME CompactMeasure(t) PROVE TasksOK'
  <2>1. pc[t] = "measure" /\ nextId' \in Nat /\ nextId <= nextId'
    BY <1>1, Here DEF CompactMeasure, disk, memory
  <2>2. CASE CompactionThreshold < Len(sstables)
    <3>1. /\ pc' = [pc EXCEPT ![t] = "snapshot"]
          /\ op' = [op EXCEPT ![t] = [op[t] EXCEPT !.size = CompactionThreshold]]
      BY <1>1, <2>2, <2>1, Here DEF CompactMeasure, disk, memory
    <3> DEFINE r == [op[t] EXCEPT !.size = CompactionThreshold]
    <3>2. CompactionThreshold \in Nat
      BY <1>1, <2>2, <2>1, Here, BoundsAssumption DEF CompactMeasure, Locals, Fits,
         FramesOf, IdInv, TypeOK, MemoryType, HistoryType
    <3>3. r \in Locals
      BY <3>2, Here DEF Locals
    <3>4. "snapshot" \in Labels /\ Fits(t, "snapshot", r)
      BY <1>1, <2>2, <2>1, <3>2, Here, RolesAssumption DEF CompactMeasure, Labels, Fits,
         Locals
    <3>5. AllBelow(r, nextId')
      BY <1>1, <2>2, <2>1, Here DEF CompactMeasure, AllBelow, Locals
    <3>6. op' = [op EXCEPT ![t] = r]
      BY <3>1 DEF r
    <3> HIDE DEF r
    <3> QED BY <2>1, <3>1, <3>3, <3>4, <3>5, <3>6, OneTask
  <2>3. CASE ~(CompactionThreshold < Len(sstables))
    <3>1. /\ pc' = [pc EXCEPT ![t] = "snapshot"]
          /\ op' = [op EXCEPT ![t] = [op[t] EXCEPT !.size = Len(sstables)]]
      BY <1>1, <2>3, <2>1, Here DEF CompactMeasure, disk, memory
    <3> DEFINE r == [op[t] EXCEPT !.size = Len(sstables)]
    <3>2. Len(sstables) \in Nat
      BY <1>1, <2>3, <2>1, Here, BoundsAssumption DEF CompactMeasure, Locals, Fits,
         FramesOf, IdInv, TypeOK, MemoryType, HistoryType
    <3>3. r \in Locals
      BY <3>2, Here DEF Locals
    <3>4. "snapshot" \in Labels /\ Fits(t, "snapshot", r)
      BY <1>1, <2>3, <2>1, <3>2, Here, RolesAssumption DEF CompactMeasure, Labels, Fits,
         Locals
    <3>5. AllBelow(r, nextId')
      BY <1>1, <2>3, <2>1, Here DEF CompactMeasure, AllBelow, Locals
    <3>6. op' = [op EXCEPT ![t] = r]
      BY <3>1 DEF r
    <3> HIDE DEF r
    <3> QED BY <2>1, <3>1, <3>3, <3>4, <3>5, <3>6, OneTask
  <2> QED BY <2>2, <2>3
<1>2. ASSUME CompactSnapshot(t) PROVE TasksOK'
  <2>1. pc[t] = "snapshot" /\ nextId' \in Nat /\ nextId <= nextId'
    BY <1>2, Here DEF CompactSnapshot, disk, memory
  <2>2. CASE Len(sstables) < op[t].size
    <3>1. pc' = [pc EXCEPT ![t] = "dead"] /\ op' = [op EXCEPT ![t] = NoOp]
      BY <1>2, <2>2, <2>1, Here DEF CompactSnapshot, disk, memory
    <3>2. "dead" \in Labels /\ Fits(t, "dead", NoOp) /\ AllBelow(NoOp, nextId')
      BY <2>1, NoOpFits, Here DEF Labels, Fits
    <3> QED BY <2>1, <3>1, <3>2, NoOpFits, OneTask
  <2>3. CASE ~(Len(sstables) < op[t].size)
    <3>1. /\ pc' = [pc EXCEPT ![t] = "merge"]
          /\ op' = [op EXCEPT ![t] = [op[t] EXCEPT !.victims = SubSeq(sstables, 1, op[t].size)]]
      BY <1>2, <2>3, <2>1, Here DEF CompactSnapshot, disk, memory
    <3> DEFINE r == [op[t] EXCEPT !.victims = SubSeq(sstables, 1, op[t].size)]
    <3>2. /\ SubSeq(sstables, 1, op[t].size) \in Seq(Ids)
          /\ Len(SubSeq(sstables, 1, op[t].size)) = op[t].size
      BY <1>2, <2>3, <2>1, Here, BoundsAssumption, Batch, SMTT(30) DEF CompactSnapshot, Locals,
         Fits, FramesOf, IdInv, TypeOK, MemoryType, HistoryType
    <3>3. r \in Locals
      BY <3>2, Here DEF Locals
    <3>4. "merge" \in Labels /\ Fits(t, "merge", r)
      <4>1. /\ r.arg = op[t].arg
            /\ r.victims = SubSeq(sstables, 1, op[t].size)
            /\ r.size = op[t].size
            /\ r.id = op[t].id
        BY Here DEF Locals
      <4>2. t \in Writers => op[t].arg \in Frames
        BY <2>1, Here DEF Fits
      <4> HIDE DEF r
      <4> QED BY <2>1, <3>2, <4>1, <4>2, Here DEF Labels, Fits
    <3>5. AllBelow(r, nextId')
      BY <1>2, <2>3, <2>1, Here DEF CompactSnapshot, AllBelow, Locals
    <3>6. op' = [op EXCEPT ![t] = r]
      BY <3>1 DEF r
    <3> HIDE DEF r
    <3> QED BY <2>1, <3>1, <3>3, <3>4, <3>5, <3>6, OneTask
  <2> QED BY <2>2, <2>3
<1>3. ASSUME NEW merged \in SUBSET Stored, CompactBegin(t, merged) PROVE TasksOK'
  <2>1. pc[t] = "merge" /\ nextId' \in Nat /\ nextId <= nextId'
    BY <1>3, Here DEF CompactBegin, Allocate, disk, memory
  <2>2. CASE op[t].victims = <<>> \/ \E v \in Elems(op[t].victims) : files[v] = {}
    <3>1. pc' = [pc EXCEPT ![t] = "idle"] /\ op' = [op EXCEPT ![t] = NoOp]
      BY <1>3, <2>2, <2>1, Here DEF CompactBegin, Allocate, disk, memory
    <3>2. "idle" \in Labels /\ Fits(t, "idle", NoOp) /\ AllBelow(NoOp, nextId')
      BY <2>1, NoOpFits, Here DEF Labels, Fits
    <3> QED BY <2>1, <3>1, <3>2, NoOpFits, OneTask
  <2>3. CASE ~(op[t].victims = <<>> \/ \E v \in Elems(op[t].victims) : files[v] = {})
    <3>1. /\ pc' = [pc EXCEPT ![t] = "merging"]
          /\ op' = [op EXCEPT ![t] = [op[t] EXCEPT !.id = nextId, !.must = merged]]
      BY <1>3, <2>3, <2>1, Here DEF CompactBegin, Allocate, disk, memory
    <3> DEFINE r == [op[t] EXCEPT !.id = nextId, !.must = merged]
    <3>2. nextId \in Ids /\ nextId \in 0..MaxId /\ merged \in SUBSET Frames
      BY <1>3, <2>3, <2>1, Here, BoundsAssumption, StoredFrames, SMTT(30) DEF CompactBegin,
         Allocate, Locals, Fits, FramesOf, IdInv, TypeOK, MemoryType, HistoryType
    <3>3. r \in Locals
      BY <3>2, Here DEF Locals
    <3>4. "merging" \in Labels /\ Fits(t, "merging", r)
      BY <1>3, <2>3, <2>1, <3>2, Here, RolesAssumption DEF CompactBegin, Allocate,
         Labels, Fits, Locals
    <3>5. AllBelow(r, nextId')
      BY <1>3, <2>3, <2>1, Here DEF CompactBegin, Allocate, AllBelow, Locals
    <3>6. op' = [op EXCEPT ![t] = r]
      BY <3>1 DEF r
    <3> HIDE DEF r
    <3> QED BY <2>1, <3>1, <3>3, <3>4, <3>5, <3>6, OneTask
  <2> QED BY <2>2, <2>3
<1>4. ASSUME CompactFinish(t) PROVE TasksOK'
  <2>1. pc[t] = "merging" /\ nextId' \in Nat /\ nextId <= nextId'
    BY <1>4, Here DEF CompactFinish, disk, memory
  <2>2. /\ pc' = [pc EXCEPT ![t] = "install"]
        /\ op' = [op EXCEPT ![t] = [op[t] EXCEPT !.must = {}]]
    BY <1>4, <2>1, Here DEF CompactFinish, disk, memory
  <2> DEFINE r == [op[t] EXCEPT !.must = {}]
  <2>3. {} \in SUBSET Frames
    BY <1>4, <2>1, Here, BoundsAssumption DEF CompactFinish, Locals, Fits, FramesOf,
       IdInv, TypeOK, MemoryType, HistoryType
  <2>4. r \in Locals
    BY <2>3, Here, ZenonT(30) DEF Locals
  <2>5. "install" \in Labels /\ Fits(t, "install", r)
    BY <1>4, <2>1, <2>3, Here, RolesAssumption DEF CompactFinish, Labels, Fits, Locals
  <2>6. AllBelow(r, nextId')
    BY <1>4, <2>1, Here DEF CompactFinish, AllBelow, Locals
  <2>7. op' = [op EXCEPT ![t] = r]
    BY <2>2 DEF r
  <2> HIDE DEF r
  <2> QED BY <2>1, <2>2, <2>4, <2>5, <2>6, <2>7, OneTask
<1>5. ASSUME CompactInstall(t) PROVE TasksOK'
  <2>1. pc[t] = "install" /\ nextId' \in Nat /\ nextId <= nextId'
    BY <1>5, Here DEF CompactInstall, AfterDrain, disk, memory
  <2>2. CASE Len(sstables) < op[t].size
    <3>1. pc' = [pc EXCEPT ![t] = "dead"] /\ op' = [op EXCEPT ![t] = NoOp]
      BY <1>5, <2>2, <2>1, Here DEF CompactInstall, AfterDrain, disk, memory
    <3>2. "dead" \in Labels /\ Fits(t, "dead", NoOp) /\ AllBelow(NoOp, nextId')
      BY <2>1, NoOpFits, Here DEF Labels, Fits
    <3> QED BY <2>1, <3>1, <3>2, NoOpFits, OneTask
  <2>3. CASE ~(Len(sstables) < op[t].size)
    <3>1. pc' = [pc EXCEPT ![t] = "purge"] /\ op' = [op EXCEPT ![t] = op[t]]
      BY <1>5, <2>3, <2>1, Here DEF CompactInstall, AfterDrain, disk, memory
    <3>2. "purge" \in Labels /\ Fits(t, "purge", op[t]) /\ AllBelow(op[t], nextId')
      BY <1>5, <2>3, <2>1, Here, RolesAssumption DEF CompactInstall, AfterDrain, Labels,
         Fits
    <3> QED BY <2>1, <3>1, <3>2, Here, OneTask
  <2> QED BY <2>2, <2>3
<1>6. ASSUME CompactPurge(t) PROVE TasksOK'
  <2>1. pc[t] = "purge" /\ nextId' \in Nat /\ nextId <= nextId'
    BY <1>6, Here DEF CompactPurge, disk, memory
  <2>2. CASE Len(op[t].victims) = 1
    <3>1. pc' = [pc EXCEPT ![t] = "idle"] /\ op' = [op EXCEPT ![t] = NoOp]
      BY <1>6, <2>2, <2>1, Here DEF CompactPurge, disk, memory
    <3>2. "idle" \in Labels /\ Fits(t, "idle", NoOp) /\ AllBelow(NoOp, nextId')
      BY <2>1, NoOpFits, Here DEF Labels, Fits
    <3> QED BY <2>1, <3>1, <3>2, NoOpFits, OneTask
  <2>3. CASE Len(op[t].victims) # 1
    <3>1. /\ pc' = [pc EXCEPT ![t] = "purge"]
          /\ op' = [op EXCEPT ![t] = [op[t] EXCEPT !.victims = Tail(op[t].victims)]]
      BY <1>6, <2>3, <2>1, Here DEF CompactPurge, disk, memory
    <3> DEFINE r == [op[t] EXCEPT !.victims = Tail(op[t].victims)]
    <3>2. Tail(op[t].victims) \in Seq(Ids) /\ Tail(op[t].victims) # <<>>
      BY <1>6, <2>3, <2>1, Here, BoundsAssumption, OneVictim DEF CompactPurge, Locals,
         Fits, FramesOf, IdInv, TypeOK, MemoryType, HistoryType
    <3>3. r \in Locals
      BY <3>2, Here DEF Locals
    <3>4. "purge" \in Labels /\ Fits(t, "purge", r)
      <4>1. /\ r.arg = op[t].arg
            /\ r.victims = Tail(op[t].victims)
            /\ r.size = op[t].size
            /\ r.id = op[t].id
        BY Here DEF Locals
      <4>2. t \in Writers => op[t].arg \in Frames
        BY <2>1, Here DEF Fits
      <4> HIDE DEF r
      <4> QED BY <2>1, <3>2, <4>1, <4>2, Here DEF Labels, Fits
    <3>5. AllBelow(r, nextId')
      BY <1>6, <2>3, <2>1, Here DEF CompactPurge, AllBelow, Locals
    <3>6. op' = [op EXCEPT ![t] = r]
      BY <3>1 DEF r
    <3> HIDE DEF r
    <3> QED BY <2>1, <3>1, <3>3, <3>4, <3>5, <3>6, OneTask
  <2> QED BY <2>2, <2>3
<1> QED BY <1>1, <1>2, <1>3, <1>4, <1>5, <1>6 DEF Compact

\* The same for a device deletion: fresh grows by ids just handed out.
LEMMA DeleteTasksOK ==
  ASSUME IdInv, NEW t \in Tasks, Delete(t) PROVE TasksOK'
<1>1. ASSUME NEW d \in Devices, DeleteBegin(t, d) PROVE TasksOK'
  <2>2. /\ pc[t] = "idle" /\ t \in Deleters /\ pc' = [pc EXCEPT ![t] = "list"]
        /\ op' = [Going(FramesOf(d)) EXCEPT ![t].arg = d,
                                            ![t].may = acked \intersect FramesOf(d)]
        /\ nextId' = nextId
    BY <1>1 DEF DeleteBegin
  <2>3. FramesOf(d) \in SUBSET Frames /\ acked \intersect FramesOf(d) \in SUBSET Frames
    BY DEF FramesOf
  <2> DEFINE g == Going(FramesOf(d))
  <2>4. g \in [Tasks -> Locals] /\ \A u \in Tasks : Same(u, g[u])
    BY <2>3, Copies
  <2>5. op' \in [Tasks -> Locals] /\ (\A u \in Tasks : u # t => op'[u] = g[u])
        /\ op'[t] = [g[t] EXCEPT !.arg = d, !.may = acked \intersect FramesOf(d)]
    <3> HIDE DEF g
    <3>1. op' = [g EXCEPT ![t].arg = d, ![t].may = acked \intersect FramesOf(d)]
      BY <2>2 DEF g
    <3>2. g[t] \in Locals
      BY <2>4
    <3>3. op' = [g EXCEPT ![t] = [g[t] EXCEPT !.arg = d, !.may = acked \intersect FramesOf(d)]]
      BY <3>1, <2>4
    <3>4. [g[t] EXCEPT !.arg = d, !.may = acked \intersect FramesOf(d)] \in Locals
      BY <3>2, <2>3 DEF Locals
    <3> QED BY <2>4, <3>3, <3>4
  <2>6. \A u \in Tasks : /\ op'[u].id = op[u].id /\ op'[u].victims = op[u].victims
                         /\ op'[u].size = op[u].size /\ op'[u].inode = op[u].inode
                         /\ op'[u].fresh = op[u].fresh /\ op'[u].expired = op[u].expired
                         /\ u # t => op'[u].arg = op[u].arg
    <3> HIDE DEF g
    <3>1. g[t] \in Locals
      BY <2>4
    <3>2. /\ op'[t].id = g[t].id /\ op'[t].victims = g[t].victims
          /\ op'[t].size = g[t].size /\ op'[t].inode = g[t].inode
          /\ op'[t].fresh = g[t].fresh /\ op'[t].expired = g[t].expired
      BY <2>5, <3>1 DEF Locals
    <3>3. Same(t, g[t])
      BY <2>4
    <3>4. \A u \in Tasks \ {t} : Same(u, op'[u])
      BY <2>4, <2>5
    <3> HIDE DEF g
    <3> QED BY <3>2, <3>3, <3>4 DEF Same
  <2>7. "list" \in Labels /\ Fits(t, "list", op'[t])
    BY <2>2, RolesAssumption DEF Labels, Fits
  <2> HIDE DEF g
  <2> QED BY <2>2, <2>5, <2>6, <2>7, CopiesMove
<1>2. ASSUME DeleteSnapshot(t) PROVE TasksOK'
  <2>1. pc[t] = "list" /\ nextId' \in Nat /\ nextId <= nextId'
    BY <1>2, Here DEF DeleteSnapshot, disk, memory
  <2>2. CASE sstables = <<>>
    <3>1. /\ pc' = [pc EXCEPT ![t] = "unregister"]
          /\ op' = [op EXCEPT ![t] =
                [op[t] EXCEPT !.victims = sstables, !.fresh = <<>>, !.size = 0]]
      BY <1>2, <2>2, <2>1, Here DEF DeleteSnapshot, disk, memory
    <3> DEFINE r == [op[t] EXCEPT !.victims = sstables, !.fresh = <<>>, !.size = 0]
    <3>2. sstables \in Seq(Ids) /\ <<>> \in Seq(Ids)
      BY <1>2, <2>2, <2>1, Here, BoundsAssumption DEF DeleteSnapshot, Locals, Fits,
         FramesOf, IdInv, TypeOK, MemoryType, HistoryType
    <3>3. r \in Locals
      BY <3>2, Here, ZenonT(30) DEF Locals
    <3>4. "unregister" \in Labels /\ Fits(t, "unregister", r)
      BY <1>2, <2>2, <2>1, <3>2, Here, RolesAssumption DEF DeleteSnapshot, Labels, Fits,
         Locals
    <3>5. AllBelow(r, nextId')
      BY <1>2, <2>2, <2>1, Here DEF DeleteSnapshot, AllBelow, Locals, Elems
    <3>6. op' = [op EXCEPT ![t] = r]
      BY <3>1 DEF r
    <3> HIDE DEF r
    <3> QED BY <2>1, <3>1, <3>3, <3>4, <3>5, <3>6, OneTask
  <2>3. CASE sstables # <<>>
    <3>1. /\ pc' = [pc EXCEPT ![t] = "open"]
          /\ op' = [op EXCEPT ![t] =
                [op[t] EXCEPT !.victims = sstables, !.fresh = <<>>, !.size = 0]]
      BY <1>2, <2>3, <2>1, Here DEF DeleteSnapshot, disk, memory
    <3> DEFINE r == [op[t] EXCEPT !.victims = sstables, !.fresh = <<>>, !.size = 0]
    <3>2. sstables \in Seq(Ids) /\ <<>> \in Seq(Ids)
      BY <1>2, <2>3, <2>1, Here, BoundsAssumption DEF DeleteSnapshot, Locals, Fits,
         FramesOf, IdInv, TypeOK, MemoryType, HistoryType
    <3>3. r \in Locals
      BY <3>2, Here, ZenonT(30) DEF Locals
    <3>4. "open" \in Labels /\ Fits(t, "open", r)
      BY <1>2, <2>3, <2>1, <3>2, Here, RolesAssumption DEF DeleteSnapshot, Labels, Fits,
         Locals
    <3>5. AllBelow(r, nextId')
      BY <1>2, <2>3, <2>1, Here DEF DeleteSnapshot, AllBelow, Locals, Elems
    <3>6. op' = [op EXCEPT ![t] = r]
      BY <3>1 DEF r
    <3> HIDE DEF r
    <3> QED BY <2>1, <3>1, <3>3, <3>4, <3>5, <3>6, OneTask
  <2> QED BY <2>2, <2>3
<1>3. ASSUME DeleteOpen(t) PROVE TasksOK'
  <2>1. pc[t] = "open" /\ nextId' \in Nat /\ nextId <= nextId'
    BY <1>3, Here DEF DeleteOpen, disk, memory
  <2>2. CASE \E v \in Elems(op[t].victims) : files[v] = {}
    <3>1. pc' = [pc EXCEPT ![t] = "idle"] /\ op' = [op EXCEPT ![t] = NoOp]
      BY <1>3, <2>2, <2>1, Here DEF DeleteOpen, disk, memory
    <3>2. "idle" \in Labels /\ Fits(t, "idle", NoOp) /\ AllBelow(NoOp, nextId')
      BY <2>1, NoOpFits, Here DEF Labels, Fits
    <3> QED BY <2>1, <3>1, <3>2, NoOpFits, OneTask
  <2>3. CASE ~(\E v \in Elems(op[t].victims) : files[v] = {})
    <3>1. pc' = [pc EXCEPT ![t] = "rewrite"] /\ op' = [op EXCEPT ![t] = op[t]]
      BY <1>3, <2>3, <2>1, Here DEF DeleteOpen, disk, memory
    <3>2. "rewrite" \in Labels /\ Fits(t, "rewrite", op[t]) /\ AllBelow(op[t], nextId')
      BY <1>3, <2>3, <2>1, Here, RolesAssumption DEF DeleteOpen, Labels, Fits
    <3> QED BY <2>1, <3>1, <3>2, Here, OneTask
  <2> QED BY <2>2, <2>3
<1>4. ASSUME DeleteRewrite(t) PROVE TasksOK'
  <2>1. pc[t] = "rewrite" /\ nextId' \in Nat /\ nextId <= nextId'
    BY <1>4, Here DEF DeleteRewrite, Allocate, Kept, disk, memory
  <2>2. pc[t] = "rewrite" /\ op[t].size < Len(op[t].victims)
        /\ op[t].size + 1 \in Nat /\ op[t].size \in Nat
    BY <1>4, Here DEF DeleteRewrite, Fits, Locals
  <2> DEFINE source == files[op[t].victims[op[t].size + 1]]
             rest == Kept(source, op[t].arg)
             to == IF op[t].size + 1 = Len(op[t].victims) THEN "replace" ELSE "rewrite"
  <2>3. CASE source = {}
    <3>1. pc' = [pc EXCEPT ![t] = "idle"] /\ op' = [op EXCEPT ![t] = NoOp]
      BY <1>4, <2>3 DEF DeleteRewrite
    <3>2. "idle" \in Labels /\ Fits(t, "idle", NoOp) /\ AllBelow(NoOp, nextId')
      BY <2>1, NoOpFits, Here DEF Labels, Fits
    <3> QED BY <2>1, <3>1, <3>2, NoOpFits, OneTask
  <2>4. CASE source # {} /\ rest = {}
    <3> DEFINE r == [op[t] EXCEPT !.size = op[t].size + 1]
    <3>1. pc' = [pc EXCEPT ![t] = to] /\ op' = [op EXCEPT ![t] = r]
      BY <1>4, <2>4 DEF DeleteRewrite
    <3>2. r \in Locals
      BY <2>2, Here DEF Locals
    <3>3. to \in Labels /\ Fits(t, to, r) /\ AllBelow(r, nextId')
      <4>1. to \in Labels /\ Fits(t, to, r)
        <5>1. /\ r.arg = op[t].arg /\ r.size = op[t].size + 1
              /\ r.victims = op[t].victims /\ r.victims # <<>>
          BY <2>2, Here DEF Locals, Fits
        <5>2. t \in Writers => op[t].arg \in Frames
          BY <2>2, Here DEF Fits
        <5>3. to = "rewrite" => r.size < Len(r.victims)
          BY <2>2, <5>1, OneVictim, Here DEF Locals
        <5>4. to \in {"rewrite", "replace"}
          OBVIOUS
        <5> HIDE DEF r, to
        <5> QED BY <5>1, <5>2, <5>3, <5>4 DEF Labels, Fits
      <4>2. AllBelow(r, nextId')
        BY <2>1, <2>2, Here DEF AllBelow, Locals
      <4> QED BY <4>1, <4>2
    <3> HIDE DEF r, to
    <3> QED BY <2>1, <3>1, <3>2, <3>3, OneTask
  <2>5. CASE source # {} /\ rest # {}
    <3> DEFINE r == [op[t] EXCEPT !.size = op[t].size + 1,
                                  !.fresh = Append(op[t].fresh, nextId)]
    <3>1. /\ pc' = [pc EXCEPT ![t] = to] /\ op' = [op EXCEPT ![t] = r]
          /\ nextId \in Ids
      BY <1>4, <2>5 DEF DeleteRewrite, Allocate
    <3>2. Append(op[t].fresh, nextId) \in Seq(Ids)
      BY <3>1, Here DEF Locals
    <3>3. r \in Locals
      BY <2>2, <3>2, Here DEF Locals
    <3>4. to \in Labels /\ Fits(t, to, r) /\ AllBelow(r, nextId')
      <4>1. to \in Labels /\ Fits(t, to, r)
        <5>1. /\ r.arg = op[t].arg /\ r.size = op[t].size + 1
              /\ r.victims = op[t].victims /\ r.victims # <<>>
          BY <2>2, Here DEF Locals, Fits
        <5>2. t \in Writers => op[t].arg \in Frames
          BY <2>2, Here DEF Fits
        <5>3. to = "rewrite" => r.size < Len(r.victims)
          BY <2>2, <5>1, OneVictim, Here DEF Locals
        <5>4. to \in {"rewrite", "replace"}
          OBVIOUS
        <5> HIDE DEF r, to
        <5> QED BY <5>1, <5>2, <5>3, <5>4 DEF Labels, Fits
      <4>2. AllBelow(r, nextId')
        <5>1. r.id = op[t].id /\ r.fresh = Append(op[t].fresh, nextId)
                /\ r.expired = op[t].expired
          BY Here DEF Locals
        <5>2. \A i \in Elems(r.fresh) : i \in Elems(op[t].fresh) \/ i = nextId
          BY <5>1, Here DEF Locals, Elems
        <5>3. nextId < nextId'
          BY <1>4, <2>5, Here DEF DeleteRewrite, Allocate
        <5> QED BY <5>1, <5>2, <5>3, <2>1, Here DEF AllBelow
      <4> QED BY <4>1, <4>2
    <3> HIDE DEF r, to
    <3> QED BY <2>1, <3>1, <3>3, <3>4, OneTask
  <2> HIDE DEF source, rest, to
  <2> QED BY <2>3, <2>4, <2>5
<1>5. ASSUME DeleteReplace(t) PROVE TasksOK'
  <2>1. pc[t] = "replace" /\ nextId' \in Nat /\ nextId <= nextId'
    BY <1>5, Here DEF DeleteReplace, disk, memory
  <2>2. /\ pc' = [pc EXCEPT ![t] = "erase"]
        /\ op' = [op EXCEPT ![t] = [op[t] EXCEPT !.fresh = <<>>, !.size = 0]]
    BY <1>5, <2>1, Here DEF DeleteReplace, disk, memory
  <2> DEFINE r == [op[t] EXCEPT !.fresh = <<>>, !.size = 0]
  <2>3. <<>> \in Seq(Ids)
    BY <1>5, <2>1, Here, BoundsAssumption DEF DeleteReplace, Locals, Fits, FramesOf,
       IdInv, TypeOK, MemoryType, HistoryType
  <2>4. r \in Locals
    BY <2>3, Here, ZenonT(30) DEF Locals
  <2>5. "erase" \in Labels /\ Fits(t, "erase", r)
    BY <1>5, <2>1, <2>3, Here, RolesAssumption DEF DeleteReplace, Labels, Fits, Locals
  <2>6. AllBelow(r, nextId')
    BY <1>5, <2>1, Here DEF DeleteReplace, AllBelow, Locals, Elems
  <2>7. op' = [op EXCEPT ![t] = r]
    BY <2>2 DEF r
  <2> HIDE DEF r
  <2> QED BY <2>1, <2>2, <2>4, <2>5, <2>6, <2>7, OneTask
<1>6. ASSUME DeleteErase(t) PROVE TasksOK'
  <2>1. pc[t] = "erase" /\ nextId' \in Nat /\ nextId <= nextId'
    BY <1>6, Here DEF DeleteErase, disk, memory
  <2>2. CASE Len(op[t].victims) = 1
    <3>1. /\ pc' = [pc EXCEPT ![t] = "unregister"]
          /\ op' = [op EXCEPT ![t] = [op[t] EXCEPT !.victims = Tail(op[t].victims)]]
      BY <1>6, <2>2, <2>1, Here DEF DeleteErase, disk, memory
    <3> DEFINE r == [op[t] EXCEPT !.victims = Tail(op[t].victims)]
    <3>2. Tail(op[t].victims) \in Seq(Ids)
      BY <1>6, <2>2, <2>1, Here, BoundsAssumption, OneVictim DEF DeleteErase, Locals,
         Fits, FramesOf, IdInv, TypeOK, MemoryType, HistoryType
    <3>3. r \in Locals
      BY <3>2, Here DEF Locals
    <3>4. "unregister" \in Labels /\ Fits(t, "unregister", r)
      <4>1. /\ r.arg = op[t].arg
            /\ r.victims = Tail(op[t].victims)
            /\ r.size = op[t].size
            /\ r.id = op[t].id
        BY Here DEF Locals
      <4>2. t \in Writers => op[t].arg \in Frames
        BY <2>1, Here DEF Fits
      <4> HIDE DEF r
      <4> QED BY <2>1, <3>2, <4>1, <4>2, Here DEF Labels, Fits
    <3>5. AllBelow(r, nextId')
      BY <1>6, <2>2, <2>1, Here DEF DeleteErase, AllBelow, Locals
    <3>6. op' = [op EXCEPT ![t] = r]
      BY <3>1 DEF r
    <3> HIDE DEF r
    <3> QED BY <2>1, <3>1, <3>3, <3>4, <3>5, <3>6, OneTask
  <2>3. CASE Len(op[t].victims) # 1
    <3>1. /\ pc' = [pc EXCEPT ![t] = "erase"]
          /\ op' = [op EXCEPT ![t] = [op[t] EXCEPT !.victims = Tail(op[t].victims)]]
      BY <1>6, <2>3, <2>1, Here DEF DeleteErase, disk, memory
    <3> DEFINE r == [op[t] EXCEPT !.victims = Tail(op[t].victims)]
    <3>2. Tail(op[t].victims) \in Seq(Ids) /\ Tail(op[t].victims) # <<>>
      BY <1>6, <2>3, <2>1, Here, BoundsAssumption, OneVictim DEF DeleteErase, Locals,
         Fits, FramesOf, IdInv, TypeOK, MemoryType, HistoryType
    <3>3. r \in Locals
      BY <3>2, Here DEF Locals
    <3>4. "erase" \in Labels /\ Fits(t, "erase", r)
      <4>1. /\ r.arg = op[t].arg
            /\ r.victims = Tail(op[t].victims)
            /\ r.size = op[t].size
            /\ r.id = op[t].id
        BY Here DEF Locals
      <4>2. t \in Writers => op[t].arg \in Frames
        BY <2>1, Here DEF Fits
      <4> HIDE DEF r
      <4> QED BY <2>1, <3>2, <4>1, <4>2, Here DEF Labels, Fits
    <3>5. AllBelow(r, nextId')
      BY <1>6, <2>3, <2>1, Here DEF DeleteErase, AllBelow, Locals
    <3>6. op' = [op EXCEPT ![t] = r]
      BY <3>1 DEF r
    <3> HIDE DEF r
    <3> QED BY <2>1, <3>1, <3>3, <3>4, <3>5, <3>6, OneTask
  <2> QED BY <2>2, <2>3
<1>7. ASSUME DeleteUnregister(t) PROVE TasksOK'
  <2>1. pc[t] = "unregister" /\ nextId' \in Nat /\ nextId <= nextId'
    BY <1>7, Here DEF DeleteUnregister, disk, memory
  <2>2. pc' = [pc EXCEPT ![t] = "idle"] /\ op' = [op EXCEPT ![t] = NoOp]
    BY <1>7, <2>1, Here DEF DeleteUnregister, disk, memory
  <2>3. "idle" \in Labels /\ Fits(t, "idle", NoOp) /\ AllBelow(NoOp, nextId')
    BY <2>1, NoOpFits, Here DEF Labels, Fits
  <2> QED BY <2>1, <2>2, <2>3, NoOpFits, OneTask
<1> QED BY <1>1, <1>2, <1>3, <1>4, <1>5, <1>6, <1>7 DEF Delete

\* The same for the retention check: what expires was in the list.
LEMMA SweepTasksOK ==
  ASSUME IdInv, NEW t \in Tasks, Sweep(t) PROVE TasksOK'
<1>1. ASSUME SweepSelect(t) PROVE TasksOK'
  <2>1. pc[t] = "idle" /\ nextId' \in Nat /\ nextId <= nextId'
    BY <1>1, Here DEF SweepSelect, disk, memory
  <2>2. /\ pc' = [pc EXCEPT ![t] = "sweep"]
        /\ op' = [op EXCEPT ![t] =
              [op[t] EXCEPT !.expired = {i \in Elems(sstables) : Expires(i)}]]
    BY <1>1, <2>1, Here DEF SweepSelect, disk, memory
  <2> DEFINE r == [op[t] EXCEPT !.expired = {i \in Elems(sstables) : Expires(i)}]
  <2>3. {i \in Elems(sstables) : Expires(i)} \in SUBSET Ids
    BY <1>1, <2>1, Here, BoundsAssumption, ListedIds DEF SweepSelect, Locals, Fits,
       FramesOf, IdInv, TypeOK, MemoryType, HistoryType
  <2>4. r \in Locals
    <3> DEFINE E == {i \in Elems(sstables) : Expires(i)}
    <3>1. op[t] \in Locals /\ E \in SUBSET Ids
      BY <2>3, Here
    <3> HIDE DEF E
    <3>2. [op[t] EXCEPT !.expired = E] \in Locals
      BY <3>1 DEF Locals
    <3> QED BY <3>2 DEF E
  <2>5. "sweep" \in Labels /\ Fits(t, "sweep", r)
    BY <1>1, RolesAssumption DEF SweepSelect, Labels, Fits
  <2>6. AllBelow(r, nextId')
    BY <1>1, <2>1, Here, <2>3, ListedIds DEF SweepSelect, AllBelow, Locals
  <2>7. op' = [op EXCEPT ![t] = r]
    BY <2>2 DEF r
  <2> HIDE DEF r
  <2> QED BY <2>1, <2>2, <2>4, <2>5, <2>6, <2>7, OneTask
<1>2. ASSUME NEW i \in op[t].expired, SweepUnlist(t, i) PROVE TasksOK'
  <2>1. pc[t] = "sweep" /\ nextId' \in Nat /\ nextId <= nextId'
    BY <1>2, Here DEF SweepUnlist, disk, memory
  <2>2. /\ pc' = [pc EXCEPT ![t] = "remove"]
        /\ op' = [op EXCEPT ![t] = [op[t] EXCEPT !.expired = op[t].expired \ {i}, !.id = i]]
    BY <1>2, <2>1, Here DEF SweepUnlist, disk, memory
  <2> DEFINE r == [op[t] EXCEPT !.expired = op[t].expired \ {i}, !.id = i]
  <2>3. i \in Ids /\ i \in 0..MaxId /\ i < nextId /\ op[t].expired \ {i} \in SUBSET Ids
    BY <1>2, <2>1, Here, BoundsAssumption DEF SweepUnlist, Locals, Fits, FramesOf, IdInv,
       TypeOK, MemoryType, HistoryType, AllBelow
  <2>4. r \in Locals
    BY <2>3, Here DEF Locals
  <2>5. "remove" \in Labels /\ Fits(t, "remove", r)
    BY <1>2, <2>1, <2>3, Here, RolesAssumption DEF SweepUnlist, Labels, Fits, Locals
  <2>6. AllBelow(r, nextId')
    BY <1>2, <2>1, Here, <2>3 DEF SweepUnlist, AllBelow, Locals
  <2>7. op' = [op EXCEPT ![t] = r]
    BY <2>2 DEF r
  <2> HIDE DEF r
  <2> QED BY <2>1, <2>2, <2>4, <2>5, <2>6, <2>7, OneTask
<1>3. ASSUME SweepErase(t) PROVE TasksOK'
  <2>1. pc[t] = "remove" /\ nextId' \in Nat /\ nextId <= nextId'
    BY <1>3, Here DEF SweepErase, disk, memory
  <2>2. CASE op[t].expired = {}
    <3>1. /\ pc' = [pc EXCEPT ![t] = "idle"]
          /\ op' = [op EXCEPT ![t] = [op[t] EXCEPT !.id = 0]]
      BY <1>3, <2>2, <2>1, Here DEF SweepErase, disk, memory
    <3> DEFINE r == [op[t] EXCEPT !.id = 0]
    <3>2. 0 \in 0..MaxId
      BY <1>3, <2>2, <2>1, Here, BoundsAssumption DEF SweepErase, Locals, Fits, FramesOf,
         IdInv, TypeOK, MemoryType, HistoryType
    <3>3. r \in Locals
      BY <3>2, Here DEF Locals
    <3>4. "idle" \in Labels /\ Fits(t, "idle", r)
      BY <1>3, <2>2, <2>1, <3>2, Here, RolesAssumption DEF SweepErase, Labels, Fits, Locals
    <3>5. AllBelow(r, nextId')
      BY <1>3, <2>2, <2>1, Here DEF SweepErase, AllBelow, Locals
    <3>6. op' = [op EXCEPT ![t] = r]
      BY <3>1 DEF r
    <3> HIDE DEF r
    <3> QED BY <2>1, <3>1, <3>3, <3>4, <3>5, <3>6, OneTask
  <2>3. CASE op[t].expired # {}
    <3>1. /\ pc' = [pc EXCEPT ![t] = "sweep"]
          /\ op' = [op EXCEPT ![t] = [op[t] EXCEPT !.id = 0]]
      BY <1>3, <2>3, <2>1, Here DEF SweepErase, disk, memory
    <3> DEFINE r == [op[t] EXCEPT !.id = 0]
    <3>2. 0 \in 0..MaxId
      BY <1>3, <2>3, <2>1, Here, BoundsAssumption DEF SweepErase, Locals, Fits, FramesOf,
         IdInv, TypeOK, MemoryType, HistoryType
    <3>3. r \in Locals
      BY <3>2, Here DEF Locals
    <3>4. "sweep" \in Labels /\ Fits(t, "sweep", r)
      BY <1>3, <2>3, <2>1, <3>2, Here, RolesAssumption DEF SweepErase, Labels, Fits, Locals
    <3>5. AllBelow(r, nextId')
      BY <1>3, <2>3, <2>1, Here DEF SweepErase, AllBelow, Locals
    <3>6. op' = [op EXCEPT ![t] = r]
      BY <3>1 DEF r
    <3> HIDE DEF r
    <3> QED BY <2>1, <3>1, <3>3, <3>4, <3>5, <3>6, OneTask
  <2> QED BY <2>2, <2>3
<1> QED BY <1>1, <1>2, <1>3 DEF Sweep

\* The same for a query.
LEMMA QueryTasksOK ==
  ASSUME IdInv, NEW t \in Tasks, Query(t) PROVE TasksOK'
<1>1. ASSUME NEW d \in Devices, QueryMemtable(t, d) PROVE TasksOK'
  <2>1. pc[t] = "idle" /\ nextId' \in Nat /\ nextId <= nextId'
    BY <1>1, Here DEF QueryMemtable, disk, memory
  <2>2. /\ pc' = [pc EXCEPT ![t] = "tables"]
        /\ op' = [op EXCEPT ![t] =
              [op[t] EXCEPT !.arg = d, !.must = memtable \intersect FramesOf(d),
                            !.may = (acked \ racy) \intersect FramesOf(d)]]
    BY <1>1, <2>1, Here DEF QueryMemtable, disk, memory
  <2> DEFINE r == [op[t] EXCEPT !.arg = d, !.must = memtable \intersect FramesOf(d),
                            !.may = (acked \ racy) \intersect FramesOf(d)]
  <2>3. /\ memtable \intersect FramesOf(d) \in SUBSET Frames
        /\ (acked \ racy) \intersect FramesOf(d) \in SUBSET Frames
    BY <1>1, <2>1, Here, BoundsAssumption DEF QueryMemtable, Locals, Fits, FramesOf,
       IdInv, TypeOK, MemoryType, HistoryType
  <2>4. r \in Locals
    BY <2>3, Here DEF Locals
  <2>5. "tables" \in Labels /\ Fits(t, "tables", r)
    BY <1>1, <2>1, <2>3, Here, RolesAssumption DEF QueryMemtable, Labels, Fits, Locals
  <2>6. AllBelow(r, nextId')
    BY <1>1, <2>1, Here DEF QueryMemtable, AllBelow, Locals
  <2>7. op' = [op EXCEPT ![t] = r]
    BY <2>2 DEF r
  <2> HIDE DEF r
  <2> QED BY <2>1, <2>2, <2>4, <2>5, <2>6, <2>7, OneTask
<1>2. ASSUME QueryTables(t) PROVE TasksOK'
  <2>1. pc[t] = "tables" /\ nextId' \in Nat /\ nextId <= nextId'
    BY <1>2, Here DEF QueryTables, disk, memory
  <2>2. CASE \E i \in Elems(sstables) : files[i] = {}
    <3>1. pc' = [pc EXCEPT ![t] = "idle"] /\ op' = [op EXCEPT ![t] = NoOp]
      BY <1>2, <2>2, <2>1, Here DEF QueryTables, disk, memory
    <3>2. "idle" \in Labels /\ Fits(t, "idle", NoOp) /\ AllBelow(NoOp, nextId')
      BY <2>1, NoOpFits, Here DEF Labels, Fits
    <3> QED BY <2>1, <3>1, <3>2, NoOpFits, OneTask
  <2>3. CASE ~(\E i \in Elems(sstables) : files[i] = {})
    <3>1. /\ pc' = [pc EXCEPT ![t] = "answer"]
          /\ op' = [op EXCEPT ![t] =
                [op[t] EXCEPT !.must = op[t].must \union (Listed \intersect FramesOf(op[t].arg))]]
      BY <1>2, <2>3, <2>1, Here DEF QueryTables, disk, memory
    <3> DEFINE r ==
        [op[t] EXCEPT !.must = op[t].must \union (Listed \intersect FramesOf(op[t].arg))]
    <3>2. op[t].must \union (Listed \intersect FramesOf(op[t].arg)) \in SUBSET Frames
      BY <1>2, <2>3, <2>1, Here, BoundsAssumption DEF QueryTables, Locals, Fits,
         FramesOf, IdInv, TypeOK, MemoryType, HistoryType
    <3>3. r \in Locals
      BY <3>2, Here DEF Locals
    <3>4. "answer" \in Labels /\ Fits(t, "answer", r)
      BY <1>2, <2>3, <2>1, <3>2, Here, RolesAssumption DEF QueryTables, Labels, Fits, Locals
    <3>5. AllBelow(r, nextId')
      BY <1>2, <2>3, <2>1, Here DEF QueryTables, AllBelow, Locals
    <3>6. op' = [op EXCEPT ![t] = r]
      BY <3>1 DEF r
    <3> HIDE DEF r
    <3> QED BY <2>1, <3>1, <3>3, <3>4, <3>5, <3>6, OneTask
  <2> QED BY <2>2, <2>3
<1>3. ASSUME QueryReply(t) PROVE TasksOK'
  <2>1. pc[t] = "answer" /\ nextId' \in Nat /\ nextId <= nextId'
    BY <1>3, Here DEF QueryReply, disk, memory
  <2>2. pc' = [pc EXCEPT ![t] = "idle"] /\ op' = [op EXCEPT ![t] = NoOp]
    BY <1>3, <2>1, Here DEF QueryReply, disk, memory
  <2>3. "idle" \in Labels /\ Fits(t, "idle", NoOp) /\ AllBelow(NoOp, nextId')
    BY <2>1, NoOpFits, Here DEF Labels, Fits
  <2> QED BY <2>1, <2>2, <2>3, NoOpFits, OneTask
<1> QED BY <1>1, <1>2, <1>3 DEF Query

----------------------------------------------------------------------------
(* Disk, memory and history                                                *)

\* What IdInv says of the variables one by one.
LEMMA Typed ==
  ASSUME IdInv
  PROVE  /\ walPath \in Inodes \union {None} /\ walLog \in SUBSET Frames
         /\ files \in [Ids -> SUBSET Frames]
         /\ walCur \in Inodes /\ memtable \in SUBSET Frames
         /\ sstables \in Seq(Ids) /\ nextId \in Nat /\ 1 <= nextId /\ nextId <= MaxId + 1
         /\ compacting \in Tasks \union {None} /\ registry \in SUBSET Devices
         /\ issued \in SUBSET Frames /\ acked \in SUBSET Frames /\ racy \in SUBSET Frames
         /\ doomed \in SUBSET Frames /\ erased \in SUBSET Frames /\ swept \in SUBSET Frames
         /\ crashes \in 0..MaxCrashes
         /\ \A i \in Elems(sstables) : i < nextId
         /\ scan = 0 => \A i \in Ids : files[i] # {} => i < nextId
         /\ MaxId \in Nat
  BY BoundsAssumption DEF IdInv, TypeOK, DiskType, MemoryType, HistoryType, IdsBelow,
     FreshIds

\* While serving, it is enough that each variable keeps its type and that tables in the
\* list or with data have ids below the counter.
LEMMA RestStep ==
  ASSUME scan = 0, scan' = 0,
         (walPath \in Inodes \union {None})', (walLog \in SUBSET Frames)',
         (files \in [Ids -> SUBSET Frames])',
         (walCur \in Inodes)', (memtable \in SUBSET Frames)',
         (sstables \in Seq(Ids))', (nextId \in Nat /\ 1 <= nextId /\ nextId <= MaxId + 1)',
         (compacting \in Tasks \union {None})', (registry \in SUBSET Devices)',
         (issued \in SUBSET Frames)', (acked \in SUBSET Frames)', (racy \in SUBSET Frames)',
         (doomed \in SUBSET Frames)', (erased \in SUBSET Frames)', (swept \in SUBSET Frames)',
         (crashes \in 0..MaxCrashes)',
         (\A i \in Elems(sstables) : i < nextId)',
         (\A i \in Ids : files[i] # {} => i < nextId)'
  PROVE  RestOK'
<1>1. DiskType' /\ HistoryType'
  BY DEF DiskType, HistoryType
<1>2. MemoryType'
  BY BoundsAssumption DEF MemoryType
<1>3. ScanOK' /\ FreshIds'
  BY DEF ScanOK, FreshIds
<1> QED BY <1>1, <1>2, <1>3 DEF RestOK

\* A frame whose write is under way is one of Frames.
LEMMA Writing ==
  ASSUME IdInv, NEW t \in Writers, pc[t] \notin {"idle", "dead"}
  PROVE  op[t].arg \in Frames
  BY Here DEF Fits, Tasks

\* What drain leaves was in the list.
LEMMA Drained ==
  ASSUME IdInv, NEW n \in Nat, n <= Len(sstables)
  PROVE  /\ AfterDrain(n) \in Seq(Ids)
         /\ Len(AfterDrain(n)) = Len(sstables) - n
         /\ \A i \in 1..(Len(sstables) - n) : AfterDrain(n)[i] = sstables[n + i]
         /\ \A i \in Elems(AfterDrain(n)) : i \in Elems(sstables)
<1> HIDE DEF Ids
<1>1. sstables \in Seq(Ids)
  BY DEF IdInv, TypeOK, MemoryType
<1>2. Len(sstables) \in Nat /\ DOMAIN sstables = 1..Len(sstables)
  BY <1>1, LenProperties
<1>3. \A i \in (n + 1)..Len(sstables) : sstables[i] \in Ids
  BY <1>1, <1>2, ElementOfSeq
<1> DEFINE m == n + 1
           k == Len(sstables)
<1>4. /\ AfterDrain(n) \in Seq(Ids)
      /\ Len(AfterDrain(n)) = IF m <= k THEN k - m + 1 ELSE 0
      /\ \A i \in 1..(k - m + 1) : AfterDrain(n)[i] = sstables[m + i - 1]
  <2>1. m \in Int /\ k \in Int /\ AfterDrain(n) = SubSeq(sstables, m, k)
    BY <1>2 DEF AfterDrain
  <2>2. \A i \in m..k : sstables[i] \in Ids
    BY <1>3
  <2> HIDE DEF m, k
  <2> QED BY <2>1, <2>2, SubSeqProperties
<1>5. Len(AfterDrain(n)) = k - n
  <2>1. m \in Nat /\ k \in Nat /\ n <= k /\ m = n + 1
    BY <1>2
  <2>2. Len(AfterDrain(n)) = IF m <= k THEN k - m + 1 ELSE 0
    BY <1>4
  <2> HIDE DEF m, k
  <2> QED BY <2>1, <2>2
<1>6. \A i \in 1..(k - n) : AfterDrain(n)[i] = sstables[n + i]
  <2> SUFFICES ASSUME NEW i \in 1..(k - n) PROVE AfterDrain(n)[i] = sstables[n + i]
    OBVIOUS
  <2>1. i \in 1..(k - m + 1) /\ m + i - 1 = n + i
    BY <1>2
  <2>2. AfterDrain(n)[i] = sstables[m + i - 1]
    BY <1>4, <2>1
  <2> QED BY <2>1, <2>2
<1>7. DOMAIN AfterDrain(n) = 1..(Len(sstables) - n)
  BY <1>4, <1>5, LenProperties
<1>8. \A i \in 1..(Len(sstables) - n) : n + i \in DOMAIN sstables
  BY <1>2
<1>9. \A i \in Elems(AfterDrain(n)) : i \in Elems(sstables)
  BY <1>6, <1>7, <1>8 DEF Elems
<1> QED BY <1>4, <1>5, <1>6, <1>9

\* retain drops one position of the list, or none.
LEMMA Removed ==
  ASSUME IdInv, NEW i
  PROVE  /\ Without(sstables, i) \in Seq(Ids)
         /\ \A j \in Elems(Without(sstables, i)) : j \in Elems(sstables)
<1>1. sstables \in Seq(Ids)
  BY DEF IdInv, TypeOK, MemoryType
<1>2. CASE i \notin Elems(sstables)
  BY <1>1, <1>2 DEF Without
<1>3. CASE i \in Elems(sstables)
  <2> DEFINE k == CHOOSE k \in DOMAIN sstables : sstables[k] = i
             a == SubSeq(sstables, 1, k - 1)
             b == SubSeq(sstables, k + 1, Len(sstables))
  <2>1. k \in DOMAIN sstables
    BY <1>3 DEF Elems
  <2>2. Len(sstables) \in Nat /\ DOMAIN sstables = 1..Len(sstables) /\ k \in 1..Len(sstables)
    <3> HIDE DEF Ids, k
    <3> QED BY <1>1, <2>1, LenProperties
  <2>3. Without(sstables, i) = a \o b
    BY <1>3 DEF Without
  <2> HIDE DEF k
  <2>4. \A j \in 1..Len(sstables) : sstables[j] \in Ids /\ sstables[j] \in Elems(sstables)
    <3> HIDE DEF Ids
    <3> QED BY <1>1, <2>2, ElementOfSeq DEF Elems
  <2>5. a \in Seq(Elems(sstables) \intersect Ids)
    <3> HIDE DEF Ids
    <3>1. \A j \in 1..(k - 1) : sstables[j] \in Elems(sstables) \intersect Ids
      BY <2>2, <2>4
    <3>2. k - 1 \in Int
      BY <2>2
    <3> QED BY <3>1, <3>2, SubSeqProperties
  <2>6. b \in Seq(Elems(sstables) \intersect Ids)
    <3> HIDE DEF Ids
    <3>1. \A j \in (k + 1)..Len(sstables) : sstables[j] \in Elems(sstables) \intersect Ids
      BY <2>2, <2>4
    <3>2. k + 1 \in Int /\ Len(sstables) \in Int
      BY <2>2
    <3> QED BY <3>1, <3>2, SubSeqProperties
  <2> HIDE DEF a, b
  <2>7. a \o b \in Seq(Elems(sstables) \intersect Ids)
    <3> HIDE DEF Ids
    <3> QED BY <2>5, <2>6, ConcatProperties
  <2> DEFINE S == Elems(sstables) \intersect Ids
             c == a \o b
  <2>8. c \in Seq(Ids) /\ \A j \in DOMAIN c : c[j] \in S
    <3> HIDE DEF Ids, c
    <3>1. c \in Seq(S)
      BY <2>7 DEF c
    <3> HIDE DEF S
    <3>2. \A j \in 1..Len(c) : c[j] \in S
      BY <3>1, ElementOfSeq
    <3>3. Len(c) \in Nat /\ DOMAIN c = 1..Len(c) /\ c = [j \in 1..Len(c) |-> c[j]]
      BY <3>1, LenProperties
    <3>4. \A j \in 1..Len(c) : c[j] \in Ids
      BY <3>2 DEF S
    <3>5. [j \in 1..Len(c) |-> c[j]] \in Seq(Ids)
      BY <3>3, <3>4
    <3> QED BY <3>2, <3>3, <3>5
  <2>9. \A j \in Elems(c) : j \in Elems(sstables)
    <3> HIDE DEF c
    <3> QED BY <2>8 DEF Elems
  <2> QED BY <2>3, <2>8, <2>9
<1> QED BY <1>2, <1>3

\* What the steps of a write leave of disk, memory and history.
LEMMA WriteRestOK ==
  ASSUME IdInv, NEW t \in Tasks, Write(t) PROVE RestOK'
<1>1. ASSUME NEW f \in Frames, WriteBegin(t, f) PROVE RestOK'
  <2>1. pc[t] = "idle" /\ scan = 0 /\ UNCHANGED <<scan, crashes>>
    BY <1>1 DEF WriteBegin, memory, history
  <2>2. UNCHANGED <<walPath, walLog, files, walCur, memtable, sstables, nextId,
                    compacting, acked, racy, erased, swept>>
    BY <1>1 DEF WriteBegin, disk, memory, history
  <2>3. issued' \in SUBSET Frames
    BY <1>1, <2>1, <2>2, Typed DEF WriteBegin
  <2>4. registry' \in SUBSET Devices
    BY <1>1, <2>1, <2>2, FramesAssumption, Typed DEF WriteBegin
  <2>5. doomed' \in SUBSET Frames
    BY <1>1, <2>1, <2>2, Typed DEF WriteBegin
  <2> QED BY <2>1, <2>2, <2>3, <2>4, <2>5, Typed, RestStep
<1>2. ASSUME WriteAppend(t) PROVE RestOK'
  <2>1. pc[t] = "append" /\ scan = 0 /\ UNCHANGED <<scan, crashes>>
    BY <1>2 DEF WriteAppend, memory, history
  <2>2. UNCHANGED <<walPath, files, walCur, memtable, sstables, nextId, compacting,
                    registry, issued, acked, doomed, erased, swept>>
    BY <1>2 DEF WriteAppend, disk, memory, history
  <2>3. op[t].arg \in Frames
    BY <2>1, Here, Writing DEF Fits
  <2>4. walLog' \in SUBSET Frames
    BY <1>2, <2>1, <2>2, <2>3, Typed DEF WriteAppend, Logged
  <2>5. racy' \in SUBSET Frames
    BY <1>2, <2>1, <2>2, <2>3, Typed DEF WriteAppend
  <2> QED BY <2>1, <2>2, <2>4, <2>5, Typed, RestStep
<1>3. ASSUME WriteInsert(t) PROVE RestOK'
  <2>1. pc[t] = "insert" /\ scan = 0 /\ UNCHANGED <<scan, crashes>>
    BY <1>3 DEF WriteInsert, memory, history
  <2>2. UNCHANGED <<walPath, walLog, files, walCur, sstables, nextId, compacting,
                    registry, issued, acked, doomed, erased, swept>>
    BY <1>3 DEF WriteInsert, disk, memory, history
  <2>3. op[t].arg \in Frames
    BY <2>1, Here, Writing DEF Fits
  <2>4. memtable' \in SUBSET Frames
    BY <1>3, <2>1, <2>2, <2>3, Typed DEF WriteInsert
  <2>5. racy' \in SUBSET Frames
    BY <1>3, <2>1, <2>2, <2>3, Typed DEF WriteInsert
  <2> QED BY <2>1, <2>2, <2>4, <2>5, Typed, RestStep
<1>4. ASSUME WriteFull(t) PROVE RestOK'
  <2>1. pc[t] = "full" /\ scan = 0 /\ UNCHANGED <<scan, crashes>>
    BY <1>4 DEF WriteFull, memory, history
  <2>2. UNCHANGED <<walPath, walLog, files, walCur, memtable, sstables, nextId,
                    compacting, registry, issued, racy, doomed, erased, swept>>
    BY <1>4 DEF WriteFull, disk, memory, history
  <2>3. t \in Writers => op[t].arg \in Frames
    BY <2>1, Writing
  <2>4. acked' \in SUBSET Frames
    BY <1>4, <2>1, <2>2, <2>3, Typed DEF WriteFull
  <2> QED BY <2>1, <2>2, <2>4, Typed, RestStep
<1> QED BY <1>1, <1>2, <1>3, <1>4 DEF Write

\* The same for a flush: its new table has the id it was given.
LEMMA FlushRestOK ==
  ASSUME IdInv, NEW t \in Tasks, Flush(t) PROVE RestOK'
<1>1. ASSUME TimerTick(t) PROVE RestOK'
  <2>1. pc[t] = "idle" /\ scan = 0 /\ UNCHANGED <<scan, crashes>>
    BY <1>1 DEF TimerTick, memory, history
  <2>2. UNCHANGED <<walPath, walLog, files, walCur, memtable, sstables, nextId,
                    compacting, registry, issued, acked, racy, doomed, erased, swept>>
    BY <1>1 DEF TimerTick, disk, memory, history
  <2> QED BY <2>1, <2>2, Typed, RestStep
<1>2. ASSUME FlushBegin(t) PROVE RestOK'
  <2>1. pc[t] = "flush" /\ scan = 0 /\ UNCHANGED <<scan, crashes>>
    BY <1>2 DEF FlushBegin, memory, history
  <2>2. UNCHANGED <<walPath, walLog, walCur, memtable, sstables, compacting, registry,
                    issued, acked, doomed, erased, swept>>
    BY <1>2 DEF FlushBegin, disk, memory, history
  <2>3. (files \in [Ids -> SUBSET Frames])'
    BY <1>2, <2>1, <2>2, Typed DEF FlushBegin
  <2>4. (nextId \in Nat /\ 1 <= nextId /\ nextId <= MaxId + 1)'
    BY <1>2, <2>1, <2>2, Typed DEF FlushBegin, Allocate
  <2>5. \A w \in Writers : pc[w] = "insert" => op[w].arg \in Frames
    BY <2>1, Writing
  <2>6. racy' \in SUBSET Frames
    BY <1>2, <2>1, <2>2, <2>5, Typed DEF FlushBegin
  <2>7. (\A i \in Ids : files[i] # {} => i < nextId)'
    BY <1>2, <2>1, <2>2, Typed DEF FlushBegin, Allocate
  <2>8. nextId' \in Nat /\ nextId <= nextId'
    BY <1>2, <2>1, <2>2, Typed DEF FlushBegin, Allocate
  <2>9. \A i \in Elems(sstables) : i \in Nat /\ i < nextId
    BY <2>1, Typed DEF Elems
  <2>10. (\A i \in Elems(sstables) : i < nextId)'
    <3>1. Elems(sstables') = Elems(sstables)
      BY <2>2
    <3>2. \A i \in Elems(sstables) : i < nextId'
      BY <2>9, <2>8, Typed
    <3> QED BY <3>1, <3>2
  <2> QED BY <2>1, <2>2, <2>3, <2>4, <2>6, <2>7, <2>8, <2>10, Typed, RestStep
<1>3. ASSUME NEW extra \in SUBSET op[t].may, FlushPublish(t, op[t].must \union extra)
      PROVE  RestOK'
  <2>1. pc[t] = "copy" /\ scan = 0 /\ UNCHANGED <<scan, crashes>>
    BY <1>3 DEF FlushPublish, memory, history
  <2>2. UNCHANGED <<walPath, walLog, walCur, memtable, nextId, compacting, registry,
                    issued, acked, racy, doomed, erased, swept>>
    BY <1>3 DEF FlushPublish, disk, memory, history
  <2> DEFINE copied == op[t].must \union extra
  <2>3. op[t].id \in Ids /\ op[t].id < nextId /\ copied \in SUBSET Frames
    BY <2>1, Here DEF Fits, Locals
  <2>4. CASE copied = {}
    <3>1. files' = files /\ sstables' = sstables
      BY <1>3, <2>4 DEF FlushPublish
    <3> QED BY <2>1, <2>2, <3>1, Typed, RestStep
  <2>5. CASE copied # {}
    <3>1. /\ files' = [files EXCEPT ![op[t].id] = copied]
          /\ sstables' = Append(sstables, op[t].id)
      BY <1>3, <2>5 DEF FlushPublish
    <3>2. (files \in [Ids -> SUBSET Frames])'
      BY <2>3, <3>1, Typed
    <3>3. (\A i \in Ids : files[i] # {} => i < nextId)'
      BY <2>1, <2>2, <2>3, <3>1, Typed
    <3>4. (sstables \in Seq(Ids))'
      BY <2>3, <3>1, Typed
    <3>5. (\A i \in Elems(sstables) : i < nextId)'
      BY <2>2, <2>3, <3>1, Typed DEF Elems
    <3> HIDE DEF copied
    <3> QED BY <2>1, <2>2, <3>2, <3>3, <3>4, <3>5, Typed, RestStep
  <2> QED BY <2>4, <2>5
<1>4. ASSUME FlushClear(t) PROVE RestOK'
  <2>1. pc[t] = "clear" /\ scan = 0 /\ UNCHANGED <<scan, crashes>>
    BY <1>4 DEF FlushClear, memory, history
  <2>2. UNCHANGED <<walPath, walLog, files, walCur, sstables, nextId, compacting,
                    registry, issued, acked, racy, doomed, erased, swept>>
    BY <1>4 DEF FlushClear, disk, memory, history
  <2>3. memtable' \in SUBSET Frames
    BY <1>4, <2>1, <2>2, Typed DEF FlushClear
  <2> QED BY <2>1, <2>2, <2>3, Typed, RestStep
<1>5. ASSUME TruncateCheck(t) PROVE RestOK'
  <2>1. pc[t] = "check" /\ scan = 0 /\ UNCHANGED <<scan, crashes>>
    BY <1>5 DEF TruncateCheck, memory, history
  <2>2. UNCHANGED <<walPath, walLog, files, walCur, memtable, sstables, nextId,
                    compacting, registry, issued, acked, racy, doomed, erased, swept>>
    BY <1>5 DEF TruncateCheck, disk, memory, history
  <2> QED BY <2>1, <2>2, Typed, RestStep
<1>6. ASSUME TruncateUnlink(t) PROVE RestOK'
  <2>1. pc[t] = "unlink" /\ scan = 0 /\ UNCHANGED <<scan, crashes>>
    BY <1>6 DEF TruncateUnlink, memory, history
  <2>2. UNCHANGED <<files, walCur, memtable, sstables, nextId, compacting, registry,
                    issued, acked, racy, doomed, erased, swept>>
    BY <1>6 DEF TruncateUnlink, disk, memory, history
  <2>3. walPath' \in Inodes \union {None}
    BY <1>6, <2>1, <2>2, Typed DEF TruncateUnlink
  <2>4. walLog' \in SUBSET Frames
    BY <1>6, <2>1, <2>2, Typed DEF TruncateUnlink
  <2> QED BY <2>1, <2>2, <2>3, <2>4, Typed, RestStep
<1>7. ASSUME TruncateReopen(t) PROVE RestOK'
  <2>1. pc[t] = "reopen" /\ scan = 0 /\ UNCHANGED <<scan, crashes>>
    BY <1>7 DEF TruncateReopen, memory, history
  <2>2. UNCHANGED <<walLog, files, walCur, memtable, sstables, nextId, compacting,
                    registry, issued, acked, racy, doomed, erased, swept>>
    BY <1>7 DEF TruncateReopen, disk, memory, history
  <2>3. walPath' \in Inodes \union {None}
    BY <1>7, <2>1, <2>2, Typed DEF TruncateReopen
  <2> QED BY <2>1, <2>2, <2>3, Typed, RestStep
<1>8. ASSUME TruncateSwap(t) PROVE RestOK'
  <2>1. pc[t] = "swap" /\ scan = 0 /\ UNCHANGED <<scan, crashes>>
    BY <1>8 DEF TruncateSwap, memory, history
  <2>2. UNCHANGED <<walPath, walLog, files, memtable, sstables, nextId, compacting,
                    registry, issued, racy, doomed, erased, swept>>
    BY <1>8 DEF TruncateSwap, disk, memory, history
  <2>3. op[t].inode \in Inodes
    BY <2>1, Here, NoneAssumption DEF Fits, Locals
  <2>4. walCur' \in Inodes
    BY <1>8, <2>1, <2>2, <2>3, Typed DEF TruncateSwap, NewHandle
  <2>5. t \in Writers => op[t].arg \in Frames
    BY <2>1, Writing
  <2>6. acked' \in SUBSET Frames
    BY <1>8, <2>1, <2>2, <2>5, Typed DEF TruncateSwap
  <2> QED BY <2>1, <2>2, <2>4, <2>6, Typed, RestStep
<1> QED BY <1>1, <1>2, <1>3, <1>4, <1>5, <1>6, <1>7, <1>8 DEF Flush

\* The same for a compaction: the list keeps a suffix and gets the merged table.
LEMMA CompactRestOK ==
  ASSUME IdInv, NEW t \in Tasks, Compact(t) PROVE RestOK'
<1>1. ASSUME CompactMeasure(t) PROVE RestOK'
  <2>1. pc[t] = "measure" /\ scan = 0 /\ UNCHANGED <<scan, crashes>>
    BY <1>1 DEF CompactMeasure, memory, history
  <2>2. UNCHANGED <<walPath, walLog, files, walCur, memtable, sstables, nextId,
                    compacting, registry, issued, acked, racy, doomed, erased, swept>>
    BY <1>1 DEF CompactMeasure, disk, memory, history
  <2> QED BY <2>1, <2>2, Typed, RestStep
<1>2. ASSUME CompactSnapshot(t) PROVE RestOK'
  <2>1. pc[t] = "snapshot" /\ scan = 0 /\ UNCHANGED <<scan, crashes>>
    BY <1>2 DEF CompactSnapshot, memory, history
  <2>2. UNCHANGED <<walPath, walLog, files, walCur, memtable, sstables, nextId,
                    compacting, registry, issued, acked, racy, doomed, erased, swept>>
    BY <1>2 DEF CompactSnapshot, disk, memory, history
  <2> QED BY <2>1, <2>2, Typed, RestStep
<1>3. ASSUME NEW merged \in SUBSET Stored, CompactBegin(t, merged) PROVE RestOK'
  <2>1. pc[t] = "merge" /\ scan = 0 /\ UNCHANGED <<scan, crashes>>
    BY <1>3 DEF CompactBegin, memory, history
  <2>2. UNCHANGED <<walPath, walLog, walCur, memtable, sstables, registry, issued,
                    acked, racy, doomed, erased, swept>>
    BY <1>3 DEF CompactBegin, disk, memory, history
  <2>3. (files \in [Ids -> SUBSET Frames])'
    BY <1>3, <2>1, <2>2, Typed DEF CompactBegin, Allocate
  <2>4. (nextId \in Nat /\ 1 <= nextId /\ nextId <= MaxId + 1)'
    BY <1>3, <2>1, <2>2, Typed DEF CompactBegin, Allocate
  <2>5. compacting' \in Tasks \union {None}
    BY <1>3, <2>1, <2>2, Typed DEF CompactBegin
  <2>6. (\A i \in Ids : files[i] # {} => i < nextId)'
    BY <1>3, <2>1, <2>2, Typed, SMTT(30) DEF CompactBegin, Allocate
  <2>7. nextId' \in Nat /\ nextId <= nextId'
    BY <1>3, <2>1, <2>2, Typed DEF CompactBegin, Allocate
  <2>8. \A i \in Elems(sstables) : i \in Nat /\ i < nextId
    BY <2>1, Typed DEF Elems
  <2>9. (\A i \in Elems(sstables) : i < nextId)'
    <3>1. Elems(sstables') = Elems(sstables)
      BY <2>2
    <3>2. \A i \in Elems(sstables) : i < nextId'
      BY <2>8, <2>7, Typed
    <3> QED BY <3>1, <3>2
  <2> QED BY <2>1, <2>2, <2>3, <2>4, <2>5, <2>6, <2>7, <2>9, Typed, RestStep
<1>4. ASSUME CompactFinish(t) PROVE RestOK'
  <2>1. pc[t] = "merging" /\ scan = 0 /\ UNCHANGED <<scan, crashes>>
    BY <1>4 DEF CompactFinish, memory, history
  <2>2. UNCHANGED <<walPath, walLog, walCur, memtable, sstables, nextId, registry,
                    issued, acked, racy, doomed, erased, swept>>
    BY <1>4 DEF CompactFinish, disk, memory, history
  <2>3. op[t].id \in Ids /\ op[t].id < nextId /\ op[t].must \in SUBSET Frames
    BY <2>1, Here DEF Fits, Locals
  <2>4. (files \in [Ids -> SUBSET Frames])'
    BY <1>4, <2>1, <2>2, <2>3, Typed DEF CompactFinish
  <2>5. compacting' \in Tasks \union {None}
    BY <1>4, <2>1, <2>2, Typed DEF CompactFinish
  <2>6. (\A i \in Ids : files[i] # {} => i < nextId)'
    BY <1>4, <2>1, <2>2, <2>3, Typed DEF CompactFinish
  <2> QED BY <2>1, <2>2, <2>4, <2>5, <2>6, Typed, RestStep
<1>5. ASSUME CompactInstall(t) PROVE RestOK'
  <2>1. pc[t] = "install" /\ scan = 0 /\ UNCHANGED <<scan, crashes>>
    BY <1>5 DEF CompactInstall, memory, history
  <2>2. UNCHANGED <<walPath, walLog, files, walCur, memtable, nextId, compacting,
                    registry, issued, acked, racy, doomed, erased, swept>>
    BY <1>5 DEF CompactInstall, disk, memory, history
  <2>3. op[t].id \in Ids /\ op[t].id < nextId /\ op[t].size \in Nat
    BY <2>1, Here DEF Fits, Locals
  <2>4. CASE Len(sstables) < op[t].size
    <3>1. sstables' = sstables
      BY <1>5, <2>4 DEF CompactInstall
    <3> QED BY <2>1, <2>2, <3>1, Typed, RestStep
  <2>5. CASE ~(Len(sstables) < op[t].size)
    <3> DEFINE rest == AfterDrain(op[t].size)
    <3>1. sstables' = <<op[t].id>> \o rest
      BY <1>5, <2>5 DEF CompactInstall
    <3>2. rest \in Seq(Ids) /\ \A i \in Elems(rest) : i \in Elems(sstables)
      BY <2>3, <2>5, Drained
    <3>3. (sstables \in Seq(Ids))'
      BY <2>3, <3>1, <3>2
    <3>4. \A i \in Elems(sstables') : i = op[t].id \/ i \in Elems(rest)
      <4> HIDE DEF rest
      <4> QED BY <2>3, <3>1, <3>2 DEF Elems
    <3>5. (\A i \in Elems(sstables) : i < nextId)'
      BY <2>2, <2>3, <3>2, <3>4, Typed
    <3> HIDE DEF rest
    <3> QED BY <2>1, <2>2, <3>3, <3>5, Typed, RestStep
  <2> QED BY <2>4, <2>5
<1>6. ASSUME CompactPurge(t) PROVE RestOK'
  <2>1. pc[t] = "purge" /\ scan = 0 /\ UNCHANGED <<scan, crashes>>
    BY <1>6 DEF CompactPurge, memory, history
  <2>2. UNCHANGED <<walPath, walLog, walCur, memtable, sstables, nextId, compacting,
                    registry, issued, racy, doomed, erased, swept>>
    BY <1>6 DEF CompactPurge, disk, memory, history
  <2>3. Head(op[t].victims) \in Ids
    BY <2>1, Here, OneVictim DEF Fits, Locals
  <2>4. (files \in [Ids -> SUBSET Frames])'
    BY <1>6, <2>1, <2>2, <2>3, Typed DEF CompactPurge
  <2>5. t \in Writers => op[t].arg \in Frames
    BY <2>1, Writing
  <2>6. acked' \in SUBSET Frames
    BY <1>6, <2>1, <2>2, <2>5, Typed DEF CompactPurge
  <2>7. (\A i \in Ids : files[i] # {} => i < nextId)'
    BY <1>6, <2>1, <2>2, <2>3, Typed DEF CompactPurge
  <2> QED BY <2>1, <2>2, <2>4, <2>6, <2>7, Typed, RestStep
<1> QED BY <1>1, <1>2, <1>3, <1>4, <1>5, <1>6 DEF Compact

\* The same for a device deletion: the new list is that of the rewritten tables.
LEMMA DeleteRestOK ==
  ASSUME IdInv, NEW t \in Tasks, Delete(t) PROVE RestOK'
<1>1. ASSUME NEW d \in Devices, DeleteBegin(t, d) PROVE RestOK'
  <2>1. pc[t] = "idle" /\ scan = 0 /\ UNCHANGED <<scan, crashes>>
    BY <1>1 DEF DeleteBegin, memory, history
  <2>2. UNCHANGED <<walPath, walLog, files, walCur, sstables, nextId, compacting,
                    registry, issued, acked, racy, erased, swept>>
    BY <1>1 DEF DeleteBegin, disk, memory, history
  <2>3. memtable' \in SUBSET Frames
    BY <1>1, <2>1, <2>2, Typed DEF DeleteBegin
  <2>4. doomed' \in SUBSET Frames
    BY <1>1, <2>1, <2>2, Typed DEF DeleteBegin
  <2> QED BY <2>1, <2>2, <2>3, <2>4, Typed, RestStep
<1>2. ASSUME DeleteSnapshot(t) PROVE RestOK'
  <2>1. pc[t] = "list" /\ scan = 0 /\ UNCHANGED <<scan, crashes>>
    BY <1>2 DEF DeleteSnapshot, memory, history
  <2>2. UNCHANGED <<walPath, walLog, files, walCur, memtable, sstables, nextId,
                    compacting, registry, issued, acked, racy, doomed, erased, swept>>
    BY <1>2 DEF DeleteSnapshot, disk, memory, history
  <2> QED BY <2>1, <2>2, Typed, RestStep
<1>3. ASSUME DeleteOpen(t) PROVE RestOK'
  <2>1. pc[t] = "open" /\ scan = 0 /\ UNCHANGED <<scan, crashes>>
    BY <1>3 DEF DeleteOpen, memory, history
  <2>2. UNCHANGED <<walPath, walLog, files, walCur, memtable, sstables, nextId,
                    compacting, registry, issued, acked, racy, doomed, erased, swept>>
    BY <1>3 DEF DeleteOpen, disk, memory, history
  <2> QED BY <2>1, <2>2, Typed, RestStep
<1>4. ASSUME DeleteRewrite(t) PROVE RestOK'
  <2>1. pc[t] = "rewrite" /\ scan = 0 /\ UNCHANGED <<scan, crashes>>
    BY <1>4 DEF DeleteRewrite, memory, history
  <2>2. UNCHANGED <<walPath, walLog, walCur, memtable, sstables, compacting, registry,
                    issued, acked, racy, doomed, erased, swept>>
    BY <1>4 DEF DeleteRewrite, disk, memory, history
  <2>3. files[op[t].victims[op[t].size + 1]] \in SUBSET Frames
    <3>1. op[t].size + 1 \in 1..Len(op[t].victims) /\ op[t].victims \in Seq(Ids)
      BY <2>1, Here DEF Fits, Locals
    <3>2. op[t].victims[op[t].size + 1] \in Ids
      <4> HIDE DEF Ids
      <4> QED BY <3>1, ElementOfSeq
    <3> QED BY <3>2, Typed
  <2>4. (files \in [Ids -> SUBSET Frames])'
    BY <1>4, <2>1, <2>2, <2>3, Typed, ZenonT(30) DEF DeleteRewrite, Allocate, Kept
  <2>5. (nextId \in Nat /\ 1 <= nextId /\ nextId <= MaxId + 1)'
    BY <1>4, <2>1, <2>2, Typed DEF DeleteRewrite, Allocate
  <2>6. (\A i \in Ids : files[i] # {} => i < nextId)'
    <3> DEFINE rest == Kept(files[op[t].victims[op[t].size + 1]], op[t].arg)
    <3>1. \/ files' = files /\ nextId' = nextId
          \/ files' = [files EXCEPT ![nextId] = rest] /\ nextId' = nextId + 1
      BY <1>4 DEF DeleteRewrite, Allocate
    <3> HIDE DEF rest
    <3>2. \A i \in Ids : files[i] # {} => i < nextId
      BY <2>1, Typed
    <3>3. CASE files' = files /\ nextId' = nextId
      BY <3>2, <3>3
    <3>4. CASE files' = [files EXCEPT ![nextId] = rest] /\ nextId' = nextId + 1
      <4>1. \A i \in Ids : files'[i] # {} => i = nextId \/ files[i] # {}
        BY <3>4, Typed
      <4>2. \A i \in Ids : files'[i] # {} => i <= nextId
        <5> TAKE i \in Ids
        <5>1. i \in Nat /\ nextId \in Nat
          BY Typed
        <5> QED BY <3>2, <4>1, <5>1
      <4> QED BY <3>4, <4>2, Typed
    <3> QED BY <3>1, <3>3, <3>4
  <2>7. nextId' \in Nat /\ nextId <= nextId'
    BY <1>4, <2>1, <2>2, Typed DEF DeleteRewrite, Allocate
  <2>8. \A i \in Elems(sstables) : i \in Nat /\ i < nextId
    BY <2>1, Typed DEF Elems
  <2>9. (\A i \in Elems(sstables) : i < nextId)'
    <3>1. Elems(sstables') = Elems(sstables)
      BY <2>2
    <3>2. \A i \in Elems(sstables) : i < nextId'
      BY <2>8, <2>7, Typed
    <3> QED BY <3>1, <3>2
  <2> QED BY <2>1, <2>2, <2>4, <2>5, <2>6, <2>7, <2>9, Typed, RestStep
<1>5. ASSUME DeleteReplace(t) PROVE RestOK'
  <2>1. pc[t] = "replace" /\ scan = 0 /\ UNCHANGED <<scan, crashes>>
    BY <1>5 DEF DeleteReplace, memory, history
  <2>2. UNCHANGED <<walPath, walLog, files, walCur, memtable, nextId, compacting,
                    registry, issued, acked, racy, doomed, erased, swept>>
    BY <1>5 DEF DeleteReplace, disk, memory, history
  <2>3. op[t].fresh \in Seq(Ids) /\ \A i \in Elems(op[t].fresh) : i < nextId
    BY <2>1, Here DEF Locals, AllBelow
  <2>4. (sstables \in Seq(Ids))'
    BY <1>5, <2>1, <2>2, <2>3, Typed DEF DeleteReplace
  <2>5. (\A i \in Elems(sstables) : i < nextId)'
    BY <1>5, <2>1, <2>2, <2>3, Typed DEF DeleteReplace
  <2> QED BY <2>1, <2>2, <2>4, <2>5, Typed, RestStep
<1>6. ASSUME DeleteErase(t) PROVE RestOK'
  <2>1. pc[t] = "erase" /\ scan = 0 /\ UNCHANGED <<scan, crashes>>
    BY <1>6 DEF DeleteErase, memory, history
  <2>2. UNCHANGED <<walPath, walLog, walCur, memtable, sstables, nextId, compacting,
                    registry, issued, acked, racy, doomed, erased, swept>>
    BY <1>6 DEF DeleteErase, disk, memory, history
  <2>3. Head(op[t].victims) \in Ids
    BY <2>1, Here, OneVictim DEF Fits, Locals
  <2>4. (files \in [Ids -> SUBSET Frames])'
    BY <1>6, <2>1, <2>2, <2>3, Typed DEF DeleteErase
  <2>5. (\A i \in Ids : files[i] # {} => i < nextId)'
    BY <1>6, <2>1, <2>2, <2>3, Typed DEF DeleteErase
  <2> QED BY <2>1, <2>2, <2>4, <2>5, Typed, RestStep
<1>7. ASSUME DeleteUnregister(t) PROVE RestOK'
  <2>1. pc[t] = "unregister" /\ scan = 0 /\ UNCHANGED <<scan, crashes>>
    BY <1>7 DEF DeleteUnregister, memory, history
  <2>2. UNCHANGED <<walPath, walLog, files, walCur, memtable, sstables, nextId,
                    compacting, issued, acked, racy, doomed, swept>>
    BY <1>7 DEF DeleteUnregister, disk, memory, history
  <2>3. registry' \in SUBSET Devices
    BY <1>7, <2>1, <2>2, Typed DEF DeleteUnregister
  <2>4. op[t].may \in SUBSET Frames
    BY <2>1, Here DEF Locals
  <2>5. erased' \in SUBSET Frames
    BY <1>7, <2>1, <2>2, <2>4, Typed DEF DeleteUnregister
  <2> QED BY <2>1, <2>2, <2>3, <2>5, Typed, RestStep
<1> QED BY <1>1, <1>2, <1>3, <1>4, <1>5, <1>6, <1>7 DEF Delete

\* The same for the retention check: the list only loses ids.
LEMMA SweepRestOK ==
  ASSUME IdInv, NEW t \in Tasks, Sweep(t) PROVE RestOK'
<1>1. ASSUME SweepSelect(t) PROVE RestOK'
  <2>1. pc[t] = "idle" /\ scan = 0 /\ UNCHANGED <<scan, crashes>>
    BY <1>1 DEF SweepSelect, memory, history
  <2>2. UNCHANGED <<walPath, walLog, files, walCur, memtable, sstables, nextId,
                    compacting, registry, issued, acked, racy, doomed, erased, swept>>
    BY <1>1 DEF SweepSelect, disk, memory, history
  <2> QED BY <2>1, <2>2, Typed, RestStep
<1>2. ASSUME NEW i \in op[t].expired, SweepUnlist(t, i) PROVE RestOK'
  <2>1. pc[t] = "sweep" /\ scan = 0 /\ UNCHANGED <<scan, crashes>>
    BY <1>2 DEF SweepUnlist, memory, history
  <2>2. UNCHANGED <<walPath, walLog, files, walCur, memtable, nextId, compacting,
                    registry, issued, acked, racy, doomed, erased>>
    BY <1>2 DEF SweepUnlist, disk, memory, history
  <2>3. i \in Ids
    BY <2>1, Here DEF Locals
  <2>4. (sstables \in Seq(Ids))'
    BY <1>2, Removed DEF SweepUnlist
  <2>5. (\A j \in Elems(sstables) : j < nextId)'
    <3>1. \A j \in Elems(sstables') : j \in Elems(sstables)
      BY <1>2, Removed DEF SweepUnlist
    <3>2. nextId' = nextId
      BY <2>2
    <3> QED BY <3>1, <3>2, Typed
  <2>6. (swept \in SUBSET Frames)'
    BY <1>2, <2>3, Typed DEF SweepUnlist
  <2> QED BY <2>1, <2>2, <2>4, <2>5, <2>6, Typed, RestStep
<1>3. ASSUME SweepErase(t) PROVE RestOK'
  <2>1. pc[t] = "remove" /\ scan = 0 /\ UNCHANGED <<scan, crashes>>
    BY <1>3 DEF SweepErase, memory, history
  <2>2. UNCHANGED <<walPath, walLog, walCur, memtable, sstables, nextId, compacting,
                    registry, issued, acked, racy, doomed, erased, swept>>
    BY <1>3 DEF SweepErase, disk, memory, history
  <2>3. op[t].id \in Ids /\ op[t].id < nextId /\ op[t].must \in SUBSET Frames
    BY <2>1, Here DEF Fits, Locals
  <2>4. (files \in [Ids -> SUBSET Frames])'
    BY <1>3, <2>1, <2>2, <2>3, Typed DEF SweepErase
  <2>5. (\A i \in Ids : files[i] # {} => i < nextId)'
    BY <1>3, <2>1, <2>2, <2>3, Typed DEF SweepErase
  <2> QED BY <2>1, <2>2, <2>4, <2>5, Typed, RestStep
<1> QED BY <1>1, <1>2, <1>3 DEF Sweep

\* The same for a query, which changes nothing but its locals.
LEMMA QueryRestOK ==
  ASSUME IdInv, NEW t \in Tasks, Query(t) PROVE RestOK'
<1>1. ASSUME NEW d \in Devices, QueryMemtable(t, d) PROVE RestOK'
  <2>1. pc[t] = "idle" /\ scan = 0 /\ UNCHANGED <<scan, crashes>>
    BY <1>1 DEF QueryMemtable, memory, history
  <2>2. UNCHANGED <<walPath, walLog, files, walCur, memtable, sstables, nextId,
                    compacting, registry, issued, acked, racy, doomed, erased, swept>>
    BY <1>1 DEF QueryMemtable, disk, memory, history
  <2> QED BY <2>1, <2>2, Typed, RestStep
<1>2. ASSUME QueryTables(t) PROVE RestOK'
  <2>1. pc[t] = "tables" /\ scan = 0 /\ UNCHANGED <<scan, crashes>>
    BY <1>2 DEF QueryTables, memory, history
  <2>2. UNCHANGED <<walPath, walLog, files, walCur, memtable, sstables, nextId,
                    compacting, registry, issued, acked, racy, doomed, erased, swept>>
    BY <1>2 DEF QueryTables, disk, memory, history
  <2> QED BY <2>1, <2>2, Typed, RestStep
<1>3. ASSUME QueryReply(t) PROVE RestOK'
  <2>1. pc[t] = "answer" /\ scan = 0 /\ UNCHANGED <<scan, crashes>>
    BY <1>3 DEF QueryReply, memory, history
  <2>2. UNCHANGED <<walPath, walLog, files, walCur, memtable, sstables, nextId,
                    compacting, registry, issued, acked, racy, doomed, erased, swept>>
    BY <1>3 DEF QueryReply, disk, memory, history
  <2> QED BY <2>1, <2>2, Typed, RestStep
<1> QED BY <1>1, <1>2, <1>3 DEF Query

\* After a crash nothing runs and nothing is listed; start-up begins at the first file.
LEMMA CrashKeeps == ASSUME IdInv, Crash PROVE TasksOK' /\ RestOK'
<1>1. /\ walLog' = walLog /\ files' = files /\ memtable' = {} /\ sstables' = <<>>
      /\ nextId' = 1 /\ compacting' = None /\ registry' = {} /\ scan' = 1
      /\ UNCHANGED <<issued, acked, racy, doomed, erased, swept>>
      /\ op' = [t \in Tasks |-> NoOp] /\ pc' = [t \in Tasks |-> "idle"]
  BY DEF Crash
<1>2. walPath' \in Inodes /\ walCur' \in Inodes
  BY DEF Crash
<1>3. crashes' \in 0..MaxCrashes
  BY Typed, BoundsAssumption DEF Crash
<1>4. Elems(<<>>) = {} /\ <<>> \in Seq(Ids)
  BY DEF Elems
<1>5. TasksOK'
  <2>1. TasksType'
    BY <1>1, NoOpFits DEF TasksType, Labels
  <2>2. LocalsOK'
    BY <1>1 DEF LocalsOK, Fits
  <2>3. \A t \in Tasks : AllBelow(op'[t], nextId')
    BY <1>1, NoOpFits
  <2> QED BY <2>1, <2>2, <2>3 DEF TasksOK
<1>6. DiskType' /\ HistoryType'
  BY <1>1, <1>2, <1>3, Typed DEF DiskType, HistoryType
<1>7. MemoryType'
  BY <1>1, <1>2, <1>4, Typed DEF MemoryType
<1>8. ScanOK' /\ FreshIds' /\ \A i \in Elems(sstables') : i < nextId'
  BY <1>1, <1>4, Typed DEF ScanOK, FreshIds
<1> QED BY <1>5, <1>6, <1>7, <1>8 DEF RestOK

\* One file of the scan: the counter stays above every table opened so far.
LEMMA OpenKeeps == ASSUME IdInv, RecoverOpen PROVE TasksOK' /\ RestOK'
<1>1. /\ scan \in Ids /\ scan' = scan + 1
      /\ UNCHANGED <<disk, walCur, memtable, compacting, registry, pc, op, history>>
  BY DEF RecoverOpen
<1>2. UNCHANGED <<walPath, walLog, files, issued, acked, racy, doomed, erased, swept, crashes>>
  BY <1>1 DEF disk, history
<1>3. nextId <= scan /\ \A i \in Ids : i < scan /\ files[i] # {} => i < nextId
  BY <1>1, Typed DEF IdInv, ScanOK
<1>4. /\ sstables' \in Seq(Ids) /\ nextId' \in 1..(MaxId + 1)
      /\ nextId <= nextId' /\ nextId' <= scan'
      /\ \A i \in Elems(sstables') : i < nextId'
      /\ \A i \in Ids : i < scan' /\ files[i] # {} => i < nextId'
  <2>1. CASE files[scan] = {}
    <3>1. sstables' = sstables /\ nextId' = nextId
      BY <2>1 DEF RecoverOpen
    <3> QED BY <1>1, <1>3, <2>1, <3>1, Typed
  <2>2. CASE files[scan] # {}
    <3>1. sstables' = Append(sstables, scan) /\ nextId' = scan + 1
      BY <2>2 DEF RecoverOpen
    <3>2. \A i \in Elems(sstables') : i \in Elems(sstables) \/ i = scan
      BY <1>1, <3>1, Typed DEF Elems
    <3>3. \A i \in Elems(sstables') : i < nextId'
      <4>1. \A i \in Elems(sstables) : i \in Nat /\ i < nextId
        BY Typed DEF Elems
      <4> QED BY <1>1, <1>3, <3>1, <3>2, <4>1, Typed
    <3>4. sstables' \in Seq(Ids)
      BY <1>1, <3>1, Typed
    <3> QED BY <1>1, <1>3, <3>1, <3>3, <3>4, Typed
  <2> QED BY <2>1, <2>2
<1>5. TasksOK'
  <2>1. TasksType' /\ LocalsOK'
    BY <1>1 DEF IdInv, TypeOK, TasksType, LocalsOK
  <2>2. \A t \in Tasks : AllBelow(op'[t], nextId')
    BY <1>1, <1>4, Here
  <2> QED BY <2>1, <2>2 DEF TasksOK
<1>6. DiskType' /\ HistoryType'
  BY <1>2, Typed DEF DiskType, HistoryType
<1>7. MemoryType'
  BY <1>1, <1>4, Typed DEF MemoryType
<1>8. ScanOK' /\ FreshIds'
  BY <1>1, <1>2, <1>4, Typed DEF ScanOK, FreshIds
<1> QED BY <1>4, <1>5, <1>6, <1>7, <1>8 DEF RestOK

\* The end of start-up: every file has been seen.
LEMMA ServeKeeps == ASSUME IdInv, RecoverServe PROVE TasksOK' /\ RestOK'
<1>1. /\ scan = MaxId + 1 /\ scan' = 0 /\ memtable' = walLog
      /\ registry' = {DevOf[f] : f \in Listed \union walLog}
      /\ UNCHANGED <<disk, walCur, sstables, nextId, compacting, pc, op, history>>
  BY DEF RecoverServe
<1>2. UNCHANGED <<walPath, walLog, files, issued, acked, racy, doomed, erased, swept, crashes>>
  BY <1>1 DEF disk, history
<1>3. \A i \in Ids : files[i] # {} => i < nextId
  <2>1. scan # 0 /\ \A i \in Ids : i < scan
    BY <1>1, Typed
  <2> QED BY <2>1 DEF IdInv, ScanOK
<1>4. registry' \subseteq Devices
  <2>1. Listed \subseteq Frames
    BY Typed DEF Listed, Elems
  <2>2. \A f \in Frames : DevOf[f] \in Devices
    BY FramesAssumption
  <2>3. {DevOf[f] : f \in Listed \union walLog} \subseteq Devices
    BY <2>1, <2>2, Typed
  <2> QED BY <1>1, <2>3
<1>5. TasksOK'
  <2>1. TasksType' /\ LocalsOK'
    BY <1>1 DEF IdInv, TypeOK, TasksType, LocalsOK
  <2>2. \A t \in Tasks : AllBelow(op'[t], nextId')
    BY <1>1, Here
  <2> QED BY <2>1, <2>2 DEF TasksOK
<1>6. DiskType' /\ HistoryType'
  BY <1>2, Typed DEF DiskType, HistoryType
<1>7. MemoryType'
  BY <1>1, <1>4, Typed DEF MemoryType
<1>8. ScanOK' /\ FreshIds' /\ \A i \in Elems(sstables') : i < nextId'
  BY <1>1, <1>2, <1>3, Typed DEF ScanOK, FreshIds
<1> QED BY <1>5, <1>6, <1>7, <1>8 DEF RestOK

----------------------------------------------------------------------------
(* The inductive invariant                                                 *)

\* The two halves make the invariant.
LEMMA Together == /\ TasksOK /\ RestOK => IdInv
                  /\ TasksOK' /\ RestOK' => IdInv'
  BY DEF TasksOK, RestOK, IdInv, TypeOK, IdsBelow

\* The invariant holds of an empty data directory.
LEMMA IdInit == Init => IdInv
<1> SUFFICES ASSUME Init PROVE IdInv
  OBVIOUS
<1>1. walPath \in Inodes /\ walCur \in Inodes
  BY InodesAssumption DEF Init
<1>2. Elems(<<>>) = {} /\ <<>> \in Seq(Ids)
  BY DEF Elems
<1>3. TasksOK
  BY NoOpFits DEF Init, TasksOK, TasksType, LocalsOK, Fits, Labels
<1>4. RestOK
  <2>1. DiskType /\ HistoryType
    BY <1>1, BoundsAssumption DEF Init, DiskType, HistoryType
  <2>2. MemoryType
    BY <1>1, <1>2, BoundsAssumption DEF Init, MemoryType
  <2>3. ScanOK /\ FreshIds /\ \A i \in Elems(sstables) : i < nextId
    BY <1>2 DEF Init, ScanOK, FreshIds
  <2> QED BY <2>1, <2>2, <2>3 DEF RestOK
<1> QED BY <1>3, <1>4, Together

\* Every step keeps it: one case per operation, the crash and start-up.
LEMMA IdStep == IdInv /\ [Next]_vars => IdInv'
<1> SUFFICES ASSUME IdInv, [Next]_vars PROVE IdInv'
  OBVIOUS
<1>1. CASE UNCHANGED vars
  BY <1>1 DEF vars, disk, memory, history, IdInv, TypeOK, DiskType, MemoryType, TasksType,
     HistoryType, IdsBelow, LocalsOK, ScanOK, FreshIds
<1>2. ASSUME NEW t \in Tasks,
             Write(t) \/ Flush(t) \/ Compact(t) \/ Delete(t) \/ Sweep(t) \/ Query(t)
      PROVE  TasksOK' /\ RestOK'
  BY <1>2, WriteTasksOK, FlushTasksOK, CompactTasksOK, DeleteTasksOK, SweepTasksOK,
     QueryTasksOK,
     WriteRestOK, FlushRestOK, CompactRestOK, DeleteRestOK, SweepRestOK, QueryRestOK
<1>3. CASE Crash
  BY <1>3, CrashKeeps, Together
<1>4. CASE Recover
  BY <1>4, OpenKeeps, ServeKeeps, Together DEF Recover
<1> QED BY <1>1, <1>2, <1>3, <1>4, Together DEF Next

\* The inductive invariant: types, ids below next_sstable_id, the locals of every operation
\* of mod.rs at each of its steps, and the counter above every table start-up has opened.
THEOREM Inductive == Spec => []IdInv
  BY IdInit, IdStep, PTL DEF Spec

\* Every variable of the engine keeps its type, and the ids of the SSTable list, of
\* tables being written and of rewritten tables stay below next_sstable_id
\* (CompactionManager::allocate_sstable_id, open_all_sstables).
THEOREM TypeCorrect == Spec => []TypeOK
<1>1. IdInv => TypeOK
  BY DEF IdInv
<1> QED BY <1>1, Inductive, PTL

\* No id that SSTableWriter::new will be given names a table that holds data, so the
\* truncate(true) with which it opens its file destroys nothing: the counter only grows
\* while serving, and start-up sets it above every table it can open.
THEOREM FreshIdsAlways == Spec => []FreshIds
<1>1. IdInv => FreshIds
  BY DEF IdInv
<1> QED BY <1>1, Inductive, PTL

=============================================================================
