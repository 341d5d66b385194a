--------------------------- MODULE StorageEngine ---------------------------
(***************************************************************************)
(* The storage engine of LoRaDB: write-ahead log, memtable, SSTable files, *)
(* the in-memory list of open SSTables, flush, compaction, device          *)
(* deletion, retention, queries, a crash of the process and the recovery   *)
(* that follows it (src/storage/mod.rs, src/engine/*.rs).                  *)
(*                                                                         *)
(* One action is one critical section of the code: what runs between two   *)
(* acquisitions of a lock, or between two effects on the disk that a crash *)
(* or another task can tell apart.  The tasks are the frame processor and  *)
(* the HTTP handlers (Writers, Deleters, Queriers), the periodic flush     *)
(* (Timers) and the retention check (Sweepers); tokio runs them on several *)
(* threads.                                                                *)
(***************************************************************************)
EXTENDS Naturals, Sequences, FiniteSets

CONSTANTS
  Frames,       \* the frames the workload may write, each at most once
  Devices,
  DevOf,        \* the device of a frame
  KeyOf,        \* rank of a frame's dev_eui and timestamp in the order of MemtableKey
  TooOld,       \* the frames whose retention period is over
  LowerCase,    \* the frames whose dev_eui is spelled as its normalized form is
  Writers,      \* tasks that call write: the frame processor, POST /ingest
  Timers,       \* the periodic flush (the program starts one)
  Deleters,     \* tasks that call delete_device
  Sweepers,     \* tasks that call enforce_retention
  Queriers,     \* tasks that call query
  None,
  CompactionThreshold,
  MemtableLimit, \* frames the memtable holds when should_flush says yes
  Inodes,       \* bound: files that have been the log and are still open
  MaxId,        \* bound: SSTable ids allocated in one behaviour
  MaxCrashes    \* bound: crashes in one behaviour

Tasks == Writers \union Timers \union Deleters \union Sweepers \union Queriers
Ids == 1..MaxId

ASSUME FramesAssumption ==
  /\ DevOf \in [Frames -> Devices]
  /\ KeyOf \in [Frames -> Nat]
  /\ TooOld \subseteq Frames /\ LowerCase \subseteq Frames
  /\ \A f, g \in Frames :
       KeyOf[f] = KeyOf[g] => DevOf[f] = DevOf[g] /\ (f \in TooOld <=> g \in TooOld)
ASSUME NoneAssumption == None \notin Frames \union Devices \union Tasks \union Inodes
\* A request, and the periodic task, runs one kind of operation.
ASSUME RolesAssumption ==
  /\ Writers \intersect (Timers \union Deleters \union Sweepers \union Queriers) = {}
  /\ Timers \intersect (Deleters \union Sweepers \union Queriers) = {}
  /\ Deleters \intersect (Sweepers \union Queriers) = {}
  /\ Sweepers \intersect Queriers = {}
ASSUME InodesAssumption == Inodes # {}
ASSUME BoundsAssumption ==
  /\ CompactionThreshold \in Nat
  /\ MemtableLimit \in Nat
  /\ MaxId \in Nat
  /\ MaxCrashes \in Nat

VARIABLES
  \* on disk
  walPath,      \* the inode wal-00000000.log names, None while no such file exists
  walLog,       \* the frames in that file
  files,        \* frames of the SSTable file of each id; {}: no file that opens
  \* in memory
  walCur,       \* the inode the WriteAheadLog appends to
  memtable,
  sstables,     \* ids of StorageEngine.sstables, oldest first
  nextId,       \* CompactionManager.next_sstable_id
  compacting,   \* the task that holds compaction_manager for writing in compact
  registry,     \* DeviceRegistry
  scan,         \* 0 while serving, else the next file start-up looks at
  pc,           \* where each task is
  op,           \* its local variables
  \* history, read by no action's guard but the bounds'
  issued,       \* frames whose write has begun
  acked,        \* frames whose write returned Ok
  racy,         \* frames whose write overlapped the window of a flush
  doomed,       \* frames written before or during a delete of their device
  erased,       \* frames acknowledged before a delete of their device that returned Ok
  swept,        \* frames in the tables the retention check removed
  crashes

disk == <<walPath, walLog, files>>
memory == <<walCur, memtable, sstables, nextId, compacting, registry, scan>>
history == <<issued, acked, racy, doomed, erased, swept, crashes>>
vars == <<disk, memory, pc, op, history>>

----------------------------------------------------------------------------
(* Helpers                                                                 *)

FramesOf(d) == {f \in Frames : DevOf[f] = d}
Keys(S) == {KeyOf[f] : f \in S}
Elems(s) == {s[i] : i \in DOMAIN s}
Stored == UNION {files[i] : i \in Ids}
Listed == UNION {files[i] : i \in Elems(sstables)}
Serving == scan = 0

NoOp == [arg |-> None, id |-> 0, must |-> {}, may |-> {}, victims |-> <<>>,
         fresh |-> <<>>, expired |-> {}, size |-> 0, inode |-> None]
At(t, label) == Serving /\ pc[t] = label
Goto(t, label) == pc' = [pc EXCEPT ![t] = label]
SetLocals(t, locals) == op' = [op EXCEPT ![t] = locals]
\* The operation ends: its locals go out of scope.
Leave(t, label) == Goto(t, label) /\ SetLocals(t, NoOp)
\* `?` propagates an error: a writer's frame is not acknowledged.
Fail(t) == Leave(t, "idle") /\ UNCHANGED acked
\* A panic ends the task; parking_lot releases its locks without poisoning.
Panic(t) == Leave(t, "dead") /\ UNCHANGED acked
\* flush_memtable returned Ok: write returns Ok, the timer waits for its next tick.
Succeed(t) ==
  /\ Leave(t, "idle")
  /\ acked' = IF t \in Writers THEN acked \union {op[t].arg} ELSE acked

\* From the first frame it copies to the new log handle, a flush is in its window.
InWindow(t) == pc[t] \in {"copy", "clear", "check", "unlink", "reopen", "swap"}
FlushRunning == \E t \in Tasks : InWindow(t)
\* Iteration over the skip list is not atomic: a frame that comes or goes while a
\* flush copies may or may not be in the copy.
Coming(S) == [t \in Tasks |-> IF pc[t] = "copy"
                THEN [op[t] EXCEPT !.may = @ \union S] ELSE op[t]]
Going(S) == [t \in Tasks |-> IF pc[t] = "copy"
                THEN [op[t] EXCEPT !.must = @ \ S, !.may = @ \union (op[t].must \intersect S)]
                ELSE op[t]]

InUse == {walPath, walCur} \union {op[t].inode : t \in Tasks}
\* The inode the log's name has once WalSegment::open has created it if need be.
Created(i) ==
  /\ Inodes \ InUse # {}              \* bound Inodes
  /\ i = IF walPath = None THEN CHOOSE j \in Inodes \ InUse : TRUE ELSE walPath

IdAfter_NotAdvanced(i) == i
\* next_sstable_id += 1, and max_id + 1 after a restart.
IdAfter(i) == i + 1
\* CompactionManager::allocate_sstable_id, and SSTableWriter::new, which creates or
\* truncates the file.  Blocked while compact holds the compaction manager.
Allocate ==
  /\ compacting = None
  /\ nextId \in Ids            \* bound MaxId
  /\ nextId' = IdAfter(nextId)

----------------------------------------------------------------------------
(* StorageEngine::write                                                    *)

\* register_or_update.
WriteBegin(t, f) ==
  /\ At(t, "idle") /\ t \in Writers
  /\ f \notin issued
  /\ issued' = issued \union {f}
  /\ registry' = registry \union {DevOf[f]}
  /\ Goto(t, "append")
  /\ SetLocals(t, [op[t] EXCEPT !.arg = f])
  /\ doomed' = IF \E u \in Deleters : pc[u] # "idle" /\ op[u].arg = DevOf[f]
               THEN doomed \union {f} ELSE doomed
  /\ UNCHANGED <<disk, walCur, memtable, sstables, nextId, compacting, scan,
                 acked, racy, erased, swept, crashes>>

Logged_NotFlushed(f) == walLog
\* write_all and the flush of the BufWriter.
Logged(f) == IF walCur = walPath THEN walLog \union {f} ELSE walLog
\* WriteAheadLog::append: the bytes reach the file the handle is open on, which may no
\* longer be the file replay will read.
WriteAppend(t) ==
  /\ At(t, "append")
  /\ walLog' = Logged(op[t].arg)
  /\ racy' = IF FlushRunning \/ walCur # walPath THEN racy \union {op[t].arg} ELSE racy
  /\ Goto(t, "insert")
  /\ UNCHANGED <<walPath, files, memory, op, issued, acked, doomed, erased, swept, crashes>>

\* Memtable::insert, under the memtable's read lock.
WriteInsert(t) ==
  /\ At(t, "insert")
  /\ memtable' = memtable \union {op[t].arg}
  /\ op' = Coming({op[t].arg})
  /\ racy' = IF FlushRunning THEN racy \union {op[t].arg} ELSE racy
  /\ Goto(t, "full")
  /\ UNCHANGED <<disk, walCur, sstables, nextId, compacting, registry, scan,
                 issued, acked, doomed, erased, swept, crashes>>

\* should_flush, then flush_memtable in the writer's own task.
WriteFull(t) ==
  /\ At(t, "full")
  /\ IF Cardinality(memtable) >= MemtableLimit
       THEN Goto(t, "flush") /\ UNCHANGED <<op, acked>>
       ELSE Succeed(t)
  /\ UNCHANGED <<disk, memory, issued, racy, doomed, erased, swept, crashes>>

----------------------------------------------------------------------------
(* StorageEngine::flush_memtable                                           *)

\* start_periodic_flush: a tick that finds data.
TimerTick(t) ==
  /\ At(t, "idle") /\ t \in Timers
  /\ memtable # {}
  /\ Goto(t, "flush")
  /\ UNCHANGED <<disk, memory, op, history>>

\* allocate_sstable_id, SSTableWriter::new, and the memtable's read lock: what the
\* memtable holds now will be copied unless delete_device removes it first.
FlushBegin(t) ==
  /\ At(t, "flush")
  /\ Allocate
  /\ files' = [files EXCEPT ![nextId] = {}]
  /\ SetLocals(t, [op[t] EXCEPT !.id = nextId, !.must = memtable, !.may = {}])
  /\ racy' = racy \union {op[w].arg : w \in {w \in Writers : pc[w] = "insert"}}
  /\ Goto(t, "copy")
  /\ UNCHANGED <<walPath, walLog, walCur, memtable, sstables, compacting, registry, scan,
                 issued, acked, doomed, erased, swept, crashes>>

\* SSTableWriter::finish, which refuses an empty table, SSTableReader::open and push.
FlushPublish(t, copied) ==
  /\ At(t, "copy")
  /\ op[t].must \subseteq copied
  /\ IF copied = {}
       THEN Fail(t) /\ UNCHANGED <<files, sstables>>
       ELSE /\ files' = [files EXCEPT ![op[t].id] = copied]
            /\ sstables' = Append(sstables, op[t].id)
            /\ SetLocals(t, [op[t] EXCEPT !.must = {}, !.may = {}])
            /\ Goto(t, "clear")
            /\ UNCHANGED acked
  /\ UNCHANGED <<walPath, walLog, walCur, memtable, nextId, compacting, registry, scan,
                 issued, racy, doomed, erased, swept, crashes>>

\* Memtable::clear under the write lock, which waits for every copying flush.
FlushClear(t) ==
  /\ At(t, "clear")
  /\ \A u \in Tasks : pc[u] # "copy"
  /\ memtable' = {}
  /\ Goto(t, "check")
  /\ UNCHANGED <<disk, walCur, sstables, nextId, compacting, registry, scan, op, history>>

\* WriteAheadLog::truncate: path.exists(), remove_file, WalSegment::open, and only then
\* the lock of current_segment.  The flushes that run it share wal's read lock.
TruncateCheck(t) ==
  /\ At(t, "check")
  /\ Goto(t, IF walPath # None THEN "unlink" ELSE "reopen")
  /\ UNCHANGED <<disk, memory, op, history>>

TruncateUnlink(t) ==
  /\ At(t, "unlink")
  /\ IF walPath = None
       THEN Fail(t) /\ UNCHANGED <<walPath, walLog>>
       ELSE /\ walPath' = None
            /\ walLog' = {}
            /\ Goto(t, "reopen")
            /\ UNCHANGED <<op, acked>>
  /\ UNCHANGED <<files, memory, issued, racy, doomed, erased, swept, crashes>>

TruncateReopen(t) ==
  /\ At(t, "reopen")
  /\ \E i \in Inodes : Created(i) /\ walPath' = i /\ SetLocals(t, [op[t] EXCEPT !.inode = i])
  /\ Goto(t, "swap")
  /\ UNCHANGED <<walLog, files, memory, history>>

NewHandle_Kept(t) == walCur
NewHandle(t) == op[t].inode
\* The handle moves to the new segment; then should_compact.
TruncateSwap(t) ==
  /\ At(t, "swap")
  /\ walCur' = NewHandle(t)
  /\ IF Len(sstables) > CompactionThreshold
       THEN /\ Goto(t, "measure")
            /\ SetLocals(t, [op[t] EXCEPT !.inode = None, !.id = 0])
            /\ UNCHANGED acked
       ELSE Succeed(t)
  /\ UNCHANGED <<disk, memtable, sstables, nextId, compacting, registry, scan,
                 issued, racy, doomed, erased, swept, crashes>>

----------------------------------------------------------------------------
(* StorageEngine::compact, called by flush_memtable                        *)

MergeKey_DeviceOnly(f) == DevOf[f]
\* MemtableKey::new(dev_eui, timestamp, 0).
MergeKey(f) == KeyOf[f]
\* The BTreeMap: one frame of each key, from the last table of the batch that holds the key.
Merges(batch, merged) ==
  LET pool == UNION {files[batch[i]] : i \in DOMAIN batch}
      MergeKeys(S) == {MergeKey(f) : f \in S}
      Newest(f) == \E i \in DOMAIN batch :
        /\ f \in files[batch[i]]
        /\ \A j \in DOMAIN batch : j > i => MergeKey(f) \notin MergeKeys(files[batch[j]])
  IN /\ merged \subseteq pool
     /\ MergeKeys(merged) = MergeKeys(pool)
     /\ \A f \in merged : Newest(f) /\ \A g \in merged : MergeKey(f) = MergeKey(g) => f = g

\* batch_size, under a read lock that is released at once.
CompactMeasure(t) ==
  /\ At(t, "measure")
  /\ LET batchSize == IF CompactionThreshold < Len(sstables)
                      THEN CompactionThreshold ELSE Len(sstables)
     IN SetLocals(t, [op[t] EXCEPT !.size = batchSize])
  /\ Goto(t, "snapshot")
  /\ UNCHANGED <<disk, memory, history>>

\* sstables[..batch_size]: a slice out of range panics.
CompactSnapshot(t) ==
  /\ At(t, "snapshot")
  /\ IF Len(sstables) < op[t].size
       THEN Panic(t)
       ELSE /\ SetLocals(t, [op[t] EXCEPT !.victims = SubSeq(sstables, 1, op[t].size)])
            /\ Goto(t, "merge")
            /\ UNCHANGED acked
  /\ UNCHANGED <<disk, memory, issued, racy, doomed, erased, swept, crashes>>

\* CompactionManager::compact reads the batch, then allocates an id and opens the
\* writer; the caller keeps compaction_manager locked until the table is finished.
CompactBegin(t, merged) ==
  /\ At(t, "merge")
  /\ compacting = None
  /\ IF op[t].victims = <<>> \/ \E v \in Elems(op[t].victims) : files[v] = {}
       THEN /\ merged = {}
            /\ Fail(t)
            /\ UNCHANGED <<files, nextId, compacting>>
       ELSE /\ Merges(op[t].victims, merged)
            /\ Allocate
            /\ files' = [files EXCEPT ![nextId] = {}]
            /\ compacting' = t
            /\ SetLocals(t, [op[t] EXCEPT !.id = nextId, !.must = merged])
            /\ Goto(t, "merging")
            /\ UNCHANGED acked
  /\ UNCHANGED <<walPath, walLog, walCur, memtable, sstables, registry, scan,
                 issued, racy, doomed, erased, swept, crashes>>

CompactFinish(t) ==
  /\ At(t, "merging")
  /\ files' = [files EXCEPT ![op[t].id] = op[t].must]
  /\ compacting' = None
  /\ SetLocals(t, [op[t] EXCEPT !.must = {}])
  /\ Goto(t, "install")
  /\ UNCHANGED <<walPath, walLog, walCur, memtable, sstables, nextId, registry, scan, history>>

AfterDrain_OneShort(n) == SubSeq(sstables, n, Len(sstables))
AfterDrain_OneTooMany(n) == SubSeq(sstables, n + 2, Len(sstables))
\* What drain(..n) leaves of the list.
AfterDrain(n) == SubSeq(sstables, n + 1, Len(sstables))
\* drain(..batch_size), which panics when the list has become shorter, and insert(0, _).
CompactInstall(t) ==
  /\ At(t, "install")
  /\ IF Len(sstables) < op[t].size
       THEN Panic(t) /\ UNCHANGED sstables
       ELSE /\ sstables' = <<op[t].id>> \o AfterDrain(op[t].size)
            /\ Goto(t, "purge")
            /\ UNCHANGED <<op, acked>>
  /\ UNCHANGED <<disk, walCur, memtable, nextId, compacting, registry, scan,
                 issued, racy, doomed, erased, swept, crashes>>

\* delete_old_sstables removes file after file and only warns of a failure.
CompactPurge(t) ==
  /\ At(t, "purge")
  /\ files' = [files EXCEPT ![Head(op[t].victims)] = {}]
  /\ IF Len(op[t].victims) = 1
       THEN Succeed(t)
       ELSE /\ SetLocals(t, [op[t] EXCEPT !.victims = Tail(@)])
            /\ UNCHANGED <<pc, acked>>
  /\ UNCHANGED <<walPath, walLog, memory, issued, racy, doomed, erased, swept, crashes>>

----------------------------------------------------------------------------
(* StorageEngine::delete_device, called by DELETE /devices/:dev_eui        *)

\* The handler's get_device, then Memtable::delete_device, which compares normalized names.
DeleteBegin(t, d) ==
  /\ At(t, "idle") /\ t \in Deleters
  /\ d \in registry
  /\ memtable' = memtable \ FramesOf(d)
  /\ op' = [Going(FramesOf(d)) EXCEPT ![t].arg = d, ![t].may = acked \intersect FramesOf(d)]
  /\ doomed' = doomed \union (issued \intersect FramesOf(d))
  /\ Goto(t, "list")
  /\ UNCHANGED <<disk, walCur, sstables, nextId, compacting, registry, scan,
                 issued, acked, racy, erased, swept, crashes>>

DeleteSnapshot(t) ==
  /\ At(t, "list")
  /\ SetLocals(t, [op[t] EXCEPT !.victims = sstables, !.fresh = <<>>, !.size = 0])
  /\ Goto(t, IF sstables = <<>> THEN "unregister" ELSE "open")
  /\ UNCHANGED <<disk, memory, history>>

\* Every table of the snapshot is reopened before the first is rewritten.
DeleteOpen(t) ==
  /\ At(t, "open")
  /\ IF \E v \in Elems(op[t].victims) : files[v] = {}
       THEN Fail(t)
       ELSE Goto(t, "rewrite") /\ UNCHANGED <<op, acked>>
  /\ UNCHANGED <<disk, memory, issued, racy, doomed, erased, swept, crashes>>

Kept_Inverted(S, d) == S \intersect FramesOf(d)
\* The filter compares frame.dev_eui() as it is spelled with the name of the request,
\* which the registry has found among its normalized names.
Kept(S, d) == S \ (FramesOf(d) \intersect LowerCase)
\* One table: iter_all, the filter, and a new table unless nothing is left.  size counts
\* the tables done.
DeleteRewrite(t) ==
  LET source == files[op[t].victims[op[t].size + 1]]
      rest == Kept(source, op[t].arg)
  IN /\ At(t, "rewrite")
     /\ IF source = {}
          THEN Fail(t) /\ UNCHANGED <<files, nextId>>
          ELSE /\ IF rest = {}
                    THEN /\ SetLocals(t, [op[t] EXCEPT !.size = @ + 1])
                         /\ UNCHANGED <<files, nextId>>
                    ELSE /\ Allocate
                         /\ files' = [files EXCEPT ![nextId] = rest]
                         /\ SetLocals(t, [op[t] EXCEPT !.size = @ + 1,
                                                       !.fresh = Append(@, nextId)])
               /\ Goto(t, IF op[t].size + 1 = Len(op[t].victims) THEN "replace" ELSE "rewrite")
               /\ UNCHANGED acked
     /\ UNCHANGED <<walPath, walLog, walCur, memtable, sstables, compacting, registry, scan,
                    issued, racy, doomed, erased, swept, crashes>>

\* *sstables = new_sstables, whatever the list holds by now.
DeleteReplace(t) ==
  /\ At(t, "replace")
  /\ sstables' = op[t].fresh
  /\ SetLocals(t, [op[t] EXCEPT !.fresh = <<>>, !.size = 0])
  /\ Goto(t, "erase")
  /\ UNCHANGED <<disk, walCur, memtable, nextId, compacting, registry, scan, history>>

DeleteErase(t) ==
  /\ At(t, "erase")
  /\ files' = [files EXCEPT ![Head(op[t].victims)] = {}]
  /\ SetLocals(t, [op[t] EXCEPT !.victims = Tail(@)])
  /\ Goto(t, IF Len(op[t].victims) = 1 THEN "unregister" ELSE "erase")
  /\ UNCHANGED <<walPath, walLog, memory, history>>

DeleteUnregister(t) ==
  /\ At(t, "unregister")
  /\ registry' = registry \ {op[t].arg}
  /\ erased' = erased \union op[t].may
  /\ Leave(t, "idle")
  /\ UNCHANGED <<disk, walCur, memtable, sstables, nextId, compacting, scan,
                 issued, acked, racy, doomed, swept, crashes>>

----------------------------------------------------------------------------
(* StorageEngine::enforce_retention, each check interval and on demand     *)

\* SSTableReader::max_timestamp is the timestamp of the table's largest key, which is the
\* last device's last frame.
Expires(i) ==
  \E f \in files[i] : f \in TooOld /\ \A g \in files[i] : KeyOf[g] <= KeyOf[f]
\* The verdict on every listed table, under one read lock.
SweepSelect(t) ==
  /\ At(t, "idle") /\ t \in Sweepers
  /\ LET expired == {i \in Elems(sstables) : Expires(i)}
     IN /\ expired # {}
        /\ SetLocals(t, [op[t] EXCEPT !.expired = expired])
  /\ Goto(t, "sweep")
  /\ UNCHANGED <<disk, memory, history>>

Without_Unchanged(s, i) == s
\* retain(|s| s.id() != sstable_id): no id is in the list twice.
Without(s, i) ==
  IF i \in Elems(s)
  THEN LET k == CHOOSE k \in DOMAIN s : s[k] = i
       IN SubSeq(s, 1, k - 1) \o SubSeq(s, k + 1, Len(s))
  ELSE s
\* The next of to_delete.
SweepUnlist(t, i) ==
  /\ At(t, "sweep")
  /\ i \in op[t].expired
  /\ sstables' = Without(sstables, i)
  /\ swept' = swept \union files[i]
  /\ SetLocals(t, [op[t] EXCEPT !.expired = @ \ {i}, !.id = i])
  /\ Goto(t, "remove")
  /\ UNCHANGED <<disk, walCur, memtable, nextId, compacting, registry, scan,
                 issued, acked, racy, doomed, erased, crashes>>

\* remove_file, whose failure is only logged.
SweepErase(t) ==
  /\ At(t, "remove")
  /\ files' = [files EXCEPT ![op[t].id] = {}]
  /\ SetLocals(t, [op[t] EXCEPT !.id = 0])
  /\ Goto(t, IF op[t].expired = {} THEN "idle" ELSE "sweep")
  /\ UNCHANGED <<walPath, walLog, memory, history>>

----------------------------------------------------------------------------
(* StorageEngine::query                                                    *)

\* scan_device_range.  may keeps what the answer owes: the acknowledged frames.
QueryMemtable(t, d) ==
  /\ At(t, "idle") /\ t \in Queriers
  /\ SetLocals(t, [op[t] EXCEPT !.arg = d,
                                !.must = memtable \intersect FramesOf(d),
                                !.may = (acked \ racy) \intersect FramesOf(d)])
  /\ Goto(t, "tables")
  /\ UNCHANGED <<disk, memory, history>>

\* SSTableReader::scan of each listed table, under one read lock.
QueryTables(t) ==
  /\ At(t, "tables")
  /\ IF \E i \in Elems(sstables) : files[i] = {}
       THEN Fail(t)
        ELSE /\ LET read == Listed \intersect FramesOf(op[t].arg)
                IN SetLocals(t, [op[t] EXCEPT !.must = @ \union read])
            /\ Goto(t, "answer")
            /\ UNCHANGED acked
  /\ UNCHANGED <<disk, memory, issued, racy, doomed, erased, swept, crashes>>

QueryReply(t) ==
  /\ At(t, "answer")
  /\ Leave(t, "idle")
  /\ UNCHANGED <<disk, memory, history>>

----------------------------------------------------------------------------
(* A crash of the process, and StorageEngine::new                          *)

\* What the files hold survives (the page cache outlives the process).
\* WriteAheadLog::open creates the segment if there is none; open_all_sstables starts.
Crash ==
  /\ crashes < MaxCrashes
  /\ crashes' = crashes + 1
  /\ op' = [t \in Tasks |-> NoOp]
  /\ pc' = [t \in Tasks |-> "idle"]
  /\ \E i \in Inodes : Created(i) /\ walPath' = i /\ walCur' = i
  /\ memtable' = {}
  /\ sstables' = <<>>
  /\ nextId' = 1
  /\ compacting' = None
  /\ registry' = {}
  /\ scan' = 1
  /\ UNCHANGED <<walLog, files, issued, acked, racy, doomed, erased, swept>>

\* One path of find_sstables, in the order of the ids: SSTableReader::open rejects an
\* unfinished file; max_id follows the tables that opened.  (With more than 500 files
\* start-up compacts in batches first: not modelled here.)
RecoverOpen ==
  /\ scan \in Ids
  /\ scan' = scan + 1
  /\ IF files[scan] = {}
       THEN UNCHANGED <<sstables, nextId>>
       ELSE /\ sstables' = Append(sstables, scan)
            /\ nextId' = IdAfter(scan)
  /\ UNCHANGED <<disk, walCur, memtable, compacting, registry, pc, op, history>>

\* The replayed frames are the memtable; the registry is rebuilt from tables and memtable.
RecoverServe ==
  /\ scan = MaxId + 1
  /\ scan' = 0
  /\ memtable' = walLog
  /\ registry' = {DevOf[f] : f \in Listed \union walLog}
  /\ UNCHANGED <<disk, walCur, sstables, nextId, compacting, pc, op, history>>

----------------------------------------------------------------------------

\* An empty data directory, opened.
Init ==
  /\ walPath = CHOOSE i \in Inodes : TRUE
  /\ walCur = walPath
  /\ walLog = {}
  /\ files = [i \in Ids |-> {}]
  /\ memtable = {}
  /\ sstables = <<>>
  /\ nextId = 1
  /\ compacting = None
  /\ registry = {}
  /\ scan = 0
  /\ pc = [t \in Tasks |-> "idle"]
  /\ op = [t \in Tasks |-> NoOp]
  /\ issued = {} /\ acked = {} /\ racy = {} /\ doomed = {} /\ erased = {} /\ swept = {}
  /\ crashes = 0

Write(t) ==
  \/ \E f \in Frames : WriteBegin(t, f)
  \/ WriteAppend(t) \/ WriteInsert(t) \/ WriteFull(t)
Flush(t) ==
  \/ TimerTick(t) \/ FlushBegin(t)
  \/ \E extra \in SUBSET op[t].may : FlushPublish(t, op[t].must \union extra)
  \/ FlushClear(t) \/ TruncateCheck(t) \/ TruncateUnlink(t) \/ TruncateReopen(t)
  \/ TruncateSwap(t)
Compact(t) ==
  \/ CompactMeasure(t) \/ CompactSnapshot(t)
  \/ \E merged \in SUBSET Stored : CompactBegin(t, merged)
  \/ CompactFinish(t) \/ CompactInstall(t) \/ CompactPurge(t)
Delete(t) ==
  \/ \E d \in Devices : DeleteBegin(t, d)
  \/ DeleteSnapshot(t) \/ DeleteOpen(t) \/ DeleteRewrite(t) \/ DeleteReplace(t)
  \/ DeleteErase(t) \/ DeleteUnregister(t)
Sweep(t) ==
  \/ SweepSelect(t)
  \/ \E i \in op[t].expired : SweepUnlist(t, i)
  \/ SweepErase(t)
Query(t) ==
  \/ \E d \in Devices : QueryMemtable(t, d)
  \/ QueryTables(t) \/ QueryReply(t)
Recover == RecoverOpen \/ RecoverServe

Next ==
  \/ \E t \in Tasks : Write(t) \/ Flush(t) \/ Compact(t) \/ Delete(t) \/ Sweep(t) \/ Query(t)
  \/ Crash \/ Recover

Spec == Init /\ [][Next]_vars

----------------------------------------------------------------------------
(* Properties                                                              *)

Labels == {"idle", "dead", "append", "insert", "full", "flush", "copy", "clear", "check",
           "unlink", "reopen", "swap", "measure", "snapshot", "merge", "merging", "install",
           "purge", "list", "open", "rewrite", "replace", "erase", "unregister", "sweep",
           "remove", "tables", "answer"}
Locals == [arg : Frames \union Devices \union {None}, id : 0..MaxId,
           must : SUBSET Frames, may : SUBSET Frames, victims : Seq(Ids), fresh : Seq(Ids),
           expired : SUBSET Ids, size : Nat, inode : Inodes \union {None}]

DiskType ==
  /\ walPath \in Inodes \union {None} /\ walLog \subseteq Frames
  /\ files \in [Ids -> SUBSET Frames]
MemoryType ==
  /\ walCur \in Inodes /\ memtable \subseteq Frames
  /\ sstables \in Seq(Ids) /\ nextId \in 1..(MaxId + 1)
  /\ compacting \in Tasks \union {None} /\ registry \subseteq Devices
  /\ scan \in 0..(MaxId + 1)
TasksType == pc \in [Tasks -> Labels] /\ op \in [Tasks -> Locals]
HistoryType ==
  /\ issued \subseteq Frames /\ acked \subseteq Frames /\ racy \subseteq Frames
  /\ doomed \subseteq Frames /\ erased \subseteq Frames /\ swept \subseteq Frames
  /\ crashes \in 0..MaxCrashes
AllBelow(locals, n) ==
  locals.id < n /\ \A i \in Elems(locals.fresh) \union locals.expired : i < n
\* The ids of the list and of the tables that tasks write were handed out.
IdsBelow ==
  /\ \A t \in Tasks : AllBelow(op[t], nextId)
  /\ \A i \in Elems(sstables) : i < nextId

\* Every variable has its type, and every id in use lies below next_sstable_id.
TypeOK == DiskType /\ MemoryType /\ TasksType /\ HistoryType /\ IdsBelow

\* SSTableWriter::new opens its file with truncate(true): the ids it will be given next
\* name no table that holds data, whatever was deleted, left half done or recovered.
FreshIds == Serving => \A i \in Ids : files[i] # {} => i < nextId

\* A listed table can be opened and read: no flush, compaction or device deletion removes
\* the file of a table a query may still scan (StorageEngine::query fails if one is gone).
ListedFilesExist == \A i \in Elems(sstables) : files[i] # {}

\* Nothing changes a table while it is in the list: not a writer that reuses its id, not a
\* purge that comes before the list has let go of it.
ListedTablesFixed == [][\A i \in Elems(sstables) : files'[i] = files[i]]_vars

\* Between flushes the log handle is open on the file that replay will read.  With one
\* task that flushes, truncate always leaves it so.
LogAttached == Serving /\ ~FlushRunning => walCur = walPath

\* A write that returned Ok survives a crash at any moment: recovery will find the frame,
\* or one of the same device and timestamp that compaction kept instead, in the log or in
\* a table.  Excepted are writes that overlapped the window of a flush, frames of a device
\* deleted since, and what retention removed.
Owed(S) == Keys(S \ (racy \union doomed)) \ Keys(swept)
Durable == Owed(acked) \subseteq Keys(walLog \union Stored)

\* A query answers with every frame acknowledged before it began (same exceptions): data
\* moving from memtable to table, or from table to merged table, passes no query unseen.
QueryComplete ==
  \A t \in Queriers : At(t, "answer") => Owed(op[t].may) \subseteq Keys(op[t].must)

\* What a client sees of a query, of the log and of deletions.
RequestOf(t) ==
  IF pc[t] \notin {"tables", "answer"}
  THEN [stage |-> "none", device |-> None, owed |-> {}, frames |-> {}]
  ELSE [stage |-> IF pc[t] = "tables" THEN "asked" ELSE "answered",
        device |-> op[t].arg, owed |-> op[t].may,
        frames |-> IF pc[t] = "tables" THEN {} ELSE op[t].must]
RequestsNow == [t \in Queriers |-> RequestOf(t)]
MovingNow == FlushRunning \/ walCur # walPath
DeletingNow == {op[t].arg : t \in {u \in Deleters : pc[u] # "idle"}}

\* The engine keeps the promises of a store without tables, crashes included: what is
\* acknowledged and not among Durable's exceptions is in every answer asked for since, an
\* answer has nothing else but frames written to its device, and a frame becomes an
\* exception only when a change of the log, a deletion of its device or retention meets it.
Store == INSTANCE DurableStore WITH
           written <- issued, raced <- racy, forgotten <- doomed, expired <- swept,
           moving <- MovingNow, deleting <- DeletingNow, requests <- RequestsNow
ImplementsStore == Store!Spec

----------------------------------------------------------------------------
(* The inductive invariant behind TypeOK and FreshIds                      *)

\* What a task's locals are at each point of its operation.
Fits(t, at, locals) ==
  /\ at \in {"append", "insert", "full"} => t \in Writers
  /\ t \in Writers /\ at \notin {"idle", "dead"} => locals.arg \in Frames
  /\ at = "swap" => locals.inode # None
  /\ at \in {"copy", "merging", "install", "remove"} => locals.id \in Ids
  /\ at \in {"merging", "install", "purge", "open", "rewrite", "replace", "erase"}
       => locals.victims # <<>>
  /\ at = "open" => locals.size = 0
  /\ at = "rewrite" => locals.size < Len(locals.victims)
  /\ at \in {"merge", "merging", "install"} => locals.size = Len(locals.victims)
LocalsOK == \A t \in Tasks : Fits(t, pc[t], op[t])

\* While start-up scans, next_sstable_id follows the tables seen so far.
ScanOK ==
  scan # 0 => /\ nextId <= scan
              /\ \A i \in Ids : i < scan /\ files[i] # {} => i < nextId

IdInv == TypeOK /\ LocalsOK /\ ScanOK /\ FreshIds

----------------------------------------------------------------------------
\* What the project promises and the code does not keep.

\* README.md: "All writes are immediately logged to wal/ directory for crash recovery".
AckedSurvive == Keys(acked \ doomed) \ Keys(swept) \subseteq Keys(walLog \union Stored)

\* DELETE_DEVICE_API.md: the frames of a device whose deletion returned Ok are gone from
\* all storage layers.
DeletedStayDeleted == Serving => erased \intersect (memtable \union Listed) = {}

\* compact: "Replace only the compacted batch with the new merged SSTable".  Were it so,
\* what is acknowledged (with the exceptions of Durable) would stay in memtable or list.
AckedReadable ==
  Serving => Owed(acked) \subseteq Keys(memtable \union Listed)

=============================================================================
