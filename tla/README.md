# LoRaDB in TLA+

LoRaDB is a single-node database for LoRaWAN frames: MQTT or HTTP ingestion, a
write-ahead log, a memtable, SSTable files with compaction, retention, a small
query language, JWT and API tokens. This directory holds its formal models: the
TLA+ modules, the TLC configurations that check them on small instances, and the
theorems TLAPS proves about them for every value of the constants. Paths below
are those of the repository; line numbers are in `PROJECT.json` ("map").

## Inventory

| Component | State | Operations | What is hard | What makes it correct |
|---|---|---|---|---|
| Storage engine `src/storage/mod.rs` | memtable, open SSTables, registry, policies, each behind its own lock | `write`, `flush_memtable`, `compact`, `query`, `delete_device`, `enforce_retention`, `new`, `shutdown` | every operation takes and releases several locks; a writer flushes and compacts in its own task next to the periodic flush; crash anywhere | an acknowledged frame stays on disk and visible; a deleted one stays deleted; listed tables have files |
| Write-ahead log `src/engine/wal.rs` | a segment file, a buffered handle on it | `append`, `truncate`, `replay`, `sync` | the handle and the file name part during `truncate`; a torn last entry | what was appended and not yet in a table is replayed |
| Memtable `src/engine/memtable.rs` | lock-free skip list, size and sequence counters | `insert`, `iter`, `scan_device_range`, `clear`, `delete_device` | iterations are not snapshots; counters race | a flush copies everything that was there when it began |
| SSTables `src/engine/sstable.rs`, `src/util/bloom.rs` | one immutable file each; index and metadata in memory | `SSTableWriter::{new,add,finish}`, `SSTableReader::{open,scan,iter_all,max_timestamp}` | readers reopen the path for every frame; the writer truncates an existing file | a listed table never changes and never loses its file |
| Compaction `src/engine/compaction.rs` | the next id, the data directory | `allocate_sstable_id`, `compact`, `delete_old_sstables`, `open_all_sstables` | ids must stay fresh across restarts and half-written files; merging drops duplicates | nothing is lost but the older of two frames with one key |
| Device registry `src/model/device.rs` | concurrent map by normalized EUI | `register_or_update`, `get_device`, `remove_device` | looked up by spelling in some places, by normal form in others | agrees with the data |
| Retention policies `src/storage/retention_manager.rs` | policies in memory, a JSON file | get, set, remove, `save` | the file is rewritten in place | the file is what the last change left |
| API tokens `src/security/api_token.rs` | tokens in memory, a JSON file | create, validate, revoke, delete, clean-up, `save` | in-place rewrite; a command-line process writes the same file | a revoked token stays revoked |
| Query language `src/query/` | none | parse, execute | time ranges, projections | a query answers with the frames its range asks for |
| HTTP API `src/api/`, JWT `src/security/jwt.rs` | none of its own | handlers, middleware | EUI spelling; a webhook posted again; a save before every handler | calls the engine with the device the user named; a 200 is kept |
| MQTT ingestion `src/ingest/` | broker sessions, a bounded channel | event loops, parsers | reconnects; a full channel blocks a client; frames still in the channel at shutdown | every parsed frame reaches `write` or is reported, in order |
| Start and shutdown `src/main.rs` | task handles | replay, start-up merges, aborts, final flush | aborted clients are not joined; the final flush comes before the processor's end | what was answered is on disk at the end; start and shutdown end |
| Configuration, frame types, encryption helpers, tools | - | - | - | read once, pure, or unused |

Interaction: the frame processor (one task, fed by a channel) and each
`POST /ingest` request call `write`; `write` calls `flush_memtable` when the
memtable is full, and that calls `compact` when the list is long. The periodic
task calls `flush_memtable` too. Handlers call `query`, `delete_device` and
`enforce_retention`; a periodic task also calls the last. All of them share
the engine's locks, and tokio runs them on several threads.

## The core: `StorageEngine`

One module models the whole engine, because its operations interfere through
the same five variables. An action is one critical section: what happens
between taking a lock and releasing it, or one effect on the disk.

| Model | Code |
|---|---|
| `memtable` | the skip list; one insertion order is not needed, so a set |
| `sstables` | `StorageEngine.sstables`, as ids, oldest first |
| `files[i]` | the frames of `sstable-<i>.sst`; `{}` when it is absent or unfinished (it cannot be opened) |
| `walPath`, `walLog` | which file the log's name leads to, and the frames in it |
| `walCur` | the file the handle in `current_segment` is open on |
| `nextId`, `compacting` | `CompactionManager.next_sstable_id` and its write lock during a merge |
| `registry` | the normalized EUIs in `DeviceRegistry` |
| `scan` | how far start-up has come through the files, 0 while serving |
| `pc`, `op` | where each task is in its operation, and its local variables |

Actions by operation (each is named in a comment with the function it models):
`WriteBegin/Append/Insert/Full`; `TimerTick`, `FlushBegin/Publish/Clear`,
`TruncateCheck/Unlink/Reopen/Swap`; `CompactMeasure/Snapshot/Begin/Finish/
Install/Purge`; `DeleteBegin/Snapshot/Open/Rewrite/Replace/Erase/Unregister`;
`SweepSelect/Unlist/Erase`; `QueryMemtable/Tables/Reply`; `Crash`,
`RecoverOpen`, `RecoverServe`.

Choices worth knowing:

- A frame is a model value with a device (`DevOf`), the rank of its
  `MemtableKey` without sequence number (`KeyOf`), whether its retention is over
  (`TooOld`) and whether it spells its EUI as the registry does (`LowerCase`).
- The copy of a flush iterates a concurrent skip list: it contains what was
  there at its start and was not removed (`op.must`), and any of what came or
  went during it (`op.may`).
- Errors (`?`) end the operation without an acknowledgement (`Fail`). A slice or
  `drain` out of range panics: the task is dead until a restart (`Panic`);
  parking_lot locks are released and not poisoned.
- A crash is a crash of the process: what was written to files stays. The
  buffered handle is flushed by every `append`, so a logged frame is in the file.
- Ids are never reused in one process, so comparing ids stands for comparing
  readers.
- `issued`, `acked`, `racy`, `doomed`, `erased` and `swept` are history: they say
  what clients were told and which frames the properties except. No guard reads
  them but that each frame is written once, and the bound on crashes.

Abstractions: an unlink that fails for another reason than a missing file, I/O
errors of `append` and of the SSTable writer, and power failures are not
modelled here. `delete_device` writes a whole rewritten table in one action; an
id is allocated first and a crash in the middle would leave an unfinished file,
which is the state after a crash in a flush or a merge.

### What clients are promised: `DurableStore`

`DurableStore` is the abstract specification: a set of written frames, those acknowledged,
and requests with what each is owed and was answered. It has no log, memtable, tables or
recovery, and its crash ends requests and deletions and nothing else. `ImplementsStore` maps
the engine onto it: `written`, `acked`, `raced`, `forgotten` and `expired` are the history
variables, a request is a query after its first read (`RequestsNow`), a device is being deleted
while a task is at it (`DeletingNow`), and the log is changing during a flush's window or while
its handle is astray (`MovingNow`). Everything else the engine does (flushes, merges,
start-up, each step of a write between the first and the acknowledgement) is invisible. The
refinement contains `QueryComplete`, and `Durable` as far as an answer after a restart shows
it, and says more: an answer has only frames that were written to the device it is about; each
frame is acknowledged once, by a write under way; and a frame joins the exceptions only at
the point that makes it one, as when the log changes while its write is under way.

## The log's segment: `Wal`

`StorageEngine` takes the log as a set of frames per file. `Wal` opens that up for one
segment: `append` hands the slices of an entry to a `BufWriter` (`calls`, `buffer`),
which hands them to the file when the next one does not fit, when one is as
large as the buffer, or at the flush (`WriteBuffered`, `WriteSpill`, `WriteDirect`,
`AppendFlush`). The file system may refuse any of these writes after any number
of units (`DiskFull`); the buffer keeps what it could not write. A crash of the
process loses the buffer, a loss of power any suffix of the file that no `sync`
covered, and `sync` is only called at shutdown. `Restart` is the engine's start: it
opens the segment behind whatever is there and replays it. `ReplaySegment`
follows `replay_segment` read by read, on units of two bytes, so that reading on from
a wrong place does what it does in the code.

A length made of units that are not a length is at least 85071 bytes and thus
beyond the end of the model's files. `Truncate` happens between appends here;
`StorageEngine` has the interleaving. `segment_number` is always 0:
`find_latest_segment` finds the one file that `open` and `truncate` make.

`DurableLog` is what the engine may take the log for: a set of whole entries. An append is one
step, at its return; a start serves what is logged. `ImplementsLog` maps the segment onto
it: the frame being appended, the frames owed and those synced, and what was served. The history variable
`unsure` has the frames whose append failed or was cut short, or that a loss of power
took; they may come back or not. Only with one of them can a start find the log cut,
after which nothing is promised until the log is emptied.

## Starting with many tables: `Startup`

`StorageEngine::new` merges batches of tables while there are more than
`STARTUP_OPEN_LIMIT`, then opens what is left. `remaining` is the list of paths of
that loop, `fresh` the counter of the compaction manager it makes for the purpose,
`batch` the paths still to unlink. `Round` drains a batch, opens and reads it and creates the
output file; `MergeWritten` finishes it; `RemoveOld` unlinks one path. An error in the opening,
the reading, the creation or the writing ends the loop (`broken`); a batch that did not open
stays on the list, one that failed later is off it. `ProcessEnds` is a crash at any of these steps;
`FlushTable` stands for what the server does between starts. `StorageEngine` starts
directly with opening, as a server with few tables does.

## Inside the parts: `Memtable`, `SSTable`, `QueryParser`, `Query`

`StorageEngine` takes the memtable as a set and a table as a set of frames, and `query`
answers with a set. These modules open each of them up.

- `Memtable`: `insert` takes a sequence number, puts the entry in the map and counts
  its size in three atomic steps (`TakeNumber`, `Put`, `Count`); `delete_device` collects,
  removes key by key and then loads and stores the counter (`Collect`, `TakeOut`, `Load`,
  `Store`); `clear` resets all three under the write lock.
- `SSTable`: a writer adds entries in key order, spills its buffer, writes index and
  filter, and last the parts of the header; a crash (`Abandon`) leaves what was written.
  A reader opens the file if its header makes sense, and answers `scan` from the
  bloom filter and a binary search.
- `QueryParser`: one action per parse function over tokens that are chosen when the
  parser looks at them. So one behaviour stands for all queries with that beginning. A last
  string that no quote closes is a token too (`open`), and `status` is a kind of frame, as in
  the code and against its comment.
- `Query`: a request through `execute_query`: checks, `time_range`, the memtable, the
  tables, the stable sort, the limit, the kind of frame and the fields. Around it the
  engine inserts, flushes and merges. The flush has its two visible steps (list the
  table, clear the memtable) in the code's order.
- `Ranking` says what a sorted sequence of a finite set is; queries and start-up sort with
  it. It is stated by quantifiers, as proofs cannot look into a recursive sort.

## How frames come in: `Messages`, `Ingest`, `Transit`

`Messages` is what the parsers make of a message: a frame, nothing, or an error. The
conversion of a ChirpStack uplink exists twice in the code; `ChirpStackMessage` translates
the lines of `parse_message` (MQTT) and `ParseUplink` those of `parse_uplink` (webhook), and
neither uses the other. `Ingest` composes the parsers with MQTT clients, the bounded channel,
the frame processor, webhook requests, the periodic flush and start and shutdown:

| Model | Code |
|---|---|
| `session`, `wire`, `client` | the broker's side of a connection, what it has sent on it, and where the event loop's task is (`"absent"` for a broker that is not configured); a packet above the client's limit ends the connection before a parser sees it (`EndsConnection`) |
| `holding` | the frame a client waits to put into the channel (`tx.send(..).await`) |
| `channel`, `receiver` | the channel; `receiver` is false once the frame processor has ended, and always without brokers, when none is started |
| `pc`, `work` | where each of `Tasks` (the processor, the requests, `Timer`, `Main`) is in `write` or `flush_memtable` |
| `told` | what the sender of an event knows |
| `memtable`, `tables`, `log` | the store: a write is `AppendLog`, `Insert`, `CheckFull`; a flush is `FlushPublish`, `FlushClear`, `FlushTruncate`, `FlushSwap`; any task may act between two of them |
| `attached`, `torn` | whether the log's handle is on the file a start reads, and whether a refused append left a part of an entry in that file |
| `written`, `exposed`, `refused` | history: what reached the log, what met a flush's window or a handle astray or was lost behind a torn entry, what was dropped with a report |

Faults are refused appends, flushes that fail before or behind the new log, a panic in the
compaction behind a flush, lost connections and crashes; brokers drop what is sent without a
session (QoS 0 towards an absent client), and senders post again.

`Transit` is the abstract specification: per broker a queue whose head is written to the log or
reported, and whose oldest frames disappear only when the consumer ends. `Ingest` maps
processor, channel and client onto the queue (`Unsettled`), and `ImplementsTransit` is
the refinement. It excludes a frame written twice or out of order, and one dropped
in silence by a full channel, a failed send or an abort. It ends at the append: what becomes of
a frame in the log is the matter of `AnsweredStored` and of `StorageEngine`.

## Administration: `ApiTokens`, `RetentionPolicies`

Both keep a map in memory and rewrite a JSON file in place. `save` is therefore three
steps: take the lock and the map, open (the file is empty now), write.

- `ApiTokens`: requests authenticate (`jwt_auth` validates the token and saves the use),
  then create, revoke or do something else. The tokens' lock is held to read while saving,
  so a change waits for saves under way (`Readers`). `generate-api-token` is a process of
  its own. `ToolWhile` says in which phases of the server it is used: only while it
  is down in `admin`, also next to it in `cli_token`.
- `RetentionPolicies`: callers of the manager change policies and save; a check takes a
  snapshot of the policies, selects tables by the periods of their applications in any
  order (`Longest`), unlinks and goes on after an unlink that fails. A start is three steps:
  it loads the policies (`StartLoad`: the environment's if there is no file, the default, which
  keeps everything forever, if the file does not parse) and saves them at once, emptying the
  file first (`StartSaveOpen`, `StartSaveWrite`). `Allows` is what the loop of the code makes of
  the policies, `AllPast` what its comment says; they differ in `Overlooked`, the applications
  without a policy under a global "forever".

## What the runs check

`MCStorageEngine` names the frames f1 to f4: f1 and f2 have
the same device and timestamp, f3 the same device later, f4 another device.
`flush` uses symmetry (`Alike`): its two writers cannot be told apart, nor can f1 and f2, of which
the constants say the same and among which nothing chooses; it checks safety only.
`MCRetention` has the tables and policies of `admin` and of `unprotected`. `MCBackground` bounds which of its tasks follow each other. Parts that share no
state in these models are checked as a sum (`MCAdmin`, `MCParts`): `side` says
which acts in a behaviour, the others stay in their initial states. No
run checks deadlock: with every frame written, every id used or every task dead,
the model stops, and so may a server with nothing to do.

| Run | Instance | Properties |
|---|---|---|
| `flush` | 2 writers, periodic flush, a query, 3 frames, merges of 2 tables, 5 ids, 1 crash | `TypeOK`, `LogAttached`, `QueryComplete`, `ImplementsStore` |
| `background` | a writer that flushes each frame, next to the periodic flush, retention or a deletion; 2 devices, mixed spelling, 1 crash | `FreshIds`, `ListedFilesExist`, `Durable`, `ListedTablesFixed` |
| `ingest` | 2 brokers, 1 or none, one message too large for its client, one that is posted by webhook too, up to 2 posts, a channel of 1, a memtable of 2, 1 fault | `IngestTypeOK`, `AnsweredStored`, `SameKeyBothRoutes`, `ImplementsTransit`, `EachSettles`, `EachAnswered`, `ShutdownEnds`, `MemtableFlushed`, `Reconnects` |
| `admin` | tokens: 2 requests, 3 tokens, a failing save, a stop; policies: 2 applications, 2 changers, 1 check, a fault, a restart; start-up: 4 flushes, 3 starts, limit and batch 2, one table cut short | `AdminTypeOK`, `RevokedRefused`, `IssuedAccepted`, `FileAgrees`, `EachReplied`; `PoliciesSaved`, `OnlyAllowedGo`, `OverdueGo`; `LostOnlyByReuse`, `FewTables`, `StartEnds` |
| `parts` | log: payloads of 1, 2 and 11 units, a buffer of 10, 2 failed writes, a crash, a loss of power; a table of 3 entries; memtable: 2 inserts, 2 deletions; parser: lists of 2 fields; query: 4 frames, every kind of request | `PartsTypeOK`; `ImplementsLog`, `ReplayAllOrNothing`; `WholeOrRefused`, `ScanExact`, `EveryDeviceFound`, `SameApplications`; `NothingOverwritten`, `CountExact`; `ParsesTheGrammar`; `NothingMissed`, `AnswerInOrder` |

Engine:

- `Durable`: a write that returned Ok is in the log or in a table at every
  moment, so a crash at any moment loses nothing. Excepted: writes that overlap a
  flush (see the findings), frames of a device that is or was being deleted, and
  keys retention removed.
- `QueryComplete`: a query reads the memtable first and the tables later; a
  frame acknowledged before it began is in one of the two, whatever flush and
  compaction did in between.
- `ImplementsStore`: a client cannot tell the engine from `DurableStore` (above). `flush`
  checks it with a single flushing task, where nothing in the way of `wrong_batch` can happen.
- `LogAttached`: outside a flush the log handle is open on the file replay will
  read. It holds with one task that flushes and not with two, where one task's
  `truncate` unlinks the segment the other has just opened, and `WriteAppend` counts such
  writes as racy. It says nothing of the window itself, which is `lost_write`'s.
- `FreshIds`: the id the next table gets names no table with data, because the
  writer would truncate it.
- `ListedFilesExist`, `ListedTablesFixed`: a table in the list has its file, and
  no step changes it; a query, a deletion or a merge reopens the path.

Ingestion:

- `AnsweredStored`: an event answered with 200 is in the log or a table, whatever failed,
  panicked or crashed since. Excepted are events whose append or insert met a flush of another
  task or a handle astray, and those a start could not read behind a torn entry. The code
  loses such events (`lost_write`, `cut_segment`, and two flushes that truncate at once).
- `SameKeyBothRoutes`: an event with a time gets one key by MQTT, by webhook and in each
  repeated post, so merges can drop the copies.
- `ImplementsTransit`: the refinement above, up to the append to the log.
- `EachSettles`, `EachAnswered`, `ShutdownEnds`, `MemtableFlushed`, `Reconnects`: nothing taken
  in stays on its way, no sender waits for ever, a signal leads to the exit, the memtable
  comes to be in a table, and a client comes back. Each says of a state that a behaviour never
  stays in it. They hold although a full channel blocks clients, the processor may die of a
  panic, and a flush may fail. `MemtableFlushed` excepts a periodic task that has died, and is
  not about the log, which stays filled when a flush fails between clearing the memtable and
  truncating. No message of the run has a preview that panics; `Reconnects` would not survive it.

Administration and start-up:

- `RevokedRefused`, `IssuedAccepted`, `FileAgrees`: after an answer a revoked token is
  refused and an issued one accepted, now and after a crash; overlapping saves
  leave the newest map in the file.
- `PoliciesSaved`, `OnlyAllowedGo`, `OverdueGo`: with no save under way or failed the file has
  the policies in memory; a table goes only if, by the policies the check began with, it is
  past the period of each of its applications and none is kept by a policy of its own, in
  whatever order the loop takes them; and an overdue one does go. `OnlyAllowedGo` excepts the
  applications the loop passes over (`unprotected`), `PoliciesSaved` a save that was cut off.
- `LostOnlyByReuse`, `FewTables`, `StartEnds`: merging loses nothing unless it writes over
  an existing table; a start ends, and with few enough tables, unless the loop was broken by
  a batch.
- `EachReplied`: no request waits for ever for the tokens' lock.

Parts:

- `ImplementsLog`: the segment keeps the promise of `DurableLog` (above): acknowledged frames
  that no table holds are served, also after a restart, as long as no start has met an
  entry cut short; after a loss of power this is owed for synced frames only; and no start
  meets one unless an append failed or was cut short, or power was lost.
- `ReplayAllOrNothing`: whatever failed writes, crashes and later appends made of the
  end of a segment, a start replays all the whole entries at its front or none
  of the segment, and never a frame whose entry is not complete in the file.
- `WholeOrRefused`, `ScanExact`, `EveryDeviceFound`, `SameApplications`: a crashed writer
  leaves a file that is refused; any other answers each scan exactly, tells the
  registry of each device, and retention of each application. (`application_ids` would answer
  from the metadata of a writer, but every reader of the code comes from `open`, where
  that set is empty: it always collects them from the frames.)
- `NothingOverwritten`, `CountExact`: inserts never replace each other; the size counter
  agrees with the map whenever nothing is under way and no deletion overlapped a change.
- `ParsesTheGrammar`: the parser accepts the grammar in its own comment with `status` added to
  the kinds, and that only, where the last string may be left open. These are two differences from comment and
  guide: by both, `status` names a field (`parser.rs:14`, `QUERY_API_GUIDE.md:288`), and by the
  guide a quote without a match is an error (`QUERY_API_GUIDE.md:629`).
- `NothingMissed`, `AnswerInOrder`: an answer has every frame that was stored all the
  while, up to the limit; it is sorted, and only has what was asked for.

### Bounds

Engine: three frames let a flush, a merge with an older table and a racing write
happen in one behaviour. In `flush` a compaction merges two tables, which may be those of
the two frames of one key; in `background` the threshold is 1, so that a table is rewritten
next to a deletion or retention after every flush. Four or five ids are enough for every frame to be flushed and merged,
and once more after a crash. In `background` the tasks other than the writer act one at a
time; a behaviour has deletions or retention and the periodic flush before either; the
periodic flush, and a deletion with a crash, take two of the three frames (`Bounds`). Without
these limits the space of that instance exceeds ten million states. `wrong_batch` has two
flushing tasks. Log: an entry of the large frame is longer
than the buffer; two refused writes fill the buffer so that a third append is
refused between two slices; a cut of the large entry can swallow a whole later one.
Ingestion: a channel of one place is full with one frame, so a client waits while the other
and the processor move. Every task has the steps of a write and a flush, so the traffic is
spread over six beginnings (`MCTraffic`): three messages of a broker, with the fault; one of each of two
brokers; a message too large for the client and those behind it; no broker, and one post with the
fault, or two without; and one event on both routes. The first has the third frame waiting for the channel while the
second fills the memtable. One fault is one of a refused append, a
failing flush, a panic, a lost connection, a crash; shutdowns and restarts are not
faults and not bounded. Tokens: two requests, so that one saves while the other changes.
Start-up: with limit and batch of two, a third table makes a merge and a fourth two
rounds; three starts let the second reuse ids of the first and the third find the result.
Query: four frames and a limit of two or three leave out some. The reachable state spaces
are finite and explored completely.

### Fairness

Only what the code schedules: tokio polls every task that can run, so each client, the
processor, each request and each step of `main` is weakly fair. Two actions are
strongly fair because their lock or channel queues those who wait: a place in a tokio
`mpsc` channel goes to senders in the order they came (`SendToChannel`), and a waiting
writer of the tokens' `RwLock` keeps new readers out (`Step` of `ApiTokens`). The
periodic flush and the periodic check are weakly fair since their timers tick for
ever. Nothing is assumed of brokers, senders, users, the calendar or restarts, and no
fault has to happen or to stop. `StorageEngine` and the modules of `parts` state safety
only, and have no fairness.

### What the code does not keep

Each is a run that TLC refutes, with the trace that shows it:

- `lost_write` (`AckedSurvive`): a frame appended and inserted after the flush
  copied the memtable and before it cleared it is acknowledged and then in no
  memtable, table or log (`mod.rs:286`, `mod.rs:294`).
- `cut_segment` (`LogServed`): one entry cut short makes replay give up the whole
  segment, the intact entries in front of it included (`wal.rs:179`).
- `undeleted` (`DeletedStayDeleted`): deletion is not logged; a restart replays the
  device's frames (`mod.rs:635`).
- `wrong_batch` (`AckedReadable`): two compactions merge the same batch and the
  second drains a table that nobody merged; its frames are invisible until the
  next start (`mod.rs:352`).
- `unprotected` (`OnlyPastGo`): an application without a policy is to be kept forever by the
  global default, but a finite policy of another in the table is enough to delete it
  (`mod.rs:545`).
- `startup` (`TablesKept`): the manager that merges at start counts its tables from 0 at
  every start; a second start that has to merge writes over a table of the first, which is
  in its own batch, and then unlinks it (`mod.rs:99`).
- `cli_token` (`IssuedAccepted`): a token made by `generate-api-token` next to a running
  server is overwritten by the server's next save, and unknown after the restart
  the guide asks for (`generate-api-token.rs:46`).
Other steps of the models lead where the code, or a doc of it, would not have them lead. TLC
finds the traces as easily, but there is no run for each:

- Two flushes truncate at once; one unlinks the file the other has created, and the log's
  handle ends on a file without a name, where every later write is acknowledged and none
  is kept (`wal.rs:251`).
- Deletion compares EUIs as spelled with the one asked for; frames in another spelling stay in
  their tables (`mod.rs:671`). It installs the list it has rewritten; a table flushed meanwhile
  is not in it (`mod.rs:721`).
- A compaction slices or drains more tables than are left since it measured the list; the panic
  ends the periodic flush, or the frame processor (`mod.rs:327`, `mod.rs:352`).
- Retention takes the timestamp of the largest key, which is the last device's, for the newest
  of the table (`sstable.rs:541`).
- A crash in the save that every start makes leaves a file that does not parse; the next start
  takes the default and saves it, and the policies are gone (`retention_manager.rs:243`).
- The log line about a rejected message cuts its text at byte 500, which panics inside a
  character; the client's task ends and never connects again (`mqtt.rs:231`).
- The parser takes `status` for a kind where comment and guide have a field, and accepts a
  query whose last quote is not closed (`parser.rs:83`, `parser.rs:326`).

The list of hazards in `PROJECT.json` has a note where no property covers one.

## What is proved

Each result is proved for every value of the constants, from the assumptions named in the
component's module and from what the theorem itself states.

| Theorem | Statement | Inductive invariant |
|---|---|---|
| `StorageEngineProofs!TypeCorrect` | `Spec => []TypeOK` | `IdInv` |
| `StorageEngineProofs!FreshIdsAlways` | `Spec => []FreshIds` | `IdInv` |
| `StorageEngineFiles!ListedFilesAlways` | `Spec => []ListedFilesExist` | `ListInv` |
| `StorageEngineFiles!ListedFixed` | `Spec => ListedTablesFixed` | `ListInv` |
| `StorageEngineDurable!DurableAlways` | `Spec => []Durable` | `DurableInv` |
| `StorageEngineReads!ReadsComplete` | `Spec /\ []TakesOwn => [](QueryComplete /\ AckedReadable)` | `ReadInv` |
| `StorageEngineReads!AttachedAlone` | `Spec /\ []OneFlushes => []LogAttached` | `LogInv` |
| `StorageEngineReads!OwnWhenApart` | `Spec /\ []OneReplaces => []TakesOwn` | `ListerInv` |
| `StorageEngineReads!OneFlusherSuffices` | `OneFlusher /\ Spec => [](QueryComplete /\ LogAttached)` | `FlusherInv` |
| `StorageEngineReads!StoreRefined` | `Spec /\ []TakesOwn => ImplementsStore` | `StoreInv`, `ReadInv` |
| `StorageEngineReads!StoreOfOneFlusher` | `OneFlusher /\ Spec => ImplementsStore` | `FlusherInv` |
| `AdminProofs!OnlyReuseLoses` | `StartupSpec => []LostOnlyByReuse` | `MergeInv` |
| `AdminProofs!ChangesSaved` | `PolicySpec => []PoliciesSaved` | `SaveInv` |
| `AdminProofs!RevokedStayRefused` | `ToolApart => (TokenSpec => []RevokedRefused)` | `TokenInv` |
| `AdminProofs!IssuedStayAccepted` | `ToolApart => (TokenSpec => []IssuedAccepted)` | `TokenInv` |
| `AdminProofs!SavesAgree` | `ToolApart => (TokenSpec => []FileAgrees)` | `TokenInv` |
| `AdminProofs!AllowedGo` | `PolicySpec => OnlyAllowedGo` | `CheckInv` |
| `AdminProofs!StartsWithFew` | `StartupSpec => FewTables` | `KnownInv` |
| `AdminProofs!AdminTypes` | `AdminSpec => []AdminTypeOK` | `TokenTypes`, `CheckInv`, `KnownInv` |
| `PartsProofs!KeysStayApart` | `MemtableSpec => []NothingOverwritten` | `MapInv` |
| `PartsProofs!CounterExact` | `MemtableSpec => []CountExact` | `CountInv` |
| `PartsProofs!TablesWhole` | `TableSpec => []WholeOrRefused` | `TableInv` |
| `PartsProofs!ScansExact` | `TableSpec => []ScanExact` | `TableInv` |
| `PartsProofs!DevicesFound` | `TableSpec => []EveryDeviceFound` | `TableInv` |
| `PartsProofs!ApplicationsSame` | `TableSpec => []SameApplications` | `TableInv` |
| `PartsProofs!LogServedIntact` | `Spec => []IntactLogServed` (`Wal`) | `WalInv` |
| `PartsProofs!LogRefined` | `Spec => ImplementsLog` (`Wal`) | `LogInv` (of `PartsProofs`) |
| `PartsProofs!ReplayedWhole` | `Spec => []ReplayAllOrNothing` (`Wal`) | `WalInv` |
| `PartsProofs!NothingIsMissed` | `QuerySpec => []NothingMissed` | `QueryInv` |
| `PartsProofs!AnswersInOrder` | `QuerySpec => []AnswerInOrder` | `QueryInv` |
| `PartsProofs!GrammarParsed` | `ParserSpec => []ParsesTheGrammar` | `ParserInv` |
| `PartsProofs!PartsTypes` | `PartsSpec => []PartsTypeOK` | `WalInv`, `TableInv`, `CountInv`, `QueryInv` |
| `IngestProofs!AnswersHold` | `Spec => []AnsweredStored` | `AnswerInv` |
| `IngestProofs!TypesHold` | `Spec => []IngestTypeOK` | `TransitInv` |
| `IngestProofs!Refines` | `Spec => ImplementsTransit` | `TransitInv` |
| `IngestProofs!SameKey` | `ASSUME TtnsOwn PROVE Spec => []SameKeyBothRoutes` | `ReadInv` |

### The engine

The proofs about `StorageEngine` build on each other: ids, then the list and its files, then
what frames are where, then what a query sees. Each has one lemma per operation with one
step per action.

- `IdInv == TypeOK /\ LocalsOK /\ ScanOK /\ FreshIds`. `TypeOK` includes that the ids of
  listed, new, rewritten and expiring tables lie below the counter, and is not inductive by
  itself. A task in `swap` must hold an inode (else the handle loses its type), one in
  `rewrite` must have a table left, one in `merging` must hold an id: `LocalsOK` says what
  the locals are at each label. After a crash the counter restarts at 1 and climbs as
  start-up opens files in order: `ScanOK` says that it lies above every table seen so far.
- `ListInv`: the ids in the list and those of tables being made are all different, a table
  that was written and not yet listed has its data, and the tables a merge, a deletion or
  retention is about to remove have left the list. So nobody truncates, rewrites or unlinks
  what the list names.
- `DurableInv`: each frame with an acknowledged, not excepted write has its key in the log, or
  in a table that stays, or in one whose removal comes after a newer table with the key. The
  argument follows the tables from one that is about to be merged away to the one
  that replaces it; ids grow along the way, so it ends at a table nobody removes.
- `ReadInv`: as long as the engine serves, each such frame is in the memtable or in a listed
  table, and a query between its two reads has either met it or will. This needs `TakesOwn`:
  what `compact` drains from the front of the list, and what `delete_device` replaces, is what
  it has read ("Replace only the compacted batch", `mod.rs`). The code does not ensure
  it, as `wrong_batch` shows, so it is a hypothesis, about the behaviour and not about the
  constants. `OwnWhenApart` proves it of every behaviour in which no task replaces tables
  while another is between reading and replacing.
- `LogInv` (of `StorageEngineReads`): the handle is on the log unless a flush is about to put it there. It needs that
  no two flushes are between copying and truncating (`OneFlushes`): without, TLC refutes it.
- `StoreInv` is what the refinement of `DurableStore` needs beside these: every frame in the log, the
  memtable, a table or a task's hands was written; a write under way has a frame of its own that is not
  acknowledged yet; deletions and queries are of the devices they hold; and a table that a
  retention check has selected is still one its rule lets go. Most steps are `Unseen`: they change
  none of the exceptions, bring no new frame, and end no more than a write. What a
  query answers is within what `DurableStore` allows by `QueryComplete` after the step, which is
  why `StoreRefined` has the hypothesis of `ReadsComplete`.
- `FlusherInv` gives both conditions for the constants alone: one task that flushes
  and neither deletions nor retention, the shape of the run `flush`.

### Ingestion

`AnswerInv` adds to the property two facts. `Covered`: what is in the log is in the memtable,
in a table, in the hands of a writer between append and insert, or has met a flush; and while
a flush is between the publication of its table and the new log, in a table or among what met
it. So what `FlushTruncate` takes from the log is safe or excepted. `RequestsWritten`: a request
writes its own frame, and from its append on this frame is safe or excepted.

`TransitInv` has the types and what keeps the frames of a broker apart. Its heart is `Behind`:
every frame of a broker that is known anywhere (written, reported, in the channel, held
by a client, in the hands of the processor) was published before all that is still on the wire.
So what a client polls has never been seen, which is why nothing enters the queue of
`Transit` twice. Order comes from lemmas on `Unsettled`: selecting the frames of one broker
distributes over concatenation (`Split`), so the head of its queue is what
the processor has taken, then the channel, then what the client holds. `Refines` maps every
action to one of `Transit` or to a step that changes none of its variables.

`SameKey` takes the one condition on messages that the parsers need: no message of The Things
Network has the part `deviceInfo`, which every conversion of ChirpStack's requires (`TtnsOwn`).
Its `ReadInv` says that only what a parser accepted is under way or stored.

### Administration

`ToolApart` says that the command-line tool is not used while the server runs; without it
`cli_token` refutes `IssuedStayAccepted`.

`SaveInv` says that whoever is writing the file writes what is in memory (the read lock
keeps changes out), and that the file is what is in memory or somebody is still to
save. `TokenInv` says the same of tokens, and that memory, file and the tool's copy each keep
what users were told: a revoked token is in the map and inactive, an issued one is in
the map. The three token properties follow from it. A crash in the middle of a save is
the reason for the case of a torn file: the server refuses to start with it.

`MergeInv` adds what a merge knows at each stage: while it writes, it has read the whole
batch and its file is apart from it and empty; while it unlinks, its file has the data of
what is left of the batch; while the server runs, no table has the next id or one above it.

`CheckInv` says of a retention check that each table it has condemned is one that the policies
of its snapshot let go by the rule of `Allows`; time only passes, so it stays so. What the loop over the
applications of a table arrives at, in whatever order it takes them, is an invariant over its rounds
(`CountUp`, on a function that `Recursion` gives).

`KnownInv` says that what a start still looks at, has to remove and is writing is all that has
a file, so what it opens at the end is no more than what was left in `remaining`. A batch that
cannot be opened, read or written breaks the loop (`broken`) and leaves more; `FewTables` is
about the starts where that did not happen.

### The parts

`MapInv` adds to `NothingOverwritten` that all numbers in use are below the next one and
used once, by an entry or by an insert under way, and that no frame is put in twice.

`CountInv`: until a deletion has raced, the counter and the sizes that inserts have still
to add make up the sizes of the map and those that the deletion has still to subtract. A
deletion between its load and its store is the only one, and nothing was counted since
its load; otherwise it is a race. The sums are taken over finite sets by `DataInduction`.

`TableInv` says what the file holds at each step of the writer: blocks are the entries
handed over so far, in order; index and filter are those of the entries; the header comes
last, so a file whose header makes sense has all of it. `ScansExact` then follows the
binary search and the filter over a whole table.

`WalInv` is about places in the file. Each frame owed to a client has its entry as a whole in
the file, one covered by a `sync` within the synced part (`Logged`). While `append` works, the units
written so far of its entry are the end of the file and the buffer together
(`Written`). `IntactLogServed` is part of the invariant. `ReplayAllOrNothing` needs what the loop of
`replay_segment` does for every log: its function of the position exists (`Descent`), and it
walks through the whole entries at the front, one by one (`CountDown`). That an entry
is met nowhere else follows from the magic number: its first unit occurs at no other place of
an entry, so two entries never overlap, and two at one place are of one frame.

`LogInv` is what the refinement of `DurableLog` needs on top: until an append fails or is
cut short, the file is entries one behind the other (`Chained`), and behind them in file and buffer
what the present append has written of its entry (`Uncut`). So the replay of such a file ends
without an error, and a start that finds the log cut has met a frame of `unsure`. That it
serves nothing but logged and unsure frames follows from `Origins`: each unit in the file is of
one of these or of the frame being appended. `DurableLog` thereby contains `IntactLogServed`,
which is a theorem of its own and no longer a property of the run.

`QueryInv`: the frames that were stored all the while since a query began (`kept`) are stored. Once the
memtable was read, each of them that fits the request is among the results or in a table:
listing a table, clearing the memtable and merging take nothing out of what the tables have together.
Once the tables were read, all are among the results, and these are in the order of time. The
loop over the tables is a function by `Recursion`, the sort and the selection of a kind follow from
`RankedAll` and `SortedAll`: a finite set has a sequence of all its members in a given order.

`ParserInv` compares two sets of queries at each step: those whose text begins with the
tokens read, and those that agree with what the parser has made of them (`Fits`). They are the
same until an error, where the first is empty. `DueIs` says which token the queries of the second
have next, from the lengths of their clauses; each parse function then keeps those that have
the token it accepts. An accepted query is in both, which makes its text what was read.

### What stays with TLC

- Liveness: `EachSettles`, `EachAnswered`, `ShutdownEnds`, `MemtableFlushed`, `Reconnects`, `EachReplied`,
  `OverdueGo` and `StartEnds`. The prover handles neither ENABLED, in which fairness is
  expressed, nor the counting of steps that such proofs end in.
- `QueryComplete`, `ImplementsStore` and `LogAttached` without a condition: the code keeps them only
  while compactions, deletions and flushes do not overlap (`wrong_batch`), so the theorems say under which conditions
  they hold, and the run checks them where these are met.

All other safety properties of the passing runs are theorems. Recursive operators and folds over
sequences are opaque to the provers. Where a proof needs induction over data (the order of a
queue, a counted prefix, a sort), `DataInduction` derives it from the library's well-founded
ordering of finite sets: least elements (`LeastOf`), counting up and down (`CountUp`, `CountDown`),
functions by recursion on a number (`Recursion`, `Descent`), gathering a finite set (`GatherUp`),
sums over one (`TotalAdd`, `TotalSame`) and sorting one (`RankedAll`, `SortedAll`).

## Not modelled, and what could follow

Not modelled:

- Configuration: read once at start. Encryption helpers: no caller.
- The bytes of a table's blocks, compression and checksums: they matter for files damaged
  from outside. The log's checksums are modelled, since a torn log is read on.
- JWT cryptography, TLS, CORS, rate limits: whether a JWT verifies is a choice.
- Read-only listings of the API, and the counts, names and `last_seen` of the registry.
- `delete_token` and `cleanup_expired` (no caller). The routes that set or remove retention
  policies are commented out (`http.rs:92`); `RetentionPolicies` has the manager's
  operations behind them.
- Characters: the tokenizer, the JSON parser and the formatting of values are choices
  among the outcomes the next step tells apart.
- In `StorageEngine`: an unlink that fails for another reason than a missing file, I/O errors
  of `append` and of the table writer, power failures. `Wal` has failed appends and loss of
  power, `Ingest` failing writes and flushes, `RetentionPolicies` failing unlinks.
- Durability of a rename or of directory entries: the code renames nothing.

The plan is done. What could follow: `DurableStore` composed with `DurableLog`, so that the
store's exceptions include the frames that a cut log takes; and `Ingest` over `DurableStore`, so
that what a sender was told is owed to later queries too.
