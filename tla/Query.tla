------------------------------- MODULE Query -------------------------------
(***************************************************************************)
(* One query from its request to the answer: checks, parsing, the reads of *)
(* memtable and tables one after the other while the engine flushes and    *)
(* merges, and what the executor makes of the frames (execute_query,       *)
(* QueryExecutor, StorageEngine::query).                                   *)
(*                                                                         *)
(* A frame is a number; those of one device and time are in the order of   *)
(* their keys as in that of their numbers.  Inside the engine's steps see  *)
(* module StorageEngine, inside a table's scan module SSTable, inside the  *)
(* parser module QueryParser.                                              *)
(***************************************************************************)
EXTENDS Integers, Sequences, FiniteSets, SequencesExt, Ranking

CONSTANTS
  Received,   \* the frames, as numbers
  SentBy, TimeOf, KindOf, ColumnsOf, \* device, time, variant and JSON fields of each
  LastTime,   \* bound: of the times and the clock
  MaxResults, \* MAX_QUERY_RESULTS (10,000)
  Requests    \* what is asked

NoTime == -1
Variants == {"Uplink", "Downlink", "JoinRequest", "JoinAccept", "Status"}

ASSUME FramesAssumption ==
  /\ Received \subseteq Nat /\ LastTime \in Nat
  /\ \A f \in Received : TimeOf[f] \in 0..LastTime /\ KindOf[f] \in Variants
ASSUME ResultsAssumption == MaxResults \in Nat \ {0}
\* Times are not after the clock's last.
ASSUME RequestsAssumption ==
  \A r \in Requests :
    /\ r.limit \in Nat
    /\ \/ r.filter.clause = "absent"
       \/ r.filter.clause = "BETWEEN" /\ r.filter.start \in 0..LastTime /\ r.filter.end \in 0..LastTime
       \/ r.filter.clause = "SINCE" /\ r.filter.start \in 0..LastTime
       \/ r.filter.clause = "LAST" /\ r.filter.duration \in 0..LastTime

VARIABLES
  now,      \* the clock
  memory, tables, \* the frames in the memtable and in each table; tables in the order of the list
  copied,   \* a flush has listed its table and not cleared the memtable yet
  pc,       \* "idle", "parse", "check", "memtable", "tables", "select", "answer"
  request,
  period,   \* from and to
  results,  \* frames read
  answer,   \* [status, frames]
  kept      \* history: frames stored since the query began to read

stored == <<memory, tables, copied>>
handler == <<pc, request, period, results, answer, kept>>
queryVars == <<now, stored, handler>>

NoRequest == [parses |-> "none"]
Reply(status, frames) == [status |-> status, frames |-> frames]
NoAnswer == Reply(0, <<>>)
Stored(m, ts) == m \union UNION ToSet(ts)

----------------------------------------------------------------------------
(* The engine meanwhile                                                    *)

Keeps(m, ts) == kept' = IF pc = "idle" THEN kept ELSE kept \intersect Stored(m, ts)

Tick == now < LastTime /\ now' = now + 1 /\ UNCHANGED <<stored, handler>>

InsertFrame(f) ==
  /\ f \notin Stored(memory, tables)
  /\ memory' = memory \union {f}
  /\ UNCHANGED <<now, tables, copied, handler>>

\* flush_memtable: the table is listed before the memtable is cleared.
ListTable ==
  /\ ~copied /\ memory # {}
  /\ tables' = Append(tables, memory)
  /\ copied' = TRUE
  /\ UNCHANGED <<now, memory, handler>>

ClearMemtable ==
  /\ copied
  /\ memory' = {} /\ copied' = FALSE
  /\ Keeps({}, tables)
  /\ UNCHANGED <<now, tables, pc, request, period, results, answer>>

\* compact, for the two oldest tables: one step of the list.
MergeTables ==
  /\ Len(tables) >= 2
  /\ tables' = <<tables[1] \union tables[2]>> \o SubSeq(tables, 3, Len(tables))
  /\ UNCHANGED <<now, memory, copied, handler>>

----------------------------------------------------------------------------
(* The request                                                             *)

Goto(label) == pc' = label
Done(status, frames) == Goto("answer") /\ answer' = Reply(status, frames)

\* validate_string_length of the query.
Ask(r) ==
  /\ pc = "idle"
  /\ request' = r
  /\ IF r.tooLong THEN Done(400, <<>>) ELSE Goto("parse") /\ UNCHANGED answer
  /\ UNCHANGED <<now, stored, period, results, kept>>

\* A panic of the parser ends the connection's task: no answer.
Parse ==
  /\ pc = "parse"
  /\ \/ request.parses = "query" /\ Goto("check") /\ UNCHANGED answer
     \/ request.parses = "error" /\ Done(400, <<>>)
     \/ request.parses = "panic" /\ Done(0, <<>>)
  /\ UNCHANGED <<now, stored, request, period, results, kept>>

\* Query::time_range.
TimeRange(filter) ==
  CASE filter.clause = "BETWEEN" -> [from |-> filter.start, to |-> filter.end]
    [] filter.clause = "SINCE" -> [from |-> filter.start, to |-> NoTime]
    [] filter.clause = "LAST" -> [from |-> now - filter.duration, to |-> NoTime]

\* A filter there must be, and a name that is a device's.
Check ==
  /\ pc = "check"
  /\ IF request.filter.clause = "absent" \/ ~request.validEui
     THEN Done(500, <<>>) /\ UNCHANGED <<period, kept>>
     ELSE /\ Goto("memtable")
          /\ period' = TimeRange(request.filter)
          /\ kept' = Stored(memory, tables)
          /\ UNCHANGED answer
  /\ UNCHANGED <<now, stored, request, results>>

Within(f) ==
  /\ SentBy[f] = request.device
  /\ period.from <= TimeOf[f] /\ (period.to = NoTime \/ TimeOf[f] <= period.to)

Before == {e \in Received \X Received :
             TimeOf[e[1]] < TimeOf[e[2]] \/ (TimeOf[e[1]] = TimeOf[e[2]] /\ e[1] < e[2])}
\* scan_device_range and SSTableReader::scan.
ScanOf(S) == Ranked({f \in S : Within(f)}, Before)

ReadMemtable ==
  /\ pc = "memtable"
  /\ results' = ScanOf(memory)
  /\ Goto("tables")
  /\ UNCHANGED <<now, stored, request, period, answer, kept>>

Scans(k) ==
  LET upTo[n \in 0..k] == IF n = 0 THEN <<>> ELSE upTo[n - 1] \o ScanOf(tables[n])
  IN upTo[k]
ScanTables_NotTheLast == Scans(IF tables = <<>> THEN 0 ELSE Len(tables) - 1)
\* All of them under one read lock.
ScanTables == Scans(Len(tables))

ByTime_Unsorted(s) == s
\* sort_by_key is stable.
ByTime(s) ==
  LET earlier == {e \in (DOMAIN s) \X (DOMAIN s) :
                    \/ TimeOf[s[e[1]]] < TimeOf[s[e[2]]]
                    \/ TimeOf[s[e[1]]] = TimeOf[s[e[2]]] /\ e[1] < e[2]}
  IN Rearranged(s, Ranked(DOMAIN s, earlier))

ReadTables ==
  /\ pc = "tables"
  /\ results' = ByTime(results \o ScanTables)
  /\ Goto("select")
  /\ UNCHANGED <<now, stored, request, period, answer, kept>>

Least(m, n) == IF m < n THEN m ELSE n
EffectiveLimit == Least(request.limit, MaxResults)
OfKind(f) ==
  CASE request.select = "uplink" -> KindOf[f] = "Uplink"
    [] request.select = "downlink" -> KindOf[f] = "Downlink"
    [] request.select = "join" -> KindOf[f] \in {"JoinRequest", "JoinAccept"}
    [] request.select = "status" -> KindOf[f] = "Status"
    [] OTHER -> TRUE
FilterFrames(s) == Rearranged(s, Sorted({i \in DOMAIN s : OfKind(s[i])}))
\* frame_type is put beside the variant's own fields; a field a frame has not is left out.
ProjectFields(f) ==
  LET columns == ColumnsOf[f] \union {"frame_type"}
  IN IF request.select = "fields" THEN columns \intersect request.fields ELSE columns

\* Cuts first, then takes the kind asked for.
Select ==
  /\ pc = "select"
  /\ LET cut == FilterFrames(SubSeq(results, 1, Least(Len(results), EffectiveLimit)))
     IN Done(200, [i \in DOMAIN cut |-> [frame |-> cut[i], fields |-> ProjectFields(cut[i])]])
  /\ UNCHANGED <<now, stored, request, period, results, kept>>

Answered ==
  /\ pc = "answer"
  /\ Goto("idle")
  /\ request' = NoRequest /\ results' = <<>> /\ answer' = NoAnswer /\ kept' = {}
  /\ period' = [from |-> NoTime, to |-> NoTime]
  /\ UNCHANGED <<now, stored>>

----------------------------------------------------------------------------
QueryInit ==
  /\ now = 0
  /\ memory = {} /\ tables = <<>> /\ copied = FALSE
  /\ pc = "idle" /\ request = NoRequest
  /\ period = [from |-> NoTime, to |-> NoTime]
  /\ results = <<>> /\ answer = NoAnswer /\ kept = {}

Engine == Tick \/ (\E f \in Received : InsertFrame(f)) \/ ListTable \/ ClearMemtable \/ MergeTables
Handler ==
  \/ \E r \in Requests : Ask(r)
  \/ Parse \/ Check \/ ReadMemtable \/ ReadTables \/ Select \/ Answered
QueryNext == Engine \/ Handler
QuerySpec == QueryInit /\ [][QueryNext]_queryVars

----------------------------------------------------------------------------
(* Properties                                                              *)

QueryTypeOK ==
  /\ now \in 0..LastTime
  /\ memory \subseteq Received /\ tables \in Seq(SUBSET Received)
  /\ copied \in BOOLEAN
  /\ pc \in {"idle", "parse", "check", "memtable", "tables", "select", "answer"}
  /\ request \in Requests \union {NoRequest}
  /\ period.from \in (-LastTime..LastTime) \union {NoTime} /\ period.to \in -1..LastTime
  /\ results \in Seq(Received)
  /\ answer.status \in {0, 200, 400, 500}
  /\ kept \subseteq Received

Answering == pc = "answer" /\ answer.status = 200
Shown == {answer.frames[i].frame : i \in DOMAIN answer.frames}
Wanted(f) == Within(f) /\ OfKind(f)

\* query reads the memtable before the tables, and a flush lists its table before it clears the
\* memtable: a frame that was stored all the while is in the answer, unless as many as the limit
\* allows were read that are not later than it.
NothingMissed ==
  Answering =>
    \A f \in kept : Wanted(f) =>
      f \in Shown \/ Cardinality({i \in DOMAIN results : TimeOf[results[i]] <= TimeOf[f]}) >= EffectiveLimit

\* The answer is in the order of time, not longer than the limit or MAX_QUERY_RESULTS, and has
\* frames of the device, the period and the kind only, though they come from several places.
AnswerInOrder ==
  Answering =>
    /\ Len(answer.frames) <= EffectiveLimit
    /\ \A f \in Shown : Wanted(f)
    /\ \A i, j \in DOMAIN answer.frames :
         i < j => TimeOf[answer.frames[i].frame] <= TimeOf[answer.frames[j].frame]
=============================================================================
