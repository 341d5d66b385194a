------------------------------- MODULE Ingest -------------------------------
(***************************************************************************)
(* How frames get into the store: MQTT clients, the bounded channel and    *)
(* the frame processor, webhook requests, the periodic flush, and the      *)
(* start and shutdown of the server around them (src/ingest/mqtt.rs,       *)
(* src/main.rs, start_frame_processor, ingest_chirpstack).                 *)
(*                                                                         *)
(* A write is its append to the log and its insert into the memtable, a    *)
(* flush is the publication of its table, the clearing of the memtable and *)
(* the new log file: steps of the writers, of the periodic flush and of    *)
(* main that interleave.  What a table, a merge or a query makes of them   *)
(* is in module StorageEngine.                                             *)
(***************************************************************************)
EXTENDS Messages, Sequences, FiniteSets, SequencesExt

CONSTANTS
  ChirpStack, Ttn,  \* the brokers
  Brokers,          \* those that may be configured
  Outbox,           \* per broker, the messages it will publish, in order
  Webhooks,         \* the events a ChirpStack server posts
  WebhookMessage,   \* the message of each
  Capacity,         \* of the channel (1000)
  MemtableLimit,    \* frames that make the memtable full
  Traffic,          \* how a behaviour may begin: the brokers configured, what brokers and
                    \* senders did before the server's first start, the faults spent
  MaxAttempts,      \* bound: posts of one event
  MaxFaults         \* bound: refused writes, failed flushes, panics, lost connections, crashes

ASSUME BrokersAssumption ==
  /\ Brokers \subseteq {ChirpStack, Ttn} /\ ChirpStack # Ttn
  /\ {ChirpStack, Ttn} \intersect Webhooks = {}
  /\ \A b \in Brokers : Len(Outbox[b]) \in Nat
ASSUME TrafficAssumption ==
  \A past \in Traffic : /\ past.clients \subseteq Brokers
                        /\ past.sent \in [Brokers -> Nat]
                        /\ past.attempt \in [Webhooks -> 0..MaxAttempts]
                        /\ past.faults \in 0..MaxFaults
ASSUME CapacityAssumption == Capacity \in Nat \ {0}
ASSUME IngestBoundsAssumption == MaxAttempts \in Nat /\ MaxFaults \in Nat

Attempts == Webhooks \X (1..MaxAttempts)
Processor == <<"processor", 0>>
Writers == {Processor} \union Attempts
Timer == <<"timer", 0>>
Main == <<"main", 0>>
Tasks == Writers \union {Timer, Main}
MqttFrames == UNION {{b} \X (1..Len(Outbox[b])) : b \in Brokers}
Frames == MqttFrames \union Attempts
ASSUME NoFrameAssumption == None \notin Frames

VARIABLES
  phase,     \* "running", "stopping", "flushed" or "down"
  sent,      \* per broker, how many messages it has published
  session,   \* per broker, whether it takes the client for connected
  wire,      \* per broker, what it sent on that connection and the client has not polled
  client,    \* per broker, where its client task is, "absent" if none is configured
  holding,   \* the frame a client waits to put into the channel
  channel,   \* the frames between the clients and the processor
  receiver,  \* the processor runs, so that the channel is open
  pc,        \* per writer, periodic flush and main: where it is in a write or a flush
  work,      \* the frame it writes
  attempt,   \* per webhook, the number of its latest post
  told,      \* what its sender knows: "nothing", "waiting", "ok" or "failed"
  memtable, tables,
  log,       \* the frames in the file that a start will read
  attached,  \* the log's handle is open on that file
  torn,      \* a refused append has left a part of an entry in it
  written,   \* history: frames whose append succeeded
  exposed,   \* history: frames whose write met a flush, a handle astray or a torn log
  refused,   \* history: frames dropped with a report
  faults     \* how many of the bounded faults have happened

connection == <<sent, session, wire, client, holding>>
queue == <<channel, receiver>>
writing == <<pc, work>>
sender == <<attempt, told>>
store == <<memtable, tables, log, attached, torn, written, exposed>>
vars == <<phase, connection, queue, writing, sender, store, refused, faults>>

Up == phase # "down"
\* A fault of the environment.
Fault == faults < MaxFaults /\ faults' = faults + 1

----------------------------------------------------------------------------
(* Messages                                                                *)

MessageOf(f) == IF f[1] \in Brokers THEN Outbox[f[1]][f[2]] ELSE WebhookMessage[f[1]]

\* The arrivals of two messages are two times.
Parse(f) ==
  CASE f[1] = ChirpStack -> ChirpStackMessage(MessageOf(f), f)
    [] f[1] = Ttn -> TtnMessage(MessageOf(f), f)
    [] OTHER -> ChirpStackWebhook(MessageOf(f), f)

----------------------------------------------------------------------------
(* The MQTT clients                                                        *)

\* The client's id is new with each connection and its session clean: the broker keeps
\* nothing for it meanwhile.
BrokerPublish(b) ==
  /\ sent[b] < Len(Outbox[b])
  /\ sent' = [sent EXCEPT ![b] = @ + 1]
  /\ wire' = IF session[b] THEN [wire EXCEPT ![b] = Append(@, sent[b] + 1)] ELSE wire
  /\ UNCHANGED <<phase, session, client, holding, queue, writing, sender, store, refused, faults>>

Connect(b) ==
  /\ Up /\ client[b] = "connecting"
  /\ client' = [client EXCEPT ![b] = "polling"]
  /\ session' = [session EXCEPT ![b] = TRUE]
  /\ UNCHANGED <<phase, sent, wire, holding, queue, writing, sender, store, refused, faults>>

BrokerDrops(b) ==
  /\ session[b] /\ Fault
  /\ session' = [session EXCEPT ![b] = FALSE]
  /\ UNCHANGED <<phase, sent, wire, client, holding, queue, writing, sender, store, refused>>

\* The client lets go of its connection: what was not read from it is gone.
Drops(b, label) ==
  /\ client' = [client EXCEPT ![b] = label]
  /\ session' = [session EXCEPT ![b] = FALSE]
  /\ wire' = [wire EXCEPT ![b] = <<>>]

AfterError_Stops == "dead"
AfterError == "sleeping"
\* A Disconnect or an error from poll.
ConnectionError(b) ==
  /\ Up /\ client[b] = "polling" /\ ~session[b]
  /\ Drops(b, AfterError)
  /\ UNCHANGED <<phase, sent, holding, queue, writing, sender, store, refused, faults>>

\* run_client's loop, after RECONNECT_DELAY.
Reconnect(b) ==
  /\ Up /\ client[b] = "sleeping"
  /\ client' = [client EXCEPT ![b] = "connecting"]
  /\ UNCHANGED <<phase, sent, session, wire, holding, queue, writing, sender, store, refused, faults>>

Incoming(b) == <<b, Head(wire[b])>>
\* The client: a packet above its limit is an error of poll, and a preview that cannot be cut
\* ends the task.
EndsConnection(f) ==
  ~FitsPacket(MessageOf(f)) \/ (Parse(f).outcome = "error" /\ PreviewPanics(MessageOf(f)))
AfterMessage(f) == IF FitsPacket(MessageOf(f)) THEN "dead" ELSE AfterError
\* The event loop acknowledges a publish before it hands it over.
Poll(b) ==
  LET f == Incoming(b)
      result == Parse(f)
      Takes(label) ==
        /\ client' = [client EXCEPT ![b] = label]
        /\ wire' = [wire EXCEPT ![b] = Tail(@)]
        /\ UNCHANGED session
  IN /\ Up /\ client[b] = "polling" /\ wire[b] # <<>>
     /\ \/ /\ EndsConnection(f)
           /\ Drops(b, AfterMessage(f)) /\ UNCHANGED holding
        \/ /\ ~EndsConnection(f) /\ result.outcome = "frame"
           /\ Takes("sending")
           /\ holding' = [holding EXCEPT ![b] = f]
        \/ /\ ~EndsConnection(f) /\ result.outcome # "frame"
           /\ Takes("polling") /\ UNCHANGED holding
     /\ UNCHANGED <<phase, sent, queue, writing, sender, store, refused, faults>>

Sending(b) == Up /\ client[b] = "sending"
Sent(b) ==
  /\ client' = [client EXCEPT ![b] = "polling"]
  /\ holding' = [holding EXCEPT ![b] = None]
  /\ UNCHANGED <<phase, sent, session, wire, receiver, writing, sender, store, faults>>

Put(f) == Append(channel, f)
Room_Always == TRUE
Room == Len(channel) < Capacity
SendToChannel(b) ==
  /\ Sending(b) /\ receiver /\ Room
  /\ channel' = Put(holding[b])
  /\ Sent(b) /\ UNCHANGED refused

SendFails_Blocks(b) ==
  /\ Sending(b) /\ ~receiver /\ holding[b] = None
  /\ Sent(b) /\ UNCHANGED <<channel, refused>>
SendFails_WhenFull(b) ==
  /\ Sending(b) /\ (~receiver \/ ~Room)
  /\ Sent(b) /\ UNCHANGED <<channel, refused>>
SendFails(b) ==
  /\ Sending(b) /\ ~receiver
  /\ refused' = refused \union {holding[b]}
  /\ Sent(b) /\ UNCHANGED channel

----------------------------------------------------------------------------
(* Writers: the frame processor and the tasks of webhook requests          *)

Full == Cardinality(memtable) >= MemtableLimit
Goto(t, label) == pc' = [pc EXCEPT ![t] = label]
Outside == <<sent, session, wire, client, holding, sender>>

\* start_frame_processor: recv.
Receive ==
  /\ Up /\ receiver /\ pc[Processor] = "idle" /\ channel # <<>>
  /\ Goto(Processor, "append")
  /\ work' = [work EXCEPT ![Processor] = Head(channel)]
  /\ channel' = Tail(channel)
  /\ UNCHANGED <<phase, connection, receiver, sender, store, refused, faults>>

\* write or flush_memtable returns: the processor, the periodic flush and main log an error,
\* a request answers with it.
After(t, ok) == IF t \notin Attempts THEN "idle" ELSE IF ok THEN "answer" ELSE "apologize"
Leaves(t) ==
  /\ work' = [work EXCEPT ![t] = None]
  /\ phase' = IF t = Main THEN "flushed" ELSE phase
Return(t, ok) == Goto(t, After(t, ok)) /\ Leaves(t)

\* From the table's publication to the new log handle.
InFlush(t) == pc[t] \in {"clear", "truncate", "swap", "stray"}
FlushRunning == \E t \in Tasks : InFlush(t)

AfterRefusal_Ok == TRUE
AfterRefusal == FALSE
\* WriteAheadLog::append: the entry goes where the handle is open.  A refused one may reach
\* the file later, whole or in part (module Wal).
AppendLog(w) ==
  LET f == work[w]
  IN /\ Up /\ pc[w] = "append"
     /\ \/ /\ log' = IF attached THEN log \union {f} ELSE log
           /\ written' = written \union {f}
           /\ exposed' = IF FlushRunning \/ ~attached THEN exposed \union {f} ELSE exposed
           /\ Goto(w, "insert")
           /\ UNCHANGED <<phase, work, torn, refused, faults>>
        \/ /\ Fault
           /\ Return(w, AfterRefusal)
           /\ refused' = refused \union {f}
           /\ torn' = (torn \/ attached)
           /\ log' \in {log, IF attached THEN log \union {f} ELSE log}
           /\ exposed' = exposed \union (log' \ log)
           /\ UNCHANGED written
     /\ UNCHANGED <<memtable, tables, attached, queue, Outside>>

\* Memtable::insert.
Insert(w) ==
  /\ Up /\ pc[w] = "insert"
  /\ memtable' = memtable \union {work[w]}
  /\ exposed' = IF FlushRunning THEN exposed \union {work[w]} ELSE exposed
  /\ Goto(w, "full")
  /\ UNCHANGED <<phase, work, tables, log, attached, torn, written, refused, faults, queue, Outside>>

\* The check at the end of write.  The error of a flush becomes the error of the write.
CheckFull(w) ==
  /\ Up /\ pc[w] = "full"
  /\ IF Full THEN Goto(w, "copy") /\ UNCHANGED <<phase, work>> ELSE Return(w, TRUE)
  /\ UNCHANGED <<store, refused, faults, queue, Outside>>

----------------------------------------------------------------------------
(* StorageEngine::flush_memtable, by writers, the periodic flush and main  *)

PeriodicFlush_WhenFull ==
  /\ phase = "running" /\ pc[Timer] = "idle" /\ Full
  /\ Goto(Timer, "copy")
  /\ UNCHANGED <<phase, work, store, refused, faults, queue, Outside>>
\* start_periodic_flush: a tick that finds data.
PeriodicFlush ==
  /\ phase = "running" /\ pc[Timer] = "idle" /\ memtable # {}
  /\ Goto(Timer, "copy")
  /\ UNCHANGED <<phase, work, store, refused, faults, queue, Outside>>

\* The copy, which is nothing to other tasks before its table is in the list.  An empty table
\* is refused: another flush may have cleared the memtable since the check.
FlushPublish(t) ==
  /\ Up /\ pc[t] = "copy"
  /\ \/ /\ memtable # {}
        /\ tables' = tables \union memtable
        /\ exposed' = exposed \union {work[w] : w \in {w \in Writers : pc[w] = "insert"}}
        /\ Goto(t, "clear")
        /\ UNCHANGED <<phase, work, faults>>
     \/ /\ (memtable = {} /\ UNCHANGED faults) \/ Fault
        /\ Return(t, FALSE)
        /\ UNCHANGED <<tables, exposed>>
  /\ UNCHANGED <<memtable, log, attached, torn, written, refused, queue, Outside>>

FlushClear(t) ==
  /\ Up /\ pc[t] = "clear"
  /\ memtable' = {}
  /\ Goto(t, "truncate")
  /\ UNCHANGED <<phase, work, tables, log, attached, torn, written, exposed, refused, faults, queue, Outside>>

\* remove_file and WalSegment::open.  Another flush that has opened its file and not yet
\* changed the handle will put the handle on a file that is gone.
NewLog(t, label) ==
  /\ log' = {} /\ torn' = FALSE /\ attached' = FALSE
  /\ pc' = [u \in Tasks |-> IF u = t THEN label ELSE IF pc[u] = "swap" THEN "stray" ELSE pc[u]]
\* WriteAheadLog::truncate up to the lock of the handle.  It fails, too, between the remove_file
\* and the open of another flush.
FlushTruncate(t) ==
  /\ Up /\ pc[t] = "truncate"
  /\ \/ NewLog(t, "swap") /\ UNCHANGED <<phase, work, faults>>
     \/ NewLog(t, After(t, FALSE)) /\ Leaves(t) /\ Fault
     \/ /\ Fault \/ (UNCHANGED faults /\ \E u \in Tasks : pc[u] = "swap")
        /\ Return(t, FALSE)
        /\ UNCHANGED <<log, torn, attached>>
  /\ UNCHANGED <<memtable, tables, written, exposed, refused, queue, Outside>>

Swaps(t) ==
  /\ Up /\ pc[t] \in {"swap", "stray"}
  /\ attached' = (pc[t] = "swap")
  /\ UNCHANGED <<memtable, tables, log, torn, written, exposed>>
\* The handle moves to the file opened, and a compaction may follow, whose error becomes
\* that of the flush.
FlushSwap(t) ==
  /\ Swaps(t)
  /\ \/ Return(t, TRUE) /\ UNCHANGED faults
     \/ Return(t, FALSE) /\ Fault
  /\ UNCHANGED <<refused, queue, Outside>>

\* Two compactions that drain the same list: the task panics behind its flush.  With
\* the processor the channel's receiver goes, with a request its connection.  (A panic of
\* main ends the process: see Crash.)
Panic(t) ==
  /\ Swaps(t) /\ Fault /\ t # Main
  /\ IF t = Timer THEN Goto(t, "dead") /\ UNCHANGED <<phase, work>> ELSE Return(t, FALSE)
  /\ receiver' = (receiver /\ t # Processor)
  /\ channel' = IF t = Processor THEN <<>> ELSE channel
  /\ UNCHANGED <<refused, Outside>>

----------------------------------------------------------------------------
(* Webhooks.  The sender posts again when it was told of a failure, and    *)
(* may give up waiting for an answer that is still to come.                *)

Post(r) ==
  LET task == <<r, attempt[r] + 1>>
  IN /\ Up /\ told[r] # "ok" /\ attempt[r] < MaxAttempts
     /\ attempt' = [attempt EXCEPT ![r] = @ + 1]
     /\ told' = [told EXCEPT ![r] = "waiting"]
     /\ \/ /\ Parse(task).outcome = "frame"
           /\ Goto(task, "append")
           /\ work' = [work EXCEPT ![task] = task]
        \/ /\ Parse(task).outcome = "error"
           /\ Goto(task, "apologize")
           /\ UNCHANGED work
     /\ UNCHANGED <<phase, connection, queue, store, refused, faults>>

Answer_OkOnly(t) ==
  /\ Up /\ pc[t] = "answer"
  /\ Goto(t, "idle")
  /\ told' = [told EXCEPT ![t[1]] = "ok"]
  /\ UNCHANGED <<phase, connection, queue, work, attempt, store, refused, faults>>
\* An answer to a post the sender gave up is not heard.
Answer(t) ==
  /\ Up /\ pc[t] \in {"answer", "apologize"}
  /\ Goto(t, "idle")
  /\ told' = IF attempt[t[1]] = t[2]
             THEN [told EXCEPT ![t[1]] = IF pc[t] = "answer" THEN "ok" ELSE "failed"]
             ELSE told
  /\ UNCHANGED <<phase, connection, queue, work, attempt, store, refused, faults>>

----------------------------------------------------------------------------
(* Start and shutdown                                                      *)

\* A signal: main aborts the task that started the clients, which does not end them, the
\* accept loop, which does not end the requests it accepted, and the periodic flush, which
\* finishes the flush it is in.
Shutdown ==
  /\ phase = "running"
  /\ phase' = "stopping"
  /\ UNCHANGED <<work, pc, store, refused, faults, queue, Outside>>

FinalFlush_NotEmpty ==
  /\ phase = "stopping" /\ pc[Main] = "idle" /\ memtable # {}
  /\ Goto(Main, "copy")
  /\ UNCHANGED <<phase, work, store, refused, faults, queue, Outside>>
\* StorageEngine::shutdown, whose error main logs.
FinalFlush ==
  /\ phase = "stopping" /\ pc[Main] = "idle"
  /\ IF memtable = {} THEN phase' = "flushed" /\ UNCHANGED pc
                      ELSE Goto(Main, "copy") /\ UNCHANGED phase
  /\ UNCHANGED <<work, store, refused, faults, queue, Outside>>

\* The process ends, and with it all its tasks.
Ends ==
  /\ phase' = "down"
  /\ client' = [b \in Brokers |-> IF client[b] = "absent" THEN "absent" ELSE "connecting"]
  /\ session' = [b \in Brokers |-> FALSE]
  /\ wire' = [b \in Brokers |-> <<>>]
  /\ holding' = [b \in Brokers |-> None]
  /\ channel' = <<>>
  /\ receiver' = FALSE
  /\ pc' = [t \in Tasks |-> "idle"]
  /\ work' = [t \in Tasks |-> None]
  /\ told' = [r \in Webhooks |-> IF told[r] = "waiting" THEN "failed" ELSE told[r]]
  /\ memtable' = {}
  /\ attached' = TRUE
  /\ UNCHANGED <<sent, attempt, tables, log, torn, written, exposed, refused>>

\* main aborts the processor and returns.
Exit == phase = "flushed" /\ Ends /\ UNCHANGED faults
Crash == Up /\ Ends /\ Fault

\* main: the engine replays its log before anything else starts.  Of a log with a torn entry
\* a part comes back, or nothing (module Wal).  Without brokers there is no processor.
Start ==
  /\ phase = "down"
  /\ phase' = "running"
  /\ memtable' \in IF torn THEN SUBSET log ELSE {log}
  /\ exposed' = exposed \union (log \ memtable')
  /\ receiver' = (\E b \in Brokers : client[b] # "absent")
  /\ UNCHANGED <<channel, writing, tables, log, attached, torn, written, refused, faults, Outside>>

----------------------------------------------------------------------------
Init ==
  /\ phase = "down"
  /\ \E past \in Traffic :
       /\ sent = past.sent /\ attempt = past.attempt /\ faults = past.faults
       /\ client = [b \in Brokers |-> IF b \in past.clients THEN "connecting" ELSE "absent"]
  /\ session = [b \in Brokers |-> FALSE]
  /\ wire = [b \in Brokers |-> <<>>]
  /\ holding = [b \in Brokers |-> None]
  /\ channel = <<>>
  /\ receiver = FALSE
  /\ pc = [t \in Tasks |-> "idle"]
  /\ work = [t \in Tasks |-> None]
  /\ told = [r \in Webhooks |-> "nothing"]
  /\ memtable = {} /\ tables = {} /\ log = {}
  /\ attached = TRUE /\ torn = FALSE
  /\ written = {} /\ exposed = {} /\ refused = {}

Client(b) == Connect(b) \/ ConnectionError(b) \/ Reconnect(b) \/ Poll(b) \/ SendToChannel(b) \/ SendFails(b)
Write(w) == AppendLog(w) \/ Insert(w) \/ CheckFull(w)
Flush(t) == FlushPublish(t) \/ FlushClear(t) \/ FlushTruncate(t) \/ FlushSwap(t)
Next ==
  \/ \E b \in Brokers : Client(b) \/ BrokerPublish(b) \/ BrokerDrops(b)
  \/ Receive
  \/ \E w \in Writers : Write(w)
  \/ \E t \in Tasks : Flush(t) \/ Panic(t)
  \/ \E t \in Attempts : Answer(t)
  \/ \E r \in Webhooks : Post(r)
  \/ PeriodicFlush
  \/ Shutdown \/ FinalFlush \/ Exit \/ Crash \/ Start

\* The runtime polls every task that can run.  The channel gives its places to waiting
\* senders in the order they came, hence strong fairness; the periodic flush runs at
\* every tick.  Nothing is assumed of brokers, senders and restarts.
Fairness ==
  /\ \A b \in Brokers : WF_vars(Client(b)) /\ SF_vars(SendToChannel(b))
  /\ WF_vars(Receive \/ Write(Processor) \/ Flush(Processor))
  /\ \A t \in Attempts : WF_vars(Write(t) \/ Flush(t) \/ Answer(t))
  /\ WF_vars(PeriodicFlush \/ Flush(Timer))
  /\ WF_vars(FinalFlush \/ Flush(Main) \/ Exit)

Spec == Init /\ [][Next]_vars /\ Fairness

----------------------------------------------------------------------------
(* Properties                                                              *)

Labels == {"idle", "append", "insert", "full", "copy", "clear", "truncate", "swap", "stray",
           "answer", "apologize", "dead"}
\* The type invariant.  The channel never exceeds its capacity and has no frames without a
\* receiver; of the tasks the periodic flush alone can die, and main writes only while the
\* server stops.
IngestTypeOK ==
  /\ phase \in {"running", "stopping", "flushed", "down"}
  /\ sent \in [Brokers -> Nat] /\ session \in [Brokers -> BOOLEAN]
  /\ wire \in [Brokers -> Seq(Nat)]
  /\ client \in [Brokers -> {"absent", "connecting", "polling", "sending", "sleeping", "dead"}]
  /\ holding \in [Brokers -> MqttFrames \union {None}]
  /\ channel \in Seq(MqttFrames) /\ Len(channel) <= Capacity
  /\ receiver \in BOOLEAN /\ (~receiver => channel = <<>>)
  /\ pc \in [Tasks -> Labels] /\ work \in [Tasks -> Frames \union {None}]
  /\ \A t \in Tasks : (pc[t] = "dead" => t = Timer) /\ (pc[t] # "idle" => Up)
  /\ pc[Main] # "idle" => phase = "stopping"
  /\ attempt \in [Webhooks -> 0..MaxAttempts]
  /\ told \in [Webhooks -> {"nothing", "waiting", "ok", "failed"}]
  /\ memtable \subseteq Frames /\ tables \subseteq Frames /\ log \subseteq Frames
  /\ attached \in BOOLEAN /\ torn \in BOOLEAN
  /\ written \subseteq Frames /\ exposed \subseteq Frames /\ refused \subseteq Frames
  /\ faults \in 0..MaxFaults

Stored == log \union tables

\* ingest_chirpstack: whoever was told 200 finds the event's frame in the log or in a table a
\* flush has written, whatever failed, panicked, crashed or was answered late meanwhile.
\* Excepted are the frames whose append or insert met a flush or came while the handle was
\* astray, and those a start could not read behind a torn entry: these the code can lose
\* (runs lost_write and cut_segment).
AnsweredStored ==
  \A r \in Webhooks : told[r] = "ok" =>
    \E n \in 1..MaxAttempts : <<r, n>> \in Stored \union exposed

\* parse_message and parse_uplink are two copies of one conversion: an event that
\* carries its time has the same device, time and application by MQTT, by webhook and in every
\* repeated post, so that a merge of tables can drop the duplicates.
SameKeyBothRoutes ==
  \A f, g \in Stored :
    (MessageOf(f) = MessageOf(g) /\ MessageOf(f).time # None) => Parse(f) = Parse(g)

\* Those of the frames in s that are of broker b, in their order.
OfBroker(b, s) ==
  LET first[i \in 0..Len(s)] ==
        IF i = 0 THEN <<>>
        ELSE IF s[i][1] = b THEN Append(first[i - 1], s[i]) ELSE first[i - 1]
  IN first[Len(s)]

\* The frames of a broker between its client and the log, oldest first.
Unwritten == IF pc[Processor] = "append" THEN <<work[Processor]>> ELSE <<>>
Held(b) == IF holding[b] = None THEN <<>> ELSE <<holding[b]>>
Unsettled(b) == OfBroker(b, Unwritten \o channel \o Held(b))

Promise == INSTANCE Transit WITH
  Sources <- Brokers, Frames <- MqttFrames,
  transit <- [b \in Brokers |-> Unsettled(b)],
  stored <- written \intersect MqttFrames,
  reported <- refused \intersect MqttFrames,
  alive <- receiver

\* Clients, channel and processor implement Transit: the frames of a broker are written to the
\* log in the order they came, each at most once, and none vanishes without a report but
\* those under way when the processor or the process ends.
ImplementsTransit == Promise!Spec

\* A frame taken in does not stay on its way: it is stored or reported, or the processor
\* or the process ends; a full channel or a closed one blocks no client for good.
EachSettles ==
  \A f \in {f \in MqttFrames : Parse(f).outcome = "frame"} :
    []<>(f \notin ToSet(Unsettled(f[1])))

\* Every post is answered, or the sender learns that the server has gone: none waits for ever.
EachAnswered == \A r \in Webhooks : []<>(told[r] # "waiting")

\* main: from the signal on, the server comes to its end, whatever clients and requests do.
ShutdownEnds == []<>(phase \notin {"stopping", "flushed"})

\* start_periodic_flush: what the memtable holds comes to be in a table, unless its write met
\* a flush, the server stops or a panic has ended the task.  (The log can stay filled with an
\* empty memtable when a flush fails between clear and truncate: nothing then looks at it.)
MemtableFlushed ==
  []<>(memtable \subseteq tables \union exposed \/ phase # "running" \/ pc[Timer] = "dead")

\* README: "Automatic Reconnection: Resilient connection handling".  While the server runs, a
\* client without a connection to a broker that can be reached gets one, whatever is under way:
\* a full channel, a processor that has ended, messages of the connection before.  A message
\* whose preview panics would end the client: no broker publishes one here.
Reconnects == \A b \in Brokers : []<>(session[b] \/ client[b] = "absent" \/ ~Up)
=============================================================================
