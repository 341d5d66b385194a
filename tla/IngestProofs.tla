---------------------------- MODULE IngestProofs ----------------------------
(***************************************************************************)
(* What holds of every behaviour of Ingest, whatever brokers send and      *)
(* senders repeat, and however many faults there are: who was told 200     *)
(* finds the event stored, unless its write met a flush; the variables     *)
(* have their types; clients, channel and processor implement Transit; an  *)
(* event has one key.                                                      *)
(***************************************************************************)
EXTENDS Ingest, DataInduction, SequenceTheorems, TLAPS

\* The frames appended and not yet inserted.
Inserting == {work[w] : w \in {w \in Writers : pc[w] = "insert"}}
\* What a flush is about to take from the log is in a table, but for what it met.
Covered ==
  /\ Up => log \subseteq memtable \union tables \union exposed \union Inserting
  /\ FlushRunning => log \subseteq tables \union exposed

\* The types of what the argument is about.
AnswerType ==
  /\ pc = [t \in Tasks |-> pc[t]]
  /\ work = [t \in Tasks |-> work[t]]
  /\ attempt \in [Webhooks -> 0..MaxAttempts]
  /\ told = [r \in Webhooks |-> told[r]]

Safe == Stored \union exposed
Appended == {"insert", "full", "copy", "clear", "truncate", "swap", "stray", "answer"}
\* A request that came writes its own frame, and once that is in the log it stays.
RequestsWritten ==
  \A t \in Attempts :
    /\ pc[t] # "idle" => t[2] <= attempt[t[1]]
    /\ pc[t] = "append" => work[t] = t
    /\ pc[t] \in Appended => t \in Safe

\* The inductive invariant.
AnswerInv == Covered /\ AnswerType /\ RequestsWritten /\ AnsweredStored

LEMMA AttemptPair ==
  ASSUME NEW t \in Attempts
  PROVE  t[1] \in Webhooks /\ t[2] \in 1..MaxAttempts /\ t = <<t[1], t[2]>> /\ t # Processor
  BY IngestBoundsAssumption DEF Attempts, Processor

LEMMA WritersAre == Processor \in Writers /\ Attempts \subseteq Writers
  BY DEF Writers

LEMMA TasksAre ==
  /\ Writers \subseteq Tasks /\ Timer \in Tasks /\ Main \in Tasks
  /\ Timer \notin Writers /\ Main \notin Writers /\ Timer # Main
  /\ Processor \notin Attempts /\ Tasks = Writers \union {Timer, Main}
<1>1. \A t \in Attempts : t # Timer /\ t # Main /\ t # Processor
  BY IngestBoundsAssumption DEF Attempts, Timer, Main, Processor
<1>2. Timer # Main /\ Timer # Processor /\ Main # Processor
  BY DEF Timer, Main, Processor
<1> QED BY <1>1, <1>2 DEF Tasks, Writers

\* Where write and flush_memtable lead when they return.
LEMMA Returns ==
  ASSUME NEW t \in Tasks, NEW ok \in BOOLEAN
  PROVE  /\ After(t, ok) \in {"idle", "answer", "apologize"}
         /\ t \notin Attempts => After(t, ok) = "idle"
         /\ t \in Attempts => After(t, ok) \in {"answer", "apologize"}
         /\ ~ok => After(t, ok) # "answer"
  BY DEF After

\* Steps that move no task and no request, and keep what is stored.
LEMMA Calm ==
  ASSUME AnswerInv, UNCHANGED <<writing, sender>>, Safe \subseteq Safe', Covered'
  PROVE  AnswerInv'
<1>1. UNCHANGED <<pc, work, attempt, told>>
  BY DEF writing, sender
<1>2. AnswerType' /\ RequestsWritten'
  BY <1>1 DEF AnswerInv, AnswerType, RequestsWritten
<1>3. AnsweredStored'
  BY <1>1 DEF AnswerInv, AnsweredStored, Safe
<1> QED BY <1>2, <1>3 DEF AnswerInv

\* What one task's step leaves of the others: a flush that truncates puts the handles of
\* other flushes astray.
OthersStay(t) ==
  \A u \in Tasks \ {t} : /\ pc'[u] = pc[u] \/ (pc[u] = "swap" /\ pc'[u] = "stray")
                         /\ work'[u] = work[u]
Moves(t, label, f) ==
  /\ pc' = [u \in Tasks |-> pc'[u]] /\ work' = [u \in Tasks |-> work'[u]]
  /\ pc'[t] = label /\ work'[t] = f
  /\ OthersStay(t)

LEMMA Moved ==
  ASSUME AnswerType, NEW t \in Tasks, NEW label, NEW f,
         pc' = [pc EXCEPT ![t] = label], work' = [work EXCEPT ![t] = f] \/ (work' = work /\ f = work[t])
  PROVE  Moves(t, label, f)
  BY DEF AnswerType, Moves, OthersStay

\* Steps of one task that keep what is stored.
LEMMA OneTask ==
  ASSUME AnswerInv, NEW t \in Tasks, NEW label, NEW f, Moves(t, label, f),
         UNCHANGED sender, Safe \subseteq Safe', Covered', t \in Attempts => pc[t] # "idle",
         label = "append" /\ t \in Attempts => f = t,
         label \in Appended /\ t \in Attempts => t \in Safe'
  PROVE  AnswerInv'
<1>1. AnswerType'
  BY DEF AnswerInv, AnswerType, sender, Moves
<1>2. RequestsWritten'
  <2> SUFFICES ASSUME NEW u \in Attempts
               PROVE  /\ pc'[u] # "idle" => u[2] <= attempt[u[1]]
                      /\ pc'[u] = "append" => work'[u] = u
                      /\ pc'[u] \in Appended => u \in Safe'
    BY DEF RequestsWritten, sender
  <2>1. CASE u = t
    BY <2>1 DEF Moves, AnswerInv, RequestsWritten
  <2>2. CASE u # t
    <3>1. u \in Tasks \ {t}
      BY <2>2, WritersAre, TasksAre
    <3>2. /\ pc'[u] = pc[u] \/ (pc[u] = "swap" /\ pc'[u] = "stray")
          /\ work'[u] = work[u]
      BY <3>1 DEF Moves, OthersStay
    <3> QED BY <3>2 DEF AnswerInv, RequestsWritten, Appended
  <2> QED BY <2>1, <2>2
<1>3. AnsweredStored'
  BY DEF AnswerInv, AnsweredStored, sender, Safe
<1> QED BY <1>1, <1>2, <1>3 DEF AnswerInv

\* Steps that insert nothing and begin or end no flush's window.
LEMMA CoveredStays ==
  ASSUME AnswerInv, NEW t \in Tasks, NEW label, NEW f, Moves(t, label, f),
         pc[t] # "insert", label \notin {"clear", "truncate", "swap", "stray"},
         Up, UNCHANGED <<memtable, tables, log, exposed>>
  PROVE  Covered'
<1>1. \A w \in Writers : pc[w] = "insert" => pc'[w] = "insert" /\ work'[w] = work[w]
  BY TasksAre DEF Moves, OthersStay
<1>2. Inserting \subseteq Inserting'
  BY <1>1 DEF Inserting
<1>3. FlushRunning' => FlushRunning
  BY DEF FlushRunning, InFlush, Moves, OthersStay
<1> QED BY <1>2, <1>3 DEF AnswerInv, Covered

LEMMA InitAnswer == Init => AnswerInv
<1> SUFFICES ASSUME Init PROVE AnswerInv
  OBVIOUS
<1>1. attempt \in [Webhooks -> 0..MaxAttempts]
  BY TrafficAssumption DEF Init
<1>2. AnswerType
  BY <1>1 DEF Init, AnswerType
<1>3. Covered /\ RequestsWritten /\ AnsweredStored
  BY WritersAre, TasksAre DEF Init, Covered, Up, RequestsWritten, AnsweredStored, Appended
<1> QED BY <1>2, <1>3 DEF AnswerInv

LEMMA ClientAnswer ==
  ASSUME AnswerInv, NEW b \in Brokers, Client(b) \/ BrokerPublish(b) \/ BrokerDrops(b)
  PROVE  AnswerInv'
<1>1. UNCHANGED <<phase, writing, sender, store>>
  BY DEF Client, BrokerPublish, BrokerDrops, Connect, ConnectionError, Reconnect, Poll,
    SendToChannel, SendFails, Sent
<1>2. Covered' /\ Safe' = Safe
  BY <1>1 DEF AnswerInv, Covered, Up, Inserting, FlushRunning, InFlush, Stored, Safe, store, writing
<1> QED BY <1>1, <1>2, Calm

LEMMA ReceiveAnswer == ASSUME AnswerInv, Receive PROVE AnswerInv'
<1>1. /\ pc' = [pc EXCEPT ![Processor] = "append"]
      /\ work' = [work EXCEPT ![Processor] = Head(channel)]
      /\ UNCHANGED <<phase, sender, store>> /\ pc[Processor] = "idle" /\ Up
  BY DEF Receive, Goto
<1>2. Processor \in Tasks /\ Processor \notin Attempts
  BY TasksAre, WritersAre
<1>3. Moves(Processor, "append", Head(channel))
  BY <1>1, <1>2, Moved DEF AnswerInv
<1>4. Covered' /\ Safe' = Safe
  BY <1>1, <1>2, <1>3, CoveredStays DEF Stored, Safe, store
<1> QED BY <1>1, <1>2, <1>3, <1>4, OneTask DEF Appended

\* A return from write or flush_memtable that leaves the store as it is.
LEMMA ReturnAnswer ==
  ASSUME AnswerInv, NEW t \in Tasks, NEW ok \in BOOLEAN, Return(t, ok), Up, UNCHANGED sender,
         pc[t] \notin {"idle", "insert"}, ok => pc[t] \in Appended,
         UNCHANGED <<memtable, tables, log, exposed>>
  PROVE  AnswerInv'
<1>1. Moves(t, After(t, ok), None)
  BY Moved DEF AnswerInv, Return, Goto, Leaves
<1>2. Covered' /\ Safe' = Safe
  BY <1>1, Returns, CoveredStays DEF Stored, Safe
<1>3. ok /\ t \in Attempts => t \in Safe
  BY DEF AnswerInv, RequestsWritten
<1> QED BY <1>1, <1>2, <1>3, Returns, OneTask DEF Appended

LEMMA AppendAnswer == ASSUME AnswerInv, NEW w \in Writers, AppendLog(w) PROVE AnswerInv'
<1> DEFINE f == work[w]
<1>1. /\ Up /\ pc[w] = "append" /\ w \in Tasks
      /\ UNCHANGED <<memtable, tables, sender>>
  BY TasksAre DEF AppendLog, Outside
<1>2. \A u \in Tasks : InFlush(u) => u # w
  BY <1>1 DEF InFlush
<1>3. CASE /\ log' = IF attached THEN log \union {f} ELSE log
           /\ exposed' = IF FlushRunning \/ ~attached THEN exposed \union {f} ELSE exposed
           /\ Goto(w, "insert") /\ UNCHANGED <<phase, work>>
  <2>1. Moves(w, "insert", f)
    BY <1>1, <1>3, Moved DEF Goto, AnswerInv
  <2>2. f \in Inserting' /\ Inserting \subseteq Inserting'
    <3>1. \A u \in Writers : pc[u] = "insert" => pc'[u] = "insert" /\ work'[u] = work[u]
      BY <1>1, <2>1, TasksAre DEF Moves, OthersStay
    <3> QED BY <2>1, <3>1 DEF Inserting, Moves
  <2>3. FlushRunning' => FlushRunning
    BY <2>1 DEF FlushRunning, InFlush, Moves, OthersStay
  <2> HIDE DEF f
  <2>4. Covered'
    BY <1>1, <1>3, <2>2, <2>3 DEF AnswerInv, Covered, Up
  <2>5. Safe \subseteq Safe' /\ f \in Safe'
    BY <1>1, <1>3 DEF Safe, Stored
  <2>6. w \in Attempts => w \in Safe'
    BY <1>1, <2>5 DEF AnswerInv, RequestsWritten, f
  <2> QED BY <1>1, <2>1, <2>4, <2>5, <2>6, OneTask
<1>4. CASE /\ Return(w, AfterRefusal)
           /\ log' \in {log, IF attached THEN log \union {f} ELSE log}
           /\ exposed' = exposed \union (log' \ log)
  <2>1. Moves(w, After(w, FALSE), None)
    BY <1>1, <1>4, Moved DEF AnswerInv, Return, Goto, Leaves, AfterRefusal
  <2>2. After(w, FALSE) \in {"idle", "apologize"}
    BY DEF After
  <2>3. Inserting \subseteq Inserting'
    BY <1>1, <2>1, TasksAre DEF Inserting, Moves, OthersStay
  <2>4. FlushRunning' => FlushRunning
    BY <2>1, <2>2 DEF FlushRunning, InFlush, Moves, OthersStay
  <2>5. Covered' /\ Safe \subseteq Safe'
    <3> HIDE DEF f
    <3> QED BY <1>1, <1>4, <2>3, <2>4 DEF AnswerInv, Covered, Up, Safe, Stored
  <2> QED BY <1>1, <2>1, <2>2, <2>5, OneTask DEF Appended
<1> QED BY <1>3, <1>4 DEF AppendLog

LEMMA InsertAnswer == ASSUME AnswerInv, NEW w \in Writers, Insert(w) PROVE AnswerInv'
<1>1. /\ Up /\ pc[w] = "insert" /\ w \in Tasks
      /\ UNCHANGED <<phase, work, tables, log, sender>>
      /\ memtable' = memtable \union {work[w]} /\ exposed \subseteq exposed'
      /\ Goto(w, "full")
  BY TasksAre DEF Insert, Outside
<1>2. Moves(w, "full", work[w])
  BY <1>1, Moved DEF Goto, AnswerInv
<1>3. Inserting \subseteq Inserting' \union {work[w]}
  BY <1>1, <1>2, TasksAre DEF Inserting, Moves, OthersStay
<1>4. FlushRunning' => FlushRunning
  BY <1>1, <1>2 DEF FlushRunning, InFlush, Moves, OthersStay
<1>5. Covered' /\ Safe \subseteq Safe'
  BY <1>1, <1>3, <1>4 DEF AnswerInv, Covered, Up, Safe, Stored
<1>6. w \in Attempts => w \in Safe
  BY <1>1 DEF AnswerInv, RequestsWritten, Appended
<1> QED BY <1>1, <1>2, <1>5, <1>6, OneTask

LEMMA FullAnswer == ASSUME AnswerInv, NEW w \in Writers, CheckFull(w) PROVE AnswerInv'
<1>1. /\ Up /\ pc[w] = "full" /\ w \in Tasks
      /\ UNCHANGED <<memtable, tables, log, exposed, sender>>
  BY TasksAre DEF CheckFull, Outside, store
<1>2. CASE Return(w, TRUE)
  BY <1>1, <1>2, ReturnAnswer DEF Appended
<1>3. CASE Goto(w, "copy") /\ UNCHANGED work
  <2>1. Moves(w, "copy", work[w])
    BY <1>1, <1>3, Moved DEF Goto, AnswerInv
  <2>2. Covered' /\ Safe' = Safe
    BY <1>1, <2>1, CoveredStays DEF Safe, Stored
  <2>3. w \in Attempts => w \in Safe
    BY <1>1 DEF AnswerInv, RequestsWritten, Appended
  <2> QED BY <1>1, <2>1, <2>2, <2>3, OneTask
<1> QED BY <1>2, <1>3 DEF CheckFull

\* The periodic flush and main begin a flush.
LEMMA BeginAnswer ==
  ASSUME AnswerInv, NEW t \in {Timer, Main}, Goto(t, "copy"), pc[t] = "idle", Up,
         UNCHANGED <<work, store, sender>>
  PROVE  AnswerInv'
<1>1. t \in Tasks /\ t \notin Attempts
  BY TasksAre, WritersAre
<1>2. Moves(t, "copy", work[t])
  BY <1>1, Moved DEF Goto, AnswerInv
<1>3. Covered' /\ Safe' = Safe
  BY <1>1, <1>2, CoveredStays DEF Safe, Stored, store
<1> QED BY <1>1, <1>2, <1>3, OneTask

LEMMA PublishAnswer == ASSUME AnswerInv, NEW t \in Tasks, FlushPublish(t) PROVE AnswerInv'
<1>1. /\ Up /\ pc[t] = "copy" /\ UNCHANGED <<memtable, log, sender>>
  BY DEF FlushPublish, Outside
<1>2. CASE /\ tables' = tables \union memtable
           /\ exposed' = exposed \union {work[w] : w \in {w \in Writers : pc[w] = "insert"}}
           /\ Goto(t, "clear") /\ UNCHANGED <<phase, work>>
  <2>1. Moves(t, "clear", work[t])
    BY <1>2, Moved DEF Goto, AnswerInv
  <2>2. exposed' = exposed \union Inserting
    BY <1>2 DEF Inserting
  <2>3. Covered'
    BY <1>1, <1>2, <2>2 DEF AnswerInv, Covered, Up
  <2>4. Safe \subseteq Safe'
    BY <1>1, <1>2, <2>2 DEF Safe, Stored
  <2>5. t \in Attempts => t \in Safe
    BY <1>1 DEF AnswerInv, RequestsWritten, Appended
  <2> QED BY <1>1, <2>1, <2>3, <2>4, <2>5, OneTask
<1>3. CASE Return(t, FALSE) /\ UNCHANGED <<tables, exposed>>
  BY <1>1, <1>3, ReturnAnswer
<1> QED BY <1>2, <1>3 DEF FlushPublish

LEMMA ClearAnswer == ASSUME AnswerInv, NEW t \in Tasks, FlushClear(t) PROVE AnswerInv'
<1>1. /\ Up /\ pc[t] = "clear" /\ UNCHANGED <<phase, work, tables, log, exposed, sender>>
      /\ Goto(t, "truncate")
  BY DEF FlushClear, Outside
<1>2. Moves(t, "truncate", work[t])
  BY <1>1, Moved DEF Goto, AnswerInv
<1>3. FlushRunning
  BY <1>1 DEF FlushRunning, InFlush
<1>4. Covered' /\ Safe' = Safe
  BY <1>1, <1>3 DEF AnswerInv, Covered, Safe, Stored
<1>5. t \in Attempts => t \in Safe
  BY <1>1 DEF AnswerInv, RequestsWritten, Appended
<1> QED BY <1>1, <1>2, <1>4, <1>5, OneTask

LEMMA TruncateAnswer == ASSUME AnswerInv, NEW t \in Tasks, FlushTruncate(t) PROVE AnswerInv'
<1>1. /\ Up /\ pc[t] = "truncate" /\ UNCHANGED <<memtable, tables, exposed, sender>>
  BY DEF FlushTruncate, Outside
<1>2. ASSUME NEW label, NewLog(t, label), label \in {"swap", After(t, FALSE)},
             work' = work \/ work' = [work EXCEPT ![t] = None]
      PROVE  AnswerInv'
  <2>1. Moves(t, label, work'[t])
    BY <1>2 DEF NewLog, AnswerInv, AnswerType, Moves, OthersStay
  <2>2. FlushRunning
    BY <1>1 DEF FlushRunning, InFlush
  <2>3. log' = {} /\ log \subseteq tables \union exposed
    BY <1>2, <2>2 DEF NewLog, AnswerInv, Covered
  <2>4. Covered' /\ Safe \subseteq Safe'
    BY <1>1, <2>3 DEF Covered, Safe, Stored
  <2>5. t \in Attempts => t \in Safe
    BY <1>1 DEF AnswerInv, RequestsWritten, Appended
  <2>6. label # "append"
    BY <1>2, Returns
  <2> QED BY <1>1, <2>1, <2>4, <2>5, <2>6, OneTask
<1>3. CASE Return(t, FALSE) /\ UNCHANGED log
  BY <1>1, <1>3, ReturnAnswer
<1> QED BY <1>2, <1>3 DEF FlushTruncate, Leaves

LEMMA SwapAnswer == ASSUME AnswerInv, NEW t \in Tasks, FlushSwap(t) \/ Panic(t) PROVE AnswerInv'
<1>1. /\ Up /\ pc[t] \in {"swap", "stray"} /\ UNCHANGED <<memtable, tables, log, exposed, sender>>
  BY DEF FlushSwap, Panic, Swaps, Outside
<1>2. CASE \E ok \in BOOLEAN : Return(t, ok)
  BY <1>1, <1>2, ReturnAnswer DEF Appended
<1>3. CASE t = Timer /\ Goto(t, "dead") /\ UNCHANGED work
  <2>1. t \notin Attempts
    BY <1>3, TasksAre, WritersAre
  <2>2. Moves(t, "dead", work[t])
    BY <1>3, Moved DEF Goto, AnswerInv
  <2>3. Covered' /\ Safe' = Safe
    BY <1>1, <2>2, CoveredStays DEF Safe, Stored
  <2> QED BY <1>1, <2>1, <2>2, <2>3, OneTask DEF Appended
<1> QED BY <1>2, <1>3 DEF FlushSwap, Panic

LEMMA FlushAnswer ==
  ASSUME AnswerInv, \E t \in Tasks : Flush(t) \/ Panic(t) PROVE AnswerInv'
  BY PublishAnswer, ClearAnswer, TruncateAnswer, SwapAnswer DEF Flush

LEMMA PostAnswer == ASSUME AnswerInv, NEW r \in Webhooks, Post(r) PROVE AnswerInv'
<1> DEFINE task == <<r, attempt[r] + 1>>
<1>1. /\ attempt' = [attempt EXCEPT ![r] = @ + 1] /\ attempt[r] < MaxAttempts
      /\ told' = [told EXCEPT ![r] = "waiting"]
      /\ UNCHANGED <<phase, store>> /\ Up
  BY DEF Post
<1>2. attempt[r] \in 0..MaxAttempts
  BY DEF AnswerInv, AnswerType
<1>3. task \in Attempts /\ attempt' \in [Webhooks -> 0..MaxAttempts]
  BY <1>1, <1>2, IngestBoundsAssumption DEF AnswerInv, AnswerType, Attempts
<1>4. \/ pc' = [pc EXCEPT ![task] = "append"] /\ work' = [work EXCEPT ![task] = task]
      \/ pc' = [pc EXCEPT ![task] = "apologize"] /\ work' = work
  BY DEF Post, Goto
<1>9. task[1] = r /\ task[2] = attempt[r] + 1
  OBVIOUS
<1> HIDE DEF task
<1>5. task \in Tasks
  BY <1>3, WritersAre, TasksAre
<1>6. PICK label, f :
        /\ label \in {"append", "apologize"}
        /\ Moves(task, label, f) /\ (label = "append" => f = task)
  BY <1>4, <1>5, Moved DEF AnswerInv
<1>7. Safe' = Safe
  BY <1>1 DEF Safe, Stored, store
<1>8. Covered'
  <2>1. Inserting \subseteq Inserting' \union {work[task]} /\ (pc[task] # "insert" => Inserting \subseteq Inserting')
    BY <1>6, TasksAre DEF Inserting, Moves, OthersStay
  <2>2. FlushRunning' => FlushRunning
    BY <1>6 DEF FlushRunning, InFlush, Moves, OthersStay
  <2>3. pc[task] # "insert"
    BY <1>2, <1>3, <1>9 DEF AnswerInv, RequestsWritten
  <2> QED BY <1>1, <2>1, <2>2, <2>3 DEF AnswerInv, Covered, Up, store
<1>10. AnswerType'
  BY <1>1, <1>3, <1>6 DEF AnswerInv, AnswerType, Moves
<1>11. RequestsWritten'
  <2> SUFFICES ASSUME NEW t \in Attempts
               PROVE  /\ pc'[t] # "idle" => t[2] <= attempt'[t[1]]
                      /\ pc'[t] = "append" => work'[t] = t
                      /\ pc'[t] \in Appended => t \in Safe'
    BY DEF RequestsWritten
  <2>1. /\ attempt'[r] = attempt[r] + 1
        /\ \A q \in Webhooks \ {r} : attempt'[q] = attempt[q]
    BY <1>1 DEF AnswerInv, AnswerType
  <2>2. CASE t = task
    <3>1. pc'[t] = label /\ work'[t] = f /\ label \notin Appended
      BY <1>6, <2>2 DEF Moves, Appended
    <3>2. t[2] \in Nat /\ t[2] = attempt'[t[1]]
      BY <1>2, <1>9, <2>1, <2>2
    <3> QED BY <1>6, <2>2, <3>1, <3>2
  <2>3. CASE t # task
    <3>1. t \in Tasks \ {task} /\ t[1] \in Webhooks /\ t[2] \in Nat
      BY <2>3, WritersAre, TasksAre, AttemptPair, IngestBoundsAssumption
    <3>2. pc'[t] = pc[t] \/ (pc[t] = "swap" /\ pc'[t] = "stray")
      BY <1>6, <3>1 DEF Moves, OthersStay
    <3>3. work'[t] = work[t]
      BY <1>6, <3>1 DEF Moves, OthersStay
    <3>4. /\ attempt[t[1]] \in Nat /\ attempt'[t[1]] \in Nat
          /\ attempt[t[1]] <= attempt'[t[1]]
      BY <1>2, <1>3, <2>1, <3>1 DEF AnswerInv, AnswerType
    <3>5. pc[t] # "idle" => t[2] <= attempt[t[1]]
      BY DEF AnswerInv, RequestsWritten
    <3>6. pc[t] # "idle" => t[2] <= attempt'[t[1]]
      BY <3>1, <3>4, <3>5
    <3> QED BY <1>7, <3>2, <3>3, <3>6 DEF AnswerInv, RequestsWritten, Appended
  <2> QED BY <2>2, <2>3
<1>12. AnsweredStored'
  <2>1. \A q \in Webhooks : told'[q] = "ok" => told[q] = "ok"
    BY <1>1 DEF AnswerInv, AnswerType
  <2> QED BY <1>7, <2>1 DEF AnswerInv, AnsweredStored, Safe
<1> QED BY <1>8, <1>10, <1>11, <1>12 DEF AnswerInv

LEMMA AnswerAnswer == ASSUME AnswerInv, NEW t \in Attempts, Answer(t) PROVE AnswerInv'
<1>1. /\ pc' = [pc EXCEPT ![t] = "idle"] /\ pc[t] \in {"answer", "apologize"} /\ Up
      /\ UNCHANGED <<phase, work, attempt, store>>
  BY DEF Answer, Goto
<1>2. t \in Tasks
  BY WritersAre, TasksAre
<1>3. Moves(t, "idle", work[t])
  BY <1>1, <1>2, Moved DEF AnswerInv
<1>4. Covered' /\ Safe' = Safe
  BY <1>1, <1>2, <1>3, CoveredStays DEF Safe, Stored, store
<1>5. told' = [r \in Webhooks |-> told'[r]]
  BY DEF Answer, AnswerInv, AnswerType
<1>6. AnswerType'
  BY <1>1, <1>5 DEF AnswerInv, AnswerType
<1>7. RequestsWritten'
  BY <1>1, <1>2, <1>4, WritersAre, TasksAre DEF AnswerInv, AnswerType, RequestsWritten, Appended
<1>8. AnsweredStored'
  <2> SUFFICES ASSUME NEW r \in Webhooks, told'[r] = "ok"
               PROVE  \E n \in 1..MaxAttempts : <<r, n>> \in Safe
    BY <1>4 DEF AnsweredStored, Safe
  <2>1. CASE told[r] = "ok"
    BY <2>1 DEF AnswerInv, AnsweredStored, Safe
  <2>2. CASE told[r] # "ok"
    <3>1. r = t[1] /\ pc[t] = "answer"
      BY <2>2, AttemptPair DEF Answer, AnswerInv, AnswerType
    <3>2. t \in Safe
      BY <3>1 DEF AnswerInv, RequestsWritten, Appended
    <3> QED BY <3>1, <3>2, AttemptPair
  <2> QED BY <2>1, <2>2
<1> QED BY <1>4, <1>6, <1>7, <1>8 DEF AnswerInv

LEMMA EndsAnswer == ASSUME AnswerInv, Ends PROVE AnswerInv'
<1>1. /\ phase' = "down" /\ UNCHANGED <<attempt, log, tables, exposed>>
      /\ pc' = [t \in Tasks |-> "idle"] /\ work' = [t \in Tasks |-> None]
      /\ told' = [r \in Webhooks |-> IF told[r] = "waiting" THEN "failed" ELSE told[r]]
  BY DEF Ends
<1>2. Covered' /\ Safe' = Safe
  BY <1>1 DEF Covered, Up, FlushRunning, InFlush, Safe, Stored
<1>3. AnswerType'
  BY <1>1 DEF AnswerInv, AnswerType
<1>4. RequestsWritten' /\ AnsweredStored'
  BY <1>1, <1>2, WritersAre, TasksAre DEF AnswerInv, RequestsWritten, AnsweredStored, Appended, Safe
<1> QED BY <1>2, <1>3, <1>4 DEF AnswerInv

LEMMA PhaseAnswer ==
  ASSUME AnswerInv, PeriodicFlush \/ Shutdown \/ FinalFlush \/ Start PROVE AnswerInv'
<1>1. CASE PeriodicFlush
  <2>1. Goto(Timer, "copy") /\ pc[Timer] = "idle" /\ Up /\ UNCHANGED <<work, store, sender>>
    BY <1>1 DEF PeriodicFlush, Up, Outside
  <2> QED BY <2>1, BeginAnswer
<1>2. CASE FinalFlush /\ Goto(Main, "copy")
  <2>1. Goto(Main, "copy") /\ pc[Main] = "idle" /\ Up /\ UNCHANGED <<work, store, sender>>
    BY <1>2 DEF FinalFlush, Up, Outside
  <2> QED BY <2>1, BeginAnswer
<1>3. CASE Shutdown \/ (FinalFlush /\ UNCHANGED pc)
  <2>1. Up /\ UNCHANGED <<writing, sender, store>>
    BY <1>3 DEF Shutdown, FinalFlush, Up, Outside, writing
  <2>2. Covered' /\ Safe' = Safe
    BY <2>1 DEF AnswerInv, Covered, Up, Inserting, FlushRunning, InFlush, Safe, Stored, store, writing
  <2> QED BY <2>1, <2>2, Calm
<1>4. CASE Start
  <2>1. /\ UNCHANGED <<writing, sender, log, tables>>
        /\ exposed' = exposed \union (log \ memtable')
    BY <1>4 DEF Start, Outside
  <2>2. Covered' /\ Safe \subseteq Safe'
    BY <2>1 DEF AnswerInv, Covered, FlushRunning, InFlush, Safe, Stored, writing
  <2> QED BY <2>1, <2>2, Calm
<1> QED BY <1>1, <1>2, <1>3, <1>4 DEF FinalFlush

LEMMA StepAnswer == AnswerInv /\ [Next]_vars => AnswerInv'
<1> SUFFICES ASSUME AnswerInv, [Next]_vars PROVE AnswerInv'
  OBVIOUS
<1>1. CASE UNCHANGED vars
  <2>1. UNCHANGED <<phase, writing, sender, store>>
    BY <1>1 DEF vars
  <2>2. Covered' /\ Safe' = Safe
    BY <2>1 DEF AnswerInv, Covered, Up, Inserting, FlushRunning, InFlush, Safe, Stored, store, writing
  <2> QED BY <2>1, <2>2, Calm
<1>2. ASSUME NEW w \in Writers, Write(w) PROVE AnswerInv'
  BY <1>2, AppendAnswer, InsertAnswer, FullAnswer DEF Write
<1>3. CASE Exit \/ Crash
  BY <1>3, EndsAnswer DEF Exit, Crash
<1> QED
  BY <1>1, <1>2, <1>3, ClientAnswer, ReceiveAnswer, FlushAnswer, PostAnswer, AnswerAnswer,
    PhaseAnswer
  DEF Next

\* Who was told 200 finds the event in the log or in a table, through writes and flushes taken
\* in their steps, and apart from the frames that met a flush, a handle astray or a torn entry:
\* for all brokers, events, numbers of repeated posts, capacities and faults.
THEOREM AnswersHold == Spec => []AnsweredStored
<1>1. Spec => []AnswerInv
  BY InitAnswer, StepAnswer, PTL DEF Spec
<1>2. AnswerInv => AnsweredStored
  BY DEF AnswerInv
<1> QED BY <1>1, <1>2, PTL

----------------------------------------------------------------------------
(* The frames of one broker                                                *)

\* The loop of OfBroker, stage by stage.
Stages(b, s, S, first) ==
  /\ first \in [0..Len(s) -> Seq(S)]
  /\ first[0] = <<>>
  /\ \A i \in 1..Len(s) :
       first[i] = IF s[i][1] = b THEN Append(first[i - 1], s[i]) ELSE first[i - 1]

LEMMA StagesExist ==
  ASSUME NEW S, NEW s \in Seq(S), NEW b
  PROVE  \E first : Stages(b, s, S, first) /\ OfBroker(b, s) = first[Len(s)]
<1> DEFINE n == Len(s)
           g == [q \in (1..n) \X Seq(S) |->
                   IF s[q[1]][1] = b THEN Append(q[2], s[q[1]]) ELSE q[2]]
           Step(f) == f = [i \in 0..n |->
                             IF i = 0 THEN <<>>
                             ELSE IF s[i][1] = b THEN Append(f[i - 1], s[i]) ELSE f[i - 1]]
<1>1. n \in Nat /\ \A i \in 1..n : s[i] \in S
  BY LenProperties, ElementOfSeq
<1>2. \A i \in 1..n, a \in Seq(S) :
        /\ g[<<i, a>>] = IF s[i][1] = b THEN Append(a, s[i]) ELSE a
        /\ g[<<i, a>>] \in Seq(S)
  BY <1>1
<1>3. PICK f \in [0..n -> Seq(S)] : f[0] = <<>> /\ \A i \in 1..n : f[i] = g[<<i, f[i - 1]>>]
  <2> DEFINE A == Seq(S)
             z == <<>>
  <2>1. z \in A
    BY EmptySeq
  <2>2. g \in [(1..n) \X A -> A]
    BY <1>1
  <2>3. n \in Nat
    BY <1>1
  <2> HIDE DEF g, n, A, z
  <2>4. \E f \in [0..n -> A] : GoesOn(f, n, z, g)
    BY <2>1, <2>2, <2>3, Recursion, Zenon
  <2> QED BY <2>4 DEF A, z, GoesOn
<1> HIDE DEF g
<1>4. \A i \in 1..n : f[i] = IF s[i][1] = b THEN Append(f[i - 1], s[i]) ELSE f[i - 1]
  <2> TAKE i \in 1..n
  <2>1. f[i - 1] \in Seq(S)
    <3>1. i - 1 \in 0..n
      BY <1>1
    <3> HIDE DEF n
    <3> QED BY <1>3, <3>1
  <2> QED BY <1>2, <1>3, <2>1
<1>5. Step(f)
  <2>1. \A i \in 0..n : i # 0 => i \in 1..n
    BY <1>1
  <2>2. DOMAIN f = 0..n /\ f = [i \in 0..n |-> f[i]]
    BY <1>3
  <2> HIDE DEF n
  <2> QED BY <1>3, <1>4, <2>1, <2>2
<1> DEFINE c == CHOOSE h : Step(h)
<1>6. Step(c)
  <2> HIDE DEF Step
  <2> QED BY <1>5
<1>7. OfBroker(b, s) = c[n]
  BY DEF OfBroker
<1>8. c[0] = <<>>
  <2>1. 0 \in 0..n
    BY <1>1
  <2> QED BY <1>6, <2>1
<1>9. \A i \in 1..n : c[i] = IF s[i][1] = b THEN Append(c[i - 1], s[i]) ELSE c[i - 1]
  <2>1. \A i \in 1..n : i # 0 /\ i \in 0..n
    BY <1>1
  <2> QED BY <1>6, <2>1
<1>10. c \in [0..n -> Seq(S)]
  <2>1. \A i \in 0..n : c[i] = f[i]
    <3> DEFINE T == {i \in 0..n : c[i] = f[i]}
    <3>1. 0 \in T
      BY <1>1, <1>3, <1>8
    <3>2. ASSUME NEW i \in 0..(n - 1), i \in T PROVE i + 1 \in T
      <4>1. i + 1 \in 1..n /\ i + 1 - 1 = i /\ i + 1 # 0
        BY <1>1
      <4>2. c[i + 1] = IF s[i + 1][1] = b THEN Append(c[i], s[i + 1]) ELSE c[i]
        <5> HIDE DEF c
        <5> QED BY <1>9, <4>1
      <4>3. f[i + 1] = IF s[i + 1][1] = b THEN Append(f[i], s[i + 1]) ELSE f[i]
        BY <1>4, <4>1
      <4>4. c[i] = f[i]
        BY <3>2
      <4>5. i + 1 \in 0..n
        BY <1>1
      <4>6. c[i + 1] = f[i + 1]
        <5> HIDE DEF c, n
        <5> QED BY <4>2, <4>3, <4>4
      <4> QED BY <4>5, <4>6
    <3> HIDE DEF T
    <3>3. \A i \in 0..n : i \in T
      BY <1>1, <3>1, <3>2, CountUp
    <3> QED BY <3>3 DEF T
  <2>2. DOMAIN c = 0..n /\ c = [i \in 0..n |-> c[i]]
    BY <1>6, ZenonT(30)
  <2> HIDE DEF c
  <2> QED BY <1>3, <2>1, <2>2
<1>11. Stages(b, s, S, c)
  <2> HIDE DEF c
  <2> QED BY <1>8, <1>9, <1>10 DEF Stages
<1> QED BY <1>7, <1>11

LEMMA OfBrokerEmpty == \A b : OfBroker(b, <<>>) = <<>>
<1> TAKE b
<1>1. <<>> \in Seq({}) /\ Len(<<>>) = 0
  BY EmptySeq
<1>2. PICK first : Stages(b, <<>>, {}, first) /\ OfBroker(b, <<>>) = first[0]
  BY <1>1, StagesExist
<1> QED BY <1>2 DEF Stages

\* Two runs of the loop agree as long as the sequences do.
LEMMA StagesAgree ==
  ASSUME NEW S, NEW s \in Seq(S), NEW t \in Seq(S), NEW b, NEW f, NEW h,
         Stages(b, s, S, f), Stages(b, t, S, h), NEW k \in Nat, k <= Len(s), k <= Len(t),
         \A i \in 1..k : s[i] = t[i]
  PROVE  f[k] = h[k]
<1> DEFINE T == {i \in 0..k : f[i] = h[i]}
<1>1. Len(s) \in Nat /\ Len(t) \in Nat
  BY LenProperties
<1>2. 0 \in T
  BY DEF Stages
<1>3. ASSUME NEW i \in 0..(k - 1), i \in T PROVE i + 1 \in T
  <2>1. /\ i + 1 \in 1..Len(s) /\ i + 1 \in 1..Len(t) /\ i + 1 \in 1..k /\ i + 1 - 1 = i
        /\ i + 1 \in 0..k
    BY <1>1
  <2>2. f[i + 1] = IF s[i + 1][1] = b THEN Append(f[i], s[i + 1]) ELSE f[i]
    BY <2>1 DEF Stages
  <2>3. h[i + 1] = IF t[i + 1][1] = b THEN Append(h[i], t[i + 1]) ELSE h[i]
    BY <2>1 DEF Stages
  <2> QED BY <1>3, <2>1, <2>2, <2>3
<1> HIDE DEF T
<1>4. \A i \in 0..k : i \in T
  BY <1>2, <1>3, CountUp
<1>5. k \in 0..k
  OBVIOUS
<1> QED BY <1>4, <1>5 DEF T

LEMMA OfBrokerSeq ==
  ASSUME NEW S, NEW s \in Seq(S), NEW b PROVE OfBroker(b, s) \in Seq(S)
<1>1. Len(s) \in Nat
  BY LenProperties
<1>2. PICK first : Stages(b, s, S, first) /\ OfBroker(b, s) = first[Len(s)]
  BY StagesExist
<1> QED BY <1>1, <1>2 DEF Stages

LEMMA OfBrokerAppend ==
  ASSUME NEW S, NEW s \in Seq(S), NEW e \in S, NEW b
  PROVE  OfBroker(b, Append(s, e)) =
           IF e[1] = b THEN Append(OfBroker(b, s), e) ELSE OfBroker(b, s)
<1> DEFINE n == Len(s)
           t == Append(s, e)
<1>1. /\ n \in Nat /\ t \in Seq(S) /\ Len(t) = n + 1 /\ t[n + 1] = e
      /\ \A i \in 1..n : t[i] = s[i]
  BY LenProperties
<1>2. PICK f : Stages(b, s, S, f) /\ OfBroker(b, s) = f[n]
  BY StagesExist
<1>3. PICK h : Stages(b, t, S, h) /\ OfBroker(b, t) = h[n + 1]
  <2> HIDE DEF t
  <2> QED BY <1>1, StagesExist
<1> HIDE DEF t
<1>4. h[n] = f[n]
  <2>1. n <= Len(s) /\ n <= Len(t) /\ \A i \in 1..n : s[i] = t[i]
    BY <1>1
  <2> HIDE DEF n
  <2> QED BY <1>1, <1>2, <1>3, <2>1, StagesAgree
<1>5. h[n + 1] = IF t[n + 1][1] = b THEN Append(h[n + 1 - 1], t[n + 1]) ELSE h[n + 1 - 1]
  <2>1. n + 1 \in 1..Len(t) /\ n \in Nat
    BY <1>1
  <2>2. \A i \in 1..Len(t) : h[i] = IF t[i][1] = b THEN Append(h[i - 1], t[i]) ELSE h[i - 1]
    BY <1>3 DEF Stages
  <2> HIDE DEF n
  <2> QED BY <2>1, <2>2
<1>6. n + 1 - 1 = n
  BY <1>1
<1> HIDE DEF n
<1> QED BY <1>1, <1>2, <1>3, <1>4, <1>5, <1>6 DEF t

LEMMA OfBrokerConcat ==
  ASSUME NEW S, NEW s \in Seq(S), NEW t \in Seq(S), NEW b
  PROVE  OfBroker(b, s \o t) = OfBroker(b, s) \o OfBroker(b, t)
<1> DEFINE Upto(k) == SubSeq(t, 1, k)
           T == {k \in 0..Len(t) : OfBroker(b, s \o Upto(k)) = OfBroker(b, s) \o OfBroker(b, Upto(k))}
<1>1. Len(t) \in Nat
  BY LenProperties
<1>2. \A k \in 0..Len(t) : Upto(k) \in Seq(S) /\ s \o Upto(k) \in Seq(S)
  <2> TAKE k \in 0..Len(t)
  <2>1. \A i \in 1..k : t[i] \in S
    BY <1>1, ElementOfSeq
  <2>2. Upto(k) \in Seq(S)
    BY <1>1, <2>1, SubSeqProperties
  <2> HIDE DEF Upto
  <2> QED BY <2>2, ConcatProperties
<1>3. 0 \in T
  <2>1. Upto(0) = <<>>
    BY SubSeqEmpty
  <2>2. s \o <<>> = s /\ OfBroker(b, s) \o <<>> = OfBroker(b, s)
    BY ConcatEmptySeq, OfBrokerSeq
  <2>3. OfBroker(b, s \o Upto(0)) = OfBroker(b, s) \o OfBroker(b, Upto(0))
    <3> HIDE DEF Upto
    <3> QED BY <2>1, <2>2, OfBrokerEmpty
  <2> QED BY <1>1, <2>3
<1>4. ASSUME NEW k \in 0..(Len(t) - 1), k \in T PROVE k + 1 \in T
  <2> DEFINE e == t[k + 1]
             u == Upto(k)
  <2>1. k + 1 \in 1..Len(t) /\ k \in 0..Len(t) /\ e \in S /\ k + 1 - 1 = k /\ k \in Nat
        /\ k + 1 \in 0..Len(t)
    <3>1. k + 1 \in 1..Len(t)
      BY <1>1
    <3>2. t[k + 1] \in S
      BY <3>1, ElementOfSeq
    <3> QED BY <1>1, <3>1, <3>2
  <2>2. u \in Seq(S) /\ s \o u \in Seq(S) /\ OfBroker(b, u) \in Seq(S) /\ OfBroker(b, s) \in Seq(S)
    <3>1. u \in Seq(S) /\ s \o u \in Seq(S)
      BY <1>2, <2>1
    <3> HIDE DEF u
    <3> QED BY <3>1, OfBrokerSeq
  <2>3. Upto(k + 1) = Append(u, e)
    BY <1>1, <2>1, SubSeqRecursiveSecond
  <2>4. s \o Append(u, e) = Append(s \o u, e)
    <3> HIDE DEF u, e
    <3> QED BY <2>1, <2>2
  <2>5. OfBroker(b, s) \o Append(OfBroker(b, u), e) = Append(OfBroker(b, s) \o OfBroker(b, u), e)
    <3> HIDE DEF u, e
    <3> QED BY <2>1, <2>2
  <2>6. OfBroker(b, s \o u) = OfBroker(b, s) \o OfBroker(b, u)
    BY <1>4
  <2>7. OfBroker(b, Append(s \o u, e)) = OfBroker(b, s) \o OfBroker(b, Append(u, e))
    <3> HIDE DEF u, e
    <3>1. OfBroker(b, Append(s \o u, e)) =
            IF e[1] = b THEN Append(OfBroker(b, s \o u), e) ELSE OfBroker(b, s \o u)
      BY <2>1, <2>2, OfBrokerAppend
    <3>2. OfBroker(b, Append(u, e)) = IF e[1] = b THEN Append(OfBroker(b, u), e) ELSE OfBroker(b, u)
      BY <2>1, <2>2, OfBrokerAppend
    <3> QED BY <2>5, <2>6, <3>1, <3>2
  <2> HIDE DEF u, e, Upto
  <2> QED BY <2>1, <2>3, <2>4, <2>7
<1>5. \A k \in 0..Len(t) : k \in T
  <2> HIDE DEF T
  <2> QED BY <1>1, <1>3, <1>4, CountUp
<1>6. Len(t) \in 0..Len(t) /\ Upto(Len(t)) = t
  BY <1>1, SubSeqFull
<1> HIDE DEF Upto
<1> QED BY <1>5, <1>6

LEMMA OfBrokerOne ==
  ASSUME NEW e, NEW b PROVE OfBroker(b, <<e>>) = IF e[1] = b THEN <<e>> ELSE <<>>
<1>1. <<>> \in Seq({e}) /\ <<e>> = Append(<<>>, e)
  BY EmptySeq
<1>2. OfBroker(b, Append(<<>>, e)) =
        IF e[1] = b THEN Append(OfBroker(b, <<>>), e) ELSE OfBroker(b, <<>>)
  BY <1>1, OfBrokerAppend
<1>3. OfBroker(b, <<>>) = <<>>
  BY OfBrokerEmpty
<1> QED BY <1>1, <1>2, <1>3

----------------------------------------------------------------------------
(* Types, and what keeps the frames of a broker apart                      *)

PhaseInv ==
  /\ phase \in {"running", "stopping", "flushed", "down"}
  /\ session \in [Brokers -> BOOLEAN]
  /\ receiver \in BOOLEAN /\ faults \in 0..MaxFaults
  /\ attempt \in [Webhooks -> 0..MaxAttempts]
  /\ told \in [Webhooks -> {"nothing", "waiting", "ok", "failed"}]
  /\ ~Up => ~receiver

\* What is on the wire was published, in this order.
WireInv ==
  /\ sent \in [Brokers -> Nat]
  /\ wire \in [Brokers -> Seq(Nat)]
  /\ \A b \in Brokers : \A i \in 1..Len(wire[b]) :
       wire[b][i] \in 1..Len(Outbox[b]) /\ wire[b][i] <= sent[b]
  /\ \A b \in Brokers : \A i, j \in 1..Len(wire[b]) : i < j => wire[b][i] < wire[b][j]

\* A client holds a frame of its broker exactly while it sends.
HoldInv ==
  /\ client \in [Brokers -> {"absent", "connecting", "polling", "sending", "sleeping", "dead"}]
  /\ holding \in [Brokers -> MqttFrames \union {None}]
  /\ \A b \in Brokers : client[b] = "sending" <=> holding[b] # None
  /\ \A b \in Brokers : holding[b] # None => holding[b][1] = b

QueueInv ==
  /\ channel \in Seq(MqttFrames) /\ Len(channel) <= Capacity
  /\ ~receiver => channel = <<>>

\* The processor runs as long as the channel is open; requests write their own frames; the
\* periodic flush alone can die, and main flushes only while the server stops.
WorkInv ==
  /\ pc \in [Tasks -> Labels]
  /\ work \in [Tasks -> Frames \union {None}]
  /\ pc[Processor] \notin {"answer", "apologize"}
  /\ pc[Processor] # "idle" => receiver
  /\ pc[Processor] = "append" => work[Processor] \in MqttFrames
  /\ \A t \in Attempts : pc[t] = "append" => work[t] = t
  /\ \A t \in Tasks : (pc[t] = "dead" => t = Timer) /\ (pc[t] # "idle" => Up)
  /\ \A t \in {Timer, Main} : pc[t] \notin {"append", "insert", "full"}
  /\ \A w \in Writers : pc[w] = "insert" => work[w] \in Frames
  /\ pc[Main] # "idle" => phase = "stopping"

StoreInv ==
  /\ memtable \subseteq Frames /\ tables \subseteq Frames /\ log \subseteq Frames
  /\ attached \in BOOLEAN /\ torn \in BOOLEAN
  /\ written \subseteq Frames /\ exposed \subseteq Frames /\ refused \subseteq Frames

\* The frames between the clients and the log, and those that left the wire at all.
Underway ==
  {holding[b] : b \in Brokers} \union {channel[i] : i \in 1..Len(channel)}
    \union (IF pc[Processor] = "append" THEN {work[Processor]} ELSE {})
Known == written \union refused \union Underway
\* Each of them was published before all that is still on the wire.
Behind ==
  \A f \in MqttFrames \intersect Known :
    f[2] <= sent[f[1]] /\ \A i \in 1..Len(wire[f[1]]) : f[2] < wire[f[1]][i]

\* The inductive invariant.
TransitInv == PhaseInv /\ WireInv /\ HoldInv /\ QueueInv /\ WorkInv /\ StoreInv /\ Behind

LEMMA TransitTypes == TransitInv => IngestTypeOK
  BY DEF TransitInv, PhaseInv, WireInv, HoldInv, QueueInv, WorkInv, StoreInv, IngestTypeOK

LEMMA MqttPair ==
  ASSUME NEW f \in MqttFrames
  PROVE  f[1] \in Brokers /\ f[2] \in 1..Len(Outbox[f[1]]) /\ f = <<f[1], f[2]>> /\ f \in Frames
  BY DEF MqttFrames, Frames

LEMMA NoAttempt ==
  ASSUME NEW t \in Attempts
  PROVE  t \notin MqttFrames /\ t \in Frames /\ t \in Writers /\ t \in Tasks /\ t # Processor
<1>1. t \notin MqttFrames
  BY MqttPair, AttemptPair, BrokersAssumption
<1> QED BY <1>1, AttemptPair, TasksAre DEF Frames, Writers

LEMMA InitTransit == Init => TransitInv
<1> SUFFICES ASSUME Init PROVE TransitInv
  OBVIOUS
<1>1. PICK past \in Traffic :
        /\ sent = past.sent /\ attempt = past.attempt /\ faults = past.faults
        /\ client = [b \in Brokers |-> IF b \in past.clients THEN "connecting" ELSE "absent"]
  BY DEF Init
<1>2. /\ sent \in [Brokers -> Nat] /\ attempt \in [Webhooks -> 0..MaxAttempts]
      /\ faults \in 0..MaxFaults
  BY <1>1, TrafficAssumption
<1>3. PhaseInv
  <2>1. session \in [Brokers -> BOOLEAN] /\ told \in [Webhooks -> {"nothing", "waiting", "ok", "failed"}]
    BY DEF Init
  <2>2. receiver = FALSE /\ phase = "down"
    BY DEF Init
  <2> QED BY <1>2, <2>1, <2>2 DEF PhaseInv
<1>4. WireInv
  <2>1. wire \in [Brokers -> Seq(Nat)] /\ \A b \in Brokers : 1..Len(wire[b]) = {}
    BY DEF Init
  <2> QED BY <1>2, <2>1 DEF WireInv
<1>5. HoldInv
  <2>1. holding = [b \in Brokers |-> None]
    BY DEF Init
  <2> QED BY <1>1, <2>1, NoFrameAssumption DEF HoldInv
<1>6. QueueInv
  BY CapacityAssumption DEF Init, QueueInv
<1>7. WorkInv
  BY WritersAre, TasksAre DEF Init, WorkInv, Labels
<1>8. StoreInv
  BY DEF Init, StoreInv
<1>9. Behind
  <2>1. 1..Len(channel) = {} /\ pc[Processor] = "idle"
    BY WritersAre, TasksAre DEF Init
  <2>2. Known \subseteq {None}
    BY <2>1 DEF Init, Known, Underway
  <2> QED BY <2>2, NoFrameAssumption DEF Behind, Frames
<1> QED BY <1>3, <1>4, <1>5, <1>6, <1>7, <1>8, <1>9 DEF TransitInv

\* Frames stay behind the wire as long as no client takes one from it.
LEMMA BehindKeeps ==
  ASSUME WireInv, Behind, MqttFrames \intersect Known' \subseteq Known,
         \A b \in Brokers :
           /\ sent[b] <= sent'[b] /\ sent'[b] \in Nat
           /\ \A i \in 1..Len(wire'[b]) :
                \/ wire'[b][i] \in Nat /\ sent[b] < wire'[b][i]
                \/ \E j \in 1..Len(wire[b]) : wire'[b][i] = wire[b][j]
  PROVE  Behind'
<1> SUFFICES ASSUME NEW f \in MqttFrames, f \in Known'
             PROVE  /\ f[2] <= sent'[f[1]]
                    /\ \A i \in 1..Len(wire'[f[1]]) : f[2] < wire'[f[1]][i]
  BY DEF Behind, MqttFrames
<1> DEFINE b == f[1]
<1>1. b \in Brokers /\ f[2] \in Nat
  BY MqttPair, BrokersAssumption
<1>2. f[2] <= sent[b] /\ \A j \in 1..Len(wire[b]) : f[2] < wire[b][j]
  BY DEF Behind
<1>3. sent[b] \in Nat
  BY <1>1 DEF WireInv
<1>4. f[2] <= sent'[b]
  BY <1>1, <1>2, <1>3
<1>5. ASSUME NEW i \in 1..Len(wire'[b]) PROVE f[2] < wire'[b][i]
  <2>1. \/ wire'[b][i] \in Nat /\ sent[b] < wire'[b][i]
        \/ \E j \in 1..Len(wire[b]) : wire'[b][i] = wire[b][j]
    BY <1>1
  <2> QED BY <1>1, <1>2, <1>3, <2>1
<1> QED BY <1>4, <1>5

\* Steps that leave the wire alone.
LEMMA BehindCalm ==
  ASSUME WireInv, Behind, UNCHANGED <<sent, wire>>, MqttFrames \intersect Known' \subseteq Known
  PROVE  WireInv' /\ Behind'
<1>1. WireInv'
  BY DEF WireInv
<1>2. Behind'
  BY DEF Behind, MqttFrames
<1> QED BY <1>1, <1>2

\* Steps that move no frame.
LEMMA KnownCalm ==
  ASSUME UNCHANGED <<holding, channel, pc, work, written, refused>> PROVE Known' = Known
  BY DEF Known, Underway

LEMMA FaultTransit == ASSUME PhaseInv, Fault PROVE faults' \in 0..MaxFaults
  BY IngestBoundsAssumption DEF PhaseInv, Fault

LEMMA PublishTransit ==
  ASSUME TransitInv, NEW b \in Brokers, BrokerPublish(b) PROVE TransitInv'
<1>1. /\ sent[b] < Len(Outbox[b]) /\ sent' = [sent EXCEPT ![b] = @ + 1]
      /\ wire' = IF session[b] THEN [wire EXCEPT ![b] = Append(@, sent[b] + 1)] ELSE wire
      /\ UNCHANGED <<phase, session, client, holding, queue, writing, sender, store, refused, faults>>
  BY DEF BrokerPublish
<1>2. sent[b] \in Nat /\ wire[b] \in Seq(Nat) /\ Len(Outbox[b]) \in Nat /\ Len(wire[b]) \in Nat
  BY BrokersAssumption DEF TransitInv, WireInv
<1>3. sent' \in [Brokers -> Nat] /\ wire' \in [Brokers -> Seq(Nat)]
  BY <1>1, <1>2 DEF TransitInv, WireInv
<1> DEFINE w == Append(wire[b], sent[b] + 1)
<1>4. /\ Len(w) = Len(wire[b]) + 1 /\ w[Len(wire[b]) + 1] = sent[b] + 1
      /\ \A i \in 1..Len(wire[b]) : w[i] = wire[b][i]
  BY <1>2
<1>5. /\ sent'[b] = sent[b] + 1 /\ (wire'[b] = wire[b] \/ wire'[b] = w)
      /\ \A c \in Brokers \ {b} : sent'[c] = sent[c] /\ wire'[c] = wire[c]
  BY <1>1 DEF TransitInv, WireInv
<1> HIDE DEF w
<1>6. \A i \in 1..Len(w) : \/ i \in 1..Len(wire[b]) /\ w[i] = wire[b][i]
                           \/ i = Len(wire[b]) + 1 /\ w[i] = sent[b] + 1
  BY <1>2, <1>4
<1>7. \A i \in 1..Len(wire[b]) : wire[b][i] \in 1..Len(Outbox[b]) /\ wire[b][i] <= sent[b]
  BY DEF TransitInv, WireInv
<1>8. \A i \in 1..Len(wire'[b]) : wire'[b][i] \in 1..Len(Outbox[b]) /\ wire'[b][i] <= sent'[b]
  BY <1>1, <1>2, <1>5, <1>6, <1>7
<1>9. \A i, j \in 1..Len(wire'[b]) : i < j => wire'[b][i] < wire'[b][j]
  <2>1. \A i, j \in 1..Len(wire[b]) : i < j => wire[b][i] < wire[b][j]
    BY DEF TransitInv, WireInv
  <2>2. \A i, j \in 1..Len(w) : i < j => w[i] < w[j]
    <3> TAKE i, j \in 1..Len(w)
    <3> HAVE i < j
    <3>1. i \in 1..Len(wire[b]) /\ w[i] = wire[b][i]
      BY <1>2, <1>4, <1>6, SMTT(30)
    <3>2. wire[b][i] \in Nat /\ wire[b][i] <= sent[b]
      BY <1>2, <1>7, <3>1
    <3> QED BY <1>2, <1>6, <2>1, <3>1, <3>2, SMTT(30)
  <2> QED BY <1>5, <2>1, <2>2
<1>10. WireInv'
  <2>1. ASSUME NEW c \in Brokers
        PROVE  /\ \A i \in 1..Len(wire'[c]) : wire'[c][i] \in 1..Len(Outbox[c]) /\ wire'[c][i] <= sent'[c]
               /\ \A i, j \in 1..Len(wire'[c]) : i < j => wire'[c][i] < wire'[c][j]
    <3>1. CASE c = b
      BY <1>8, <1>9, <3>1
    <3>2. CASE c # b
      BY <1>5, <3>2 DEF TransitInv, WireInv
    <3> QED BY <3>1, <3>2
  <2> QED BY <1>3, <2>1 DEF WireInv
<1>11. Behind'
  <2>1. Known' = Known
    BY <1>1, KnownCalm DEF queue, writing, store
  <2>2. ASSUME NEW c \in Brokers
        PROVE  /\ sent[c] <= sent'[c] /\ sent'[c] \in Nat
               /\ \A i \in 1..Len(wire'[c]) :
                    \/ wire'[c][i] \in Nat /\ sent[c] < wire'[c][i]
                    \/ \E j \in 1..Len(wire[c]) : wire'[c][i] = wire[c][j]
    <3>1. CASE c = b
      <4>1. \A i \in 1..Len(wire'[b]) :
              \/ wire'[b][i] = sent[b] + 1
              \/ \E j \in 1..Len(wire[b]) : wire'[b][i] = wire[b][j]
        BY <1>5, <1>6
      <4>2. sent[b] + 1 \in Nat /\ sent[b] < sent[b] + 1 /\ sent[b] <= sent'[b] /\ sent'[b] \in Nat
        BY <1>2, <1>5
      <4>3. \A i \in 1..Len(wire'[b]) :
              \/ wire'[b][i] \in Nat /\ sent[b] < wire'[b][i]
              \/ \E j \in 1..Len(wire[b]) : wire'[b][i] = wire[b][j]
        BY <4>1, <4>2
      <4> QED BY <3>1, <4>2, <4>3
    <3>2. CASE c # b
      BY <1>5, <3>2 DEF TransitInv, WireInv
    <3> QED BY <3>1, <3>2
  <2> QED BY <2>1, <2>2, BehindKeeps DEF TransitInv
<1>12. PhaseInv' /\ HoldInv' /\ QueueInv' /\ WorkInv' /\ StoreInv'
  BY <1>1 DEF TransitInv, PhaseInv, HoldInv, QueueInv, WorkInv, StoreInv, Up,
    queue, writing, sender, store
<1> QED BY <1>10, <1>11, <1>12 DEF TransitInv

\* The connection of one client: connected, dropped, lost with what was on it, retried.
LEMMA ConnectionTransit ==
  ASSUME TransitInv, NEW b \in Brokers,
         \/ Connect(b) \/ BrokerDrops(b) \/ ConnectionError(b) \/ Reconnect(b)
         \/ Poll(b) /\ Drops(b, AfterMessage(Incoming(b))) /\ UNCHANGED holding
  PROVE  TransitInv'
<1>1. /\ UNCHANGED <<phase, sent, holding, queue, writing, sender, store, refused>>
      /\ faults' = faults \/ Fault
  BY DEF Connect, BrokerDrops, ConnectionError, Reconnect, Poll
<1>2. PhaseInv'
  <2>1. session' \in [Brokers -> BOOLEAN]
    BY DEF Connect, BrokerDrops, ConnectionError, Reconnect, Drops, TransitInv, PhaseInv
  <2>2. faults' \in 0..MaxFaults
    BY <1>1, FaultTransit DEF TransitInv, PhaseInv
  <2> QED BY <1>1, <2>1, <2>2 DEF TransitInv, PhaseInv, Up, queue, sender
<1>3. HoldInv'
  <2>1. client' = client \/ \E label \in {"polling", "sleeping", "connecting", "dead"} :
          client[b] # "sending" /\ client' = [client EXCEPT ![b] = label]
    BY DEF Connect, BrokerDrops, ConnectionError, Reconnect, Poll, Drops, AfterError, AfterMessage
  <2> QED BY <1>1, <2>1 DEF TransitInv, HoldInv
<1>4. wire' = wire \/ wire' = [wire EXCEPT ![b] = <<>>]
  BY DEF Connect, BrokerDrops, ConnectionError, Reconnect, Drops
<1>5. \A c \in Brokers : wire'[c] = wire[c] \/ (wire'[c] = <<>> /\ 1..Len(wire'[c]) = {})
  BY <1>4 DEF TransitInv, WireInv
<1>6. WireInv'
  <2>1. wire' \in [Brokers -> Seq(Nat)]
    <3>1. wire \in [Brokers -> Seq(Nat)] /\ <<>> \in Seq(Nat)
      BY EmptySeq DEF TransitInv, WireInv
    <3>2. CASE wire' = wire
      BY <3>1, <3>2
    <3>3. CASE wire' = [wire EXCEPT ![b] = <<>>]
      <4> DEFINE A == Seq(Nat)
                 e == <<>>
      <4>1. wire \in [Brokers -> A] /\ e \in A /\ wire' = [wire EXCEPT ![b] = e]
        BY <3>1, <3>3
      <4> HIDE DEF A, e
      <4>2. wire' \in [Brokers -> A]
        BY <4>1
      <4> QED BY <4>2 DEF A
    <3> QED BY <1>4, <3>2, <3>3
  <2> QED BY <1>1, <1>5, <2>1 DEF TransitInv, WireInv
<1>7. Behind'
  <2>1. Known' = Known
    BY <1>1, KnownCalm DEF queue, writing, store
  <2>2. \A c \in Brokers : sent'[c] = sent[c] /\ sent[c] \in Nat
    BY <1>1 DEF TransitInv, WireInv
  <2> QED BY <1>5, <2>1, <2>2, BehindKeeps DEF TransitInv
<1>8. QueueInv' /\ WorkInv' /\ StoreInv'
  BY <1>1 DEF TransitInv, QueueInv, WorkInv, StoreInv, Up, queue, writing, store
<1> QED BY <1>2, <1>3, <1>6, <1>7, <1>8 DEF TransitInv

\* A message is taken from the wire.
LEMMA TakeTransit ==
  ASSUME TransitInv, NEW b \in Brokers, Poll(b), wire' = [wire EXCEPT ![b] = Tail(@)],
         UNCHANGED session
  PROVE  TransitInv'
<1> DEFINE w == wire[b]
           t == Tail(w)
           n == Len(w)
<1>1. /\ Up /\ client[b] = "polling" /\ w # <<>> /\ wire' = [wire EXCEPT ![b] = t]
      /\ UNCHANGED <<phase, sent, session, queue, writing, sender, store, refused, faults>>
  BY DEF Poll
<1>2. w \in Seq(Nat) /\ n \in Nat /\ n > 0 /\ sent[b] \in Nat /\ Len(Outbox[b]) \in Nat
  <2>1. w \in Seq(Nat) /\ sent[b] \in Nat /\ Len(Outbox[b]) \in Nat
    BY BrokersAssumption DEF TransitInv, WireInv
  <2> HIDE DEF w
  <2>2. n \in Nat /\ n > 0
    BY <1>1, <2>1, EmptySeq, LenProperties
  <2> QED BY <2>1, <2>2
<1>3. /\ t \in Seq(Nat) /\ Len(t) = n - 1 /\ Head(w) = w[1] /\ 1 \in 1..n
      /\ \A i \in 1..Len(t) : i + 1 \in 1..n /\ t[i] = w[i + 1]
  <2> HIDE DEF w
  <2> QED BY <1>1, <1>2, HeadTailProperties
<1>4. /\ \A i \in 1..n : w[i] \in 1..Len(Outbox[b]) /\ w[i] <= sent[b]
      /\ \A i, j \in 1..n : i < j => w[i] < w[j]
  BY DEF TransitInv, WireInv
<1>5. wire' \in [Brokers -> Seq(Nat)] /\ wire'[b] = t /\ \A c \in Brokers \ {b} : wire'[c] = wire[c]
  <2> DEFINE A == Seq(Nat)
  <2>1. wire \in [Brokers -> A] /\ t \in A
    BY <1>3 DEF TransitInv, WireInv
  <2> HIDE DEF A, t
  <2>2. wire' \in [Brokers -> A] /\ wire'[b] = t /\ \A c \in Brokers \ {b} : wire'[c] = wire[c]
    BY <1>1, <2>1
  <2> QED BY <2>2 DEF A
<1>6. Incoming(b) = <<b, w[1]>> /\ Incoming(b) \in MqttFrames
  <2>1. Incoming(b) = <<b, w[1]>>
    BY <1>3 DEF Incoming
  <2> HIDE DEF w
  <2> QED BY <1>3, <1>4, <2>1 DEF MqttFrames
<1>7. \/ /\ client' = [client EXCEPT ![b] = "sending"]
         /\ holding' = [holding EXCEPT ![b] = Incoming(b)]
      \/ /\ client' = client \/ \E label \in {"dead", "polling", "sleeping"} :
                              client' = [client EXCEPT ![b] = label]
         /\ holding' = holding
  BY DEF Poll, Drops, AfterMessage, AfterError
<1> HIDE DEF w, t, n
<1>8. \A i \in 1..Len(t) :
        /\ t[i] \in 1..Len(Outbox[b]) /\ t[i] <= sent[b] /\ w[1] < t[i]
        /\ \A j \in 1..Len(t) : i < j => t[i] < t[j]
  <2> TAKE i \in 1..Len(t)
  <2>1. i + 1 \in 1..n /\ t[i] = w[i + 1] /\ 1 \in 1..n /\ 1 < i + 1
    BY <1>2, <1>3
  <2>2. ASSUME NEW j \in 1..Len(t), i < j PROVE t[i] < t[j]
    <3>1. j + 1 \in 1..n /\ t[j] = w[j + 1]
      BY <1>3
    <3>2. i + 1 < j + 1
      BY <1>2, <1>3, <2>2
    <3> QED BY <1>4, <2>1, <3>1, <3>2
  <2> QED BY <1>4, <2>1, <2>2
<1>9. WireInv'
  <2>1. ASSUME NEW c \in Brokers
        PROVE  /\ \A i \in 1..Len(wire'[c]) : wire'[c][i] \in 1..Len(Outbox[c]) /\ wire'[c][i] <= sent[c]
               /\ \A i, j \in 1..Len(wire'[c]) : i < j => wire'[c][i] < wire'[c][j]
    <3>1. CASE c = b
      BY <1>5, <1>8, <3>1
    <3>2. CASE c # b
      BY <1>5, <3>2 DEF TransitInv, WireInv
    <3> QED BY <3>1, <3>2
  <2> QED BY <1>1, <1>5, <2>1 DEF TransitInv, WireInv
<1>10. Behind'
  <2>1. Known' \subseteq Known \union {Incoming(b)}
    <3>1. \A c \in Brokers : holding'[c] \in {holding[c], Incoming(b)}
      BY <1>7 DEF TransitInv, HoldInv
    <3>2. UNCHANGED <<channel, pc, work, written, refused>>
      BY <1>1 DEF queue, writing, store
    <3> QED BY <3>1, <3>2 DEF Known, Underway
  <2>2. \A c \in Brokers : \A i \in 1..Len(wire'[c]) : \E j \in 1..Len(wire[c]) : wire'[c][i] = wire[c][j]
    <3> TAKE c \in Brokers
    <3>1. CASE c = b
      BY <1>3, <1>5, <3>1 DEF w, n
    <3>2. CASE c # b
      BY <1>5, <3>2
    <3> QED BY <3>1, <3>2
  <2> SUFFICES ASSUME NEW f \in MqttFrames, f \in Known'
               PROVE  f[2] <= sent[f[1]] /\ \A i \in 1..Len(wire'[f[1]]) : f[2] < wire'[f[1]][i]
    BY <1>1 DEF Behind, MqttFrames
  <2>3. CASE f \in Known
    <3>1. f[2] <= sent[f[1]] /\ \A i \in 1..Len(wire[f[1]]) : f[2] < wire[f[1]][i]
      BY <2>3 DEF TransitInv, Behind
    <3>2. f[1] \in Brokers
      BY MqttPair
    <3> QED BY <2>2, <3>1, <3>2
  <2>4. CASE f = Incoming(b)
    <3>1. f[1] = b /\ f[2] = w[1]
      BY <1>6, <2>4
    <3> QED BY <1>3, <1>4, <1>5, <1>8, <3>1
  <2> QED BY <2>1, <2>3, <2>4
<1>11. HoldInv'
  <2>1. Incoming(b)[1] = b /\ Incoming(b) # None
    BY <1>6, NoFrameAssumption, MqttPair
  <2> HIDE DEF Incoming
  <2>2. CASE /\ client' = [client EXCEPT ![b] = "sending"]
             /\ holding' = [holding EXCEPT ![b] = Incoming(b)]
    <3>1. /\ client' \in [Brokers -> {"absent", "connecting", "polling", "sending", "sleeping", "dead"}]
          /\ holding' \in [Brokers -> MqttFrames \union {None}]
      BY <1>6, <2>2 DEF TransitInv, HoldInv
    <3>2. /\ client'[b] = "sending" /\ holding'[b] = Incoming(b)
          /\ \A c \in Brokers \ {b} : client'[c] = client[c] /\ holding'[c] = holding[c]
      BY <2>2 DEF TransitInv, HoldInv
    <3> QED BY <2>1, <3>1, <3>2 DEF TransitInv, HoldInv
  <2>3. CASE holding' = holding /\ (client' = client \/ \E label \in {"dead", "polling", "sleeping"} :
               client' = [client EXCEPT ![b] = label])
    BY <1>1, <2>3 DEF TransitInv, HoldInv
  <2> QED BY <1>7, <2>2, <2>3
<1>12. PhaseInv' /\ QueueInv' /\ WorkInv' /\ StoreInv'
  BY <1>1 DEF TransitInv, PhaseInv, QueueInv, WorkInv, StoreInv, Up,
    queue, writing, sender, store
<1> QED BY <1>9, <1>10, <1>11, <1>12 DEF TransitInv

LEMMA PollTransit == ASSUME TransitInv, NEW b \in Brokers, Poll(b) PROVE TransitInv'
<1>1. CASE Drops(b, AfterMessage(Incoming(b))) /\ UNCHANGED holding
  BY <1>1, ConnectionTransit
<1>2. CASE wire' = [wire EXCEPT ![b] = Tail(@)] /\ UNCHANGED session
  BY <1>2, TakeTransit
<1> QED BY <1>1, <1>2 DEF Poll

LEMMA SentTransit == ASSUME TransitInv, NEW b \in Brokers, Sending(b), Sent(b) PROVE HoldInv'
<1>1. /\ client' = [client EXCEPT ![b] = "polling"]
      /\ holding' = [holding EXCEPT ![b] = None]
  BY DEF Sent
<1>2. /\ client' \in [Brokers -> {"absent", "connecting", "polling", "sending", "sleeping", "dead"}]
      /\ holding' \in [Brokers -> MqttFrames \union {None}]
  BY <1>1 DEF TransitInv, HoldInv
<1>3. /\ client'[b] = "polling" /\ holding'[b] = None
      /\ \A c \in Brokers \ {b} : client'[c] = client[c] /\ holding'[c] = holding[c]
  BY <1>1 DEF TransitInv, HoldInv
<1> QED BY <1>2, <1>3 DEF TransitInv, HoldInv

LEMMA SendTransit ==
  ASSUME TransitInv, NEW b \in Brokers, SendToChannel(b) \/ SendFails(b) PROVE TransitInv'
<1> DEFINE h == holding[b]
<1>1. /\ Sending(b) /\ Sent(b) /\ client[b] = "sending"
      /\ UNCHANGED <<phase, sent, session, wire, receiver, writing, sender, store, faults>>
  BY DEF SendToChannel, SendFails, Sending, Sent
<1>2. HoldInv' /\ h \in MqttFrames
  BY <1>1, SentTransit DEF TransitInv, HoldInv
<1>3. \A c \in Brokers : holding'[c] \in {holding[c], None}
  BY <1>1 DEF Sent, TransitInv, HoldInv
<1>4. CASE SendToChannel(b)
  <2>1. receiver /\ Len(channel) < Capacity /\ channel' = Append(channel, h) /\ refused' = refused
    BY <1>4 DEF SendToChannel, Room, Put
  <2>2. channel \in Seq(MqttFrames) /\ Len(channel) \in Nat
    BY LenProperties DEF TransitInv, QueueInv
  <2> HIDE DEF h
  <2>3. /\ channel' \in Seq(MqttFrames) /\ Len(channel') = Len(channel) + 1
        /\ \A i \in 1..Len(channel') : \/ i \in 1..Len(channel) /\ channel'[i] = channel[i]
                                       \/ channel'[i] = h
    BY <1>2, <2>1, <2>2
  <2>4. QueueInv'
    <3>1. Len(channel') <= Capacity
      BY <2>1, <2>2, <2>3, CapacityAssumption
    <3> QED BY <1>1, <2>1, <2>3, <3>1 DEF QueueInv
  <2>5. Known' \subseteq Known \union {None}
    <3>1. {channel'[i] : i \in 1..Len(channel')} \subseteq {channel[i] : i \in 1..Len(channel)} \union {h}
      BY <2>3
    <3>2. UNCHANGED <<pc, work, written>>
      BY <1>1 DEF writing, store
    <3> QED BY <1>3, <2>1, <3>1, <3>2 DEF Known, Underway, h
  <2>6. WireInv' /\ Behind'
    <3>1. MqttFrames \intersect Known' \subseteq Known
      BY <2>5, NoFrameAssumption, MqttPair
    <3> QED BY <1>1, <3>1, BehindCalm DEF TransitInv
  <2>7. PhaseInv' /\ WorkInv' /\ StoreInv'
    BY <1>1, <2>1 DEF TransitInv, PhaseInv, WorkInv, StoreInv, Up, writing, sender, store
  <2> QED BY <1>2, <2>4, <2>6, <2>7 DEF TransitInv
<1>5. CASE SendFails(b)
  <2>1. channel' = channel /\ refused' = refused \union {h}
    BY <1>5 DEF SendFails
  <2>2. UNCHANGED <<pc, work, written>>
    BY <1>1 DEF writing, store
  <2>3. Known' \subseteq Known \union {None}
    BY <1>3, <2>1, <2>2 DEF Known, Underway
  <2>4. WireInv' /\ Behind'
    <3>1. MqttFrames \intersect Known' \subseteq Known
      BY <2>3, NoFrameAssumption, MqttPair
    <3> QED BY <1>1, <3>1, BehindCalm DEF TransitInv
  <2>5. StoreInv'
    <3>1. h \in Frames
      BY <1>2, MqttPair
    <3> QED BY <1>1, <2>1, <3>1 DEF TransitInv, StoreInv, Up, store
  <2>6. PhaseInv' /\ QueueInv' /\ WorkInv'
    BY <1>1, <2>1 DEF TransitInv, PhaseInv, QueueInv, WorkInv, Up, writing, sender
  <2> QED BY <1>2, <2>4, <2>5, <2>6 DEF TransitInv
<1> QED BY <1>4, <1>5

LEMMA ReceiveTransit == ASSUME TransitInv, Receive PROVE TransitInv'
<1> DEFINE f == Head(channel)
<1>1. /\ receiver /\ pc[Processor] = "idle" /\ channel # <<>>
      /\ pc' = [pc EXCEPT ![Processor] = "append"] /\ work' = [work EXCEPT ![Processor] = f]
      /\ channel' = Tail(channel) /\ Up
      /\ UNCHANGED <<phase, sent, session, wire, client, holding, receiver, sender, store,
                     refused, faults>>
  BY DEF Receive, Goto, connection
<1>2. channel \in Seq(MqttFrames) /\ Len(channel) \in Nat /\ Len(channel) <= Capacity
  BY LenProperties DEF TransitInv, QueueInv
<1>3. /\ f = channel[1] /\ 1 \in 1..Len(channel) /\ f \in MqttFrames
      /\ channel' \in Seq(MqttFrames) /\ Len(channel') = Len(channel) - 1
      /\ \A i \in 1..Len(channel') : i + 1 \in 1..Len(channel) /\ channel'[i] = channel[i + 1]
  <2>1. Len(channel) > 0
    BY <1>1, <1>2, EmptySeq, LenProperties
  <2> QED BY <1>1, <1>2, <2>1, HeadTailProperties, ElementOfSeq
<1> HIDE DEF f
<1>4. f \in Frames /\ Processor \in Tasks
  BY <1>3, MqttPair, WritersAre, TasksAre
<1>5. /\ pc' \in [Tasks -> Labels] /\ work' \in [Tasks -> Frames \union {None}]
      /\ pc'[Processor] = "append" /\ work'[Processor] = f
      /\ \A t \in Tasks \ {Processor} : pc'[t] = pc[t] /\ work'[t] = work[t]
  BY <1>1, <1>4 DEF TransitInv, WorkInv, Labels
<1>6. WorkInv'
  <2>1. /\ \A t \in Attempts : t \in Tasks \ {Processor}
        /\ Writers \subseteq Tasks /\ Timer \in Tasks \ {Processor} /\ Main \in Tasks \ {Processor}
    BY TasksAre, WritersAre
  <2>2. UNCHANGED <<phase, receiver>>
    BY <1>1
  <2> QED BY <1>1, <1>3, <1>5, <2>1, <2>2, Timer # Processor DEF TransitInv, WorkInv, Up
<1>7. QueueInv'
  <2>1. Len(channel') <= Capacity
    BY <1>2, <1>3, CapacityAssumption
  <2> QED BY <1>1, <1>3, <2>1 DEF QueueInv
<1>8. WireInv' /\ Behind'
  <2>1. Known' \subseteq Known
    <3>1. {channel'[i] : i \in 1..Len(channel')} \subseteq {channel[i] : i \in 1..Len(channel)}
      BY <1>3
    <3>2. f \in {channel[i] : i \in 1..Len(channel)}
      BY <1>3
    <3> QED BY <1>1, <1>5, <3>1, <3>2 DEF Known, Underway, store
  <2> QED BY <1>1, <2>1, BehindCalm DEF TransitInv
<1>9. PhaseInv' /\ HoldInv' /\ StoreInv'
  BY <1>1 DEF TransitInv, PhaseInv, HoldInv, StoreInv, Up, sender, store
<1> QED BY <1>6, <1>7, <1>8, <1>9 DEF TransitInv

\* Steps of one task that leave the channel alone.
LEMMA TaskTransit ==
  ASSUME TransitInv, NEW t \in Tasks, NEW label \in Labels \ {"append"},
         NEW f \in {work[t], None}, Moves(t, label, f),
         label \in {"answer", "apologize"} => t \in Attempts, label = "dead" => t = Timer,
         label \in {"insert", "full"} => t \in Writers, label = "insert" => f \in Frames,
         t \in Writers /\ label # "idle" => pc[t] # "idle",
         t = Main /\ label # "idle" => phase = "stopping",
         Up, phase' = IF t = Main /\ label = "idle" THEN "flushed" ELSE phase,
         UNCHANGED <<sent, session, wire, client, holding, queue, sender>>,
         faults' \in 0..MaxFaults, StoreInv',
         written' \union refused' \subseteq
           written \union refused \union (IF pc[t] = "append" THEN {work[t]} ELSE {})
  PROVE  TransitInv'
<1>1. \A u \in Tasks : /\ pc'[u] = (IF u = t THEN label ELSE pc[u])
                            \/ (u # t /\ pc[u] = "swap" /\ pc'[u] = "stray")
                       /\ work'[u] = IF u = t THEN f ELSE work[u]
  BY DEF Moves, OthersStay
<1>2. pc' \in [Tasks -> Labels] /\ work' \in [Tasks -> Frames \union {None}]
  <2>1. \A u \in Tasks : pc'[u] \in Labels /\ work'[u] \in Frames \union {None}
    BY <1>1 DEF TransitInv, WorkInv, Labels
  <2> QED BY <2>1 DEF Moves
<1>3. WorkInv'
  <2>1. Up' /\ receiver' = receiver
    BY DEF Up, queue
  <2>2. /\ pc'[Processor] \notin {"answer", "apologize"}
        /\ pc'[Processor] # "idle" => receiver'
        /\ pc'[Processor] = "append" => work'[Processor] \in MqttFrames
    BY <1>1, <2>1, TasksAre, WritersAre DEF TransitInv, WorkInv
  <2>3. \A u \in Attempts : pc'[u] = "append" => work'[u] = u
    BY <1>1, NoAttempt DEF TransitInv, WorkInv
  <2>4. \A u \in Tasks : (pc'[u] = "dead" => u = Timer) /\ (pc'[u] # "idle" => Up')
    BY <1>1, <2>1 DEF TransitInv, WorkInv
  <2>5. \A u \in {Timer, Main} : pc'[u] \notin {"append", "insert", "full"}
    BY <1>1, TasksAre DEF TransitInv, WorkInv
  <2>6. \A w \in Writers : pc'[w] = "insert" => work'[w] \in Frames
    BY <1>1, TasksAre DEF TransitInv, WorkInv
  <2>7. pc'[Main] # "idle" => phase' = "stopping"
    BY <1>1, TasksAre DEF TransitInv, WorkInv
  <2> QED BY <1>2, <2>2, <2>3, <2>4, <2>5, <2>6, <2>7 DEF WorkInv
<1>4. WireInv' /\ Behind'
  <2>1. pc'[Processor] = "append" => pc[Processor] = "append" /\ work'[Processor] = work[Processor]
    BY <1>1, TasksAre, WritersAre
  <2>2. ASSUME NEW g \in MqttFrames, g \in Known' PROVE g \in Known
    <3>1. CASE t = Processor
      BY <2>1, <2>2, <3>1 DEF Known, Underway, queue
    <3>2. CASE t # Processor
      <4>1. pc[t] = "append" => t \in Attempts /\ work[t] = t
        BY <3>2, TasksAre DEF TransitInv, WorkInv, Writers
      <4>2. t \in Attempts => g # t
        BY NoAttempt
      <4> QED BY <2>1, <2>2, <4>1, <4>2 DEF Known, Underway, queue
    <3> QED BY <3>1, <3>2
  <2> QED BY <2>2, BehindCalm DEF TransitInv
<1>5. PhaseInv' /\ HoldInv' /\ QueueInv'
  BY DEF TransitInv, PhaseInv, HoldInv, QueueInv, Up, queue, sender
<1> QED BY <1>3, <1>4, <1>5 DEF TransitInv

\* A task returns from write or flush_memtable.
LEMMA ReturnTransit ==
  ASSUME TransitInv, NEW t \in Tasks, NEW ok \in BOOLEAN, Return(t, ok),
         pc[t] # "idle", Up,
         UNCHANGED <<sent, session, wire, client, holding, queue, sender>>,
         faults' \in 0..MaxFaults, StoreInv',
         written' \union refused' \subseteq
           written \union refused \union (IF pc[t] = "append" THEN {work[t]} ELSE {})
  PROVE  TransitInv'
<1> DEFINE label == After(t, ok)
<1>1. Moves(t, label, None)
  BY Moved DEF TransitInv, WorkInv, AnswerType, Return, Goto, Leaves, Moves, OthersStay
<1>2. /\ label \in Labels \ {"append", "dead", "insert", "full"}
      /\ label \in {"answer", "apologize"} => t \in Attempts
      /\ t = Main => label = "idle"
  BY Returns, TasksAre, WritersAre DEF Labels
<1>3. phase' = IF t = Main /\ label = "idle" THEN "flushed" ELSE phase
  BY <1>2 DEF Return, Leaves
<1> HIDE DEF label
<1> QED BY <1>1, <1>2, <1>3, TaskTransit

\* A task goes on with the frame it has.
LEMMA GotoTransit ==
  ASSUME TransitInv, NEW t \in Tasks,
         NEW label \in {"insert", "full", "copy", "clear", "truncate"}, Goto(t, label),
         label \in {"insert", "full"} => t \in Writers, label = "insert" => work[t] \in Frames,
         t \in Writers => pc[t] # "idle", t = Main => phase = "stopping", Up,
         UNCHANGED <<phase, work, sent, session, wire, client, holding, queue, sender>>,
         faults' \in 0..MaxFaults, StoreInv',
         written' \union refused' \subseteq
           written \union refused \union (IF pc[t] = "append" THEN {work[t]} ELSE {})
  PROVE  TransitInv'
<1>1. Moves(t, label, work[t])
  BY DEF TransitInv, WorkInv, Goto, Moves, OthersStay
<1>2. label \in Labels \ {"append", "idle", "dead", "answer", "apologize"}
  BY DEF Labels
<1> QED BY <1>1, <1>2, TaskTransit

LEMMA AppendTransit == ASSUME TransitInv, NEW w \in Writers, AppendLog(w) PROVE TransitInv'
<1> DEFINE f == work[w]
<1>1. /\ pc[w] = "append" /\ Up /\ w \in Tasks /\ w # Main
      /\ UNCHANGED <<sent, session, wire, client, holding, queue, sender, memtable, tables, attached>>
  BY TasksAre DEF AppendLog, Outside
<1>2. f \in Frames
  BY <1>1, MqttPair, NoAttempt DEF TransitInv, WorkInv, Writers
<1>3. CASE /\ log' = IF attached THEN log \union {f} ELSE log
           /\ written' = written \union {f}
           /\ exposed' = IF FlushRunning \/ ~attached THEN exposed \union {f} ELSE exposed
           /\ Goto(w, "insert")
           /\ UNCHANGED <<phase, work, torn, refused, faults>>
  <2>1. StoreInv' /\ faults' \in 0..MaxFaults
    BY <1>1, <1>2, <1>3 DEF TransitInv, StoreInv, PhaseInv
  <2>2. written' \union refused' \subseteq written \union refused \union (IF pc[w] = "append" THEN {work[w]} ELSE {})
    BY <1>1, <1>3
  <2> QED BY <1>1, <1>2, <1>3, <2>1, <2>2, GotoTransit
<1>4. CASE /\ Fault
           /\ Return(w, AfterRefusal)
           /\ refused' = refused \union {f}
           /\ torn' = (torn \/ attached)
           /\ log' \in {log, IF attached THEN log \union {f} ELSE log}
           /\ exposed' = exposed \union (log' \ log)
           /\ UNCHANGED written
  <2>1. log' \subseteq log \union {f}
    BY <1>4
  <2>2. StoreInv' /\ faults' \in 0..MaxFaults
    BY <1>1, <1>2, <1>4, <2>1, FaultTransit DEF TransitInv, StoreInv, PhaseInv
  <2>3. written' \union refused' \subseteq written \union refused \union (IF pc[w] = "append" THEN {work[w]} ELSE {})
    BY <1>1, <1>4
  <2> QED BY <1>1, <1>4, <2>2, <2>3, ReturnTransit DEF AfterRefusal
<1> QED BY <1>3, <1>4 DEF AppendLog

LEMMA InsertTransit == ASSUME TransitInv, NEW w \in Writers, Insert(w) PROVE TransitInv'
<1>1. /\ pc[w] = "insert" /\ Up /\ w \in Tasks /\ w # Main /\ Goto(w, "full") /\ work[w] \in Frames
      /\ UNCHANGED <<phase, work, sent, session, wire, client, holding, queue, sender, written, refused,
                     faults, tables, log, attached, torn>>
  BY TasksAre DEF Insert, Outside, TransitInv, WorkInv
<1>2. memtable' = memtable \union {work[w]} /\ exposed' \subseteq exposed \union {work[w]}
  BY DEF Insert
<1>3. StoreInv' /\ faults' \in 0..MaxFaults
  BY <1>1, <1>2 DEF TransitInv, StoreInv, PhaseInv
<1> QED BY <1>1, <1>3, GotoTransit

LEMMA FullTransit == ASSUME TransitInv, NEW w \in Writers, CheckFull(w) PROVE TransitInv'
<1>1. /\ pc[w] = "full" /\ Up /\ w \in Tasks /\ w # Main
      /\ UNCHANGED <<sent, session, wire, client, holding, queue, sender, store, refused, faults>>
  BY TasksAre DEF CheckFull, Outside
<1>2. StoreInv' /\ faults' \in 0..MaxFaults /\ UNCHANGED <<written, refused>>
  BY <1>1 DEF TransitInv, StoreInv, PhaseInv, store
<1>3. CASE Goto(w, "copy") /\ UNCHANGED <<phase, work>>
  BY <1>1, <1>2, <1>3, GotoTransit
<1>4. CASE Return(w, TRUE)
  BY <1>1, <1>2, <1>4, ReturnTransit
<1> QED BY <1>3, <1>4 DEF CheckFull

LEMMA PublishesTransit == ASSUME TransitInv, NEW t \in Tasks, FlushPublish(t) PROVE TransitInv'
<1>1. /\ pc[t] = "copy" /\ Up
      /\ UNCHANGED <<sent, session, wire, client, holding, queue, sender, memtable, log, attached, torn,
                     written, refused>>
  BY DEF FlushPublish, Outside
<1>2. t = Main => phase = "stopping"
  BY <1>1 DEF TransitInv, WorkInv
<1>3. faults' \in 0..MaxFaults
  BY FaultTransit DEF FlushPublish, TransitInv, PhaseInv
<1>4. CASE /\ tables' = tables \union memtable
           /\ exposed' = exposed \union {work[w] : w \in {w \in Writers : pc[w] = "insert"}}
           /\ Goto(t, "clear")
           /\ UNCHANGED <<phase, work>>
  <2>1. {work[w] : w \in {w \in Writers : pc[w] = "insert"}} \subseteq Frames
    BY DEF TransitInv, WorkInv
  <2>2. StoreInv'
    BY <1>1, <1>4, <2>1 DEF TransitInv, StoreInv
  <2> QED BY <1>1, <1>2, <1>3, <1>4, <2>2, GotoTransit
<1>5. CASE Return(t, FALSE) /\ UNCHANGED <<tables, exposed>>
  <2>1. StoreInv'
    BY <1>1, <1>5 DEF TransitInv, StoreInv
  <2> QED BY <1>1, <1>3, <1>5, <2>1, ReturnTransit
<1> QED BY <1>4, <1>5 DEF FlushPublish

LEMMA ClearTransit == ASSUME TransitInv, NEW t \in Tasks, FlushClear(t) PROVE TransitInv'
<1>1. /\ pc[t] = "clear" /\ Up /\ Goto(t, "truncate") /\ memtable' = {}
      /\ UNCHANGED <<phase, work, sent, session, wire, client, holding, queue, sender, tables, log, attached,
                     torn, written, exposed, refused, faults>>
  BY DEF FlushClear, Outside
<1>2. StoreInv' /\ faults' \in 0..MaxFaults /\ (t = Main => phase = "stopping")
  BY <1>1 DEF TransitInv, StoreInv, PhaseInv, WorkInv
<1> QED BY <1>1, <1>2, GotoTransit

LEMMA TruncateTransit == ASSUME TransitInv, NEW t \in Tasks, FlushTruncate(t) PROVE TransitInv'
<1>1. /\ pc[t] = "truncate" /\ Up
      /\ UNCHANGED <<sent, session, wire, client, holding, queue, sender, memtable, tables, written,
                     exposed, refused>>
  BY DEF FlushTruncate, Outside
<1>2. faults' \in 0..MaxFaults
  BY FaultTransit DEF FlushTruncate, TransitInv, PhaseInv
<1>3. StoreInv'
  BY <1>1 DEF FlushTruncate, NewLog, TransitInv, StoreInv
<1>4. t = Main => phase = "stopping"
  BY <1>1 DEF TransitInv, WorkInv
<1>5. CASE NewLog(t, "swap") /\ UNCHANGED <<phase, work>>
  <2>1. Moves(t, "swap", work[t])
    BY <1>5 DEF NewLog, TransitInv, WorkInv, Moves, OthersStay
  <2>2. "swap" \in Labels \ {"append"}
    BY DEF Labels
  <2> QED BY <1>1, <1>2, <1>3, <1>4, <1>5, <2>1, <2>2, TaskTransit
<1>6. CASE NewLog(t, After(t, FALSE)) /\ Leaves(t)
  <2> DEFINE label == After(t, FALSE)
  <2>1. Moves(t, label, None)
    BY <1>6 DEF NewLog, Leaves, TransitInv, WorkInv, Moves, OthersStay
  <2>2. /\ label \in Labels \ {"append", "dead", "insert", "full"}
        /\ label \in {"answer", "apologize"} => t \in Attempts
        /\ t = Main => label = "idle"
    BY Returns, TasksAre, WritersAre DEF Labels
  <2>3. phase' = IF t = Main /\ label = "idle" THEN "flushed" ELSE phase
    BY <1>6, <2>2 DEF Leaves
  <2> HIDE DEF label
  <2> QED BY <1>1, <1>2, <1>3, <1>4, <2>1, <2>2, <2>3, TaskTransit
<1>7. CASE Return(t, FALSE)
  BY <1>1, <1>2, <1>3, <1>7, ReturnTransit
<1> QED BY <1>5, <1>6, <1>7 DEF FlushTruncate

LEMMA SwapTransit == ASSUME TransitInv, NEW t \in Tasks, FlushSwap(t) PROVE TransitInv'
<1>1. /\ pc[t] \in {"swap", "stray"} /\ Up /\ attached' \in BOOLEAN
      /\ UNCHANGED <<sent, session, wire, client, holding, queue, sender, memtable, tables, log, torn, written,
                     exposed, refused>>
  BY DEF FlushSwap, Swaps, Outside
<1>2. faults' \in 0..MaxFaults /\ StoreInv'
  BY <1>1, FaultTransit DEF FlushSwap, TransitInv, PhaseInv, StoreInv
<1>3. \E ok \in BOOLEAN : Return(t, ok)
  BY DEF FlushSwap
<1> QED BY <1>1, <1>2, <1>3, ReturnTransit

LEMMA PanicTransit == ASSUME TransitInv, NEW t \in Tasks, Panic(t) PROVE TransitInv'
<1>1. /\ pc[t] \in {"swap", "stray"} /\ Up /\ attached' \in BOOLEAN /\ t # Main
      /\ receiver' = (receiver /\ t # Processor)
      /\ channel' = IF t = Processor THEN <<>> ELSE channel
      /\ UNCHANGED <<sent, session, wire, client, holding, sender, memtable, tables, log, torn, written,
                     exposed, refused>>
  BY DEF Panic, Swaps, Outside
<1>2. faults' \in 0..MaxFaults /\ StoreInv'
  BY <1>1, FaultTransit DEF Panic, TransitInv, StoreInv
<1>3. t # Processor => UNCHANGED queue
  <2>1. receiver \in BOOLEAN
    BY DEF TransitInv, PhaseInv
  <2>2. t # Processor => receiver' = receiver
    BY <1>1, <2>1, Zenon
  <2> QED BY <1>1, <2>2 DEF queue
<1>4. CASE t = Timer
  <2>1. Goto(t, "dead") /\ UNCHANGED <<phase, work>>
    BY <1>4 DEF Panic
  <2>2. Moves(t, "dead", work[t]) /\ "dead" \in Labels \ {"append"}
    BY <2>1 DEF Goto, TransitInv, WorkInv, Moves, OthersStay, Labels
  <2>3. t \notin Writers /\ t # Processor
    BY <1>4, TasksAre, WritersAre
  <2> QED BY <1>1, <1>2, <1>3, <1>4, <2>1, <2>2, <2>3, TaskTransit
<1>5. CASE t \in Attempts
  <2>1. t # Timer /\ t # Processor
    BY <1>5, TasksAre, WritersAre
  <2> QED BY <1>1, <1>2, <1>3, <2>1, ReturnTransit DEF Panic
<1>6. CASE t = Processor
  <2>1. Return(t, FALSE) /\ t # Timer /\ t \in Tasks /\ t \notin Attempts
    BY <1>6, TasksAre, WritersAre DEF Panic
  <2>2. receiver' = FALSE
    BY <1>1, <1>6, Zenon
  <2>3. channel' = <<>> /\ 1..Len(channel') = {}
    <3>1. channel' = <<>>
      BY <1>1, <1>6
    <3> QED BY <3>1
  <2>4. phase' = phase /\ pc' = [pc EXCEPT ![t] = "idle"] /\ work' = [work EXCEPT ![t] = None]
    BY <1>1, <2>1, Returns DEF Return, Goto, Leaves
  <2>5. /\ pc' \in [Tasks -> Labels] /\ work' \in [Tasks -> Frames \union {None}]
        /\ pc'[Processor] = "idle"
        /\ \A u \in Tasks \ {Processor} : pc'[u] = pc[u] /\ work'[u] = work[u]
    BY <1>6, <2>4 DEF TransitInv, WorkInv, Labels
  <2>6. WorkInv'
    <3>1. /\ \A u \in Attempts : u \in Tasks \ {Processor}
          /\ Timer \in Tasks \ {Processor} /\ Main \in Tasks \ {Processor} /\ Writers \subseteq Tasks
      BY TasksAre, WritersAre
    <3> QED BY <2>4, <2>5, <3>1 DEF TransitInv, WorkInv, Up
  <2>7. QueueInv'
    BY <2>3, CapacityAssumption, EmptySeq DEF QueueInv
  <2>8. WireInv' /\ Behind'
    <3>1. Known' \subseteq Known
      BY <1>1, <2>3, <2>5 DEF Known, Underway
    <3> QED BY <1>1, <3>1, BehindCalm DEF TransitInv
  <2>9. PhaseInv' /\ HoldInv'
    BY <1>1, <1>2, <2>2, <2>4 DEF TransitInv, PhaseInv, HoldInv, Up, sender
  <2> QED BY <1>2, <2>6, <2>7, <2>8, <2>9 DEF TransitInv
<1> QED BY <1>1, <1>4, <1>5, <1>6 DEF Tasks, Writers

LEMMA PostTransit == ASSUME TransitInv, NEW r \in Webhooks, Post(r) PROVE TransitInv'
<1> DEFINE task == <<r, attempt[r] + 1>>
<1>1. /\ attempt' = [attempt EXCEPT ![r] = @ + 1] /\ attempt[r] < MaxAttempts /\ Up
      /\ told' = [told EXCEPT ![r] = "waiting"]
      /\ UNCHANGED <<phase, sent, session, wire, client, holding, queue, store, refused, faults>>
  BY DEF Post, connection
<1>2. attempt[r] \in 0..MaxAttempts
  BY DEF TransitInv, PhaseInv
<1>3. task \in Attempts /\ attempt' \in [Webhooks -> 0..MaxAttempts]
  BY <1>1, <1>2, IngestBoundsAssumption DEF TransitInv, PhaseInv, Attempts
<1>4. \/ pc' = [pc EXCEPT ![task] = "append"] /\ work' = [work EXCEPT ![task] = task]
      \/ pc' = [pc EXCEPT ![task] = "apologize"] /\ work' = work
  BY DEF Post, Goto
<1> HIDE DEF task
<1>5. /\ task \in Frames /\ task \in Tasks /\ task \notin {Processor, Timer, Main}
      /\ Processor \in Tasks \ {task} /\ Timer \in Tasks \ {task} /\ Main \in Tasks \ {task}
  BY <1>3, NoAttempt, WritersAre, TasksAre
<1>6. /\ pc' \in [Tasks -> Labels] /\ work' \in [Tasks -> Frames \union {None}]
      /\ \A t \in Tasks \ {task} : pc'[t] = pc[t] /\ work'[t] = work[t]
      /\ pc'[task] \in {"append", "apologize"} /\ (pc'[task] = "append" => work'[task] = task)
  BY <1>4, <1>5 DEF TransitInv, WorkInv, Labels
<1>7. WorkInv'
  <2>1. UNCHANGED <<phase, receiver>> /\ Up'
    BY <1>1 DEF queue, Up
  <2>2. \A t \in Attempts : pc'[t] = "append" => work'[t] = t
    BY <1>6, NoAttempt DEF TransitInv, WorkInv
  <2>3. \A t \in Tasks : (pc'[t] = "dead" => t = Timer) /\ (pc'[t] # "idle" => Up')
    BY <1>6, <2>1 DEF TransitInv, WorkInv
  <2>4. \A w \in Writers : pc'[w] = "insert" => work'[w] \in Frames
    BY <1>6, TasksAre DEF TransitInv, WorkInv
  <2> QED BY <1>5, <1>6, <2>1, <2>2, <2>3, <2>4 DEF TransitInv, WorkInv
<1>8. PhaseInv'
  BY <1>1, <1>3 DEF TransitInv, PhaseInv, Up, queue
<1>9. WireInv' /\ Behind'
  <2>1. Known' = Known
    BY <1>1, <1>5, <1>6 DEF Known, Underway, store, queue
  <2> QED BY <1>1, <2>1, BehindCalm DEF TransitInv
<1>10. HoldInv' /\ QueueInv' /\ StoreInv'
  BY <1>1 DEF TransitInv, HoldInv, QueueInv, StoreInv, queue, store
<1> QED BY <1>7, <1>8, <1>9, <1>10 DEF TransitInv

LEMMA AnswerTransit == ASSUME TransitInv, NEW t \in Attempts, Answer(t) PROVE TransitInv'
<1>1. /\ pc' = [pc EXCEPT ![t] = "idle"]
      /\ told' = told \/ \E label \in {"ok", "failed"} : told' = [told EXCEPT ![t[1]] = label]
      /\ UNCHANGED <<phase, sent, session, wire, client, holding, queue, work, attempt, store,
                     refused, faults>>
  BY DEF Answer, Goto, connection
<1>2. /\ t \in Tasks /\ t # Processor /\ Processor \in Tasks /\ t[1] \in Webhooks
      /\ Timer \in Tasks \ {t} /\ Main \in Tasks \ {t}
  BY NoAttempt, AttemptPair, WritersAre, TasksAre
<1>3. /\ pc' \in [Tasks -> Labels]
      /\ \A u \in Tasks \ {t} : pc'[u] = pc[u]
      /\ pc'[t] = "idle"
  BY <1>1, <1>2 DEF TransitInv, WorkInv, Labels
<1>4. WorkInv'
  BY <1>1, <1>2, <1>3, NoAttempt, TasksAre DEF TransitInv, WorkInv, queue, Up
<1>5. PhaseInv'
  BY <1>1, <1>2 DEF TransitInv, PhaseInv, Up, queue
<1>6. WireInv' /\ Behind'
  <2>1. Known' = Known
    BY <1>1, <1>2, <1>3 DEF Known, Underway, store, queue
  <2> QED BY <1>1, <2>1, BehindCalm DEF TransitInv
<1>7. HoldInv' /\ QueueInv' /\ StoreInv'
  BY <1>1 DEF TransitInv, HoldInv, QueueInv, StoreInv, queue, store
<1> QED BY <1>4, <1>5, <1>6, <1>7 DEF TransitInv

LEMMA PhaseTransit ==
  ASSUME TransitInv, PeriodicFlush \/ FinalFlush \/ Shutdown
  PROVE  TransitInv'
<1>1. /\ Up /\ UNCHANGED <<sent, session, wire, client, holding, queue, sender, work, store, refused, faults>>
  BY DEF PeriodicFlush, FinalFlush, Shutdown, Outside, Up
<1>2. StoreInv' /\ faults' \in 0..MaxFaults /\ UNCHANGED <<written, refused>>
  BY <1>1 DEF TransitInv, StoreInv, PhaseInv, store
<1>3. CASE PeriodicFlush
  <2>1. Goto(Timer, "copy") /\ phase' = phase /\ Timer \in Tasks /\ Timer \notin Writers /\ Timer # Main
    BY <1>3, TasksAre DEF PeriodicFlush
  <2> QED BY <1>1, <1>2, <2>1, GotoTransit
<1>4. CASE FinalFlush /\ Goto(Main, "copy") /\ UNCHANGED phase
  <2>1. phase = "stopping" /\ Main \in Tasks /\ Main \notin Writers
    BY <1>4, TasksAre DEF FinalFlush
  <2> QED BY <1>1, <1>2, <1>4, <2>1, GotoTransit
<1>5. CASE Shutdown \/ (FinalFlush /\ phase' = "flushed" /\ UNCHANGED pc)
  <2>1. /\ Up' /\ phase' \in {"stopping", "flushed"} /\ pc' = pc
        /\ pc[Main] = "idle"
    BY <1>5 DEF Shutdown, FinalFlush, TransitInv, WorkInv, Up
  <2>2. WorkInv'
    BY <1>1, <2>1 DEF TransitInv, WorkInv, queue
  <2>3. WireInv' /\ Behind'
    <3>1. Known' = Known
      BY <1>1, <1>2, <2>1 DEF Known, Underway, queue
    <3> QED BY <1>1, <3>1, BehindCalm DEF TransitInv
  <2>4. PhaseInv' /\ HoldInv' /\ QueueInv'
    BY <1>1, <2>1 DEF TransitInv, PhaseInv, HoldInv, QueueInv, Up, queue, sender
  <2> QED BY <1>2, <2>2, <2>3, <2>4 DEF TransitInv
<1> QED BY <1>3, <1>4, <1>5 DEF FinalFlush

LEMMA StartTransit == ASSUME TransitInv, Start PROVE TransitInv'
<1>1. /\ phase' = "running" /\ phase = "down" /\ receiver' \in BOOLEAN /\ channel' = channel
      /\ memtable' \subseteq log /\ exposed' = exposed \union (log \ memtable')
      /\ UNCHANGED <<sent, session, wire, client, holding, channel, writing, sender, log, tables,
                     attached, torn, written, refused, faults>>
  BY DEF Start, Outside
<1>2. PhaseInv' /\ HoldInv' /\ QueueInv'
  BY <1>1 DEF TransitInv, PhaseInv, HoldInv, QueueInv, Up, sender
<1>5. WorkInv'
  BY <1>1, TasksAre, WritersAre DEF TransitInv, WorkInv, Up, writing
<1>3. StoreInv'
  BY <1>1 DEF TransitInv, StoreInv
<1>4. WireInv' /\ Behind'
  <2>1. Known' = Known
    BY <1>1, KnownCalm DEF writing
  <2> QED BY <1>1, <2>1, BehindCalm DEF TransitInv
<1> QED BY <1>2, <1>3, <1>4, <1>5 DEF TransitInv

LEMMA EndsTransit == ASSUME TransitInv, Ends, faults' \in 0..MaxFaults PROVE TransitInv'
<1>1. /\ phase' = "down" /\ attached' = TRUE /\ receiver' = FALSE /\ channel' = <<>> /\ memtable' = {}
      /\ client' = [b \in Brokers |-> IF client[b] = "absent" THEN "absent" ELSE "connecting"]
      /\ session' = [b \in Brokers |-> FALSE]
      /\ wire' = [b \in Brokers |-> <<>>] /\ holding' = [b \in Brokers |-> None]
      /\ pc' = [t \in Tasks |-> "idle"] /\ work' = [t \in Tasks |-> None]
      /\ told' = [r \in Webhooks |-> IF told[r] = "waiting" THEN "failed" ELSE told[r]]
      /\ UNCHANGED <<sent, attempt, tables, log, torn, written, exposed, refused>>
  BY DEF Ends
<1>2. PhaseInv'
  <2>1. session' \in [Brokers -> BOOLEAN] /\ told' \in [Webhooks -> {"nothing", "waiting", "ok", "failed"}]
    BY <1>1 DEF TransitInv, PhaseInv
  <2> QED BY <1>1, <2>1 DEF TransitInv, PhaseInv
<1>3. WireInv'
  <2>1. wire' \in [Brokers -> Seq(Nat)] /\ \A b \in Brokers : 1..Len(wire'[b]) = {}
    BY <1>1
  <2> QED BY <1>1, <2>1 DEF TransitInv, WireInv
<1>4. HoldInv'
  BY <1>1 DEF HoldInv
<1>5. QueueInv'
  BY <1>1, CapacityAssumption DEF QueueInv
<1>6. WorkInv'
  BY <1>1, WritersAre, TasksAre, NoAttempt DEF WorkInv, Labels
<1>7. StoreInv'
  BY <1>1 DEF TransitInv, StoreInv
<1>8. Behind'
  <2>1. 1..Len(channel') = {} /\ pc'[Processor] = "idle"
    BY <1>1, WritersAre, TasksAre
  <2>2. Known' \subseteq Known \union {None}
    BY <1>1, <2>1 DEF Known, Underway
  <2>3. MqttFrames \intersect Known' \subseteq Known
    BY <2>2, NoFrameAssumption, MqttPair
  <2>4. \A b \in Brokers : sent'[b] = sent[b] /\ sent[b] \in Nat /\ 1..Len(wire'[b]) = {}
    BY <1>1 DEF TransitInv, WireInv
  <2> QED BY <2>3, <2>4, BehindKeeps DEF TransitInv
<1> QED BY <1>2, <1>3, <1>4, <1>5, <1>6, <1>7, <1>8 DEF TransitInv

LEMMA StepTransit == TransitInv /\ [Next]_vars => TransitInv'
<1> SUFFICES ASSUME TransitInv, [Next]_vars PROVE TransitInv'
  OBVIOUS
<1>1. CASE UNCHANGED vars
  <2>1. UNCHANGED <<phase, sent, session, wire, client, holding, channel, receiver, pc, work, attempt,
                    told, memtable, tables, log, attached, torn, written, exposed, refused, faults>>
    BY <1>1 DEF vars, connection, queue, writing, sender, store
  <2>2. Known' = Known
    BY <2>1, KnownCalm
  <2>3. WireInv' /\ Behind'
    BY <2>1, <2>2, BehindCalm DEF TransitInv
  <2>4. PhaseInv' /\ HoldInv' /\ QueueInv' /\ WorkInv' /\ StoreInv'
    BY <2>1 DEF TransitInv, PhaseInv, HoldInv, QueueInv, WorkInv, StoreInv, Up
  <2> QED BY <2>3, <2>4 DEF TransitInv
<1>2. ASSUME NEW b \in Brokers, Client(b) \/ BrokerPublish(b) \/ BrokerDrops(b) PROVE TransitInv'
  BY <1>2, PublishTransit, ConnectionTransit, PollTransit, SendTransit DEF Client
<1>3. ASSUME NEW w \in Writers, Write(w) PROVE TransitInv'
  BY <1>3, AppendTransit, InsertTransit, FullTransit DEF Write
<1>4. CASE Exit \/ Crash
  <2>1. faults' \in 0..MaxFaults
    BY <1>4, FaultTransit DEF Exit, Crash, TransitInv, PhaseInv
  <2> QED BY <1>4, <2>1, EndsTransit DEF Exit, Crash
<1>5. ASSUME NEW t \in Tasks, Flush(t) \/ Panic(t) PROVE TransitInv'
  BY <1>5, PublishesTransit, ClearTransit, TruncateTransit, SwapTransit, PanicTransit DEF Flush
<1> QED
  BY <1>1, <1>2, <1>3, <1>4, <1>5, ReceiveTransit, PostTransit, AnswerTransit, PhaseTransit,
    StartTransit
  DEF Next

THEOREM TransitInductive == Spec => []TransitInv
  BY InitTransit, StepTransit, PTL DEF Spec

\* The types of the ingestion hold, with the channel within its capacity and closed only when
\* it is empty: for all brokers, outboxes, events, capacities and faults.
THEOREM TypesHold == Spec => []IngestTypeOK
  BY TransitInductive, TransitTypes, PTL

----------------------------------------------------------------------------
(* Clients, channel and processor implement Transit                        *)

LEMMA SuffixOf ==
  ASSUME NEW S, NEW v \in Seq(S), NEW h \in Seq(S)
  PROVE  IsSuffix(h, v \o h) /\ h \in Suffixes(v \o h)
<1> DEFINE m == Len(v)
           n == Len(h)
           u == v \o h
           R(s) == [i \in 1..Len(s) |-> s[(Len(s) - i) + 1]]
<1>1. /\ m \in Nat /\ n \in Nat /\ u \in Seq(S) /\ Len(u) = m + n
      /\ \A i \in 1..n : u[m + i] = h[i]
  <2>1. m \in Nat /\ n \in Nat /\ u \in Seq(S) /\ Len(u) = m + n
    BY LenProperties, ConcatProperties
  <2>2. ASSUME NEW i \in 1..n PROVE u[m + i] = h[i]
    BY <2>1
  <2> QED BY <2>1, <2>2
<1>2. \A s \in Seq(S) : /\ R(s) \in Seq(S) /\ Len(R(s)) = Len(s)
                        /\ \A i \in 1..Len(s) : R(s)[i] = s[(Len(s) - i) + 1]
  <2> TAKE s \in Seq(S)
  <2>1. Len(s) \in Nat /\ \A i \in 1..Len(s) : s[i] \in S
    BY LenProperties, ElementOfSeq
  <2>2. \A i \in 1..Len(s) : (Len(s) - i) + 1 \in 1..Len(s)
    BY <2>1
  <2>3. R(s) \in [1..Len(s) -> S]
    BY <2>1, <2>2
  <2>4. R(s) \in Seq(S) /\ Len(R(s)) = Len(s)
    <3>1. DOMAIN R(s) = 1..Len(s)
      OBVIOUS
    <3> HIDE DEF R
    <3>2. R(s) \in Seq(S)
      BY <2>1, <2>3, IsASeq
    <3> QED BY <2>1, <3>1, <3>2, LenProperties
  <2> QED BY <2>4
<1>3. h \in Suffixes(u)
  <2>1. CASE h = <<>>
    BY <2>1 DEF Suffixes
  <2>2. CASE h # <<>>
    <3>1. n > 0 /\ m + 1 \in 1..Len(u)
      BY <1>1, <2>2, EmptySeq
    <3>2. SubSeq(u, m + 1, m + n) = h
      <4> DEFINE q == SubSeq(u, m + 1, m + n)
      <4>1. \A i \in (m + 1)..(m + n) : u[i] \in S
        BY <1>1, ElementOfSeq
      <4>2. q \in Seq(S) /\ Len(q) = n /\ \A i \in 1..n : q[i] = u[m + 1 + i - 1]
        BY <1>1, <3>1, <4>1, SubSeqProperties
      <4>3. \A i \in 1..n : m + 1 + i - 1 = m + i
        BY <1>1
      <4> HIDE DEF q, u
      <4>4. \A i \in 1..n : q[i] = h[i]
        BY <1>1, <4>2, <4>3
      <4>5. q = h
        BY <4>2, <4>4, SeqEqual
      <4> QED BY <4>5 DEF q
    <3> QED BY <1>1, <3>1, <3>2 DEF Suffixes
  <2> QED BY <2>1, <2>2
<1>4. IsSuffix(h, u)
  <2>1. Reverse(h) = R(h) /\ Reverse(u) = R(u)
    BY DEF Reverse
  <2> DEFINE p == R(h)
             q == R(u)
  <2>2. /\ p \in Seq(S) /\ q \in Seq(S) /\ Len(p) = n /\ Len(q) = m + n
        /\ \A i \in 1..n : p[i] = h[(n - i) + 1]
        /\ \A i \in 1..(m + n) : q[i] = u[(m + n - i) + 1]
    <3> HIDE DEF R, u
    <3>1. /\ R(h) \in Seq(S) /\ Len(R(h)) = n
          /\ \A i \in 1..n : R(h)[i] = h[(n - i) + 1]
      BY <1>2
    <3>2. /\ R(u) \in Seq(S) /\ Len(R(u)) = Len(u)
          /\ \A i \in 1..Len(u) : R(u)[i] = u[(Len(u) - i) + 1]
      BY <1>1, <1>2
    <3>3. Len(u) = m + n /\ m \in Nat /\ n \in Nat
      BY <1>1
    <3> HIDE DEF m, n
    <3>4. Len(R(u)) = m + n /\ \A i \in 1..(m + n) : R(u)[i] = u[(m + n - i) + 1]
      BY <3>2, <3>3
    <3> QED BY <3>1, <3>2, <3>4
  <2> HIDE DEF p, q, u, R
  <2>3. \A i \in 1..n : p[i] = q[i]
    <3> TAKE i \in 1..n
    <3>1. (n - i) + 1 \in 1..n /\ i \in 1..(m + n) /\ (m + n - i) + 1 = m + ((n - i) + 1)
      BY <1>1
    <3> QED BY <1>1, <2>2, <3>1
  <2>4. SubSeq(p, 1, n) = SubSeq(q, 1, n)
    <3> DEFINE c == SubSeq(p, 1, n)
               d == SubSeq(q, 1, n)
    <3>1. \A i \in 1..n : p[i] \in S /\ q[i] \in S
      BY <1>1, <2>2, ElementOfSeq
    <3>2. c \in Seq(S) /\ Len(c) = n /\ \A i \in 1..n : c[i] = p[i]
      BY <1>1, <2>2, <3>1, SubSeqProperties
    <3>3. d \in Seq(S) /\ Len(d) = n /\ \A i \in 1..n : d[i] = q[i]
      BY <1>1, <2>2, <3>1, SubSeqProperties
    <3> HIDE DEF c, d
    <3>4. c = d
      BY <2>3, <3>2, <3>3, SeqEqual
    <3> QED BY <3>4 DEF c, d
  <2>5. IsPrefix(p, q)
    BY <1>1, <2>2, <2>4 DEF IsPrefix
  <2> QED BY <2>1, <2>5 DEF IsSuffix, p, q
<1> QED BY <1>3, <1>4

\* The part of Unsettled that the processor has.
Mine(b) == OfBroker(b, Unwritten)
Waiting(b) == OfBroker(b, channel)

\* Processor, channel and client, one after the other.
Shape(b) ==
  /\ Unsettled(b) = Mine(b) \o Waiting(b) \o Held(b)
  /\ Mine(b) \in Seq(MqttFrames) /\ Waiting(b) \in Seq(MqttFrames) /\ Held(b) \in Seq(MqttFrames)
  /\ Mine(b) = IF pc[Processor] = "append" /\ work[Processor][1] = b THEN <<work[Processor]>> ELSE <<>>
Shapes == \A b \in Brokers : Shape(b)

LEMMA Split == TransitInv => Shapes
<1> SUFFICES ASSUME TransitInv, NEW b \in Brokers PROVE Shape(b)
  BY DEF Shapes
<1>1. channel \in Seq(MqttFrames)
  BY DEF TransitInv, QueueInv
<1>2. Unwritten \in Seq(MqttFrames)
  BY EmptySeq DEF TransitInv, WorkInv, Unwritten
<1>3. Held(b) \in Seq(MqttFrames) /\ OfBroker(b, Held(b)) = Held(b)
  <2>1. CASE holding[b] = None
    BY <2>1, OfBrokerEmpty, EmptySeq DEF Held
  <2>2. CASE holding[b] # None
    <3>1. holding[b] \in MqttFrames /\ holding[b][1] = b
      BY <2>2 DEF TransitInv, HoldInv
    <3>2. Held(b) = <<holding[b]>>
      BY <2>2 DEF Held
    <3> QED BY <3>1, <3>2, OfBrokerOne
  <2> QED BY <2>1, <2>2
<1>4. Mine(b) = IF pc[Processor] = "append" /\ work[Processor][1] = b THEN <<work[Processor]>> ELSE <<>>
  BY OfBrokerEmpty, OfBrokerOne DEF Mine, Unwritten
<1>5. Mine(b) \in Seq(MqttFrames) /\ Waiting(b) \in Seq(MqttFrames)
  BY <1>1, <1>2, OfBrokerSeq DEF Mine, Waiting
<1>6. Unsettled(b) = Mine(b) \o Waiting(b) \o Held(b)
  <2>1. Unwritten \o channel \in Seq(MqttFrames)
    BY <1>1, <1>2, ConcatProperties
  <2>2. OfBroker(b, (Unwritten \o channel) \o Held(b)) = OfBroker(b, Unwritten \o channel) \o OfBroker(b, Held(b))
    BY <1>3, <2>1, OfBrokerConcat, ZenonT(30)
  <2>3. OfBroker(b, Unwritten \o channel) = Mine(b) \o Waiting(b)
    BY <1>1, <1>2, OfBrokerConcat DEF Mine, Waiting
  <2> QED BY <1>3, <2>2, <2>3 DEF Unsettled
<1> QED BY <1>3, <1>4, <1>5, <1>6 DEF Shape

LEMMA SplitNext == TransitInv' => Shapes'
  BY Split, PTL

\* The abstract state: what the refinement mapping shows.
AtRest == UNCHANGED Promise!vars

\* Steps that neither move a frame of a broker nor end or start the processor.
LEMMA RestCalm ==
  ASSUME UNCHANGED <<holding, channel, receiver>>, Unwritten' = Unwritten,
         written' \intersect MqttFrames = written \intersect MqttFrames,
         refused' \intersect MqttFrames = refused \intersect MqttFrames
  PROVE  AtRest
<1>1. \A b : Unsettled(b)' = Unsettled(b)
  BY DEF Unsettled, Held
<1> QED BY <1>1 DEF AtRest, Promise!vars

\* A step in which the frames of the broker s alone change.
LEMMA OnlyOne ==
  ASSUME NEW s \in Brokers, NEW u, Unsettled(s)' = u,
         \A b \in Brokers \ {s} : Unsettled(b)' = Unsettled(b)
  PROVE  [b \in Brokers |-> Unsettled(b)]' = [[b \in Brokers |-> Unsettled(b)] EXCEPT ![s] = u]
  OBVIOUS

LEMMA InitRefines == Init => Promise!Init
<1> SUFFICES ASSUME Init PROVE Promise!Init
  OBVIOUS
<1>1. \A b \in Brokers : Unsettled(b) = <<>>
  <2> TAKE b \in Brokers
  <2>1. Unwritten = <<>> /\ channel = <<>> /\ Held(b) = <<>>
    BY WritersAre, TasksAre DEF Init, Unwritten, Held
  <2>2. (<<>> \o <<>>) \o <<>> = <<>>
    OBVIOUS
  <2> QED BY <2>1, <2>2, OfBrokerEmpty DEF Unsettled
<1>2. written \intersect MqttFrames = {} /\ refused \intersect MqttFrames = {} /\ receiver \in BOOLEAN
  BY DEF Init
<1> QED BY <1>1, <1>2 DEF Promise!Init

\* The oldest frame of the broker s leaves.
LEMMA HeadLeaves ==
  ASSUME NEW s \in Brokers, NEW f \in MqttFrames, NEW r \in Seq(MqttFrames),
         Unsettled(s) = <<f>> \o r, Unsettled(s)' = r,
         \A b \in Brokers \ {s} : Unsettled(b)' = Unsettled(b),
         receiver' = receiver
  PROVE  /\ /\ written' \intersect MqttFrames = (written \intersect MqttFrames) \union {f}
            /\ refused' \intersect MqttFrames = refused \intersect MqttFrames
            /\ receiver
            => Promise!Store(s)
         /\ /\ written' \intersect MqttFrames = written \intersect MqttFrames
            /\ refused' \intersect MqttFrames = (refused \intersect MqttFrames) \union {f}
            => Promise!Report(s)
<1> DEFINE T == [b \in Brokers |-> Unsettled(b)]
<1>1. T[s] # <<>> /\ Head(T[s]) = f /\ Tail(T[s]) = r
  <2> DEFINE q == <<f>> \o r
  <2>1. q # <<>> /\ Head(q) = f /\ Tail(q) = r
    OBVIOUS
  <2>2. T[s] = q
    OBVIOUS
  <2> HIDE DEF q, T
  <2> QED BY <2>1, <2>2
<1>2. T' = [T EXCEPT ![s] = r]
  BY OnlyOne
<1>3. T' = [T EXCEPT ![s] = Tail(@)]
  BY <1>1, <1>2
<1> QED BY <1>1, <1>3 DEF Promise!Store, Promise!Report, Promise!Settle

LEMMA PollRefines ==
  ASSUME TransitInv, TransitInv', NEW b \in Brokers, Poll(b)
  PROVE  Promise!Accept(b) \/ AtRest
<1> DEFINE f == Incoming(b)
           T == [c \in Brokers |-> Unsettled(c)]
<1>1. /\ UNCHANGED <<channel, receiver, pc, work, written, refused>>
      /\ Unwritten' = Unwritten /\ client[b] = "polling" /\ wire[b] # <<>>
  BY DEF Poll, queue, writing, store, Unwritten
<1>2. CASE holding' = holding
  BY <1>1, <1>2, RestCalm
<1>3. CASE holding' = [holding EXCEPT ![b] = f]
  <2>1. holding[b] = None
    BY <1>1 DEF TransitInv, HoldInv
  <2>2. holding'[b] = f /\ \A c \in Brokers \ {b} : holding'[c] = holding[c]
    BY <1>3 DEF TransitInv, HoldInv
  <2>3. 1 \in 1..Len(wire[b]) /\ f = <<b, wire[b][1]>> /\ f \in MqttFrames
    <3>1. wire[b] \in Seq(Nat)
      BY DEF TransitInv, WireInv
    <3>2. 1 \in 1..Len(wire[b]) /\ Head(wire[b]) = wire[b][1]
      BY <1>1, <3>1, EmptySeq
    <3>3. wire[b][1] \in 1..Len(Outbox[b])
      BY <3>2 DEF TransitInv, WireInv
    <3> QED BY <3>2, <3>3 DEF Incoming, MqttFrames
  <2>4. f \notin Known
    <3> SUFFICES ASSUME f \in Known PROVE FALSE
      OBVIOUS
    <3>1. f[1] = b /\ f[2] = wire[b][1]
      BY <2>3
    <3>2. f[2] < wire[b][1]
      <4> HIDE DEF f
      <4> QED BY <2>3, <3>1 DEF TransitInv, Behind
    <3>3. wire[b][1] \in Nat
      BY <2>3, ElementOfSeq DEF TransitInv, WireInv
    <3> QED BY <3>1, <3>2, <3>3
  <2> HIDE DEF f
  <2>5. Held(b) = <<>> /\ Held(b)' = <<f>> /\ \A c \in Brokers \ {b} : Held(c)' = Held(c)
    BY <2>1, <2>2, <2>3, NoFrameAssumption, MqttPair DEF Held
  <2>6. \A c \in Brokers \ {b} : Unsettled(c)' = Unsettled(c)
    BY <1>1, <2>5 DEF Unsettled
  <2>7. Unsettled(b)' = Append(Unsettled(b), f)
    <3> DEFINE u == Mine(b) \o Waiting(b)
    <3>1. Shape(b) /\ Shape(b)'
      BY Split, SplitNext DEF Shapes
    <3>2. u \in Seq(MqttFrames)
      BY <3>1, ConcatProperties DEF Shape
    <3>3. Mine(b)' = Mine(b) /\ Waiting(b)' = Waiting(b)
      BY <1>1 DEF Mine, Waiting
    <3>4. Unsettled(b)' = u \o <<f>> /\ Unsettled(b) = u \o <<>>
      BY <2>5, <3>1, <3>3 DEF Shape
    <3> HIDE DEF u
    <3>5. u \o <<f>> = Append(u, f) /\ u \o <<>> = u
      BY <2>3, <3>2, AppendIsConcat, ConcatEmptySeq
    <3> QED BY <3>4, <3>5
  <2>8. \A c \in Brokers : f \notin Range(T[c])
    <3> TAKE c \in Brokers
    <3> DEFINE S == Underway \ {None}
    <3>1. Held(c) \in Seq(S)
      <4>1. holding[c] # None => holding[c] \in S
        BY DEF Underway
      <4> HIDE DEF S
      <4> QED BY <4>1, EmptySeq DEF Held
    <3>2. channel \in Seq(S)
      <4>1. channel \in Seq(MqttFrames)
        BY DEF TransitInv, QueueInv
      <4>2. \A i \in 1..Len(channel) : channel[i] \in S
        BY <4>1, ElementOfSeq, NoFrameAssumption, MqttPair DEF Underway
      <4> HIDE DEF S
      <4> QED BY <4>1, <4>2
    <3>3. Unwritten \in Seq(S)
      <4>1. pc[Processor] = "append" => work[Processor] \in S
        BY NoFrameAssumption, MqttPair DEF TransitInv, WorkInv, Underway
      <4> HIDE DEF S
      <4> QED BY <4>1, EmptySeq DEF Unwritten
    <3> HIDE DEF S
    <3>4. Unsettled(c) \in Seq(S)
      <4>1. (Unwritten \o channel) \o Held(c) \in Seq(S)
        BY <3>1, <3>2, <3>3, ConcatProperties
      <4> QED BY <4>1, OfBrokerSeq DEF Unsettled
    <3>5. Range(Unsettled(c)) \subseteq S
      BY <3>4, LenProperties, ElementOfSeq DEF Range
    <3>6. T[c] = Unsettled(c)
      OBVIOUS
    <3>7. f \notin S
      BY <2>4 DEF Known, S
    <3> HIDE DEF T
    <3> QED BY <3>5, <3>6, <3>7
  <2>9. f \notin (written \intersect MqttFrames) \union (refused \intersect MqttFrames)
    BY <2>4 DEF Known
  <2>10. T' = [T EXCEPT ![b] = Append(@, f)]
    <3>1. T' = [T EXCEPT ![b] = Append(Unsettled(b), f)]
      BY <2>6, <2>7, OnlyOne
    <3>2. T[b] = Unsettled(b)
      OBVIOUS
    <3> HIDE DEF T
    <3> QED BY <3>1, <3>2
  <2>11. UNCHANGED <<written \intersect MqttFrames, refused \intersect MqttFrames, receiver>>
    BY <1>1
  <2>12. Promise!Accept(b)
    <3> SUFFICES /\ f \notin (written \intersect MqttFrames) \union (refused \intersect MqttFrames)
                 /\ \A c \in Brokers : f \notin Promise!Range(T[c])
                 /\ T' = [T EXCEPT ![b] = Append(@, f)]
                 /\ UNCHANGED <<written \intersect MqttFrames, refused \intersect MqttFrames, receiver>>
      BY <2>3, Zenon DEF Promise!Accept
    <3>1. \A q : Promise!Range(q) = Range(q)
      BY DEF Range, Promise!Range
    <3> HIDE DEF T
    <3> QED BY <2>8, <2>9, <2>10, <2>11, <3>1
  <2> QED BY <2>12
<1> QED BY <1>2, <1>3 DEF Poll

LEMMA SendRefines ==
  ASSUME TransitInv, TransitInv', NEW s \in Brokers, SendToChannel(s) \/ SendFails(s)
  PROVE  Promise!Report(s) \/ AtRest
<1> DEFINE h == holding[s]
<1>1. /\ client[s] = "sending" /\ UNCHANGED <<receiver, pc, work, written>>
      /\ holding' = [holding EXCEPT ![s] = None]
      /\ Unwritten' = Unwritten
  BY DEF SendToChannel, SendFails, Sending, Sent, writing, store, Unwritten
<1>2. h # None /\ h \in MqttFrames /\ h[1] = s
  BY <1>1 DEF TransitInv, HoldInv
<1>3. holding'[s] = None /\ \A b \in Brokers \ {s} : holding'[b] = holding[b]
  BY <1>1 DEF TransitInv, HoldInv
<1>4. Held(s) = <<h>> /\ Held(s)' = <<>> /\ \A b \in Brokers \ {s} : Held(b)' = Held(b)
  BY <1>2, <1>3 DEF Held
<1>5. \A b \in Brokers : Shape(b) /\ Shape(b)' /\ Mine(b)' = Mine(b)
  BY <1>1, Split, SplitNext DEF Shapes, Mine
<1> HIDE DEF h
<1>6. CASE SendToChannel(s)
  <2>1. channel' = Append(channel, h) /\ refused' = refused /\ channel \in Seq(MqttFrames)
    BY <1>6 DEF SendToChannel, Put, TransitInv, QueueInv, h
  <2>2. \A b \in Brokers : Waiting(b)' = IF b = s THEN Append(Waiting(b), h) ELSE Waiting(b)
    BY <1>2, <2>1, OfBrokerAppend DEF Waiting
  <2>3. Unsettled(s)' = Unsettled(s)
    <3> DEFINE m == Mine(s)
               w == Waiting(s)
    <3>1. m \in Seq(MqttFrames) /\ w \in Seq(MqttFrames) /\ <<h>> \in Seq(MqttFrames)
          /\ Append(w, h) \in Seq(MqttFrames)
      <4>1. m \in Seq(MqttFrames) /\ w \in Seq(MqttFrames)
        BY <1>5 DEF Shape
      <4> HIDE DEF m, w
      <4> QED BY <1>2, <4>1, AppendProperties
    <3>2. Unsettled(s) = (m \o w) \o <<h>>
      BY <1>4, <1>5 DEF Shape
    <3>3. Unsettled(s)' = (m \o Append(w, h)) \o <<>>
      BY <1>4, <1>5, <2>2 DEF Shape
    <3> HIDE DEF m, w
    <3>4. (m \o w) \o <<h>> = m \o (w \o <<h>>) /\ w \o <<h>> = Append(w, h)
      BY <1>2, <3>1, ConcatAssociative, AppendIsConcat
    <3>5. (m \o Append(w, h)) \o <<>> = m \o Append(w, h)
      BY <3>1, ConcatProperties, ConcatEmptySeq
    <3> QED BY <3>2, <3>3, <3>4, <3>5
  <2>4. \A b \in Brokers \ {s} : Unsettled(b)' = Unsettled(b)
    BY <1>4, <1>5, <2>2 DEF Shape
  <2>5. \A b \in Brokers : Unsettled(b)' = Unsettled(b)
    BY <2>3, <2>4
  <2> QED BY <1>1, <2>1, <2>5 DEF AtRest, Promise!vars
<1>7. CASE SendFails(s)
  <2>1. ~receiver /\ channel' = channel /\ refused' = refused \union {h}
    BY <1>7 DEF SendFails, h
  <2>2. channel = <<>> /\ pc[Processor] = "idle"
    BY <2>1 DEF TransitInv, QueueInv, WorkInv
  <2>3. \A b \in Brokers : Waiting(b)' = <<>> /\ Waiting(b) = <<>> /\ Mine(b) = <<>>
    BY <1>5, <2>1, <2>2, OfBrokerEmpty DEF Waiting, Shape
  <2>4. Unsettled(s) = <<h>> \o <<>> /\ Unsettled(s)' = <<>>
    <3>1. Unsettled(s) = (<<>> \o <<>>) \o <<h>> /\ Unsettled(s)' = (<<>> \o <<>>) \o <<>>
      BY <1>4, <1>5, <2>3 DEF Shape
    <3>2. (<<>> \o <<>>) \o <<h>> = <<h>> \o <<>> /\ (<<>> \o <<>>) \o <<>> = <<>>
      OBVIOUS
    <3> QED BY <3>1, <3>2
  <2>5. \A b \in Brokers \ {s} : Unsettled(b)' = Unsettled(b)
    BY <1>4, <1>5, <2>3 DEF Shape
  <2>6. /\ written' \intersect MqttFrames = written \intersect MqttFrames
        /\ refused' \intersect MqttFrames = (refused \intersect MqttFrames) \union {h}
    BY <1>1, <1>2, <2>1
  <2>7. <<>> \in Seq(MqttFrames)
    BY EmptySeq
  <2> QED BY <1>1, <1>2, <2>4, <2>5, <2>6, <2>7, HeadLeaves
<1> QED BY <1>6, <1>7

LEMMA ReceiveRefines == ASSUME TransitInv, TransitInv', Receive PROVE AtRest
<1> DEFINE f == Head(channel)
           t == Tail(channel)
<1>1. /\ pc[Processor] = "idle" /\ channel # <<>> /\ channel' = t
      /\ pc' = [pc EXCEPT ![Processor] = "append"] /\ work' = [work EXCEPT ![Processor] = f]
      /\ UNCHANGED <<holding, receiver, written, refused>>
  BY DEF Receive, Goto, connection, store
<1>2. channel \in Seq(MqttFrames) /\ f \in MqttFrames /\ t \in Seq(MqttFrames)
      /\ channel = <<f>> \o t
  <2>1. channel \in Seq(MqttFrames)
    BY DEF TransitInv, QueueInv
  <2>2. f \in MqttFrames /\ t \in Seq(MqttFrames)
    BY <1>1, <2>1, HeadTailProperties
  <2>3. channel = <<f>> \o t
    <3> DEFINE q == <<f>> \o t
               n == Len(channel)
    <3>1. n \in Nat \ {0} /\ Len(t) = n - 1 /\ f = channel[1] /\ \A i \in 1..Len(t) : t[i] = channel[i + 1]
      BY <1>1, <2>1, EmptySeq, HeadTailProperties
    <3> HIDE DEF f, t
    <3>2. q \in Seq(MqttFrames) /\ Len(q) = 1 + Len(t)
          /\ \A i \in 1..(1 + Len(t)) : q[i] = IF i <= 1 THEN f ELSE t[i - 1]
      BY <2>2
    <3>3. Len(q) = n
      BY <3>1, <3>2
    <3>4. ASSUME NEW i \in 1..n PROVE q[i] = channel[i]
      <4>1. i \in 1..(1 + Len(t))
        BY <3>1
      <4>2. CASE i = 1
        BY <3>1, <3>2, <4>1, <4>2
      <4>3. CASE i # 1
        <5>1. i - 1 \in 1..Len(t) /\ i - 1 + 1 = i /\ ~(i <= 1)
          BY <3>1, <4>3
        <5> HIDE DEF q, n
        <5>2. q[i] = t[i - 1]
          BY <3>2, <4>1, <5>1
        <5>3. t[i - 1] = channel[i - 1 + 1]
          BY <3>1, <5>1
        <5> QED BY <5>1, <5>2, <5>3
      <4> QED BY <4>2, <4>3
    <3> HIDE DEF q
    <3>5. q = channel
      BY <2>1, <3>2, <3>3, <3>4, SeqEqual
    <3> QED BY <3>5 DEF q
  <2> QED BY <2>1, <2>2, <2>3
<1>3. pc'[Processor] = "append" /\ work'[Processor] = f
  BY <1>1, WritersAre, TasksAre DEF TransitInv, WorkInv
<1> HIDE DEF f, t
<1>4. \A b \in Brokers : Shape(b) /\ Shape(b)' /\ Held(b)' = Held(b)
  BY <1>1, Split, SplitNext DEF Shapes, Held
<1>5. \A b \in Brokers : Unsettled(b)' = Unsettled(b)
  <2> TAKE b \in Brokers
  <2>1. Mine(b) = <<>> /\ Mine(b)' = IF f[1] = b THEN <<f>> ELSE <<>>
    BY <1>1, <1>3, <1>4 DEF Shape
  <2>2. Waiting(b)' = OfBroker(b, t)
    BY <1>1 DEF Waiting
  <2>3. Waiting(b) = Mine(b)' \o Waiting(b)'
    <3>1. <<f>> \in Seq(MqttFrames)
      BY <1>2
    <3>2. OfBroker(b, <<f>> \o t) = OfBroker(b, <<f>>) \o OfBroker(b, t)
      BY <1>2, <3>1, OfBrokerConcat
    <3> QED BY <1>2, <2>1, <2>2, <3>2, OfBrokerOne DEF Waiting
  <2>4. <<>> \o Waiting(b) = Waiting(b)
    BY <1>4, ConcatEmptySeq DEF Shape
  <2> QED BY <1>4, <2>1, <2>3, <2>4 DEF Shape
<1> QED BY <1>1, <1>5 DEF AtRest, Promise!vars

\* The processor's frame leaves the queue of its broker.
LEMMA ProcessorSettles ==
  ASSUME TransitInv, TransitInv', pc[Processor] = "append", pc'[Processor] # "append",
         UNCHANGED <<holding, channel, receiver>>
  PROVE  \E f \in MqttFrames, s \in Brokers, r \in Seq(MqttFrames) :
           /\ f = work[Processor] /\ receiver
           /\ Unsettled(s) = <<f>> \o r /\ Unsettled(s)' = r
           /\ \A b \in Brokers \ {s} : Unsettled(b)' = Unsettled(b)
<1>1. PICK f \in MqttFrames, s \in Brokers : f = work[Processor] /\ s = f[1] /\ receiver
  BY MqttPair DEF TransitInv, WorkInv
<1>2. \A b \in Brokers : Shape(b) /\ Shape(b)' /\ Waiting(b)' = Waiting(b) /\ Held(b)' = Held(b)
  BY Split, SplitNext DEF Shapes, Waiting, Held
<1>3. \A b \in Brokers : Mine(b) = (IF b = s THEN <<f>> ELSE <<>>) /\ Mine(b)' = <<>>
  BY <1>1, <1>2 DEF Shape
<1>4. \A b \in Brokers \ {s} : Unsettled(b)' = Unsettled(b)
  BY <1>2, <1>3 DEF Shape
<1>5. \E r \in Seq(MqttFrames) : Unsettled(s) = <<f>> \o r /\ Unsettled(s)' = r
  <2> DEFINE w == Waiting(s)
             h == Held(s)
  <2>1. w \in Seq(MqttFrames) /\ h \in Seq(MqttFrames) /\ <<f>> \in Seq(MqttFrames)
    BY <1>1, <1>2 DEF Shape
  <2>2. Unsettled(s) = (<<f>> \o w) \o h
    BY <1>1, <1>2, <1>3 DEF Shape
  <2>3. Unsettled(s)' = (<<>> \o w) \o h
    <3>1. Unsettled(s)' = (Mine(s)' \o Waiting(s)') \o Held(s)'
      BY <1>1, <1>2 DEF Shape
    <3> QED BY <1>1, <1>2, <1>3, <3>1
  <2> HIDE DEF w, h
  <2>4. (<<f>> \o w) \o h = <<f>> \o (w \o h) /\ (<<>> \o w) \o h = w \o h /\ w \o h \in Seq(MqttFrames)
    BY <2>1, ConcatAssociative, ConcatProperties, ConcatEmptySeq
  <2> QED BY <2>2, <2>3, <2>4
<1> QED BY <1>1, <1>4, <1>5

LEMMA AppendRefines ==
  ASSUME TransitInv, TransitInv', NEW w \in Writers, AppendLog(w)
  PROVE  AtRest \/ \E b \in Brokers : Promise!Store(b) \/ Promise!Report(b)
<1> DEFINE g == work[w]
<1>1. /\ pc[w] = "append" /\ UNCHANGED <<holding, channel, receiver>>
      /\ \E label \in {"insert", "idle", "apologize"} : pc' = [pc EXCEPT ![w] = label]
      /\ \A u \in Writers \ {w} : pc'[u] = pc[u] /\ work'[u] = work[u]
  <2>1. /\ pc[w] = "append" /\ UNCHANGED <<holding, channel, receiver>>
    BY DEF AppendLog, Outside, queue
  <2>2. \E label \in {"insert", "idle", "apologize"} : pc' = [pc EXCEPT ![w] = label]
    BY DEF AppendLog, Return, Goto, After, AfterRefusal
  <2>3. work' = work \/ work' = [work EXCEPT ![w] = None]
    BY DEF AppendLog, Return, Leaves
  <2> QED BY <2>1, <2>2, <2>3, TasksAre DEF TransitInv, WorkInv
<1>2. pc'[w] # "append"
  BY <1>1, TasksAre DEF TransitInv, WorkInv
<1>3. \/ written' = written \union {g} /\ refused' = refused
      \/ written' = written /\ refused' = refused \union {g}
  BY DEF AppendLog
<1>4. CASE w = Processor
  <2>1. PICK f \in MqttFrames, s \in Brokers, r \in Seq(MqttFrames) :
          /\ f = g /\ receiver
          /\ Unsettled(s) = <<f>> \o r /\ Unsettled(s)' = r
          /\ \A b \in Brokers \ {s} : Unsettled(b)' = Unsettled(b)
    BY <1>1, <1>2, <1>4, ProcessorSettles
  <2>2. receiver' = receiver
    BY <1>1
  <2> HIDE DEF g
  <2>3. \/ /\ written' \intersect MqttFrames = (written \intersect MqttFrames) \union {f}
           /\ refused' \intersect MqttFrames = refused \intersect MqttFrames
        \/ /\ written' \intersect MqttFrames = written \intersect MqttFrames
           /\ refused' \intersect MqttFrames = (refused \intersect MqttFrames) \union {f}
    BY <1>3, <2>1
  <2>4. Promise!Store(s) \/ Promise!Report(s)
    BY <2>1, <2>2, <2>3, HeadLeaves
  <2> QED BY <2>1, <2>4
<1>5. CASE w # Processor
  <2>1. g \notin MqttFrames
    <3>1. w \in Attempts
      BY <1>5 DEF Writers
    <3> QED BY <1>1, <3>1, NoAttempt DEF TransitInv, WorkInv
  <2>2. Unwritten' = Unwritten
    BY <1>1, <1>5, WritersAre DEF Unwritten
  <2> HIDE DEF g
  <2>3. /\ written' \intersect MqttFrames = written \intersect MqttFrames
        /\ refused' \intersect MqttFrames = refused \intersect MqttFrames
    BY <1>3, <2>1
  <2> QED BY <1>1, <2>2, <2>3, RestCalm
<1> QED BY <1>4, <1>5

\* The frames of the writer and of the channel are lost, those of the clients or not.
LEMMA EndRefines ==
  ASSUME TransitInv, receiver' = FALSE,
         written' = written, refused' = refused,
         \A b \in Brokers : Unsettled(b)' \in {Held(b), <<>>}
  PROVE  Promise!End
<1> DEFINE T == [b \in Brokers |-> Unsettled(b)]
<1>1. ASSUME NEW b \in Brokers
      PROVE  IsSuffix(Unsettled(b)', Unsettled(b)) /\ Unsettled(b)' \in Suffixes(Unsettled(b))
  <2> DEFINE u == Mine(b) \o Waiting(b)
             h == Held(b)
  <2>1. u \in Seq(MqttFrames) /\ h \in Seq(MqttFrames) /\ Unsettled(b) = u \o h
    BY <1>1, Split, ConcatProperties DEF Shapes, Shape
  <2> HIDE DEF u, h
  <2>2. u \o h \in Seq(MqttFrames) /\ (u \o h) \o <<>> = u \o h /\ <<>> \in Seq(MqttFrames)
    BY <2>1, ConcatProperties, ConcatEmptySeq, EmptySeq
  <2>3. IsSuffix(h, u \o h) /\ h \in Suffixes(u \o h)
    BY <2>1, SuffixOf
  <2>4. IsSuffix(<<>>, u \o h) /\ <<>> \in Suffixes(u \o h)
    <3> DEFINE v == u \o h
               e == <<>>
    <3>1. v \in Seq(MqttFrames) /\ e \in Seq(MqttFrames) /\ v \o e = v
      BY <2>2
    <3> HIDE DEF v, e
    <3>2. IsSuffix(e, v \o e) /\ e \in Suffixes(v \o e)
      BY <3>1, SuffixOf
    <3>3. IsSuffix(e, v) /\ e \in Suffixes(v)
      BY <3>1, <3>2
    <3> QED BY <3>3 DEF v, e
  <2>5. Unsettled(b)' = h \/ Unsettled(b)' = <<>>
    BY <1>1 DEF h
  <2> QED BY <2>1, <2>3, <2>4, <2>5
<1>2. \A p, q : /\ Promise!IsSuffix(p, q) <=> IsSuffix(p, q)
                /\ Promise!Suffixes(p) = Suffixes(p)
  BY DEF IsSuffix, Promise!IsSuffix, IsPrefix, Promise!IsPrefix, Reverse, Promise!Reverse,
    Suffixes, Promise!Suffixes
<1>3. T' = [b \in Brokers |-> Unsettled(b)'] /\ \A b \in Brokers : T[b] = Unsettled(b) /\ T'[b] = Unsettled(b)'
  OBVIOUS
<1> HIDE DEF T
<1>4. \A b \in Brokers : Promise!IsSuffix(T'[b], T[b])
  BY <1>1, <1>2, <1>3
<1>5. T' \in [Brokers -> UNION {Promise!Suffixes(T[b]) : b \in Brokers}]
  <2>1. \A b \in Brokers : T'[b] \in Promise!Suffixes(T[b])
    BY <1>1, <1>2, <1>3
  <2> QED BY <1>3, <2>1
<1> QED BY <1>4, <1>5 DEF Promise!End, T

LEMMA PanicRefines ==
  ASSUME TransitInv, TransitInv', NEW t \in Tasks, Panic(t)
  PROVE  AtRest \/ Promise!End
<1>1. /\ pc[t] # "append" /\ UNCHANGED <<holding, written, refused>>
      /\ receiver' = (receiver /\ t # Processor)
      /\ channel' = IF t = Processor THEN <<>> ELSE channel
      /\ \E label \in {"idle", "apologize", "dead", "answer"} : pc' = [pc EXCEPT ![t] = label]
      /\ work' = work \/ work' = [work EXCEPT ![t] = None]
  BY DEF Panic, Swaps, Return, Goto, Leaves, After, Outside
<1>3. CASE t # Processor
  <2>1. receiver' = receiver
    <3>1. receiver \in BOOLEAN
      BY DEF TransitInv, PhaseInv
    <3> QED BY <1>1, <1>3, <3>1, Zenon
  <2>2. Unwritten' = Unwritten
    BY <1>1, <1>3, WritersAre, TasksAre DEF Unwritten, TransitInv, WorkInv
  <2> QED BY <1>1, <1>3, <2>1, <2>2, RestCalm
<1>4. CASE t = Processor
  <2>1. receiver' = FALSE
    BY <1>1, <1>4, Zenon
  <2>2. channel' = <<>> /\ pc'[Processor] # "append"
    BY <1>1, <1>4, WritersAre DEF TransitInv, WorkInv
  <2>3. \A b \in Brokers : Unsettled(b)' = Held(b)
    <3> TAKE b \in Brokers
    <3>1. Shape(b)' /\ Shape(b) /\ Held(b)' = Held(b)
      BY <1>1, Split, SplitNext DEF Shapes, Held
    <3>2. Mine(b)' = <<>> /\ Waiting(b)' = <<>>
      BY <2>2, <3>1, OfBrokerEmpty DEF Shape, Waiting
    <3>3. (<<>> \o <<>>) \o Held(b) = Held(b)
      <4>1. Held(b) \in Seq(MqttFrames)
        BY <3>1 DEF Shape
      <4>2. <<>> \o <<>> = <<>>
        OBVIOUS
      <4> QED BY <4>1, <4>2, ConcatEmptySeq
    <3> QED BY <3>1, <3>2, <3>3 DEF Shape
  <2> QED BY <1>1, <2>1, <2>3, EndRefines
<1> QED BY <1>3, <1>4

LEMMA EndsRefines == ASSUME TransitInv, Ends PROVE Promise!End
<1>1. /\ holding' = [b \in Brokers |-> None] /\ channel' = <<>> /\ receiver' = FALSE
      /\ pc' = [t \in Tasks |-> "idle"] /\ written' = written /\ refused' = refused
  BY DEF Ends
<1>2. \A b \in Brokers : Unsettled(b)' = <<>>
  <2> TAKE b \in Brokers
  <2>1. Unwritten' = <<>> /\ Held(b)' = <<>>
    BY <1>1, WritersAre, TasksAre DEF Unwritten, Held
  <2>2. (<<>> \o <<>>) \o <<>> = <<>>
    OBVIOUS
  <2> QED BY <1>1, <2>1, <2>2, OfBrokerEmpty DEF Unsettled
<1> QED BY <1>1, <1>2, EndRefines

\* Without brokers no processor starts.
LEMMA StartRefines ==
  ASSUME TransitInv, Start
  PROVE  Promise!Resume \/ AtRest
<1>1. /\ ~receiver /\ receiver' \in BOOLEAN
      /\ UNCHANGED <<holding, channel, pc, work, written, refused>>
  BY DEF Start, Outside, writing, TransitInv, PhaseInv, Up
<1>2. \A b \in Brokers : Unsettled(b)' = Unsettled(b)
  BY <1>1 DEF Unsettled, Unwritten, Held
<1>3. CASE receiver'
  BY <1>1, <1>2, <1>3 DEF Promise!Resume
<1>4. CASE ~receiver'
  <2>1. receiver' = receiver /\ Unwritten' = Unwritten
    BY <1>1, <1>4 DEF TransitInv, PhaseInv, Unwritten
  <2> QED BY <1>1, <2>1, RestCalm
<1> QED BY <1>3, <1>4

\* Steps that move no task but those behind their append.
LEMMA Behindhand ==
  ASSUME TransitInv, NEW t \in Tasks, pc[t] # "append", Moves(t, pc'[t], work'[t]), pc'[t] # "append"
  PROVE  Unwritten' = Unwritten
<1>1. Processor \in Tasks
  BY TasksAre, WritersAre
<1> QED BY <1>1 DEF Unwritten, Moves, OthersStay

\* Everything else is no step of Transit.
LEMMA WriteRefines ==
  ASSUME TransitInv, NEW t \in Tasks,
         \/ Insert(t) \/ CheckFull(t) \/ Flush(t)
  PROVE  AtRest
<1>1. /\ UNCHANGED <<holding, channel, receiver, written, refused>> /\ pc[t] # "append"
  BY DEF Insert, CheckFull, Flush, FlushPublish, FlushClear, FlushTruncate, FlushSwap, Swaps, NewLog, Outside,
    queue, store
<1>2. Moves(t, pc'[t], work'[t]) /\ pc'[t] # "append"
  BY DEF Insert, CheckFull, Flush, FlushPublish, FlushClear, FlushTruncate, FlushSwap, NewLog, Return, Goto,
    Leaves, After, Moves, OthersStay, TransitInv, WorkInv
<1> QED BY <1>1, <1>2, Behindhand, RestCalm

LEMMA CalmRefines ==
  ASSUME TransitInv,
         \/ \E b \in Brokers : \/ BrokerPublish(b) \/ BrokerDrops(b) \/ Connect(b)
                               \/ ConnectionError(b) \/ Reconnect(b)
         \/ \E r \in Webhooks : Post(r)
         \/ \E t \in Attempts : Answer(t)
         \/ PeriodicFlush \/ FinalFlush \/ Shutdown
  PROVE  AtRest
<1>1. UNCHANGED <<holding, channel, receiver, refused, written>>
  BY DEF BrokerPublish, BrokerDrops, Connect, ConnectionError, Reconnect, Outside, Post,
    Answer, PeriodicFlush, FinalFlush, Shutdown, connection, queue, store
<1>2. Unwritten' = Unwritten
  <2>1. CASE \E task \in Tasks : /\ task # Processor
                                 /\ \E label : pc' = [pc EXCEPT ![task] = label]
                                 /\ work' = work \/ work' = [work EXCEPT ![task] = task]
    BY <2>1, WritersAre, TasksAre DEF Unwritten, TransitInv, WorkInv
  <2>2. CASE \E r \in Webhooks : Post(r)
    <3>1. PICK r \in Webhooks : Post(r)
      BY <2>2
    <3> DEFINE task == <<r, attempt[r] + 1>>
    <3>2. attempt[r] \in 0..MaxAttempts /\ attempt[r] < MaxAttempts
      BY <3>1 DEF TransitInv, PhaseInv, Post
    <3>3. task \in Attempts
      BY <3>2, IngestBoundsAssumption DEF Attempts
    <3>4. /\ \E label : pc' = [pc EXCEPT ![task] = label]
          /\ work' = work \/ work' = [work EXCEPT ![task] = task]
      BY <3>1 DEF Post, Goto
    <3> HIDE DEF task
    <3> QED BY <2>1, <3>3, <3>4, NoAttempt
  <2>3. CASE \E t \in Attempts : Answer(t)
    BY <2>1, <2>3, NoAttempt DEF Answer, Goto
  <2>4. CASE PeriodicFlush \/ FinalFlush
    <3>1. UNCHANGED work /\ (pc' = pc \/ \E t \in {Timer, Main} : pc' = [pc EXCEPT ![t] = "copy"])
      BY <2>4 DEF PeriodicFlush, FinalFlush, Goto
    <3>2. \A t \in {Timer, Main} : t \in Tasks /\ t # Processor
      BY TasksAre, WritersAre
    <3> QED BY <2>1, <3>1, <3>2 DEF Unwritten
  <2>5. CASE \/ \E b \in Brokers : \/ BrokerPublish(b) \/ BrokerDrops(b) \/ Connect(b)
                                   \/ ConnectionError(b) \/ Reconnect(b)
             \/ Shutdown
    <3>1. UNCHANGED <<pc, work>>
      BY <2>5 DEF BrokerPublish, BrokerDrops, Connect, ConnectionError, Reconnect, Shutdown, writing
    <3> QED BY <3>1 DEF Unwritten
  <2> QED BY <2>2, <2>3, <2>4, <2>5
<1> QED BY <1>1, <1>2, RestCalm

LEMMA StepRefines == TransitInv /\ TransitInv' /\ [Next]_vars => [Promise!Next]_(Promise!vars)
<1> SUFFICES ASSUME TransitInv, TransitInv', [Next]_vars PROVE Promise!Next \/ AtRest
  BY DEF AtRest
<1>1. CASE UNCHANGED vars
  <2>1. UNCHANGED <<holding, channel, receiver, refused, pc, work, written>>
    BY <1>1 DEF vars, connection, queue, writing, store
  <2>2. Unwritten' = Unwritten
    BY <2>1 DEF Unwritten
  <2> QED BY <2>1, <2>2, RestCalm
<1>2. ASSUME NEW b \in Brokers, Client(b) \/ BrokerPublish(b) \/ BrokerDrops(b)
      PROVE  Promise!Next \/ AtRest
  <2>1. Poll(b) => Promise!Accept(b) \/ AtRest
    BY PollRefines
  <2>2. SendToChannel(b) \/ SendFails(b) => Promise!Report(b) \/ AtRest
    BY SendRefines
  <2> QED BY <1>2, <2>1, <2>2, CalmRefines DEF Client, Promise!Next
<1>3. ASSUME NEW w \in Writers, Write(w) PROVE Promise!Next \/ AtRest
  <2>1. AppendLog(w) => AtRest \/ \E b \in Brokers : Promise!Store(b) \/ Promise!Report(b)
    BY AppendRefines
  <2>2. w \in Tasks
    BY TasksAre
  <2> QED BY <1>3, <2>1, <2>2, WriteRefines DEF Write, Promise!Next
<1>4. ASSUME NEW t \in Tasks, Flush(t) \/ Panic(t) PROVE Promise!Next \/ AtRest
  <2>1. Panic(t) => AtRest \/ Promise!End
    BY PanicRefines
  <2> QED BY <1>4, <2>1, WriteRefines DEF Promise!Next
<1>5. CASE Exit \/ Crash
  BY <1>5, EndsRefines DEF Exit, Crash, Promise!Next
<1>6. CASE Start
  BY <1>6, StartRefines DEF Promise!Next
<1> QED BY <1>1, <1>2, <1>3, <1>4, <1>5, <1>6, ReceiveRefines, CalmRefines DEF Next

\* Clients, channel and processor implement Transit, for all brokers, outboxes, capacities
\* and faults: what a broker's client took in is written to the log in the order it came and at
\* most once, and vanishes without a report only with the processor or the process.
THEOREM Refines == Spec => ImplementsTransit
<1>1. Spec => Init /\ [][Next]_vars
  BY DEF Spec
<1>2. Spec => []TransitInv
  BY TransitInductive
<1> QED BY <1>1, <1>2, InitRefines, StepRefines, PTL DEF ImplementsTransit, Promise!Spec

----------------------------------------------------------------------------
(* The two routes of one event                                             *)

Readables == {f \in Frames : Parse(f).outcome = "frame"}

\* Only what a parser accepted is under way or stored.
ReadInv ==
  /\ \A b \in Brokers : holding[b] \in Readables \union {None}
  /\ \A i \in 1..Len(channel) : channel[i] \in Readables
  /\ \A w \in Writers : pc[w] \in {"append", "insert"} => work[w] \in Readables
  /\ memtable \union Stored \subseteq Readables

LEMMA InitReads == Init => ReadInv
  BY TasksAre DEF Init, ReadInv, Stored

\* One task goes on and everything else stays.
LEMMA TaskReads ==
  ASSUME ReadInv, NEW t \in Tasks, Moves(t, pc'[t], work'[t]),
         t \in Writers /\ pc'[t] \in {"append", "insert"} => work'[t] \in Readables,
         holding' = holding, channel' = channel \/ channel' = <<>>,
         memtable' \union Stored' \subseteq Readables
  PROVE  ReadInv'
<1>1. \A w \in Writers : pc'[w] \in {"append", "insert"} => work'[w] \in Readables
  <2> SUFFICES ASSUME NEW w \in Writers, pc'[w] \in {"append", "insert"} PROVE work'[w] \in Readables
    OBVIOUS
  <2>1. CASE w = t
    BY <2>1
  <2>2. CASE w # t
    BY <2>2, TasksAre DEF ReadInv, Moves, OthersStay
  <2> QED BY <2>1, <2>2
<1>2. \A i \in 1..Len(channel') : channel'[i] \in Readables
  <2>1. CASE channel' = channel
    BY <2>1 DEF ReadInv
  <2>2. CASE channel' = <<>>
    <3>1. 1..Len(channel') = {}
      BY <2>2
    <3> QED BY <3>1
  <2> QED BY <2>1, <2>2
<1> QED BY <1>1, <1>2 DEF ReadInv

LEMMA ClientReads ==
  ASSUME TransitInv, ReadInv, NEW b \in Brokers, Poll(b) \/ SendToChannel(b) \/ SendFails(b)
  PROVE  ReadInv'
<1>1. UNCHANGED <<pc, work, memtable>> /\ Stored' = Stored
  BY DEF Poll, SendToChannel, SendFails, Sent, Stored, writing, store
<1>2. CASE Poll(b)
  <2>1. channel' = channel
    BY <1>2 DEF Poll, queue
  <2>2. CASE holding' = holding
    BY <1>1, <2>1, <2>2 DEF ReadInv
  <2>3. CASE /\ holding' = [holding EXCEPT ![b] = Incoming(b)] /\ client' = [client EXCEPT ![b] = "sending"]
             /\ Parse(Incoming(b)).outcome = "frame"
    <3>1. Incoming(b) \in Frames
      <4>1. TransitInv'
        BY <1>2, PollTransit
      <4>2. holding'[b] = Incoming(b) /\ client'[b] = "sending"
        BY <2>3 DEF TransitInv, HoldInv
      <4> HIDE DEF Incoming
      <4>3. holding'[b] # None /\ holding'[b] \in MqttFrames \union {None}
        BY <4>1, <4>2 DEF TransitInv, HoldInv
      <4> QED BY <4>2, <4>3, MqttPair
    <3>2. Incoming(b) \in Readables
      BY <2>3, <3>1 DEF Readables
    <3>3. \A c \in Brokers : holding'[c] = IF c = b THEN Incoming(b) ELSE holding[c]
      BY <2>3 DEF TransitInv, HoldInv
    <3> QED BY <1>1, <2>1, <3>2, <3>3 DEF ReadInv
  <2> QED BY <1>2, <2>2, <2>3 DEF Poll
<1>3. CASE SendToChannel(b) \/ SendFails(b)
  <2>1. \A c \in Brokers : holding'[c] \in {holding[c], None}
    BY <1>3 DEF SendToChannel, SendFails, Sent, TransitInv, HoldInv
  <2>2. channel' = channel \/ channel' = Append(channel, holding[b])
    BY <1>3 DEF SendToChannel, SendFails, Put
  <2>3. holding[b] \in Readables
    BY <1>3 DEF SendToChannel, SendFails, Sending, ReadInv, TransitInv, HoldInv
  <2>4. \A i \in 1..Len(channel') : channel'[i] \in Readables
    <3>1. channel \in Seq(MqttFrames)
      BY DEF TransitInv, QueueInv
    <3>2. \A i \in 1..Len(channel) : channel[i] \in Readables
      BY DEF ReadInv
    <3> QED BY <2>2, <2>3, <3>1, <3>2
  <2> QED BY <1>1, <2>1, <2>4 DEF ReadInv
<1> QED BY <1>2, <1>3

LEMMA ReceiveReads == ASSUME TransitInv, ReadInv, Receive PROVE ReadInv'
<1>1. /\ channel # <<>> /\ channel' = Tail(channel) /\ UNCHANGED <<holding, memtable>> /\ Stored' = Stored
      /\ pc' = [pc EXCEPT ![Processor] = "append"]
      /\ work' = [work EXCEPT ![Processor] = Head(channel)]
  BY DEF Receive, Goto, connection, store, Stored
<1>2. channel \in Seq(MqttFrames)
  BY DEF TransitInv, QueueInv
<1>3. /\ Head(channel) = channel[1] /\ 1 \in 1..Len(channel)
      /\ \A i \in 1..Len(channel') : i + 1 \in 1..Len(channel) /\ channel'[i] = channel[i + 1]
  BY <1>1, <1>2, EmptySeq, HeadTailProperties
<1>4. Head(channel) \in Readables /\ \A i \in 1..Len(channel') : channel'[i] \in Readables
  BY <1>3 DEF ReadInv
<1>5. \A u \in Writers : /\ pc'[u] = IF u = Processor THEN "append" ELSE pc[u]
                         /\ work'[u] = IF u = Processor THEN Head(channel) ELSE work[u]
  BY <1>1, TasksAre DEF TransitInv, WorkInv
<1> QED BY <1>1, <1>4, <1>5 DEF ReadInv

LEMMA WriteReads ==
  ASSUME TransitInv, ReadInv, NEW t \in Tasks,
         (t \in Writers /\ Write(t)) \/ Flush(t) \/ Panic(t)
  PROVE  ReadInv'
<1>1. Moves(t, pc'[t], work'[t])
  BY DEF Write, AppendLog, Insert, CheckFull, Flush, FlushPublish, FlushClear, FlushTruncate, FlushSwap, NewLog,
    Panic, Return, Goto, Leaves, Moves, OthersStay, TransitInv, WorkInv
<1>2. holding' = holding /\ (channel' = channel \/ channel' = <<>>)
  BY DEF Write, AppendLog, Insert, CheckFull, Flush, FlushPublish, FlushClear, FlushTruncate, FlushSwap,
    Panic, Outside, queue
<1>3. t \in Writers /\ pc'[t] \in {"append", "insert"} => work'[t] \in Readables
  <2>1. CASE AppendLog(t)
    <3>1. pc[t] = "append" /\ ((pc' = [pc EXCEPT ![t] = "insert"] /\ work' = work) \/ Return(t, FALSE))
      BY <2>1 DEF AppendLog, Goto, AfterRefusal
    <3>2. Return(t, FALSE) => pc'[t] \notin {"append", "insert"}
      BY Returns DEF Return, Goto, TransitInv, WorkInv
    <3> QED BY <3>1, <3>2 DEF ReadInv
  <2>2. CASE Insert(t) \/ CheckFull(t) \/ Flush(t) \/ Panic(t)
    <3>1. pc'[t] \notin {"append", "insert"}
      BY <2>2 DEF Insert, CheckFull, Flush, FlushPublish, FlushClear, FlushTruncate, FlushSwap, NewLog, Panic,
        Return, Goto, After, TransitInv, WorkInv
    <3> QED BY <3>1
  <2> QED BY <2>1, <2>2 DEF Write
<1>4. memtable' \union Stored' \subseteq Readables
  <2>1. CASE t \in Writers /\ AppendLog(t)
    <3>1. memtable' = memtable /\ Stored' \subseteq Stored \union {work[t]} /\ pc[t] = "append"
      BY <2>1 DEF AppendLog, Stored
    <3> QED BY <2>1, <3>1 DEF ReadInv
  <2>2. CASE t \in Writers /\ Insert(t)
    <3>1. memtable' = memtable \union {work[t]} /\ Stored' = Stored /\ pc[t] = "insert"
      BY <2>2 DEF Insert, Stored
    <3> QED BY <2>2, <3>1 DEF ReadInv
  <2>3. CASE CheckFull(t) \/ Flush(t) \/ Panic(t)
    <3>1. memtable' \subseteq memtable /\ Stored' \subseteq Stored \union memtable
      BY <2>3 DEF CheckFull, Flush, FlushPublish, FlushClear, FlushTruncate, FlushSwap, Swaps, NewLog, Panic,
        store, Stored
    <3> QED BY <3>1 DEF ReadInv
  <2> QED BY <2>1, <2>2, <2>3 DEF Write
<1> QED BY <1>1, <1>2, <1>3, <1>4, TaskReads

LEMMA PostReads == ASSUME TransitInv, ReadInv, NEW r \in Webhooks, Post(r) PROVE ReadInv'
<1> DEFINE task == <<r, attempt[r] + 1>>
<1>1. UNCHANGED <<holding, channel, memtable>> /\ Stored' = Stored /\ attempt[r] < MaxAttempts
  BY DEF Post, connection, queue, store, Stored
<1>2. task \in Frames
  <2>1. attempt[r] \in 0..MaxAttempts
    BY DEF TransitInv, PhaseInv
  <2>2. task \in Attempts
    BY <1>1, <2>1, IngestBoundsAssumption DEF Attempts
  <2> QED BY <2>2, NoAttempt
<1>3. \/ /\ pc' = [pc EXCEPT ![task] = "append"] /\ work' = [work EXCEPT ![task] = task]
         /\ Parse(task).outcome = "frame"
      \/ pc' = [pc EXCEPT ![task] = "apologize"] /\ work' = work
  BY DEF Post, Goto
<1> HIDE DEF task
<1>4. \A u \in Writers : pc'[u] \in {"append", "insert"} => work'[u] \in Readables
  BY <1>2, <1>3, TasksAre DEF TransitInv, WorkInv, ReadInv, Readables
<1> QED BY <1>1, <1>4 DEF ReadInv

\* Steps that start no write and accept no message.
LEMMA CalmReads ==
  ASSUME TransitInv, ReadInv,
         \/ \E b \in Brokers : \/ BrokerPublish(b) \/ BrokerDrops(b) \/ Connect(b)
                               \/ ConnectionError(b) \/ Reconnect(b)
         \/ \E t \in Attempts : Answer(t)
         \/ PeriodicFlush \/ FinalFlush \/ Shutdown \/ Start
         \/ Ends
         \/ UNCHANGED vars
  PROVE  ReadInv'
<1>1. CASE Ends
  <2>1. /\ \A b \in Brokers : holding'[b] = None
        /\ \A w \in Writers : pc'[w] = "idle"
        /\ channel' = <<>> /\ 1..Len(channel') = {} /\ memtable' = {} /\ Stored' = Stored
    BY <1>1, TasksAre DEF Ends, Stored
  <2> QED BY <2>1 DEF ReadInv
<1>2. CASE ~Ends
  <2>1. UNCHANGED <<holding, channel, work>>
    BY <1>2 DEF BrokerPublish, BrokerDrops, Connect, ConnectionError, Reconnect, Answer, PeriodicFlush,
      FinalFlush, Shutdown, Start, vars, connection, queue, writing, Outside
  <2>2. pc' = pc \/ \E t \in Tasks, label \in {"idle", "copy"} : pc' = [pc EXCEPT ![t] = label]
    <3>1. \A t \in Attempts \union {Timer, Main} : t \in Tasks
      BY TasksAre, WritersAre
    <3> QED BY <1>2, <3>1 DEF BrokerPublish, BrokerDrops, Connect, ConnectionError, Reconnect, Answer, Goto,
          PeriodicFlush, FinalFlush, Shutdown, Start, vars, writing
  <2>3. memtable' \subseteq memtable \union Stored /\ Stored' = Stored
    BY <1>2 DEF BrokerPublish, BrokerDrops, Connect, ConnectionError, Reconnect, Answer, PeriodicFlush,
      FinalFlush, Shutdown, Start, vars, store, Stored
  <2>4. \A u \in Writers : pc'[u] \in {"append", "insert"} => pc[u] \in {"append", "insert"}
    BY <2>2, TasksAre DEF TransitInv, WorkInv
  <2> QED BY <2>1, <2>3, <2>4 DEF ReadInv
<1> QED BY <1>1, <1>2

LEMMA StepReads == TransitInv /\ ReadInv /\ [Next]_vars => ReadInv'
<1> SUFFICES ASSUME TransitInv, ReadInv, [Next]_vars PROVE ReadInv'
  OBVIOUS
<1>1. ASSUME NEW b \in Brokers, Client(b) \/ BrokerPublish(b) \/ BrokerDrops(b) PROVE ReadInv'
  BY <1>1, ClientReads, CalmReads DEF Client
<1>2. ASSUME NEW w \in Writers, Write(w) PROVE ReadInv'
  BY <1>2, WriteReads, TasksAre
<1>3. CASE Exit \/ Crash
  BY <1>3, CalmReads DEF Exit, Crash
<1> QED BY <1>1, <1>2, <1>3, ReceiveReads, WriteReads, PostReads, CalmReads DEF Next

\* What the conversions have in common: with a time in the message the frame is a
\* function of the message and of who sent it.
LEMMA OneConversion ==
  ASSUME NEW f \in Frames, NEW g \in Frames, Parse(f).outcome = "frame", Parse(g).outcome = "frame",
         MessageOf(f) = MessageOf(g), MessageOf(f).time # None,
         f[1] = Ttn <=> g[1] = Ttn
  PROVE  Parse(f) = Parse(g)
<1> DEFINE m == MessageOf(f)
<1>1. \A now : ReceivedAt(m, now) = m.time
  BY DEF ReceivedAt
<1>2. Filtered.outcome = "filtered" /\ Rejected.outcome = "error"
  BY DEF Filtered, Rejected
<1> HIDE DEF m
<1>3. \A now, then : /\ ParseUplink(m, now) = ParseUplink(m, then)
                     /\ ParseJoin(m, now) = ParseJoin(m, then)
                     /\ ParseStatus(m, now) = ParseStatus(m, then)
                     /\ TtnMessage(m, now) = TtnMessage(m, then)
  BY <1>1 DEF ParseUplink, ParseJoin, ParseStatus, TtnMessage
<1>4. \A now, then : ChirpStackWebhook(m, now) = ChirpStackWebhook(m, then)
  BY <1>3 DEF ChirpStackWebhook
<1>5. \A now : ChirpStackMessage(m, now).outcome = "frame" =>
        m.event = "up" /\ ChirpStackMessage(m, now) = ParseUplink(m, now)
  <2> TAKE now
  <2> HAVE ChirpStackMessage(m, now).outcome = "frame"
  <2>1. m.event = "up"
    BY <1>2 DEF ChirpStackMessage
  <2>2. Readable(m, UplinkParts)
    BY <1>2, <2>1 DEF ChirpStackMessage
  <2> QED BY <2>1, <2>2 DEF ChirpStackMessage, ParseUplink, ApplicationId, ReceivedAt
<1>6. \A now : m.event = "up" => ChirpStackWebhook(m, now) = ParseUplink(m, now)
  BY DEF ChirpStackWebhook
<1>7. ASSUME NEW h \in {f, g}
      PROVE  /\ h[1] = ChirpStack => Parse(h) = ChirpStackMessage(m, h)
             /\ h[1] = Ttn => Parse(h) = TtnMessage(m, h)
             /\ h[1] \notin {ChirpStack, Ttn} => Parse(h) = ChirpStackWebhook(m, h)
  <2>1. MessageOf(h) = m
    BY DEF m
  <2> QED BY <2>1, BrokersAssumption DEF Parse
<1>8. CASE f[1] = Ttn
  BY <1>3, <1>7, <1>8
<1>9. CASE f[1] # Ttn
  BY <1>3, <1>4, <1>5, <1>6, <1>7, <1>9
<1> QED BY <1>8, <1>9

\* A message of The Things Network has not the part that every conversion of ChirpStack's
\* requires.
TtnsOwn == \A b \in Brokers : b = Ttn =>
  \A n \in 1..Len(Outbox[b]) : "deviceInfo" \notin Outbox[b][n].parts

\* The reads of another server's message fail.
LEMMA OneServer ==
  ASSUME TtnsOwn, NEW f \in Frames, NEW g \in Frames,
         Parse(g).outcome = "frame", MessageOf(f) = MessageOf(g), f[1] = Ttn
  PROVE  g[1] = Ttn
<1> SUFFICES ASSUME g[1] # Ttn PROVE FALSE
  OBVIOUS
<1> DEFINE m == MessageOf(g)
<1>1. "deviceInfo" \notin m.parts
  <2>1. CASE f \in MqttFrames
    <3>1. f[1] \in Brokers /\ f[2] \in 1..Len(Outbox[f[1]])
      BY <2>1, MqttPair
    <3> QED BY <3>1 DEF TtnsOwn, MessageOf
  <2>2. CASE f \notin MqttFrames
    <3>1. Ttn \in Webhooks /\ f \in Attempts
      BY <2>2, AttemptPair DEF Frames
    <3> QED BY <3>1, BrokersAssumption
  <2> QED BY <2>1, <2>2
<1> HIDE DEF m
<1>2. \A now : /\ ParseUplink(m, now).outcome # "frame"
               /\ ParseJoin(m, now).outcome # "frame"
               /\ ParseStatus(m, now).outcome # "frame"
  BY <1>1 DEF ParseUplink, ParseJoin, ParseStatus, Readable, UplinkParts, JoinParts, StatusParts, Rejected
<1>3. \A now : /\ ChirpStackMessage(m, now).outcome # "frame"
               /\ ChirpStackWebhook(m, now).outcome # "frame"
  BY <1>1, <1>2 DEF ChirpStackMessage, ChirpStackWebhook, Filtered, Rejected, Readable, UplinkParts
<1> QED BY <1>3, BrokersAssumption DEF Parse, m

\* An event that carries its time has one key, whichever way and however often it came in: the
\* conversion of parse_message and that of parse_uplink, each translated from its own lines,
\* make one frame of every message, as long as no message of The Things Network reads like
\* one of ChirpStack.
THEOREM SameKey == ASSUME TtnsOwn PROVE Spec => []SameKeyBothRoutes
<1>1. Spec => []ReadInv
  <2>1. Spec => Init /\ [][Next]_vars
    BY DEF Spec
  <2>2. Spec => []TransitInv
    BY TransitInductive
  <2> QED BY <2>1, <2>2, InitReads, StepReads, PTL
<1>2. ReadInv => SameKeyBothRoutes
  BY OneConversion, OneServer DEF ReadInv, Readables, SameKeyBothRoutes
<1> QED BY <1>1, <1>2, PTL
=============================================================================
