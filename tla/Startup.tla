------------------------------ MODULE Startup ------------------------------
(***************************************************************************)
(* What the engine does with the tables it finds when it starts: with too  *)
(* many of them it merges batches until few enough are left, then it opens *)
(* what there is (StorageEngine::new, CompactionManager).  Between starts  *)
(* flushes add tables; the process may end at any moment.                  *)
(***************************************************************************)
EXTENDS Naturals, Sequences, FiniteSets, SequencesExt, Ranking

CONSTANTS
  OpenLimit,  \* STARTUP_OPEN_LIMIT (500)
  BatchSize,  \* STARTUP_BATCH_SIZE (100)
  LastId,     \* bound: of the tables' ids
  MaxFlushes, \* bound
  MaxStarts,  \* bound
  MaxTorn     \* bound: tables left unfinished and merges that fail

ASSUME LimitAssumption == OpenLimit \in Nat
\* A batch of one would not make the tables fewer.
ASSUME BatchAssumption == BatchSize \in Nat /\ 1 < BatchSize /\ BatchSize <= OpenLimit
ASSUME StartupBoundsAssumption == LastId \in Nat /\ MaxFlushes \in Nat /\ MaxStarts \in Nat /\ MaxTorn \in Nat

TableIds == 0..LastId
\* What the n-th finished flush wrote.
Data == 1..MaxFlushes

VARIABLES
  stage,     \* "down", "find", "round", "write", "remove", "open", "broken" or "serving"
  onDisk,    \* the data in the file of each id; {}: none that opens
  present,   \* the ids with a file, whether it opens or not
  fresh,     \* next_sstable_id
  remaining, \* the tables start-up has still to look at
  batch,     \* the tables of this round; in the end, those it has still to remove
  output,    \* the table it writes
  gathered,  \* the data it has read from the batch
  listed,    \* the tables opened
  flushed,   \* history: the data of all finished tables
  reused,    \* history: a table was written over one there was
  starts, tornTables

found == <<remaining, batch, output, gathered>>
startupVars == <<stage, onDisk, present, fresh, found, listed, flushed, reused, starts, tornTables>>

WholeTables == {i \in TableIds : onDisk[i] # {}}
FileGoes_DataStays(i) == present' = present \ {i} /\ UNCHANGED onDisk
FileGoes(i) == onDisk' = [onDisk EXCEPT ![i] = {}] /\ present' = present \ {i}

CutShort == tornTables < MaxTorn /\ tornTables' = tornTables + 1

\* A flush while the server runs, or one that a crash cuts short.
FlushTable ==
  /\ stage = "serving" /\ fresh \in TableIds
  /\ fresh' = fresh + 1
  /\ present' = present \union {fresh}
  /\ \/ LET n == Cardinality(flushed) + 1 IN
        /\ n \in Data
        /\ onDisk' = [onDisk EXCEPT ![fresh] = {n}]
        /\ listed' = Append(listed, fresh)
        /\ flushed' = flushed \union {n}
        /\ UNCHANGED <<stage, tornTables>>
     \/ /\ CutShort
        /\ onDisk' = [onDisk EXCEPT ![fresh] = {}]
        /\ stage' = "down" /\ listed' = <<>>
        /\ UNCHANGED flushed
  /\ UNCHANGED <<found, reused, starts>>

\* find_sstables, with a compaction manager that counts from 0.
Find ==
  /\ stage = "find"
  /\ remaining' = Sorted(present)
  /\ fresh' = 0
  /\ stage' = "round"
  /\ UNCHANGED <<onDisk, present, batch, output, gathered, listed, flushed, reused, starts, tornTables>>

TooMany_OneMore == Len(remaining) > OpenLimit + 1
TooMany == Len(remaining) > OpenLimit
Opens(i) == onDisk[i] # {}

Enough ==
  /\ stage = "round" /\ ~TooMany
  /\ stage' = "open"
  /\ UNCHANGED <<onDisk, present, fresh, found, listed, flushed, reused, starts, tornTables>>

AfterFailure_Again == "round"
\* Where a batch that cannot be merged leads.
AfterFailure == "broken"

\* Drains a batch, opens and reads it, and creates the file of the next id.
Round ==
  /\ stage = "round" /\ TooMany /\ fresh \in TableIds
  /\ LET taken == SubSeq(remaining, 1, BatchSize)
         rest == SubSeq(remaining, BatchSize + 1, Len(remaining))
     IN \/ /\ \A i \in ToSet(taken) : Opens(i)
           /\ batch' = ToSet(taken)
           /\ gathered' = UNION {onDisk[i] : i \in ToSet(taken)}
           /\ remaining' = rest
           /\ output' = fresh
           /\ fresh' = fresh + 1
           /\ reused' = (reused \/ Opens(fresh))
           /\ onDisk' = [onDisk EXCEPT ![fresh] = {}]
           /\ present' = present \union {fresh}
           /\ stage' = "write"
           /\ UNCHANGED tornTables
        \/ /\ \E i \in ToSet(taken) : ~Opens(i)
           /\ remaining' = rest \o taken
           /\ stage' = AfterFailure
           /\ UNCHANGED <<onDisk, present, fresh, batch, output, gathered, reused, tornTables>>
        \* Reading the batch or creating the file fails; the batch is left out of what remains.
        \/ /\ \A i \in ToSet(taken) : Opens(i)
           /\ CutShort
           /\ remaining' = rest
           /\ fresh' \in {fresh, fresh + 1}
           /\ stage' = AfterFailure
           /\ UNCHANGED <<onDisk, present, batch, output, gathered, reused>>
  /\ UNCHANGED <<listed, flushed, starts>>

Written_FirstOnly == [onDisk EXCEPT ![output] = onDisk[CHOOSE i \in batch : TRUE]]
Written == [onDisk EXCEPT ![output] = gathered]
\* finish: only now the table is whole.
MergeWritten ==
  /\ stage = "write"
  /\ \/ /\ onDisk' = Written
        /\ remaining' = Append(remaining, output)
        /\ stage' = "remove"
        /\ UNCHANGED <<batch, tornTables>>
     \/ /\ CutShort
        /\ stage' = AfterFailure
        /\ batch' = {}
        /\ UNCHANGED <<onDisk, remaining>>
  /\ UNCHANGED <<present, fresh, output, gathered, listed, flushed, reused, starts>>

\* remove_file of every path of the batch, one by one; an error is ignored.
RemoveOld ==
  /\ stage = "remove"
  /\ \E i \in batch : FileGoes(i) /\ batch' = batch \ {i}
  /\ stage' = IF batch' = {} THEN "round" ELSE "remove"
  /\ UNCHANGED <<fresh, remaining, output, gathered, listed, flushed, reused, starts, tornTables>>

\* open_all_sstables: what does not open is skipped; ids go on above the largest.
OpenAll ==
  /\ stage \in {"open", "broken"}
  /\ listed' = Sorted(WholeTables)
  /\ \E m \in WholeTables \union {0} : (\A i \in WholeTables : i <= m) /\ fresh' = m + 1
  /\ remaining' = <<>> /\ batch' = {} /\ gathered' = {}
  /\ stage' = "serving"
  /\ UNCHANGED <<onDisk, present, output, flushed, reused, starts, tornTables>>

Begin ==
  /\ stage = "down" /\ starts < MaxStarts
  /\ starts' = starts + 1
  /\ stage' = "find"
  /\ UNCHANGED <<onDisk, present, fresh, found, listed, flushed, reused, tornTables>>

ProcessEnds ==
  /\ stage # "down"
  /\ stage' = "down"
  /\ listed' = <<>> /\ remaining' = <<>> /\ batch' = {} /\ gathered' = {}
  /\ UNCHANGED <<onDisk, present, fresh, output, flushed, reused, starts, tornTables>>

StartupInit ==
  /\ stage = "down"
  /\ onDisk = [i \in TableIds |-> {}] /\ present = {}
  /\ fresh = 0 /\ output = 0
  /\ remaining = <<>> /\ batch = {} /\ gathered = {} /\ listed = <<>>
  /\ flushed = {} /\ reused = FALSE
  /\ starts = 0 /\ tornTables = 0

Starting == Find \/ Enough \/ OpenAll \/ Round \/ MergeWritten \/ RemoveOld
StartupNext == Starting \/ Begin \/ ProcessEnds \/ FlushTable
\* new runs on until it returns.
StartupFairness == WF_startupVars(Starting)
StartupSpec == StartupInit /\ [][StartupNext]_startupVars /\ StartupFairness

----------------------------------------------------------------------------
(* Properties                                                              *)

StartupTypeOK ==
  /\ stage \in {"down", "find", "round", "write", "remove", "open", "broken", "serving"}
  /\ onDisk \in [TableIds -> SUBSET Data]
  /\ present \subseteq TableIds /\ WholeTables \subseteq present
  /\ fresh \in 0..LastId + 1 /\ output \in TableIds
  /\ ToSet(remaining) \union batch \union ToSet(listed) \subseteq TableIds
  /\ gathered \subseteq Data /\ flushed \subseteq Data
  /\ reused \in BOOLEAN
  /\ starts \in 0..MaxStarts /\ tornTables \in 0..MaxTorn

Kept == UNION {onDisk[i] : i \in TableIds}

\* compact: "merge SSTables into a new one"; mod.rs merges to have fewer tables.  No start and no
\* crash during one loses the data of a table.
TablesKept == stage = "serving" => flushed \subseteq Kept

\* The only way to lose data is to write a table under an id in use: where that does not happen,
\* crashes at any moment of a start included, every table's data stays.
LostOnlyByReuse == ~reused => flushed \subseteq Kept

\* STARTUP_OPEN_LIMIT: a start whose loop over the batches no error breaks ends with few enough
\* tables, whatever else it finds on disk, crashes and table ids met twice included.
FewTables == [][stage = "open" /\ stage' = "serving" => Len(listed') <= OpenLimit]_startupVars

\* The loop over the rounds ends, also when a batch does not open.
StartEnds == stage = "round" ~> stage \in {"serving", "down"}
=============================================================================
