------------------------------ MODULE MCParts ------------------------------
(* Parts that share no state in these models, checked as a sum: side says  *)
(* which of them acts in a behaviour.  f1 and f2 have log payloads of one  *)
(* and two units, big has one that does not fit the buffer.                *)
EXTENDS MCWal, SSTable, Memtable, QueryParser, Query
CONSTANTS m1, m2
VARIABLE side

MCHashes == 1 :> {1, 2} @@ 2 :> {2, 3} @@ 3 :> {1, 3}

\* Frames f1 and f2 are of one device and time.
MCDevOf == f1 :> m1 @@ f2 :> m1 @@ f3 :> m2
MCRowTime == [f \in Rows |-> 1]
MCSizeOf == f1 :> 1 @@ f2 :> 2 @@ f3 :> 3

MCSentBy == 1 :> 1 @@ 2 :> 1 @@ 3 :> 1 @@ 4 :> 2
MCTimeOf == 1 :> 2 @@ 2 :> 1 @@ 3 :> 1 @@ 4 :> 1
MCKindOf == 1 :> "Uplink" @@ 2 :> "Uplink" @@ 3 :> "JoinRequest" @@ 4 :> "Status"
MCColumnsOf == [f \in Received |-> IF f = 3 THEN {} ELSE {"f_port"}]
Request == [
  tooLong |-> FALSE, parses |-> "query", validEui |-> TRUE, device |-> 1, select |-> "*",
  fields |-> {}, filter |-> [clause |-> "SINCE", start |-> 1], limit |-> 2]
MCRequests == {
  [Request EXCEPT !.tooLong = TRUE],
  [Request EXCEPT !.parses = "error"],
  [Request EXCEPT !.parses = "panic"],
  [Request EXCEPT !.validEui = FALSE],
  [Request EXCEPT !.filter = [clause |-> "absent"]],
  [Request EXCEPT !.filter = [clause |-> "BETWEEN", start |-> 0, end |-> 1], !.select = "fields", !.fields = {"f_port"}],
  [Request EXCEPT !.filter = [clause |-> "LAST", duration |-> 1], !.select = "uplink", !.limit = 9],
  [Request EXCEPT !.select = "join"]}

PartsInit ==
  /\ Init /\ TableInit /\ MemtableInit /\ ParserInit /\ QueryInit
  /\ side \in {"wal", "sstable", "memtable", "parser", "query"}
PartsNext ==
  /\ \/ side = "wal" /\ Next /\ UNCHANGED <<tableVars, memtableVars, parserVars, queryVars>>
     \/ side = "sstable" /\ TableNext /\ UNCHANGED <<vars, memtableVars, parserVars, queryVars>>
     \/ side = "memtable" /\ MemtableNext /\ UNCHANGED <<vars, tableVars, parserVars, queryVars>>
     \/ side = "parser" /\ ParserNext /\ UNCHANGED <<vars, tableVars, memtableVars, queryVars>>
     \/ side = "query" /\ QueryNext /\ UNCHANGED <<vars, tableVars, memtableVars, parserVars>>
  /\ UNCHANGED side
PartsSpec ==
  PartsInit /\ [][PartsNext]_<<side, vars, tableVars, memtableVars, parserVars, queryVars>>

\* The type invariants of the parts.
PartsTypeOK == WalTypeOK /\ TableTypeOK /\ MemtableTypeOK /\ QueryTypeOK
=============================================================================
