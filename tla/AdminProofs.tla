----------------------------- MODULE AdminProofs -----------------------------
(***************************************************************************)
(* What holds of every behaviour of ApiTokens, of RetentionPolicies and of *)
(* Startup, for any number of requests, tasks and tables: the types of the *)
(* three; RevokedRefused, IssuedAccepted and FileAgrees where the          *)
(* command-line tool is not used next to the running server;               *)
(* PoliciesSaved, although saves overlap; OnlyAllowedGo, whatever order    *)
(* the loop over a table's applications takes; LostOnlyByReuse and         *)
(* FewTables, whatever the limit on open tables and the size of a batch.   *)
(***************************************************************************)
EXTENDS MCAdmin, DataInduction, TLAPS

----------------------------------------------------------------------------
(* API tokens                                                              *)

Dead(map, t) == map[t] # None /\ ~map[t].active
\* A map with what users were told.
Keeps(map) ==
  /\ \A t \in revoked : Dead(map, t)
  /\ \A t \in issued \union handed : map[t] # None

\* The types of what the argument is about.
MapsType ==
  /\ server \in {"down", "running", "refused"}
  /\ tokens \in TokenMaps
  /\ tokenFile \in {Absent, Torn} \union {File("whole", map) : map \in TokenMaps}
  /\ toolTokens \in TokenMaps
  /\ issued \subseteq Tokens /\ handed \subseteq Tokens /\ revoked \subseteq Tokens
  /\ failedSaves \in Nat
TasksType ==
  /\ at \in [Requests -> {"idle", "auth", "operate", "save", "open", "write"}]
  /\ request = [r \in Requests |-> request[r]]
  /\ \A r \in Requests : at[r] # "idle" => request[r] \in [bearer : Bearers, operation : Operations]
  /\ then = [r \in Requests |-> then[r]]
  /\ saving = [r \in Requests |-> saving[r]]
  /\ made \in [Requests -> Tokens \union {None}]

MemoryKeeps == Serving => Keeps(tokens) /\ handed = {}
FileKeeps == tokenFile # Torn => Keeps(tokenFile.map)
\* The tool's copy keeps what users were told, and has tokens nobody had before.
ToolKeeps ==
  /\ ToolBusy => Keeps(toolTokens) /\ ~Serving
  /\ tool = "idle" => \A t \in ByTool : tokens[t] = None /\ tokenFile.map[t] = None /\ t \notin revoked

Saves(r) == at[r] \in {"save", "open", "write"}
\* The lock keeps the map as it was when a save took it.
LockAgrees == \A r \in Readers : saving[r] = tokens
\* Until an operation is answered, the map has its result.
Done(r) ==
  /\ Saves(r) /\ then[r] = "reply" /\ request[r].operation.name = "revoke"
       => Dead(tokens, request[r].operation.token)
  /\ made[r] # None => tokens[made[r]] # None
Pending ==
  /\ \A r \in Requests : Done(r)
  /\ ~Serving => \A r \in Requests : at[r] = "idle" /\ made[r] = None
\* The file has the map in memory, or a save is still to come.
FileOrSave ==
  Serving /\ failedSaves = 0 => tokenFile.map = tokens \/ \E r \in Requests : Saves(r)

\* The inductive invariant.
TokenInv ==
  /\ MapsType /\ TasksType
  /\ MemoryKeeps /\ FileKeeps /\ ToolKeeps
  /\ LockAgrees /\ Pending /\ FileOrSave

----------------------------------------------------------------------------
LEMMA FreshInfo == Fresh \in Info /\ Fresh # None
<1>1. Fresh \in Info
  BY DEF Fresh, Info
<1> QED BY <1>1, NoneAssumption

LEMMA NoTokensMap == NoTokens \in TokenMaps
  BY DEF NoTokens, TokenMaps

LEMMA FileMap == ASSUME MapsType PROVE tokenFile.map \in TokenMaps
<1>1. CASE tokenFile \in {Absent, Torn}
  BY <1>1, NoTokensMap DEF Absent, Torn, File
<1>2. CASE tokenFile \in {File("whole", map) : map \in TokenMaps}
  BY <1>2 DEF File
<1> QED BY <1>1, <1>2 DEF MapsType

LEMMA WholeFile ==
  ASSUME NEW map \in TokenMaps
  PROVE  /\ File("whole", map) \in {Absent, Torn} \union {File("whole", m) : m \in TokenMaps}
         /\ File("whole", map).map = map
  BY DEF File

LEMMA TornFile ==
  /\ Torn \in {Absent, Torn} \union {File("whole", m) : m \in TokenMaps}
  /\ Torn.map = NoTokens
  BY DEF File, Torn

\* The other requests stay as they are.
Others(r) ==
  \A q \in Requests \ {r} :
    /\ at'[q] = at[q] /\ request'[q] = request[q] /\ then'[q] = then[q]
    /\ saving'[q] = saving[q] /\ made'[q] = made[q]

LEMMA ReplyEnds ==
  ASSUME TasksType, NEW r \in Requests, Reply(r)
  PROVE  TasksType' /\ Others(r) /\ at'[r] = "idle" /\ made'[r] = None
  BY DEF TasksType, Reply, Others

\* A step of one request that neither saves nor changes a map.
LEMMA Moves ==
  ASSUME TokenInv, NEW r \in Requests, Serving, ~Saves(r),
         UNCHANGED <<server, tokens, tokenFile, toolState, tokenHistory, failedSaves>>,
         TasksType', Others(r), at'[r] \in {"idle", "auth", "operate"},
         made'[r] \in {None, made[r]}
  PROVE  TokenInv'
<1>1. MapsType' /\ MemoryKeeps' /\ FileKeeps' /\ ToolKeeps' /\ Serving'
  BY DEF TokenInv, MapsType, MemoryKeeps, FileKeeps, ToolKeeps, Keeps, ToolBusy, Serving,
    toolState, tokenHistory
<1>2. Saves(r)' = FALSE /\ \A q \in Requests \ {r} : Saves(q)' = Saves(q)
  BY DEF Saves, Others
<1>3. LockAgrees'
  BY <1>2 DEF TokenInv, LockAgrees, Readers, Others
<1>4. \A q \in Requests : Done(q)'
  BY <1>2 DEF TokenInv, Pending, Done, Others
<1>5. FileOrSave'
  BY <1>1, <1>2 DEF TokenInv, FileOrSave
<1> QED BY <1>1, <1>3, <1>4, <1>5 DEF TokenInv, Pending

LEMMA ArriveToken == ASSUME TokenInv, NEW r \in Requests, Arrive(r) PROVE TokenInv'
<1>1. PICK b \in Bearers, o \in Operations :
        request' = [request EXCEPT ![r] = [bearer |-> b, operation |-> o]]
  BY DEF Arrive
<1>2. /\ at' = [at EXCEPT ![r] = "auth"] /\ UNCHANGED <<then, saving, made>>
      /\ at[r] = "idle" /\ Serving
      /\ UNCHANGED <<server, tokens, tokenFile, toolState, tokenHistory, failedSaves>>
  BY DEF Arrive
<1>3. TasksType' /\ Others(r) /\ at'[r] = "auth"
  BY <1>1, <1>2 DEF TokenInv, TasksType, Others
<1> QED BY <1>2, <1>3, Moves DEF Saves

\* A change of the map that keeps what it has.
LEMMA MapChanges ==
  ASSUME TokenInv, NEW r \in Requests, Serving, at[r] # "idle", NEW map \in TokenMaps, NEW label,
         ChangeMap(r, map, label),
         UNCHANGED <<server, tokenFile, request, toolState, tokenHistory, failedSaves>>,
         \A t \in Tokens : Dead(tokens, t) => Dead(map, t),
         \A t \in Tokens : tokens[t] # None => map[t] # None,
         tool = "idle" => \A t \in ByTool : map[t] = None,
         label = "reply" /\ request[r].operation.name = "revoke"
           => Dead(map, request[r].operation.token),
         NEW m \in Tokens \union {None}, made' = [made EXCEPT ![r] = m],
         m # None => map[m] # None
  PROVE  TokenInv'
<1>1. /\ tokens' = map /\ Readers = {} /\ at' = [at EXCEPT ![r] = "save"]
      /\ saving' = [saving EXCEPT ![r] = None] /\ then' = [then EXCEPT ![r] = label]
  BY DEF ChangeMap
<1>2. TasksType' /\ Others(r) /\ at'[r] = "save" /\ then'[r] = label /\ made'[r] = m
      /\ request'[r] = request[r]
  BY <1>1 DEF TokenInv, TasksType, Others
<1>3. MapsType' /\ Serving' /\ Saves(r)'
  BY <1>1, <1>2 DEF TokenInv, MapsType, Serving, Saves, tokenHistory, toolState
<1>4. Keeps(map)' /\ MemoryKeeps'
  BY <1>1 DEF TokenInv, MapsType, MemoryKeeps, Keeps, tokenHistory, Serving
<1>5. FileKeeps' /\ ToolKeeps'
  BY <1>1 DEF TokenInv, FileKeeps, ToolKeeps, Keeps, ToolBusy, Serving, toolState, tokenHistory
<1>6. LockAgrees'
  BY <1>1, <1>2 DEF TokenInv, LockAgrees, Readers, Others
<1>7. ASSUME NEW q \in Requests PROVE Done(q)'
  <2>1. CASE q = r
    BY <1>1, <1>2, <2>1 DEF Done
  <2>2. CASE q # r
    <3>1. /\ Saves(q)' = Saves(q) /\ then'[q] = then[q] /\ request'[q] = request[q]
          /\ made'[q] = made[q] /\ Done(q)
      BY <1>2, <2>2 DEF Others, Saves, TokenInv, Pending
    <3>2. Saves(q) => request[q] \in [bearer : Bearers, operation : Operations]
      BY DEF TokenInv, TasksType, Saves
    <3>3. Saves(q) /\ request[q].operation.name = "revoke" => request[q].operation.token \in Tokens
      BY <3>2 DEF Operations
    <3>4. made[q] \in Tokens \union {None}
      BY DEF TokenInv, TasksType
    <3> QED BY <1>1, <3>1, <3>3, <3>4 DEF Done
  <2> QED BY <2>1, <2>2
<1> QED
  BY <1>2, <1>3, <1>4, <1>5, <1>6, <1>7 DEF TokenInv, Pending, FileOrSave

LEMMA AuthenticateToken == ASSUME TokenInv, NEW r \in Requests, Authenticate(r) PROVE TokenInv'
<1>1. /\ Serving /\ at[r] = "auth" /\ ~Saves(r)
      /\ UNCHANGED <<server, tokenFile, toolState, tokenHistory, failedSaves>>
  BY DEF Authenticate, RequestVars, Saves
<1>2. CASE at' = [at EXCEPT ![r] = "operate"] /\ UNCHANGED <<tokens, request, then, saving, made>>
  <2>1. TasksType' /\ Others(r) /\ at'[r] = "operate" /\ made'[r] = made[r]
    BY <1>1, <1>2 DEF TokenInv, TasksType, Others
  <2> QED BY <1>1, <1>2, <2>1, Moves
<1>3. CASE /\ Bearer(r).kind = "token" /\ Accepts(Bearer(r).token)
           /\ ChangeMap(r, [tokens EXCEPT ![Bearer(r).token].used = TRUE], "operate")
           /\ UNCHANGED <<request, made>>
  <2> DEFINE k == Bearer(r).token
             map == [tokens EXCEPT ![k].used = TRUE]
  <2>1. k \in Tokens
    <3>1. Bearer(r) \in Bearers
      BY <1>1 DEF TokenInv, TasksType, Bearer
    <3> QED BY <1>3, <3>1 DEF Bearers
  <2>2. tokens \in [Tokens -> Info \union {None}] /\ tokens[k] \in Info /\ tokens[k].active
    BY <1>3, <2>1 DEF TokenInv, MapsType, TokenMaps, Accepts
  <2>3. [tokens[k] EXCEPT !.used = TRUE] \in Info
    BY <2>2 DEF Info
  <2>4. map \in TokenMaps /\ map[k] \in Info /\ \A t \in Tokens \ {k} : map[t] = tokens[t]
    BY <2>1, <2>2, <2>3 DEF TokenMaps
  <2>5. map[k] # None
    BY <2>4, NoneAssumption
  <2>6. \A t \in Tokens : (Dead(tokens, t) => Dead(map, t)) /\ (tokens[t] # None => map[t] # None)
    BY <2>2, <2>4, <2>5 DEF Dead
  <2>7. tool = "idle" => \A t \in ByTool : map[t] = None
    BY <2>1, <2>2, <2>4, NoneAssumption, TokensAssumption DEF TokenInv, ToolKeeps
  <2>8. made' = [made EXCEPT ![r] = made[r]] /\ made[r] \in Tokens \union {None}
    BY <1>3 DEF TokenInv, TasksType
  <2>9. made[r] # None => map[made[r]] # None
    BY <2>6, <2>8 DEF TokenInv, Pending, Done
  <2> HIDE DEF map
  <2>10. ChangeMap(r, map, "operate")
    BY <1>3 DEF map
  <2>11. UNCHANGED <<server, tokenFile, request, toolState, tokenHistory, failedSaves>>
    BY <1>1, <1>3
  <2>12. TokenInv /\ map \in TokenMaps
    BY <2>4
  <2>13. "operate" # "reply"
    OBVIOUS
  <2> QED BY <1>1, <2>6, <2>7, <2>8, <2>9, <2>10, <2>11, <2>12, <2>13, MapChanges
<1>4. CASE Reply(r) /\ UNCHANGED tokens
  <2>1. TasksType' /\ Others(r) /\ at'[r] = "idle" /\ made'[r] = None
    BY <1>4, ReplyEnds DEF TokenInv
  <2> QED BY <1>1, <1>4, <2>1, Moves
<1> QED BY <1>2, <1>3, <1>4 DEF Authenticate

LEMMA CreateTokenKeeps == ASSUME TokenInv, NEW r \in Requests, CreateToken(r) PROVE TokenInv'
<1>1. PICK t \in Tokens \ ByTool :
        /\ tokens[t] = None
        /\ ChangeMap(r, [tokens EXCEPT ![t] = Fresh], "reply")
        /\ made' = [made EXCEPT ![r] = t]
  BY DEF CreateToken
<1>2. /\ Serving /\ at[r] # "idle" /\ request[r].operation.name = "create"
      /\ UNCHANGED <<server, tokenFile, request, toolState, tokenHistory, failedSaves>>
  BY DEF CreateToken, Operating, Asks, RequestVars
<1> DEFINE map == [tokens EXCEPT ![t] = Fresh]
<1>3. /\ map \in TokenMaps /\ map[t] # None
      /\ \A u \in Tokens \ {t} : map[u] = tokens[u]
  BY FreshInfo DEF TokenInv, MapsType, TokenMaps
<1>4. \A u \in Tokens : (Dead(tokens, u) => Dead(map, u)) /\ (tokens[u] # None => map[u] # None)
  BY <1>1, <1>3 DEF Dead
<1>5. tool = "idle" => \A u \in ByTool : map[u] = None
  BY <1>3, TokensAssumption DEF TokenInv, ToolKeeps
<1> HIDE DEF map
<1>6. ChangeMap(r, map, "reply")
  BY <1>1 DEF map
<1> QED BY <1>1, <1>2, <1>3, <1>4, <1>5, <1>6, MapChanges

LEMMA RevokeTokenKeeps == ASSUME TokenInv, NEW r \in Requests, RevokeToken(r) PROVE TokenInv'
<1>1. /\ Serving /\ at[r] = "operate" /\ request[r].operation.name = "revoke" /\ ~Saves(r)
      /\ UNCHANGED <<server, tokenFile, toolState, tokenHistory, failedSaves>>
  BY DEF RevokeToken, Operating, Asks, RequestVars, Saves
<1>2. CASE /\ tokens[Asks(r).token] # None
           /\ ChangeMap(r, [tokens EXCEPT ![Asks(r).token].active = FALSE], "reply")
           /\ UNCHANGED <<request, made>>
  <2> DEFINE k == request[r].operation.token
             map == [tokens EXCEPT ![k].active = FALSE]
  <2>1. k \in Tokens
    <3>1. request[r].operation \in Operations
      BY <1>1 DEF TokenInv, TasksType
    <3> QED BY <1>1, <3>1 DEF Operations
  <2>2. tokens \in [Tokens -> Info \union {None}] /\ tokens[k] \in Info
    BY <1>2, <2>1 DEF TokenInv, MapsType, TokenMaps, Asks
  <2>3. [tokens[k] EXCEPT !.active = FALSE] \in Info /\ [tokens[k] EXCEPT !.active = FALSE].active = FALSE
    BY <2>2 DEF Info
  <2>4. /\ map \in TokenMaps /\ map[k] \in Info /\ map[k].active = FALSE
        /\ \A t \in Tokens \ {k} : map[t] = tokens[t]
    BY <2>1, <2>2, <2>3 DEF TokenMaps
  <2>5. Dead(map, k)
    BY <2>4, NoneAssumption DEF Dead
  <2>6. \A t \in Tokens : (Dead(tokens, t) => Dead(map, t)) /\ (tokens[t] # None => map[t] # None)
    BY <2>4, <2>5 DEF Dead
  <2>7. tool = "idle" => \A t \in ByTool : map[t] = None
    BY <2>1, <2>2, <2>4, NoneAssumption, TokensAssumption DEF TokenInv, ToolKeeps
  <2>8. made' = [made EXCEPT ![r] = made[r]] /\ made[r] \in Tokens \union {None}
    BY <1>2 DEF TokenInv, TasksType
  <2>9. made[r] # None => map[made[r]] # None
    BY <2>6, <2>8 DEF TokenInv, Pending, Done
  <2> HIDE DEF map
  <2>10. ChangeMap(r, map, "reply")
    BY <1>2 DEF map, Asks
  <2> QED BY <1>1, <1>2, <2>4, <2>5, <2>6, <2>7, <2>8, <2>9, <2>10, MapChanges, ZenonT(30)
<1>3. CASE Reply(r) /\ UNCHANGED tokens
  <2>1. TasksType' /\ Others(r) /\ at'[r] = "idle" /\ made'[r] = None
    BY <1>3, ReplyEnds DEF TokenInv
  <2> QED BY <1>1, <1>3, <2>1, Moves
<1> QED BY <1>2, <1>3 DEF RevokeToken

LEMMA OtherToken == ASSUME TokenInv, NEW r \in Requests, OtherOperation(r) PROVE TokenInv'
<1>1. /\ Serving /\ ~Saves(r) /\ Reply(r)
      /\ UNCHANGED <<server, tokens, tokenFile, toolState, tokenHistory, failedSaves>>
  BY DEF OtherOperation, Operating, RequestVars, Saves
<1>2. TasksType' /\ Others(r) /\ at'[r] = "idle" /\ made'[r] = None
  BY <1>1, ReplyEnds DEF TokenInv
<1> QED BY <1>1, <1>2, Moves

LEMMA SaveBeginKeeps == ASSUME TokenInv, NEW r \in Requests, SaveBegin(r) PROVE TokenInv'
<1>1. /\ Serving /\ at[r] = "save" /\ at' = [at EXCEPT ![r] = "open"]
      /\ saving' = [saving EXCEPT ![r] = tokens]
      /\ UNCHANGED <<server, tokens, tokenFile, request, then, made, toolState, tokenHistory, failedSaves>>
  BY DEF SaveBegin
<1>2. TasksType' /\ Others(r) /\ at'[r] = "open" /\ saving'[r] = tokens
  BY <1>1 DEF TokenInv, TasksType, Others
<1>3. MapsType' /\ MemoryKeeps' /\ FileKeeps' /\ ToolKeeps' /\ Serving'
  BY <1>1 DEF TokenInv, MapsType, MemoryKeeps, FileKeeps, ToolKeeps, Keeps, ToolBusy, Serving,
    toolState, tokenHistory
<1>4. \A q \in Requests : Saves(q)' = Saves(q)
  BY <1>1, <1>2 DEF Saves, Others
<1>5. LockAgrees'
  BY <1>1, <1>2 DEF TokenInv, LockAgrees, Readers, Others
<1>6. \A q \in Requests : Done(q)'
  BY <1>1, <1>4 DEF TokenInv, Pending, Done
<1> QED BY <1>1, <1>2, <1>3, <1>4, <1>5, <1>6 DEF TokenInv, Pending, FileOrSave

\* The end of a save that failed.
LEMMA SaveFailsKeeps ==
  ASSUME TokenInv, NEW r \in Requests, Serving, SaveFails, Reply(r),
         UNCHANGED <<server, tokens, tokenFile, toolState, tokenHistory>>
  PROVE  TokenInv'
<1>1. failedSaves' \in Nat /\ failedSaves' # 0
  BY DEF TokenInv, MapsType, SaveFails
<1>2. TasksType' /\ Others(r) /\ at'[r] = "idle" /\ made'[r] = None
  BY ReplyEnds DEF TokenInv
<1>3. MapsType' /\ MemoryKeeps' /\ FileKeeps' /\ ToolKeeps' /\ Serving'
  BY <1>1 DEF TokenInv, MapsType, MemoryKeeps, FileKeeps, ToolKeeps, Keeps, ToolBusy, Serving,
    toolState, tokenHistory
<1>4. Saves(r)' = FALSE /\ \A q \in Requests \ {r} : Saves(q)' = Saves(q)
  BY <1>2 DEF Saves, Others
<1>5. LockAgrees'
  BY <1>2 DEF TokenInv, LockAgrees, Readers, Others
<1>6. \A q \in Requests : Done(q)'
  BY <1>2, <1>4 DEF TokenInv, Pending, Done, Others
<1> QED BY <1>1, <1>2, <1>3, <1>5, <1>6 DEF TokenInv, Pending, FileOrSave

LEMMA SaveOpenKeeps == ASSUME TokenInv, NEW r \in Requests, SaveOpen(r) PROVE TokenInv'
<1>1. Serving /\ at[r] = "open" /\ UNCHANGED <<server, tokens, toolState, tokenHistory>>
  BY DEF SaveOpen
<1>2. CASE /\ tokenFile' = Torn /\ at' = [at EXCEPT ![r] = "write"]
           /\ UNCHANGED <<request, then, saving, made, failedSaves>>
  <2>1. TasksType' /\ at'[r] = "write" /\ \A q \in Requests : Saves(q)' = Saves(q)
    BY <1>1, <1>2 DEF TokenInv, TasksType, Saves
  <2>2. Readers' = Readers
    BY <1>1, <1>2 DEF TokenInv, TasksType, Readers
  <2>3. MapsType' /\ FileKeeps'
    BY <1>1, <1>2, TornFile DEF TokenInv, MapsType, FileKeeps, toolState, tokenHistory
  <2>4. MemoryKeeps' /\ Serving'
    BY <1>1 DEF TokenInv, MemoryKeeps, Keeps, Serving, tokenHistory
  <2>5. \A t \in ByTool : Torn.map[t] = None
    BY TornFile, TokensAssumption DEF NoTokens
  <2>6. ToolKeeps'
    BY <1>1, <1>2, <2>5 DEF TokenInv, ToolKeeps, Keeps, ToolBusy, Serving, toolState, tokenHistory
  <2>7. LockAgrees' /\ \A q \in Requests : Done(q)'
    BY <1>1, <1>2, <2>1, <2>2 DEF TokenInv, LockAgrees, Pending, Done
  <2>8. Saves(r)'
    BY <2>1 DEF Saves
  <2> QED BY <2>1, <2>3, <2>4, <2>6, <2>7, <2>8 DEF TokenInv, Pending, FileOrSave
<1>3. CASE SaveFails /\ Reply(r) /\ UNCHANGED tokenFile
  BY <1>1, <1>3, SaveFailsKeeps
<1> QED BY <1>2, <1>3 DEF SaveOpen

LEMMA SaveWriteKeeps == ASSUME TokenInv, NEW r \in Requests, SaveWrite(r) PROVE TokenInv'
<1>1. /\ Serving /\ at[r] = "write" /\ Saves(r) /\ UNCHANGED <<server, tokens, toolState, handed>>
  BY DEF SaveWrite, Saves
<1>2. saving[r] = tokens
  BY <1>1 DEF TokenInv, LockAgrees, Readers
<1>3. CASE SaveFails /\ Reply(r) /\ UNCHANGED <<tokenFile, issued, revoked>>
  BY <1>1, <1>3, SaveFailsKeeps DEF tokenHistory
<1>4. CASE /\ tokenFile' = File("whole", saving[r]) /\ UNCHANGED failedSaves
           /\ \/ /\ then[r] = "operate" /\ at' = [at EXCEPT ![r] = "operate"]
                 /\ saving' = [saving EXCEPT ![r] = None]
                 /\ UNCHANGED <<request, then, made, issued, revoked>>
              \/ then[r] = "reply" /\ Told(r) /\ Reply(r)
  <2>1. /\ TasksType' /\ Others(r) /\ at'[r] \in {"idle", "operate"} /\ made'[r] \in {None, made[r]}
        /\ saving'[r] = None
    <3>1. CASE /\ at' = [at EXCEPT ![r] = "operate"] /\ saving' = [saving EXCEPT ![r] = None]
               /\ UNCHANGED <<request, then, made>>
      BY <1>1, <3>1 DEF TokenInv, TasksType, Others
    <3>2. CASE Reply(r)
      BY <3>2, ReplyEnds DEF TokenInv, TasksType, Reply
    <3> QED BY <1>4, <3>1, <3>2
  <2>2. tokens \in TokenMaps
    BY DEF TokenInv, MapsType
  <2>3. /\ tokenFile' \in {Absent, Torn} \union {File("whole", m) : m \in TokenMaps}
        /\ tokenFile'.map = tokens
    BY <1>2, <1>4, <2>2, WholeFile
  <2>4. /\ issued' \subseteq Tokens /\ revoked' \subseteq Tokens /\ Keeps(tokens)'
        /\ \A t \in revoked' \ revoked : Dead(tokens, t)
    <3>1. Keeps(tokens) /\ Done(r) /\ made[r] \in Tokens \union {None}
      BY <1>1 DEF TokenInv, MemoryKeeps, Pending, TasksType
    <3>2. CASE UNCHANGED <<issued, revoked>>
      BY <1>1, <3>1, <3>2 DEF TokenInv, MapsType, Keeps, Dead
    <3>3. CASE then[r] = "reply" /\ Told(r)
      <4>1. request[r].operation \in Operations
        BY <1>1 DEF TokenInv, TasksType
      <4>2. request[r].operation.name = "revoke" => request[r].operation.token \in Tokens
        BY <4>1 DEF Operations
      <4>3. issued' = issued \union ({made[r]} \ {None}) /\ issued' \subseteq Tokens
        BY <3>1, <3>3 DEF Told, TokenInv, MapsType
      <4>4. revoked' \subseteq Tokens /\ \A t \in revoked' \ revoked : Dead(tokens, t)
        BY <1>1, <3>1, <3>3, <4>2 DEF Told, Done, TokenInv, MapsType
      <4>5. \A t \in issued' \union handed' : tokens'[t] # None
        BY <1>1, <3>1, <4>3 DEF Keeps, Done
      <4>6. \A t \in revoked' : Dead(tokens, t)
        BY <3>1, <4>4 DEF Keeps
      <4> QED BY <1>1, <4>3, <4>4, <4>5, <4>6 DEF Keeps, Dead
    <3> QED BY <1>4, <3>2, <3>3
  <2>5. MapsType' /\ MemoryKeeps' /\ Serving'
    BY <1>1, <1>4, <2>3, <2>4 DEF TokenInv, MapsType, MemoryKeeps, Serving, toolState
  <2>6. FileKeeps'
    BY <1>1, <2>3, <2>4 DEF FileKeeps, Keeps, Dead
  <2>7. ToolKeeps'
    <3>1. ~ToolBusy' /\ tool' = tool /\ tokens' = tokens
      BY <1>1 DEF TokenInv, ToolKeeps, ToolBusy, toolState
    <3>2. ASSUME tool = "idle", NEW t \in ByTool PROVE tokens[t] = None /\ t \notin revoked'
      BY <2>4, <3>2 DEF TokenInv, ToolKeeps, Dead
    <3> QED BY <2>3, <3>1, <3>2 DEF ToolKeeps
  <2>8. Saves(r)' = FALSE /\ \A q \in Requests \ {r} : Saves(q)' = Saves(q)
    BY <2>1 DEF Saves, Others
  <2>9. LockAgrees'
    BY <1>1, <2>1 DEF TokenInv, LockAgrees, Readers, Others
  <2>10. \A q \in Requests : Done(q)'
    BY <1>1, <2>1, <2>8 DEF TokenInv, Pending, Done, Others
  <2> QED BY <1>1, <2>1, <2>3, <2>5, <2>6, <2>7, <2>9, <2>10 DEF TokenInv, Pending, FileOrSave
<1> QED BY <1>3, <1>4 DEF SaveWrite

----------------------------------------------------------------------------
\* The tool is not used while the server runs.
ToolApart == "running" \notin ToolWhile

LEMMA StartKeeps == ASSUME TokenInv, ToolApart, StartServer PROVE TokenInv'
<1>1. /\ server = "down" /\ ~Serving /\ ~ToolBusy
      /\ UNCHANGED <<tokenFile, tokenTask, toolState, revoked, failedSaves>>
  BY DEF StartServer, ToolApart, Serving
<1>2. \A r \in Requests : at[r] = "idle" /\ made[r] = None
  BY <1>1 DEF TokenInv, Pending
<1>3. TasksType' /\ Readers' = {}
  BY <1>1, <1>2 DEF TokenInv, TasksType, Readers, tokenTask
<1>4. \A r \in Requests : Done(r)'
  BY <1>1, <1>2 DEF Done, Saves, tokenTask
<1>5. LockAgrees' /\ Pending'
  BY <1>1, <1>2, <1>3, <1>4 DEF LockAgrees, Pending, tokenTask
<1>6. ~ToolBusy'
  BY <1>1 DEF ToolBusy, toolState
<1>7. CASE tokenFile = Torn /\ server' = "refused" /\ UNCHANGED <<tokens, issued, handed>>
  <2>1. MapsType' /\ ~Serving'
    BY <1>1, <1>7 DEF TokenInv, MapsType, Serving, toolState
  <2>2. FileKeeps' /\ ToolKeeps'
    BY <1>1, <1>6, <1>7 DEF TokenInv, FileKeeps, ToolKeeps, Keeps, toolState
  <2> QED BY <1>3, <1>5, <2>1, <2>2 DEF TokenInv, MemoryKeeps, FileOrSave
<1>8. CASE /\ tokenFile # Torn /\ server' = "running" /\ tokens' = tokenFile.map
           /\ issued' = issued \union handed /\ handed' = {}
  <2>1. MapsType'
    BY <1>1, <1>8, FileMap DEF TokenInv, MapsType, toolState
  <2>2. Keeps(tokenFile.map)
    BY <1>8 DEF TokenInv, FileKeeps
  <2>3. Keeps(tokens)' /\ Keeps(tokenFile.map)'
    BY <1>1, <1>8, <2>2 DEF Keeps, Dead
  <2>4. MemoryKeeps' /\ FileKeeps' /\ FileOrSave'
    BY <1>1, <1>8, <2>3 DEF MemoryKeeps, FileKeeps, FileOrSave
  <2>5. ToolKeeps'
    BY <1>1, <1>6, <1>8 DEF TokenInv, ToolKeeps, toolState
  <2> QED BY <1>3, <1>5, <2>1, <2>4, <2>5 DEF TokenInv
<1> QED BY <1>7, <1>8 DEF StartServer

LEMMA StopKeeps == ASSUME TokenInv, StopServer PROVE TokenInv'
<1>1. /\ Serving /\ ~Serving' /\ server' = "down" /\ tokens' = NoTokens
      /\ at' = [r \in Requests |-> "idle"] /\ made' = [r \in Requests |-> None]
      /\ UNCHANGED <<tokenFile, toolState, tokenHistory, failedSaves>>
  BY DEF StopServer, Serving
<1>2. MapsType'
  BY <1>1, NoTokensMap DEF TokenInv, MapsType, toolState, tokenHistory
<1>3. TasksType' /\ Readers' = {}
  BY DEF StopServer, TasksType, Readers
<1>4. FileKeeps'
  BY <1>1 DEF TokenInv, FileKeeps, Keeps, Dead, tokenHistory
<1>5. ToolKeeps'
  BY <1>1, TokensAssumption DEF TokenInv, ToolKeeps, ToolBusy, NoTokens, toolState, tokenHistory
<1>6. LockAgrees' /\ Pending'
  BY <1>1, <1>3 DEF LockAgrees, Pending, Done, Saves
<1> QED BY <1>1, <1>2, <1>3, <1>4, <1>5, <1>6 DEF TokenInv, MemoryKeeps, FileOrSave

\* Steps that leave the server alone.
LEMMA ServerAlone ==
  ASSUME TokenInv, UNCHANGED <<server, tokens, tokenTask, failedSaves>>, ~Serving
  PROVE  TasksType' /\ MemoryKeeps' /\ LockAgrees' /\ Pending' /\ FileOrSave'
  BY DEF TokenInv, TasksType, MemoryKeeps, LockAgrees, Pending, FileOrSave, Serving, Readers,
    Done, Saves, tokenTask

LEMMA ToolKeepsAll ==
  ASSUME TokenInv, ToolApart, ToolLoad \/ ToolOpen \/ ToolWrite
  PROVE  TokenInv'
<1>1. /\ ~Serving /\ ~Serving'
      /\ UNCHANGED <<server, tokens, tokenTask, issued, revoked, failedSaves>>
  BY DEF ToolLoad, ToolOpen, ToolWrite, ToolMay, ToolVars, ToolApart, Serving
<1>2. TasksType' /\ MemoryKeeps' /\ LockAgrees' /\ Pending' /\ FileOrSave'
  BY <1>1, ServerAlone
<1>3. CASE ToolLoad
  <2>1. PICK t \in ByTool : toolTokens' = [tokenFile.map EXCEPT ![t] = Fresh]
    BY <1>3 DEF ToolLoad
  <2>2. /\ tool = "idle" /\ tool' = "loaded" /\ tokenFile # Torn
        /\ UNCHANGED <<tokenFile, handed>>
    BY <1>3 DEF ToolLoad
  <2>3. tokenFile.map \in TokenMaps /\ toolTokens' \in TokenMaps
    BY <2>1, FileMap, FreshInfo DEF TokenInv, TokenMaps
  <2>4. t \in Tokens /\ t \notin revoked /\ toolTokens'[t] # None
        /\ \A u \in Tokens \ {t} : toolTokens'[u] = tokenFile.map[u]
    BY <2>1, <2>2, <2>3, FreshInfo, TokensAssumption DEF TokenInv, ToolKeeps, TokenMaps
  <2>5. Keeps(toolTokens)'
    BY <1>1, <2>2, <2>4 DEF TokenInv, MapsType, FileKeeps, Keeps, Dead
  <2>6. MapsType' /\ FileKeeps' /\ ToolKeeps'
    BY <1>1, <2>2, <2>3, <2>5 DEF TokenInv, MapsType, FileKeeps, ToolKeeps, Keeps, Dead
  <2> QED BY <1>2, <2>6 DEF TokenInv
<1>4. CASE ToolOpen
  <2>1. tool = "loaded" /\ tool' = "write" /\ tokenFile' = Torn /\ UNCHANGED <<toolTokens, handed>>
    BY <1>4 DEF ToolOpen
  <2>2. MapsType' /\ FileKeeps'
    BY <1>1, <2>1, TornFile DEF TokenInv, MapsType, FileKeeps
  <2>3. ToolKeeps'
    BY <1>1, <2>1 DEF TokenInv, ToolKeeps, ToolBusy, Keeps, Dead
  <2> QED BY <1>2, <2>2, <2>3 DEF TokenInv
<1>5. CASE ToolWrite
  <2>1. /\ tool = "write" /\ tool' = "done" /\ tokenFile' = File("whole", toolTokens)
        /\ handed' = handed \union {t \in ByTool : toolTokens[t] # None} /\ toolTokens' = NoTokens
    BY <1>5 DEF ToolWrite
  <2>2. Keeps(toolTokens) /\ toolTokens \in TokenMaps
    BY <2>1 DEF TokenInv, MapsType, ToolKeeps, ToolBusy
  <2>3. /\ tokenFile' \in {Absent, Torn} \union {File("whole", m) : m \in TokenMaps}
        /\ tokenFile'.map = toolTokens
    BY <2>1, <2>2, WholeFile
  <2>4. MapsType'
    BY <1>1, <2>1, <2>3, NoTokensMap, TokensAssumption DEF TokenInv, MapsType
  <2>5. FileKeeps' /\ ToolKeeps'
    BY <1>1, <2>1, <2>2, <2>3 DEF FileKeeps, ToolKeeps, ToolBusy, Keeps, Dead
  <2> QED BY <1>2, <2>4, <2>5 DEF TokenInv
<1> QED BY <1>3, <1>4, <1>5

LEMMA ExpireKeeps ==
  ASSUME TokenInv,
         UNCHANGED <<server, tokens, tokenFile, tokenTask, toolState, tokenHistory, failedSaves>>
  PROVE  TokenInv'
<1>1. MapsType' /\ TasksType' /\ MemoryKeeps' /\ FileKeeps'
  BY DEF TokenInv, MapsType, TasksType, MemoryKeeps, FileKeeps, Keeps, Dead, Serving, tokenTask,
    toolState, tokenHistory
<1>2. ToolKeeps' /\ LockAgrees' /\ Pending' /\ FileOrSave'
  BY DEF TokenInv, ToolKeeps, LockAgrees, Pending, FileOrSave, Keeps, Dead, Serving, Readers, Done,
    Saves, ToolBusy, tokenTask, toolState, tokenHistory
<1> QED BY <1>1, <1>2 DEF TokenInv

LEMMA InitToken == TokenInit => TokenInv
<1> SUFFICES ASSUME TokenInit PROVE TokenInv
  OBVIOUS
<1>1. MapsType /\ TasksType /\ ~Serving /\ ~ToolBusy
  BY NoTokensMap DEF TokenInit, MapsType, TasksType, Serving, ToolBusy
<1>2. FileKeeps /\ LockAgrees /\ Pending
  BY DEF TokenInit, FileKeeps, Keeps, LockAgrees, Readers, Pending, Done, Saves
<1>3. ToolKeeps
  BY <1>1, TokensAssumption DEF TokenInit, ToolKeeps, Absent, File, NoTokens
<1> QED BY <1>1, <1>2, <1>3 DEF TokenInv, MemoryKeeps, FileOrSave

LEMMA StepToken == ToolApart /\ TokenInv /\ [TokenNext]_tokenVars => TokenInv'
<1> SUFFICES ASSUME ToolApart, TokenInv, [TokenNext]_tokenVars PROVE TokenInv'
  OBVIOUS
<1>1. ASSUME NEW r \in Requests, Arrive(r) \/ Step(r) PROVE TokenInv'
  BY <1>1, ArriveToken, AuthenticateToken, CreateTokenKeeps, RevokeTokenKeeps, OtherToken,
    SaveBeginKeeps, SaveOpenKeeps, SaveWriteKeeps DEF Step
<1>2. ASSUME NEW t \in Tokens, Expire(t) PROVE TokenInv'
  BY <1>2, ExpireKeeps DEF Expire
<1>3. CASE StartServer \/ StopServer
  BY <1>3, StartKeeps, StopKeeps
<1>4. CASE ToolLoad \/ ToolOpen \/ ToolWrite
  BY <1>4, ToolKeepsAll
<1>5. CASE UNCHANGED tokenVars
  BY <1>5, ExpireKeeps DEF tokenVars
<1> QED BY <1>1, <1>2, <1>3, <1>4, <1>5 DEF TokenNext

LEMMA InvProperties == TokenInv => RevokedRefused /\ IssuedAccepted /\ FileAgrees
<1> SUFFICES ASSUME TokenInv PROVE RevokedRefused /\ IssuedAccepted /\ FileAgrees
  OBVIOUS
<1>1. RevokedRefused
  BY DEF TokenInv, MemoryKeeps, Keeps, Dead, RevokedRefused, Accepts
<1>2. IssuedAccepted
  BY DEF TokenInv, MapsType, MemoryKeeps, Keeps, IssuedAccepted, Accepts, Contested
<1>3. FileAgrees
  BY DEF TokenInv, FileOrSave, FileAgrees, Saves
<1> QED BY <1>1, <1>2, <1>3

THEOREM TokenInductive == ToolApart => (TokenSpec => []TokenInv)
<1> SUFFICES ASSUME ToolApart PROVE TokenSpec => []TokenInv
  OBVIOUS
<1>1. TokenInv /\ [TokenNext]_tokenVars => TokenInv'
  BY StepToken
<1> QED BY InitToken, <1>1, PTL DEF TokenSpec

\* revoke_token: after its answer no request gets in with the token, whatever saves overlap,
\* fail or are cut short by a crash, and whatever the tool adds between two runs of the server.
THEOREM RevokedStayRefused == ToolApart => (TokenSpec => []RevokedRefused)
<1>1. TokenInv => RevokedRefused
  BY InvProperties
<1> QED BY TokenInductive, <1>1, PTL

\* create_token and generate-api-token: a token its user was given is not forgotten.
THEOREM IssuedStayAccepted == ToolApart => (TokenSpec => []IssuedAccepted)
<1>1. TokenInv => IssuedAccepted
  BY InvProperties
<1> QED BY TokenInductive, <1>1, PTL

\* save: overlapping saves end with the file as the map is in memory.
THEOREM SavesAgree == ToolApart => (TokenSpec => []FileAgrees)
<1>1. TokenInv => FileAgrees
  BY InvProperties
<1> QED BY TokenInductive, <1>1, PTL

----------------------------------------------------------------------------
(* Retention policies                                                      *)

\* The types of what the argument is about.
SaveType ==
  /\ engine \in {"down", "loaded", "saving", "running"}
  /\ policies \in Policies
  /\ policyFile \in [kind : {"absent", "torn", "whole"}, policies : Policies]
  /\ doing \in [Changers -> {"idle", "save", "open", "write"}]
  /\ writing \in [Changers -> Policies]
  /\ policyFaults \in Nat

\* Nobody saves while the server is down or starts.
DownIdle == ~Running => \A c \in Changers : doing[c] = "idle"

\* What is being written is what is in memory, since the lock keeps changes out.
WritesAgree == \A c \in Saving : writing[c] = policies

\* The file is what is in memory, unless a save is still to come.
StoredOrSave ==
  Running /\ policyFaults = 0 =>
    policyFile = Stored("whole", policies) \/ \E c \in Changers : doing[c] # "idle"

\* The inductive invariant.
SaveInv == SaveType /\ DownIdle /\ WritesAgree /\ StoredOrSave

LEMMA SaveInvSaves == SaveInv => PoliciesSaved
  BY DEF SaveInv, StoredOrSave, PoliciesSaved

LEMMA DefaultPolicies == Default \in Policies
  BY DEF Default, Policies, Periods

LEMMA InitSave == PolicyInit => SaveInv
<1> SUFFICES ASSUME PolicyInit PROVE SaveInv
  OBVIOUS
<1> QED
  BY DefaultPolicies
  DEF PolicyInit, SaveInv, SaveType, DownIdle, WritesAgree, StoredOrSave, Saving, Running, Stored

\* Steps of checks and of the calendar: a fault of theirs makes StoredOrSave void.
LEMMA OtherSave ==
  ASSUME SaveInv, UNCHANGED <<engine, policies, policyFile, doing, writing>>,
         UNCHANGED policyFaults \/ PolicyFault
  PROVE  SaveInv'
<1>1. policyFaults' \in Nat /\ (policyFaults' = 0 => policyFaults = 0)
  BY DEF SaveInv, SaveType, PolicyFault
<1> QED
  BY <1>1 DEF SaveInv, SaveType, DownIdle, WritesAgree, StoredOrSave, Saving, Running

\* What a change makes of the policies; to remove what is not there changes nothing.
LEMMA ResultPolicies ==
  ASSUME policies \in Policies, NEW change \in Changes
  PROVE  /\ Result(change) \in Policies
         /\ change.name = "remove" /\ policies.applications[change.application] = Unset
              => Result(change) = policies
<1>1. CASE change \in [name : {"global"}, days : Periods]
  BY <1>1 DEF Result, SetGlobal, Policies
<1>2. CASE change \in [name : {"set"}, application : Applications, days : Periods]
  BY <1>2 DEF Result, SetApplication, Policies
<1>3. CASE change \in [name : {"remove"}, application : Applications]
  <2>1. Result(change) = [policies EXCEPT !.applications[change.application] = Unset]
    BY <1>3 DEF Result, RemoveApplication
  <2> QED BY <1>3, <2>1 DEF Policies
<1> QED BY <1>1, <1>2, <1>3, ChangesAssumption

LEMMA ChangeSave == ASSUME SaveInv, NEW c \in Changers, ChangePolicy(c) PROVE SaveInv'
<1>1. PICK change \in Changes :
        /\ policies' = Result(change)
        /\ doing' = IF change.name = "remove" /\ policies.applications[change.application] = Unset
                    THEN doing ELSE [doing EXCEPT ![c] = "save"]
  BY DEF ChangePolicy
<1>2. /\ Running /\ Saving = {}
      /\ UNCHANGED <<engine, policyFile, writing, policyFaults>>
  BY DEF ChangePolicy, CheckVars
<1>3. policies' \in Policies
  BY <1>1, ResultPolicies DEF SaveInv, SaveType
<1>4. SaveType'
  BY <1>1, <1>2, <1>3 DEF SaveInv, SaveType
<1>5. Saving' = {}
  BY <1>1, <1>2 DEF SaveInv, SaveType, Saving
<1>6. CASE change.name = "remove" /\ policies.applications[change.application] = Unset
  <2>1. policies' = policies /\ doing' = doing
    BY <1>1, <1>6, ResultPolicies DEF SaveInv, SaveType
  <2> QED
    BY <1>2, <1>4, <1>5, <2>1
    DEF SaveInv, DownIdle, WritesAgree, StoredOrSave, Running
<1>7. CASE ~(change.name = "remove" /\ policies.applications[change.application] = Unset)
  <2>1. doing'[c] = "save"
    BY <1>1, <1>7 DEF SaveInv, SaveType
  <2> QED
    BY <1>2, <1>4, <1>5, <2>1
    DEF SaveInv, DownIdle, WritesAgree, StoredOrSave, Running
<1> QED BY <1>6, <1>7

LEMMA BeginSave == ASSUME SaveInv, NEW c \in Changers, PolicySaveBegin(c) PROVE SaveInv'
<1>1. /\ Running /\ UNCHANGED <<engine, policies, policyFile, policyFaults>>
      /\ writing' = [writing EXCEPT ![c] = policies] /\ doing' = [doing EXCEPT ![c] = "open"]
  BY DEF PolicySaveBegin, CheckVars
<1>2. SaveType' /\ doing'[c] = "open" /\ writing'[c] = policies
  BY <1>1 DEF SaveInv, SaveType
<1>3. WritesAgree'
  BY <1>1, <1>2 DEF SaveInv, SaveType, WritesAgree, Saving
<1> QED
  BY <1>1, <1>2, <1>3 DEF SaveInv, DownIdle, StoredOrSave, Running

\* The end of a save that failed.
LEMMA FailSave ==
  ASSUME SaveInv, NEW c \in Changers, Running, PolicyFault, Saved(c),
         UNCHANGED <<engine, policies, policyFile>>
  PROVE  SaveInv'
<1>1. policyFaults' \in Nat /\ policyFaults' # 0
  BY DEF SaveInv, SaveType, PolicyFault
<1>2. SaveType' /\ doing'[c] = "idle"
  BY <1>1, DefaultPolicies DEF SaveInv, SaveType, Saved
<1>3. WritesAgree'
  BY <1>2 DEF SaveInv, SaveType, WritesAgree, Saving, Saved
<1> QED
  BY <1>1, <1>2, <1>3 DEF SaveInv, DownIdle, StoredOrSave, Running

LEMMA OpenSave == ASSUME SaveInv, NEW c \in Changers, PolicySaveOpen(c) PROVE SaveInv'
<1>1. /\ Running /\ doing[c] = "open" /\ UNCHANGED <<engine, policies>>
  BY DEF PolicySaveOpen, CheckVars
<1>2. CASE /\ policyFile' = Stored("torn", Default) /\ doing' = [doing EXCEPT ![c] = "write"]
           /\ UNCHANGED <<writing, policyFaults>>
  <2>1. policyFile' \in [kind : {"absent", "torn", "whole"}, policies : Policies]
    BY <1>2, DefaultPolicies DEF Stored
  <2>2. SaveType' /\ doing'[c] = "write" /\ Saving' = Saving
    BY <1>1, <1>2, <2>1 DEF SaveInv, SaveType, Saving
  <2> QED
    BY <1>1, <1>2, <2>2 DEF SaveInv, DownIdle, WritesAgree, StoredOrSave, Running
<1>3. CASE PolicyFault /\ Saved(c) /\ UNCHANGED policyFile
  BY <1>1, <1>3, FailSave
<1> QED BY <1>2, <1>3 DEF PolicySaveOpen

LEMMA WriteSave == ASSUME SaveInv, NEW c \in Changers, PolicySaveWrite(c) PROVE SaveInv'
<1>1. /\ Running /\ doing[c] = "write" /\ UNCHANGED <<engine, policies>> /\ Saved(c)
  BY DEF PolicySaveWrite, CheckVars
<1>2. CASE policyFile' = Stored("whole", writing[c]) /\ UNCHANGED policyFaults
  <2>1. writing[c] = policies
    BY <1>1 DEF SaveInv, WritesAgree, Saving
  <2>2. policyFile' = Stored("whole", policies')
    BY <1>1, <1>2, <2>1
  <2>3. policyFile' \in [kind : {"absent", "torn", "whole"}, policies : Policies]
    BY <1>1, <2>2 DEF SaveInv, SaveType, Stored
  <2>4. SaveType' /\ doing'[c] = "idle"
    BY <1>1, <1>2, <2>3, DefaultPolicies DEF SaveInv, SaveType, Saved
  <2>5. WritesAgree'
    BY <1>1, <2>4 DEF SaveInv, SaveType, WritesAgree, Saving, Saved
  <2> QED
    BY <1>1, <2>2, <2>4, <2>5 DEF SaveInv, DownIdle, StoredOrSave, Running
<1>3. CASE PolicyFault /\ UNCHANGED policyFile
  BY <1>1, <1>3, FailSave
<1> QED BY <1>2, <1>3 DEF PolicySaveWrite

LEMMA StartSave == ASSUME SaveInv, StartEngine PROVE SaveInv'
<1>1. /\ ~Running /\ UNCHANGED <<doing, writing>> /\ Saving' = {}
      /\ \A c \in Changers : doing[c] = "idle"
  BY DEF SaveInv, DownIdle, Running, Saving, StartEngine, StartLoad, StartSaveOpen, StartSaveWrite, AtRest
<1>2. CASE StartLoad
  <2>1. Loaded \in Policies
    BY FromEnvAssumption, DefaultPolicies DEF SaveInv, SaveType, Loaded
  <2>2. SaveType' /\ ~Running'
    BY <1>1, <1>2, <2>1 DEF StartLoad, SaveInv, SaveType, Running
  <2> QED BY <1>1, <2>2 DEF SaveInv, DownIdle, WritesAgree, StoredOrSave
<1>3. ASSUME StartFails PROVE SaveInv'
  <2>1. SaveType' /\ ~Running'
    BY <1>1, <1>3, DefaultPolicies DEF StartFails, PolicyFault, SaveInv, SaveType, Running
  <2> QED BY <1>1, <2>1 DEF SaveInv, DownIdle, WritesAgree, StoredOrSave
<1>4. CASE StartSaveOpen
  <2>1. CASE policyFile' = Stored("torn", Default) /\ engine' = "saving" /\ UNCHANGED <<policies, policyFaults, tables>>
    <3>1. policyFile' \in [kind : {"absent", "torn", "whole"}, policies : Policies]
      BY <2>1, DefaultPolicies DEF Stored
    <3>2. SaveType' /\ ~Running'
      BY <1>1, <2>1, <3>1 DEF SaveInv, SaveType, Running
    <3> QED BY <1>1, <3>2 DEF SaveInv, DownIdle, WritesAgree, StoredOrSave
  <2> QED BY <1>3, <1>4, <2>1 DEF StartSaveOpen
<1>5. CASE StartSaveWrite
  <2>1. CASE policyFile' = Stored("whole", policies) /\ engine' = "running" /\ UNCHANGED <<policies, policyFaults>>
    <3>1. policyFile' \in [kind : {"absent", "torn", "whole"}, policies : Policies]
      BY <2>1 DEF Stored, SaveInv, SaveType
    <3>2. SaveType' /\ policyFile' = Stored("whole", policies')
      BY <1>1, <2>1, <3>1 DEF SaveInv, SaveType
    <3> QED BY <1>1, <3>2 DEF SaveInv, DownIdle, WritesAgree, StoredOrSave
  <2> QED BY <1>3, <1>5, <2>1 DEF StartSaveWrite
<1> QED BY <1>2, <1>4, <1>5 DEF StartEngine

LEMMA EndSave == ASSUME SaveInv, EndEngine PROVE SaveInv'
<1>1. /\ engine' = "down" /\ policies' = Default
      /\ doing' = [c \in Changers |-> "idle"] /\ writing' = [c \in Changers |-> Default]
      /\ UNCHANGED <<policyFile, policyFaults>>
  BY DEF EndEngine
<1>2. SaveType' /\ Saving' = {} /\ ~Running'
  BY <1>1, DefaultPolicies DEF SaveInv, SaveType, Saving, Running
<1> QED
  BY <1>1, <1>2 DEF SaveInv, DownIdle, WritesAgree, StoredOrSave

LEMMA StepSave == SaveInv /\ [PolicyNext]_policyVars => SaveInv'
<1> SUFFICES ASSUME SaveInv, [PolicyNext]_policyVars PROVE SaveInv'
  OBVIOUS
<1>1. ASSUME NEW c \in Changers, ChangePolicy(c) \/ PolicySaveBegin(c) \/ PolicySaveOpen(c) \/ PolicySaveWrite(c)
      PROVE  SaveInv'
  BY <1>1, ChangeSave, BeginSave, OpenSave, WriteSave
<1>2. ASSUME NEW e \in Checkers, CheckStep(e) PROVE SaveInv'
  <2>1. UNCHANGED <<engine, policies, policyFile, doing, writing>>
    BY <1>2 DEF CheckStep, CheckBegin, CheckSelect, CheckDelete, CheckEnd, changing
  <2>2. UNCHANGED policyFaults \/ PolicyFault
    BY <1>2 DEF CheckStep, CheckBegin, CheckSelect, CheckDelete, CheckEnd
  <2> QED BY <2>1, <2>2, OtherSave
<1>3. CASE StartEngine
  BY <1>3, StartSave
<1>4. CASE EndEngine
  BY <1>4, EndSave
<1>5. CASE DayPasses
  BY <1>5, OtherSave DEF DayPasses, changing
<1>6. CASE UNCHANGED policyVars
  BY <1>6, OtherSave DEF policyVars, changing
<1> QED BY <1>1, <1>2, <1>3, <1>4, <1>5, <1>6 DEF PolicyNext

\* PoliciesSaved: with no save under way and none failed, the file of retention_manager.rs
\* holds the policies in memory.
THEOREM ChangesSaved == PolicySpec => []PoliciesSaved
<1>1. PolicySpec => []SaveInv
  BY InitSave, StepSave, PTL DEF PolicySpec
<1> QED BY <1>1, SaveInvSaves, PTL

----------------------------------------------------------------------------
(* What a check of the policies takes out                                  *)

\* The loop over the applications of a table, stage by stage.
Stage == [days : Periods, done : BOOLEAN]
After(p, a, before) ==
  IF before.done THEN before
  ELSE IF p.applications[a] = Forever THEN [days |-> Forever, done |-> TRUE]
  ELSE [days |-> Considering(p, a, before.days), done |-> FALSE]
Looped(p, order, f) ==
  /\ f[0] = [days |-> Forever, done |-> FALSE]
  /\ \A i \in 1..Len(order) : f[i] = After(p, order[i], f[i - 1])

LEMMA AfterStage ==
  ASSUME NEW p \in Policies, NEW a \in Applications, NEW s \in Stage
  PROVE  After(p, a, s) \in Stage
<1>1. Effective(p, a) \in Periods
  BY DEF Effective, Policies
<1>2. Considering(p, a, s.days) \in Periods
  BY <1>1 DEF Considering, Longest, Stage
<1> QED BY <1>2 DEF After, Stage, Periods

LEMMA ChosenStages ==
  ASSUME NEW p \in Policies, NEW n \in Nat, NEW order \in [1..n -> Applications], Len(order) = n
  PROVE  \E f \in [0..n -> Stage] : Looped(p, order, f) /\ Chosen(p, order) = f[n].days
<1> DEFINE g == [q \in (1..n) \X Stage |-> After(p, order[q[1]], q[2])]
           z == [days |-> Forever, done |-> FALSE]
           Loop(f) == f = [i \in 0..Len(order) |->
                             IF i = 0 THEN [days |-> Forever, done |-> FALSE]
                             ELSE LET a == order[i] IN
                                  IF f[i - 1].done THEN f[i - 1]
                                  ELSE IF p.applications[a] = Forever THEN [days |-> Forever, done |-> TRUE]
                                  ELSE [days |-> Considering(p, a, f[i - 1].days), done |-> FALSE]]
<1>1. z \in Stage
  BY DEF Stage, Periods
<1>2. \A i \in 1..n, s \in Stage : g[<<i, s>>] = After(p, order[i], s) /\ g[<<i, s>>] \in Stage
  BY AfterStage
<1>3. g \in [(1..n) \X Stage -> Stage]
  BY AfterStage
<1>4. PICK f \in [0..n -> Stage] : GoesOn(f, n, z, g)
  <2> DEFINE A == Stage
  <2>1. z \in A /\ g \in [(1..n) \X A -> A]
    BY <1>1, <1>3
  <2> HIDE DEF g, z, A
  <2>2. \E f \in [0..n -> A] : GoesOn(f, n, z, g)
    BY <2>1, Recursion, Zenon
  <2> QED BY <2>2 DEF A
<1>5. Looped(p, order, f)
  <2>1. \A i \in 1..n : i - 1 \in 0..n
    OBVIOUS
  <2>2. \A i \in 1..n : f[i - 1] \in Stage
    BY <2>1
  <2>3. f[0] = z /\ \A i \in 1..n : f[i] = g[<<i, f[i - 1]>>]
    BY <1>4 DEF GoesOn
  <2> HIDE DEF g
  <2> QED BY <1>2, <2>2, <2>3 DEF Looped
<1>6. Loop(f)
  <2>1. f = [i \in 0..n |-> f[i]]
    OBVIOUS
  <2>2. \A i \in 0..n : i # 0 => i \in 1..n
    OBVIOUS
  <2> QED BY <1>5, <2>1, <2>2 DEF Looped, After
<1> DEFINE c == CHOOSE h : Loop(h)
<1>7. Loop(c)
  <2> HIDE DEF Loop
  <2> QED BY <1>6
<1>8. Chosen(p, order) = c[n].days
  BY DEF Chosen
<1> HIDE DEF c
<1>9. c[0] = z
  <2>1. 0 \in 0..Len(order)
    OBVIOUS
  <2> QED BY <1>7, <2>1
<1>10. ASSUME NEW i \in 1..n PROVE c[i] = After(p, order[i], c[i - 1])
  <2>1. i \in 0..Len(order) /\ i # 0
    OBVIOUS
  <2> QED BY <1>7, <2>1 DEF After
<1>11. \A i \in 0..n : c[i] = f[i]
  <2> DEFINE T == {i \in 0..n : c[i] = f[i]}
  <2>1. 0 \in T
    <3>1. 0 \in 0..n /\ f[0] = z
      BY <1>5 DEF Looped
    <3> QED BY <1>9, <3>1
  <2>2. ASSUME NEW i \in 0..(n - 1), i \in T PROVE i + 1 \in T
    <3>1. i + 1 \in 1..n /\ i + 1 - 1 = i /\ i + 1 \in 0..n
      OBVIOUS
    <3> QED BY <1>5, <1>10, <2>2, <3>1 DEF Looped
  <2>3. \A i \in 0..n : i \in T
    <3> HIDE DEF T
    <3> QED BY <2>1, <2>2, CountUp
  <2> QED BY <2>3
<1>12. c[n] = f[n]
  BY <1>11
<1> QED BY <1>5, <1>8, <1>12

\* What the loop has seen of the applications so far.
Seen(p, order, i, s) ==
  \/ s.done /\ s.days = Forever
  \/ /\ ~s.done
     /\ \A j \in 1..i : p.applications[order[j]] # Forever
     /\ \A j \in 1..i : Effective(p, order[j]) # Forever =>
          s.days # Forever /\ Effective(p, order[j]) <= s.days
     /\ s.days # Forever => \E j \in 1..i : Effective(p, order[j]) # Forever

LEMMA SeenAll ==
  ASSUME NEW p \in Policies, NEW n \in Nat, NEW order \in [1..n -> Applications], Len(order) = n,
         NEW f \in [0..n -> Stage], Looped(p, order, f)
  PROVE  Seen(p, order, n, f[n])
<1> DEFINE T == {i \in 0..n : Seen(p, order, i, f[i])}
<1>1. 0 \in T
  <2>1. f[0] = [days |-> Forever, done |-> FALSE] /\ 1..0 = {}
    BY DEF Looped
  <2> QED BY <2>1 DEF Seen
<1>2. ASSUME NEW i \in 0..(n - 1), i \in T PROVE i + 1 \in T
  <2> DEFINE a == order[i + 1]
             s == f[i]
             e == Effective(p, a)
  <2>1. i + 1 \in 1..n /\ i + 1 - 1 = i /\ i \in 0..n /\ i + 1 \in 0..n /\ a \in Applications /\ i \in Nat
    OBVIOUS
  <2>2. f[i + 1] = After(p, a, s) /\ s \in Stage /\ Seen(p, order, i, s)
    BY <1>2, <2>1 DEF Looped
  <2>3. e \in Periods /\ s.days \in Periods
    BY <2>1, <2>2 DEF Effective, Policies, Stage
  <2>4. \A w \in Periods : w # Forever => w \in Nat
    BY DaysAssumption DEF Periods
  <2>5. \A j \in 1..i : Effective(p, order[j]) \in Periods
    <3>1. \A j \in 1..i : order[j] \in Applications
      OBVIOUS
    <3> QED BY <3>1 DEF Effective, Policies
  <2>6. \A j \in 1..(i + 1) : j \in 1..i \/ j = i + 1
    OBVIOUS
  <2>7. i + 1 \in 1..(i + 1) /\ \A j \in 1..i : j \in 1..(i + 1)
    OBVIOUS
  <2> HIDE DEF e, s, a
  <2>8. Seen(p, order, i + 1, After(p, a, s))
    <3>1. CASE s.done
      BY <2>2, <3>1 DEF Seen, After
    <3>2. CASE ~s.done /\ p.applications[a] = Forever
      BY <3>2 DEF Seen, After
    <3>3. CASE ~s.done /\ p.applications[a] # Forever
      <4> DEFINE d == Considering(p, a, s.days)
      <4>1. After(p, a, s) = [days |-> d, done |-> FALSE]
        BY <3>3 DEF After
      <4>2. d = IF e = Forever THEN s.days ELSE IF s.days = Forever \/ e > s.days THEN e ELSE s.days
        BY DEF Considering, Longest, e
      <4>3. \A j \in 1..(i + 1) : p.applications[order[j]] # Forever
        BY <2>2, <2>6, <3>3 DEF Seen, a
      <4>4. ASSUME NEW j \in 1..(i + 1), Effective(p, order[j]) # Forever
            PROVE  d # Forever /\ Effective(p, order[j]) <= d
        <5>1. CASE j = i + 1
          <6>1. Effective(p, order[j]) = e
            BY <5>1 DEF e, a
          <6> HIDE DEF d
          <6> QED BY <2>3, <2>4, <4>2, <4>4, <6>1
        <5>2. CASE j \in 1..i
          <6>1. s.days # Forever /\ Effective(p, order[j]) <= s.days
            BY <2>2, <3>3, <4>4, <5>2 DEF Seen
          <6>2. Effective(p, order[j]) \in Nat /\ s.days \in Nat
            BY <2>3, <2>4, <2>5, <4>4, <5>2, <6>1
          <6>3. e # Forever => e \in Nat
            BY <2>3, <2>4
          <6> HIDE DEF d
          <6> QED BY <4>2, <6>1, <6>2, <6>3
        <5> QED BY <2>6, <5>1, <5>2
      <4>5. ASSUME d # Forever PROVE \E j \in 1..(i + 1) : Effective(p, order[j]) # Forever
        <5>1. CASE e = Forever
          <6>1. \E j \in 1..i : Effective(p, order[j]) # Forever
            BY <2>2, <3>3, <4>2, <4>5, <5>1 DEF Seen
          <6> QED BY <2>7, <6>1
        <5>2. CASE e # Forever
          BY <2>7, <5>2 DEF e, a
        <5> QED BY <5>1, <5>2
      <4> HIDE DEF d
      <4> QED BY <4>1, <4>3, <4>4, <4>5 DEF Seen
    <3> QED BY <3>1, <3>2, <3>3
  <2> QED BY <2>1, <2>2, <2>8
<1>3. \A i \in 0..n : i \in T
  <2> HIDE DEF T
  <2> QED BY <1>1, <1>2, CountUp
<1>4. n \in T
  BY <1>3
<1> QED BY <1>4

\* Whatever order the loop takes, a table whose period is over may go.
LEMMA OverAllows ==
  ASSUME NEW p \in Policies, NEW t \in Tables, NEW order \in Orders, ToSet(order) = AppsOf[t],
         today \in Nat, Over(t, Period(p, order))
  PROVE  Allows(p, t)
<1>1. CASE \A a \in Applications : p.applications[a] = Unset
  <2>1. Over(t, p.global)
    BY <1>1 DEF Period
  <2>2. \A a \in AppsOf[t] : Effective(p, a) = p.global
    BY <1>1, TablesAssumption DEF Effective
  <2> QED BY <1>1, <2>1, <2>2 DEF Allows, Past, Nameless
<1>2. CASE ~\A a \in Applications : p.applications[a] = Unset
  <2>1. PICK u \in Tables : order \in SetToSeqs(AppsOf[u])
    BY DEF Orders
  <2> DEFINE n == Cardinality(AppsOf[u])
  <2>2. n \in Nat /\ order \in [1..n -> AppsOf[u]]
    BY <2>1, TablesAssumption, FS_CardinalityType DEF SetToSeqs
  <2>3. order \in [1..n -> Applications]
    BY <2>2, TablesAssumption
  <2>4. Len(order) = n
    <3> HIDE DEF n
    <3>1. order \in Seq(Applications)
      BY <2>2, <2>3
    <3> QED BY <2>2, <2>3, <3>1
  <2>5. PICK f \in [0..n -> Stage] : Looped(p, order, f) /\ Chosen(p, order) = f[n].days
    <3> HIDE DEF n
    <3> QED BY <2>2, <2>3, <2>4, ChosenStages
  <2>6. Seen(p, order, n, f[n])
    <3> HIDE DEF n
    <3> QED BY <2>2, <2>3, <2>4, <2>5, SeenAll
  <2>7. f[n] \in Stage
    <3> HIDE DEF n
    <3> QED BY <2>2
  <2> DEFINE d == f[n].days
  <2>8. Over(t, d) /\ d \in Periods /\ d # Forever
    BY <1>2, <2>5, <2>7 DEF Period, Over, Stage
  <2>9. AppsOf[t] = {order[j] : j \in 1..n} /\ AppsOf[t] \subseteq Applications
    <3> HIDE DEF n
    <3> QED BY <2>3, TablesAssumption DEF ToSet
  <2>10. d \in Nat /\ Stamp[t] \in Nat
    BY <2>8, DaysAssumption, TablesAssumption DEF Periods
  <2>11. /\ \A j \in 1..n : p.applications[order[j]] # Forever
         /\ \A j \in 1..n : Effective(p, order[j]) # Forever => Effective(p, order[j]) <= d
         /\ \E j \in 1..n : Effective(p, order[j]) # Forever
    BY <2>6, <2>8 DEF Seen
  <2> HIDE DEF n, d
  <2>12. ASSUME NEW a \in AppsOf[t], Effective(p, a) # Forever PROVE Over(t, Effective(p, a))
    <3>1. Effective(p, a) \in Nat
      BY <2>9, <2>12, DaysAssumption DEF Effective, Policies, Periods
    <3>2. Effective(p, a) <= d
      BY <2>9, <2>11, <2>12
    <3> QED BY <2>8, <2>10, <2>12, <3>1, <3>2 DEF Over
  <2>13. \A a \in AppsOf[t] : p.applications[a] # Forever
    BY <2>9, <2>11
  <2>14. \E a \in AppsOf[t] : Effective(p, a) # Forever
    BY <2>9, <2>11
  <2>15. ASSUME NEW a \in AppsOf[t], Effective(p, a) = Forever PROVE Overlooked(p, t, a)
    <3>1. p.applications[a] = Unset /\ p.global = Forever
      BY <2>13, <2>15 DEF Effective
    <3>2. PICK b \in AppsOf[t] : Effective(p, b) # Forever
      BY <2>14
    <3>3. p.applications[b] \notin {Unset, Forever}
      BY <3>1, <3>2 DEF Effective
    <3> QED BY <3>1, <3>3 DEF Overlooked
  <2> QED BY <2>12, <2>14, <2>15 DEF Allows, Past, Nameless
<1> QED BY <1>1, <1>2

\* What a check is about to take out may go, and while the server is down nothing is listed.
Condemned(e) == checking[e] = "delete" => \A t \in condemned[e] : Allows(snapshot[e], t)
\* The inductive invariant.
CheckInv == PolicyTypeOK /\ (~Running => tables = {}) /\ \A e \in Checkers : Condemned(e)

LEMMA InitCheck == PolicyInit => CheckInv
<1> SUFFICES ASSUME PolicyInit PROVE CheckInv
  OBVIOUS
<1>1. PolicyTypeOK
  BY DefaultPolicies, PolicyBoundsAssumption DEF PolicyInit, PolicyTypeOK, Stored
<1> QED BY <1>1 DEF PolicyInit, CheckInv, Condemned, Running

\* A step that no check takes and that leaves today, or makes it later.
LEMMA OtherCheck ==
  ASSUME CheckInv, PolicyTypeOK', UNCHANGED <<engine, check>>, today <= today'
  PROVE  CheckInv'
<1>1. today \in Nat /\ today' \in Nat
  BY PolicyBoundsAssumption DEF CheckInv, PolicyTypeOK
<1>2. ASSUME NEW e \in Checkers PROVE Condemned(e)'
  <2> SUFFICES ASSUME checking[e] = "delete", NEW t \in condemned[e] PROVE Allows(snapshot[e], t)'
    BY DEF Condemned, check
  <2>1. snapshot[e] \in Policies /\ t \in Tables /\ Allows(snapshot[e], t) /\ snapshot' = snapshot
    BY DEF CheckInv, PolicyTypeOK, Condemned, check
  <2>2. Allows(snapshot[e], t)'
    <3> DEFINE p == snapshot[e]
    <3>1. p' = p /\ p \in Policies /\ Allows(p, t)
      BY <2>1
    <3>2. (\A a \in Applications : p'.applications[a] = p.applications[a])
      BY <3>1
    <3>3. \A w \in Periods : Over(t, w) => Over(t, w)'
      <4> TAKE w \in Periods
      <4>1. w # Forever => w \in Nat
        BY DaysAssumption DEF Periods
      <4> QED BY <1>1, <2>1, <4>1, TablesAssumption DEF Over
    <3>4. p.global \in Periods /\ \A a \in AppsOf[t] : Effective(p, a) \in Periods
      BY <2>1, <3>1, TablesAssumption DEF Policies, Effective
    <3> HIDE DEF p
    <3>5. /\ \A a \in AppsOf[t] : Past(p, t, a) => Past(p, t, a)'
          /\ Nameless(p, t) => Nameless(p, t)'
          /\ \A a \in AppsOf[t] : Overlooked(p, t, a) => Overlooked(p, t, a)'
      BY <3>1, <3>2, <3>3, <3>4 DEF Past, Nameless, Overlooked, Effective
    <3>6. Allows(p, t)'
      BY <3>1, <3>5 DEF Allows
    <3> QED BY <3>6 DEF p
  <2> QED BY <2>2
<1> QED BY <1>2 DEF CheckInv, check, Running

LEMMA ChangerCheck ==
  ASSUME CheckInv, NEW c \in Changers,
         ChangePolicy(c) \/ PolicySaveBegin(c) \/ PolicySaveOpen(c) \/ PolicySaveWrite(c)
  PROVE  CheckInv'
<1> USE DEF CheckInv, PolicyTypeOK, CheckVars
<1>1. CASE ChangePolicy(c)
  <2>1. policies' \in Policies
    BY <1>1, ResultPolicies DEF ChangePolicy
  <2>2. doing' \in [Changers -> {"idle", "save", "open", "write"}]
    <3>1. PICK change \in Changes :
            doing' = IF change.name = "remove" /\ policies.applications[change.application] = Unset
                     THEN doing ELSE [doing EXCEPT ![c] = "save"]
      BY <1>1 DEF ChangePolicy
    <3> QED BY <3>1
  <2>3. changes' \in 0..MaxChanges /\ UNCHANGED <<policyFile, writing, policyFaults, engine, check, today, restarts>>
    BY <1>1, PolicyBoundsAssumption DEF ChangePolicy
  <2>4. PolicyTypeOK'
    BY <2>1, <2>2, <2>3 DEF check
  <2> QED BY <2>3, <2>4, OtherCheck
<1>2. CASE PolicySaveBegin(c)
  <2>1. PolicyTypeOK' /\ UNCHANGED <<engine, check, today>>
    BY <1>2 DEF PolicySaveBegin, check
  <2> QED BY <2>1, OtherCheck
<1>3. CASE PolicySaveOpen(c)
  <2>1. policyFaults' \in 0..MaxPolicyFaults /\ UNCHANGED <<policies, changes, engine, check, today, restarts>>
    BY <1>3, PolicyBoundsAssumption DEF PolicySaveOpen, PolicyFault
  <2>2. /\ policyFile' \in [kind : {"absent", "torn", "whole"}, policies : Policies]
        /\ doing' \in [Changers -> {"idle", "save", "open", "write"}]
        /\ writing' \in [Changers -> Policies]
    BY <1>3, DefaultPolicies DEF PolicySaveOpen, Saved, Stored
  <2>3. PolicyTypeOK'
    BY <2>1, <2>2 DEF check
  <2> QED BY <2>1, <2>3, OtherCheck
<1>4. CASE PolicySaveWrite(c)
  <2>1. policyFaults' \in 0..MaxPolicyFaults /\ UNCHANGED <<policies, changes, engine, check, today, restarts>>
    BY <1>4, PolicyBoundsAssumption DEF PolicySaveWrite, PolicyFault
  <2>2. /\ policyFile' \in [kind : {"absent", "torn", "whole"}, policies : Policies]
        /\ doing' \in [Changers -> {"idle", "save", "open", "write"}]
        /\ writing' \in [Changers -> Policies]
    BY <1>4, DefaultPolicies DEF PolicySaveWrite, Saved, Stored
  <2>3. PolicyTypeOK'
    BY <2>1, <2>2 DEF check
  <2> QED BY <2>1, <2>3, OtherCheck
<1> QED BY <1>1, <1>2, <1>3, <1>4

LEMMA BeginCheck == ASSUME CheckInv, NEW e \in Checkers, CheckBegin(e) PROVE CheckInv'
<1>1. PolicyTypeOK'
  BY DEF CheckInv, PolicyTypeOK, CheckBegin, changing
<1>2. /\ checking' = [checking EXCEPT ![e] = "select"] /\ snapshot' = [snapshot EXCEPT ![e] = policies]
      /\ UNCHANGED <<engine, condemned, tables, today>>
  BY DEF CheckBegin
<1>3. ASSUME NEW d \in Checkers PROVE Condemned(d)'
  <2>1. CASE d = e
    BY <1>2, <2>1 DEF Condemned, CheckInv, PolicyTypeOK
  <2>2. CASE d # e
    BY <1>2, <2>2 DEF Condemned, CheckInv, PolicyTypeOK, Allows, Past, Nameless, Overlooked, Over, Effective
  <2> QED BY <2>1, <2>2
<1> QED BY <1>1, <1>2, <1>3 DEF CheckInv, Running

LEMMA SelectCheck == ASSUME CheckInv, NEW e \in Checkers, CheckSelect(e) PROVE CheckInv'
<1>1. PICK order \in [tables -> Orders] :
        /\ \A t \in tables : ToSet(order[t]) = AppsOf[t]
        /\ condemned' = [condemned EXCEPT ![e] = {t \in tables : Over(t, Period(snapshot[e], order[t]))}]
  BY DEF CheckSelect
<1>2. /\ checking' = [checking EXCEPT ![e] = "delete"]
      /\ UNCHANGED <<engine, changing, snapshot, tables, tableFiles, today, policyFaults, restarts, changes>>
  BY DEF CheckSelect
<1>3. condemned' \in [Checkers -> SUBSET Tables] /\ condemned'[e] \subseteq tables
  BY <1>1 DEF CheckInv, PolicyTypeOK
<1>4. PolicyTypeOK'
  BY <1>2, <1>3 DEF CheckInv, PolicyTypeOK, changing
<1>5. ASSUME NEW t \in condemned'[e] PROVE Allows(snapshot[e], t)
  <2>1. t \in tables /\ t \in Tables /\ Over(t, Period(snapshot[e], order[t])) /\ order[t] \in Orders
    BY <1>1, <1>5 DEF CheckInv, PolicyTypeOK
  <2>2. today \in Nat /\ snapshot[e] \in Policies
    BY PolicyBoundsAssumption DEF CheckInv, PolicyTypeOK
  <2> QED BY <1>1, <2>1, <2>2, OverAllows
<1>6. ASSUME NEW d \in Checkers PROVE Condemned(d)'
  <2>1. CASE d = e
    BY <1>2, <1>5, <2>1 DEF Condemned, Allows, Past, Nameless, Overlooked, Over, Effective
  <2>2. CASE d # e
    BY <1>1, <1>2, <2>2 DEF Condemned, CheckInv, PolicyTypeOK, Allows, Past, Nameless, Overlooked, Over, Effective
  <2> QED BY <2>1, <2>2
<1> QED BY <1>2, <1>4, <1>6 DEF CheckInv, Running

LEMMA DeleteCheck ==
  ASSUME CheckInv, NEW e \in Checkers, CheckDelete(e)
  PROVE  CheckInv' /\ checking[e] = "delete" /\ \A t \in tables \ tables' : Allows(snapshot[e], t)
<1>1. PICK t \in condemned[e] :
        /\ condemned' = [condemned EXCEPT ![e] = @ \ {t}]
        /\ tables' = tables \ {t}
        /\ \/ tableFiles' = tableFiles \ {t} /\ UNCHANGED policyFaults
           \/ t \in tableFiles /\ PolicyFault /\ UNCHANGED tableFiles
  BY DEF CheckDelete
<1>2. /\ checking[e] = "delete" /\ Running
      /\ UNCHANGED <<engine, changing, checking, snapshot, today, restarts, changes>>
  BY DEF CheckDelete
<1>3. policyFaults' \in 0..MaxPolicyFaults
  BY <1>1, PolicyBoundsAssumption DEF PolicyFault, CheckInv, PolicyTypeOK
<1>4. PolicyTypeOK'
  BY <1>1, <1>2, <1>3 DEF CheckInv, PolicyTypeOK, changing
<1>5. \A d \in Checkers : condemned'[d] \subseteq condemned[d]
  BY <1>1 DEF CheckInv, PolicyTypeOK
<1>6. ASSUME NEW d \in Checkers PROVE Condemned(d)'
  BY <1>2, <1>5 DEF Condemned, CheckInv, Allows, Past, Nameless, Overlooked, Over, Effective
<1>7. (~Running => tables = {})'
  BY <1>2 DEF Running
<1>8. Allows(snapshot[e], t)
  BY <1>1, <1>2 DEF CheckInv, Condemned
<1> QED BY <1>1, <1>2, <1>4, <1>6, <1>7, <1>8 DEF CheckInv

LEMMA EndCheck == ASSUME CheckInv, NEW e \in Checkers, CheckEnd(e) PROVE CheckInv'
<1>1. PolicyTypeOK'
  BY DefaultPolicies DEF CheckInv, PolicyTypeOK, CheckEnd, changing
<1>2. /\ checking' = [checking EXCEPT ![e] = "idle"] /\ snapshot' = [snapshot EXCEPT ![e] = Default]
      /\ UNCHANGED <<engine, condemned, tables, today>>
  BY DEF CheckEnd
<1>3. ASSUME NEW d \in Checkers PROVE Condemned(d)'
  <2>1. CASE d = e
    BY <1>2, <2>1 DEF Condemned, CheckInv, PolicyTypeOK
  <2>2. CASE d # e
    BY <1>2, <2>2 DEF Condemned, CheckInv, PolicyTypeOK, Allows, Past, Nameless, Overlooked, Over, Effective
  <2> QED BY <2>1, <2>2
<1> QED BY <1>1, <1>2, <1>3 DEF CheckInv, Running

LEMMA EngineCheck == ASSUME CheckInv, StartEngine \/ EndEngine PROVE CheckInv'
<1>1. CASE StartEngine
  <2>1. Loaded \in Policies
    BY DefaultPolicies, FromEnvAssumption DEF Loaded, CheckInv, PolicyTypeOK
  <2>2. policyFaults' \in 0..MaxPolicyFaults /\ UNCHANGED AtRest
    BY <1>1, PolicyBoundsAssumption
    DEF StartEngine, StartLoad, StartSaveOpen, StartSaveWrite, StartFails, PolicyFault, CheckInv, PolicyTypeOK, AtRest
  <2>3. /\ engine' \in {"down", "loaded", "saving", "running"} /\ policies' \in Policies
        /\ policyFile' \in [kind : {"absent", "torn", "whole"}, policies : Policies]
        /\ tables' \subseteq Tables /\ (engine' # "running" => tables' = {})
    BY <1>1, <2>1, DefaultPolicies
    DEF StartEngine, StartLoad, StartSaveOpen, StartSaveWrite, StartFails, CheckInv, PolicyTypeOK, Stored, Running
  <2>4. PolicyTypeOK' /\ (~Running => tables = {})'
    BY <2>2, <2>3 DEF CheckInv, PolicyTypeOK, AtRest, Running
  <2>5. UNCHANGED <<checking, snapshot, condemned, today>>
    BY <2>2 DEF AtRest
  <2> QED BY <2>4, <2>5 DEF CheckInv, Condemned, Allows, Past, Nameless, Overlooked, Over, Effective
<1>2. CASE EndEngine
  <2>1. restarts' \in 0..MaxRestarts
    BY <1>2, PolicyBoundsAssumption DEF EndEngine, CheckInv, PolicyTypeOK
  <2>2. PolicyTypeOK'
    BY <1>2, <2>1, DefaultPolicies DEF EndEngine, CheckInv, PolicyTypeOK
  <2>3. tables' = {} /\ \A e \in Checkers : checking'[e] = "idle"
    BY <1>2 DEF EndEngine
  <2> QED BY <2>2, <2>3 DEF CheckInv, Condemned
<1> QED BY <1>1, <1>2

\* What every step does.
GoesRight ==
  \A t \in tables \ tables' :
    engine' = "down" \/ \E e \in Checkers : checking[e] = "delete" /\ Allows(snapshot[e], t)

LEMMA StepCheck ==
  CheckInv /\ [PolicyNext]_policyVars => CheckInv' /\ [GoesRight]_policyVars
<1> SUFFICES ASSUME CheckInv, [PolicyNext]_policyVars PROVE CheckInv' /\ GoesRight
  OBVIOUS
<1>1. ASSUME NEW c \in Changers, ChangePolicy(c) \/ PolicySaveBegin(c) \/ PolicySaveOpen(c) \/ PolicySaveWrite(c)
      PROVE  CheckInv' /\ GoesRight
  <2>1. tables' = tables
    BY <1>1 DEF ChangePolicy, PolicySaveBegin, PolicySaveOpen, PolicySaveWrite, CheckVars, check
  <2> QED BY <1>1, <2>1, ChangerCheck DEF GoesRight
<1>2. ASSUME NEW e \in Checkers, CheckBegin(e) \/ CheckSelect(e) \/ CheckEnd(e)
      PROVE  CheckInv' /\ GoesRight
  <2>1. tables' = tables
    BY <1>2 DEF CheckBegin, CheckSelect, CheckEnd
  <2> QED BY <1>2, <2>1, BeginCheck, SelectCheck, EndCheck DEF GoesRight
<1>3. ASSUME NEW e \in Checkers, CheckDelete(e) PROVE CheckInv' /\ GoesRight
  BY <1>3, DeleteCheck DEF GoesRight
<1>4. CASE StartEngine
  <2>1. tables = {}
    BY <1>4 DEF StartEngine, StartLoad, StartSaveOpen, StartSaveWrite, CheckInv, Running
  <2> QED BY <1>4, <2>1, EngineCheck DEF GoesRight
<1>5. CASE EndEngine
  BY <1>5, EngineCheck DEF EndEngine, GoesRight
<1>6. CASE DayPasses
  <2>1. today' \in 0..LastDay /\ today <= today' /\ UNCHANGED <<engine, changing, check, policyFaults, restarts, changes>>
    BY <1>6, PolicyBoundsAssumption DEF DayPasses, CheckInv, PolicyTypeOK
  <2>2. PolicyTypeOK'
    BY <2>1 DEF CheckInv, PolicyTypeOK, changing, check
  <2> QED BY <2>1, <2>2, OtherCheck DEF GoesRight, check
<1>7. CASE UNCHANGED policyVars
  <2>1. PolicyTypeOK' /\ UNCHANGED <<engine, check, today>> /\ today \in Nat
    BY <1>7, PolicyBoundsAssumption DEF CheckInv, PolicyTypeOK, policyVars, changing, check
  <2> QED BY <2>1, OtherCheck DEF GoesRight, check
<1> QED BY <1>1, <1>2, <1>3, <1>4, <1>5, <1>6, <1>7 DEF PolicyNext, CheckStep

THEOREM CheckInductive == PolicySpec => []CheckInv
  BY InitCheck, StepCheck, PTL DEF PolicySpec

\* enforce_retention: of a table that leaves the list, each application was past retention by the
\* policies the check began with, or is one the loop passes over (Overlooked: no policy of its
\* own, a global "never", and another application with a period), for any tables and periods.
THEOREM AllowedGo == PolicySpec => OnlyAllowedGo
<1>1. PolicySpec => [][GoesRight]_policyVars
  BY InitCheck, StepCheck, PTL DEF PolicySpec
<1> QED BY <1>1, PTL DEF OnlyAllowedGo, GoesRight

----------------------------------------------------------------------------
(* Merging at start-up                                                     *)

\* What an id that has a file maps to is a set of data.
Tabular == onDisk = [i \in TableIds |-> onDisk[i]]

\* While the server runs, no table has the id of the next one or one above it.
FreshAbove == stage = "serving" => \A i \in TableIds : fresh <= i => onDisk[i] = {}

\* The table being written is apart from the batch, which it has read.
BatchRead ==
  stage = "write" =>
    /\ output \in TableIds /\ onDisk[output] = {}
    /\ ~reused => \A i \in batch : i # output /\ onDisk[i] \subseteq gathered

\* What is still to be removed is apart from the table written, which has its data.
BatchMerged ==
  stage = "remove" /\ ~reused =>
    output \in TableIds /\ \A i \in batch : i # output /\ onDisk[i] \subseteq onDisk[output]

\* The inductive invariant.
MergeInv ==
  /\ Tabular /\ fresh \in Nat
  /\ FreshAbove /\ BatchRead /\ BatchMerged
  /\ LostOnlyByReuse

\* Changing one file changes no other.
LEMMA OneFile ==
  ASSUME Tabular, NEW i \in TableIds, NEW d, onDisk' = [onDisk EXCEPT ![i] = d]
  PROVE  /\ Tabular'
         /\ onDisk'[i] = d
         /\ \A j \in TableIds : j # i => onDisk'[j] = onDisk[j]
  BY DEF Tabular

\* Data stays when the file that changes had none.
LEMMA EmptyFile ==
  ASSUME Tabular, NEW i \in TableIds, NEW d, onDisk[i] = {},
         onDisk' = [onDisk EXCEPT ![i] = d]
  PROVE  Kept' = Kept \union d
<1>1. onDisk'[i] = d /\ \A j \in TableIds : j # i => onDisk'[j] = onDisk[j]
  BY OneFile
<1>2. ASSUME NEW n \in Kept PROVE n \in Kept'
  BY <1>1, <1>2 DEF Kept
<1>3. ASSUME NEW n \in d PROVE n \in Kept'
  BY <1>1, <1>3 DEF Kept
<1>4. ASSUME NEW n \in Kept' PROVE n \in Kept \union d
  <2>1. PICK j \in TableIds : n \in onDisk'[j]
    BY <1>4 DEF Kept
  <2> QED BY <1>1, <2>1 DEF Kept
<1> QED BY <1>2, <1>3, <1>4

\* An action that leaves files, history and the batch alone, and does not start to serve,
\* write or remove.
LEMMA Idling ==
  ASSUME MergeInv, UNCHANGED <<onDisk, flushed, reused>>, fresh' \in Nat,
         stage' \notin {"serving", "write", "remove"}
  PROVE  MergeInv'
  BY DEF MergeInv, Tabular, FreshAbove, BatchRead, BatchMerged, LostOnlyByReuse, Kept

LEMMA InitMerge == StartupInit => MergeInv
  BY StartupBoundsAssumption
  DEF StartupInit, MergeInv, Tabular, FreshAbove, BatchRead, BatchMerged, LostOnlyByReuse,
      TableIds

LEMMA FlushMerge == ASSUME MergeInv, FlushTable PROVE MergeInv'
<1>1. /\ fresh \in TableIds /\ fresh' = fresh + 1 /\ fresh \in Nat
      /\ onDisk[fresh] = {} /\ reused' = reused
      /\ stage' \in {"serving", "down"}
  BY DEF FlushTable, MergeInv, FreshAbove, TableIds
<1>2. \E d : /\ onDisk' = [onDisk EXCEPT ![fresh] = d]
             /\ flushed' \subseteq flushed \union d
  <2>1. CASE stage' = "down"
    BY <2>1 DEF FlushTable
  <2>2. CASE stage' = "serving"
    BY <2>2, <1>1 DEF FlushTable
  <2> QED BY <1>1, <2>1, <2>2
<1>3. PICK d : /\ onDisk' = [onDisk EXCEPT ![fresh] = d]
               /\ flushed' \subseteq flushed \union d
  BY <1>2
<1>4. /\ Tabular' /\ \A j \in TableIds : j # fresh => onDisk'[j] = onDisk[j]
      /\ Kept' = Kept \union d
  BY <1>1, <1>3, OneFile, EmptyFile DEF MergeInv
<1>5. FreshAbove'
  BY <1>1, <1>4 DEF MergeInv, FreshAbove, FlushTable, TableIds
<1> QED
  BY <1>1, <1>3, <1>4, <1>5 DEF MergeInv, BatchRead, BatchMerged, LostOnlyByReuse

LEMMA RoundMerge == ASSUME MergeInv, Round PROVE MergeInv'
<1>1. CASE stage' = "write"
  <2>1. PICK taken :
          /\ \A i \in ToSet(taken) : Opens(i)
          /\ batch' = ToSet(taken)
          /\ gathered' = UNION {onDisk[i] : i \in ToSet(taken)}
          /\ output' = fresh /\ fresh' = fresh + 1 /\ fresh \in TableIds
          /\ reused' = (reused \/ Opens(fresh))
          /\ onDisk' = [onDisk EXCEPT ![fresh] = {}]
          /\ flushed' = flushed
    BY <1>1 DEF Round, AfterFailure
  <2>2. /\ Tabular' /\ onDisk'[fresh] = {}
        /\ \A j \in TableIds : j # fresh => onDisk'[j] = onDisk[j]
    BY <2>1, OneFile DEF MergeInv
  <2>3. ASSUME ~reused', NEW i \in ToSet(taken)
        PROVE  i # fresh /\ onDisk'[i] \subseteq gathered'
    <3>1. i # fresh
      BY <2>1, <2>3
    <3>2. onDisk'[i] = onDisk[i]
      BY <2>1, <3>1 DEF MergeInv, Tabular
    <3> QED BY <2>1, <3>1, <3>2
  <2>4. LostOnlyByReuse'
    <3> SUFFICES ASSUME ~reused' PROVE flushed' \subseteq Kept'
      BY DEF LostOnlyByReuse
    <3>1. ~reused /\ onDisk[fresh] = {}
      BY <2>1 DEF Opens
    <3> QED BY <2>1, <3>1, EmptyFile DEF MergeInv, LostOnlyByReuse
  <2>5. fresh' \in Nat
    BY <2>1 DEF MergeInv
  <2> QED BY <1>1, <2>1, <2>2, <2>3, <2>4, <2>5
    DEF MergeInv, FreshAbove, BatchRead, BatchMerged
<1>2. CASE stage' = "broken"
  <2>1. UNCHANGED <<onDisk, flushed, reused>> /\ fresh' \in {fresh, fresh + 1}
    BY <1>2 DEF Round
  <2> QED BY <1>2, <2>1, Idling DEF MergeInv
<1> QED BY <1>1, <1>2 DEF Round, AfterFailure

LEMMA WriteMerge == ASSUME MergeInv, MergeWritten PROVE MergeInv'
<1>1. CASE stage' = "remove"
  <2>1. /\ onDisk' = [onDisk EXCEPT ![output] = gathered]
        /\ UNCHANGED <<batch, fresh, output, gathered, flushed, reused>>
        /\ stage = "write"
    BY <1>1 DEF MergeWritten, Written, AfterFailure
  <2>2. output \in TableIds /\ onDisk[output] = {}
    BY <2>1 DEF MergeInv, BatchRead
  <2>3. Tabular' /\ onDisk'[output] = gathered /\ Kept' = Kept \union gathered
    BY <2>1, <2>2, OneFile, EmptyFile DEF MergeInv
  <2>4. ASSUME ~reused, NEW i \in batch
        PROVE  i # output /\ onDisk'[i] \subseteq gathered
    <3>1. i # output /\ onDisk[i] \subseteq gathered
      BY <2>1, <2>4 DEF MergeInv, BatchRead
    <3>2. onDisk'[i] = onDisk[i]
      BY <2>1, <3>1 DEF MergeInv, Tabular
    <3> QED BY <3>1, <3>2
  <2> QED BY <1>1, <2>1, <2>2, <2>3, <2>4
    DEF MergeInv, FreshAbove, BatchRead, BatchMerged, LostOnlyByReuse
<1>2. CASE stage' = "broken"
  <2>1. UNCHANGED <<onDisk, flushed, reused, fresh>>
    BY <1>2 DEF MergeWritten
  <2> QED BY <1>2, <2>1, Idling DEF MergeInv
<1> QED BY <1>1, <1>2 DEF MergeWritten, AfterFailure

LEMMA RemoveMerge == ASSUME MergeInv, RemoveOld PROVE MergeInv'
<1>1. PICK i \in batch : FileGoes(i) /\ batch' = batch \ {i}
  BY DEF RemoveOld
<1>2. /\ stage = "remove" /\ stage' \in {"round", "remove"}
      /\ onDisk' = [onDisk EXCEPT ![i] = {}]
      /\ UNCHANGED <<fresh, output, flushed, reused>>
  BY <1>1 DEF RemoveOld, FileGoes
<1>3. Tabular' /\ \A j : j # i => onDisk'[j] = onDisk[j]
  BY <1>2 DEF MergeInv, Tabular
<1>4. ASSUME ~reused
      PROVE  /\ output \in TableIds /\ onDisk'[output] = onDisk[output]
             /\ \A j \in batch : j # output /\ onDisk[j] \subseteq onDisk[output]
  BY <1>1, <1>2, <1>3, <1>4 DEF MergeInv, BatchMerged
<1>5. BatchMerged'
  BY <1>1, <1>2, <1>3, <1>4 DEF BatchMerged
<1>6. LostOnlyByReuse'
  <2> SUFFICES ASSUME ~reused, NEW n \in flushed PROVE n \in Kept'
    BY <1>2 DEF LostOnlyByReuse
  <2>1. PICK j \in TableIds : n \in onDisk[j]
    BY DEF MergeInv, LostOnlyByReuse, Kept
  <2>2. CASE j = i
    BY <1>1, <1>4, <2>1, <2>2 DEF Kept
  <2>3. CASE j # i
    BY <1>3, <2>1, <2>3 DEF Kept
  <2> QED BY <2>2, <2>3
<1> QED BY <1>2, <1>3, <1>5, <1>6 DEF MergeInv, FreshAbove, BatchRead

LEMMA OpenMerge == ASSUME MergeInv, OpenAll PROVE MergeInv'
<1>1. PICK m \in WholeTables \union {0} : (\A i \in WholeTables : i <= m) /\ fresh' = m + 1
  BY DEF OpenAll
<1>2. /\ stage' = "serving" /\ m \in Nat
      /\ UNCHANGED <<onDisk, flushed, reused>>
  BY <1>1, StartupBoundsAssumption DEF OpenAll, WholeTables, TableIds
<1>3. FreshAbove'
  BY <1>1, <1>2, StartupBoundsAssumption DEF FreshAbove, WholeTables, TableIds
<1> QED BY <1>1, <1>2, <1>3
  DEF MergeInv, Tabular, BatchRead, BatchMerged, LostOnlyByReuse, Kept

LEMMA StepMerge == MergeInv /\ [StartupNext]_startupVars => MergeInv'
<1> SUFFICES ASSUME MergeInv, [StartupNext]_startupVars PROVE MergeInv'
  OBVIOUS
<1>1. CASE Find \/ Enough \/ Begin \/ ProcessEnds
  <2>1. /\ UNCHANGED <<onDisk, flushed, reused>>
        /\ fresh' \in {fresh, 0}
        /\ stage' \notin {"serving", "write", "remove"}
    BY <1>1 DEF Find, Enough, Begin, ProcessEnds
  <2> QED BY <2>1, Idling DEF MergeInv
<1>2. CASE UNCHANGED startupVars
  BY <1>2 DEF startupVars, found, MergeInv, Tabular, FreshAbove, BatchRead, BatchMerged,
    LostOnlyByReuse, Kept
<1> QED
  BY <1>1, <1>2, FlushMerge, RoundMerge, WriteMerge, RemoveMerge, OpenMerge
  DEF StartupNext, Starting

\* Merging at start-up loses data only where it writes a table over another one: for any number of
\* tables, starts, crashes and unfinished files.
THEOREM OnlyReuseLoses == StartupSpec => []LostOnlyByReuse
<1>1. StartupSpec => []MergeInv
  BY InitMerge, StepMerge, PTL DEF StartupSpec
<1>2. MergeInv => LostOnlyByReuse
  BY DEF MergeInv
<1> QED BY <1>1, <1>2, PTL

----------------------------------------------------------------------------
(* How many tables a start leaves                                          *)

\* The front and the rest of a sequence, and the two in the other order.
LEMMA SetOfParts ==
  ASSUME NEW T, NEW s \in Seq(T), NEW k \in Nat, k <= Len(s)
  PROVE  LET t == SubSeq(s, 1, k)
             u == SubSeq(s, k + 1, Len(s))
         IN  /\ t \in Seq(T) /\ u \in Seq(T) /\ u \o t \in Seq(T)
             /\ ToSet(s) = ToSet(t) \union ToSet(u)
             /\ ToSet(u \o t) = ToSet(s)
<1> DEFINE t == SubSeq(s, 1, k)
           u == SubSeq(s, k + 1, Len(s))
           n == Len(s)
<1>1. n \in Nat /\ DOMAIN s = 1..n /\ \A i \in 1..n : s[i] \in T
  BY LenProperties, ElementOfSeq
<1>2. t \in Seq(T) /\ Len(t) = k /\ DOMAIN t = 1..k /\ \A i \in 1..k : t[i] = s[i]
  BY <1>1
<1>3. u \in Seq(T) /\ Len(u) = n - k /\ DOMAIN u = 1..(n - k) /\ \A i \in 1..(n - k) : u[i] = s[k + i]
  <2>1. k + 1 \in Int /\ n \in Int /\ \A i \in (k + 1)..n : s[i] \in T
    BY <1>1
  <2> HIDE DEF n
  <2>2. /\ u \in Seq(T)
        /\ Len(u) = IF k + 1 <= n THEN n - (k + 1) + 1 ELSE 0
        /\ \A i \in 1..(n - (k + 1) + 1) : u[i] = s[k + 1 + i - 1]
    <3>1. u = SubSeq(s, k + 1, n)
      BY DEF u, n
    <3> HIDE DEF u
    <3>2. /\ SubSeq(s, k + 1, n) \in Seq(T)
          /\ Len(SubSeq(s, k + 1, n)) = IF k + 1 <= n THEN n - (k + 1) + 1 ELSE 0
          /\ \A i \in 1..(n - (k + 1) + 1) : SubSeq(s, k + 1, n)[i] = s[k + 1 + i - 1]
      BY <2>1, SubSeqProperties
    <3> QED BY <3>1, <3>2
  <2> HIDE DEF u
  <2>3. n \in Nat /\ k <= n
    BY <1>1 DEF n
  <2>4. n - (k + 1) + 1 = n - k /\ n - k \in Nat /\ (~(k + 1 <= n) => n - k = 0)
    BY <2>3
  <2>5. Len(u) = n - k
    BY <2>2, <2>4
  <2>6. DOMAIN u = 1..(n - k)
    BY <2>2, <2>5, LenProperties
  <2>7. ASSUME NEW i \in 1..(n - k) PROVE u[i] = s[k + i]
    <3>1. k + 1 + i - 1 = k + i
      BY <2>3, <2>4
    <3>2. u[i] = s[k + 1 + i - 1]
      BY <2>2, <2>4
    <3> QED BY <3>1, <3>2
  <2> QED BY <2>2, <2>5, <2>6, <2>7
<1> HIDE DEF t, u, n
<1>4. ToSet(s) \subseteq ToSet(t) \union ToSet(u)
  <2> SUFFICES ASSUME NEW i \in 1..n PROVE s[i] \in ToSet(t) \union ToSet(u)
    BY <1>1 DEF ToSet
  <2>1. CASE i <= k
    <3>1. i \in 1..k
      BY <1>1, <2>1
    <3> QED BY <1>2, <3>1 DEF ToSet
  <2>2. CASE ~(i <= k)
    <3>1. i - k \in 1..(n - k) /\ k + (i - k) = i
      BY <1>1, <2>2
    <3> QED BY <1>3, <3>1 DEF ToSet
  <2> QED BY <2>1, <2>2
<1>5. ToSet(t) \union ToSet(u) \subseteq ToSet(s)
  <2>1. \A i \in 1..k : i \in 1..n
    BY <1>1 DEF n
  <2>2. \A i \in 1..(n - k) : k + i \in 1..n
    BY <1>1 DEF n
  <2>3. \A i \in 1..k : t[i] \in ToSet(s)
    BY <1>1, <1>2, <2>1 DEF ToSet
  <2>4. \A i \in 1..(n - k) : u[i] \in ToSet(s)
    BY <1>1, <1>3, <2>2 DEF ToSet
  <2>5. ToSet(t) = {t[i] : i \in 1..k} /\ ToSet(u) = {u[i] : i \in 1..(n - k)}
    BY <1>2, <1>3 DEF ToSet
  <2> QED BY <2>3, <2>4, <2>5
<1>6. /\ u \o t \in Seq(T) /\ DOMAIN (u \o t) = 1..n
      /\ \A i \in 1..(n - k) : (u \o t)[i] = u[i]
      /\ \A i \in 1..k : (u \o t)[n - k + i] = t[i]
  <2>1. n - k \in Nat
    BY <1>1 DEF n
  <2>2. u \o t \in Seq(T) /\ Len(u \o t) = Len(u) + Len(t)
    BY <1>2, <1>3, ConcatProperties
  <2>3. DOMAIN (u \o t) = 1..n
    BY <1>1, <1>2, <1>3, <2>1, <2>2, LenProperties
  <2>4. \A i \in 1..(Len(u) + Len(t)) :
          (u \o t)[i] = IF i <= Len(u) THEN u[i] ELSE t[i - Len(u)]
    BY <1>2, <1>3, ConcatProperties
  <2>5. Len(u) = n - k /\ Len(t) = k /\ n \in Nat /\ k \in 0..n
    BY <1>1, <1>2, <1>3
  <2> HIDE DEF t, u, n
  <2>6. \A i \in 1..(n - k) : (u \o t)[i] = u[i]
    BY <2>4, <2>5
  <2>7. \A i \in 1..k : (u \o t)[n - k + i] = t[i]
    <3> TAKE i \in 1..k
    <3> DEFINE j == n - k + i
    <3>1. j \in 1..(Len(u) + Len(t)) /\ ~(j <= Len(u)) /\ j - Len(u) = i
      BY <2>5
    <3> HIDE DEF j
    <3>2. (u \o t)[j] = t[j - Len(u)]
      BY <2>4, <3>1, Zenon
    <3>3. (u \o t)[j] = t[i]
      BY <3>1, <3>2, Zenon
    <3> QED BY <3>3, Zenon DEF j
  <2> QED BY <2>2, <2>3, <2>6, <2>7
<1>7. ToSet(t) \union ToSet(u) \subseteq ToSet(u \o t)
  <2>1. \A i \in 1..(n - k) : i \in 1..n
    BY <1>1 DEF n
  <2>2. \A i \in 1..k : n - k + i \in 1..n
    BY <1>1 DEF n
  <2> DEFINE v == u \o t
  <2>3. DOMAIN v = 1..n /\ (\A i \in 1..(n - k) : v[i] = u[i]) /\ \A i \in 1..k : v[n - k + i] = t[i]
    BY <1>6
  <2> HIDE DEF v
  <2>4. \A i \in 1..k : t[i] \in ToSet(v)
    BY <2>2, <2>3 DEF ToSet
  <2>5. \A i \in 1..(n - k) : u[i] \in ToSet(v)
    BY <2>1, <2>3 DEF ToSet
  <2>6. ToSet(t) = {t[i] : i \in 1..k} /\ ToSet(u) = {u[i] : i \in 1..(n - k)}
    BY <1>2, <1>3 DEF ToSet
  <2>7. ToSet(t) \union ToSet(u) \subseteq ToSet(v)
    BY <2>4, <2>5, <2>6
  <2> QED BY <2>7 DEF v
<1>8. ToSet(u \o t) \subseteq ToSet(t) \union ToSet(u)
  <2> SUFFICES ASSUME NEW i \in 1..n PROVE (u \o t)[i] \in ToSet(t) \union ToSet(u)
    BY <1>6 DEF ToSet
  <2>1. CASE i <= n - k
    <3>1. i \in 1..(n - k)
      BY <1>1, <2>1
    <3> QED BY <1>3, <1>6, <3>1 DEF ToSet
  <2>2. CASE ~(i <= n - k)
    <3>1. i - (n - k) \in 1..k /\ n - k + (i - (n - k)) = i
      BY <1>1, <2>2
    <3>2. (u \o t)[i] = t[i - (n - k)]
      <4> DEFINE j == i - (n - k)
      <4>1. j \in 1..k /\ n - k + j = i
        BY <3>1
      <4> HIDE DEF j
      <4>2. (u \o t)[n - k + j] = t[j]
        BY <1>6, <4>1
      <4> QED BY <4>1, <4>2 DEF j
    <3>3. t[i - (n - k)] \in ToSet(t)
      BY <1>2, <3>1 DEF ToSet
    <3> QED BY <3>2, <3>3
  <2> QED BY <2>1, <2>2
<1> QED BY <1>2, <1>3, <1>4, <1>5, <1>6, <1>7, <1>8 DEF t, u, n

\* A sequence has no more elements than places.
LEMMA SetOfLength ==
  ASSUME NEW T, NEW s \in Seq(T)
  PROVE  IsFiniteSet(ToSet(s)) /\ Cardinality(ToSet(s)) <= Len(s)
<1> DEFINE n == Len(s)
<1>1. n \in Nat /\ DOMAIN s = 1..n
  OBVIOUS
<1>2. s \in [1..n -> ToSet(s)] /\ \A e \in ToSet(s) : \E i \in 1..n : s[i] = e
  BY <1>1 DEF ToSet
<1> HIDE DEF n
<1>3. s \in Surjection(1..n, ToSet(s))
  BY <1>2, Fun_IsSurj
<1>4. IsFiniteSet(1..n) /\ Cardinality(1..n) = n
  BY <1>1, FS_Interval
<1>5. IsFiniteSet(ToSet(s)) /\ Cardinality(ToSet(s)) <= Cardinality(1..n)
  BY <1>3, <1>4, FS_Surjection
<1> QED BY <1>4, <1>5 DEF n

\* What start-up has still to look at, has still to remove and writes is all that has a file.
KnownFiles ==
  /\ stage = "round" => present \subseteq ToSet(remaining)
  /\ stage = "write" => /\ present \subseteq ToSet(remaining) \union batch \union {output}
                        /\ output \in present /\ onDisk[output] = {}
  /\ stage = "remove" => present \subseteq ToSet(remaining) \union batch
  /\ stage = "open" => Len(remaining) <= OpenLimit /\ present \subseteq ToSet(remaining)
\* The inductive invariant.
KnownInv == StartupTypeOK /\ remaining \in Seq(TableIds) /\ listed \in Seq(TableIds) /\ KnownFiles

LEMMA FewIds == /\ TableIds \in SUBSET Nat /\ IsFiniteSet(TableIds)
                /\ \A S \in SUBSET TableIds : S \in SUBSET Nat /\ IsFiniteSet(S)
<1>1. TableIds \in SUBSET Nat /\ IsFiniteSet(TableIds)
  BY StartupBoundsAssumption, FS_Interval DEF TableIds
<1> QED BY <1>1, FS_Subset

LEMMA SortedIds ==
  ASSUME NEW S \in SUBSET TableIds
  PROVE  Sorted(S) \in Seq(TableIds) /\ Len(Sorted(S)) = Cardinality(S) /\ ToSet(Sorted(S)) = S
<1>1. Sorted(S) \in Seq(S) /\ Len(Sorted(S)) = Cardinality(S) /\ ToSet(Sorted(S)) = S
  BY FewIds, SortedAll
<1> QED BY <1>1

LEMMA NoneLeft == <<>> \in Seq(TableIds) /\ ToSet(<<>>) = {}
  BY DEF ToSet

LEMMA InitKnown == StartupInit => KnownInv
<1> SUFFICES ASSUME StartupInit PROVE KnownInv
  OBVIOUS
<1>1. StartupTypeOK
  <2>1. 0 \in TableIds /\ 0 \in 0..(LastId + 1) /\ 0 \in 0..MaxStarts /\ 0 \in 0..MaxTorn
    BY StartupBoundsAssumption DEF TableIds
  <2>2. onDisk \in [TableIds -> SUBSET Data] /\ WholeTables = {}
    BY DEF StartupInit, WholeTables
  <2>3. ToSet(remaining) = {} /\ ToSet(listed) = {} /\ batch = {}
    BY NoneLeft DEF StartupInit
  <2> QED BY <2>1, <2>2, <2>3 DEF StartupInit, StartupTypeOK
<1> QED BY <1>1, NoneLeft DEF StartupInit, KnownInv, KnownFiles

LEMMA FlushKnown == ASSUME KnownInv, FlushTable PROVE KnownInv'
<1>1. /\ stage = "serving" /\ fresh \in TableIds /\ fresh' = fresh + 1 /\ present' = present \union {fresh}
      /\ UNCHANGED <<remaining, batch, output, gathered, reused, starts>>
  BY DEF FlushTable, found
<1>2. /\ listed' \in Seq(TableIds) /\ ToSet(listed') \subseteq TableIds
      /\ flushed' \subseteq Data /\ tornTables' \in 0..MaxTorn /\ stage' \in {"serving", "down"}
      /\ onDisk' \in [TableIds -> SUBSET Data]
      /\ \A i \in TableIds : onDisk'[i] # {} => i = fresh \/ onDisk[i] # {}
  <2>1. CASE /\ CutShort /\ onDisk' = [onDisk EXCEPT ![fresh] = {}]
             /\ stage' = "down" /\ listed' = <<>> /\ UNCHANGED flushed
    BY <1>1, <2>1, NoneLeft, StartupBoundsAssumption DEF KnownInv, StartupTypeOK, CutShort
  <2>2. CASE \E n \in Data :
               /\ onDisk' = [onDisk EXCEPT ![fresh] = {n}]
               /\ listed' = Append(listed, fresh)
               /\ flushed' = flushed \union {n}
               /\ UNCHANGED <<stage, tornTables>>
    BY <1>1, <2>2, SetOfAppend DEF KnownInv, StartupTypeOK
  <2> QED BY <2>1, <2>2 DEF FlushTable
<1>3. StartupTypeOK'
  <2>1. fresh' \in 0..(LastId + 1)
    BY <1>1, StartupBoundsAssumption DEF TableIds
  <2>2. present' \subseteq TableIds /\ WholeTables' \subseteq present'
    BY <1>1, <1>2 DEF KnownInv, StartupTypeOK, WholeTables
  <2> QED BY <1>1, <1>2, <2>1, <2>2 DEF KnownInv, StartupTypeOK
<1> QED BY <1>1, <1>2, <1>3 DEF KnownInv, KnownFiles

LEMMA FindKnown == ASSUME KnownInv, Find PROVE KnownInv'
<1>1. present \in SUBSET TableIds
  BY DEF KnownInv, StartupTypeOK
<1>2. /\ remaining' \in Seq(TableIds) /\ ToSet(remaining') = present
      /\ stage' = "round" /\ fresh' = 0
      /\ UNCHANGED <<onDisk, present, batch, output, gathered, listed, flushed, reused, starts, tornTables>>
  BY <1>1, SortedIds DEF Find
<1>3. StartupTypeOK'
  BY <1>1, <1>2, StartupBoundsAssumption DEF KnownInv, StartupTypeOK, WholeTables
<1> QED BY <1>2, <1>3 DEF KnownInv, KnownFiles

LEMMA RoundKnown == ASSUME KnownInv, Round PROVE KnownInv'
<1> DEFINE taken == SubSeq(remaining, 1, BatchSize)
           rest == SubSeq(remaining, BatchSize + 1, Len(remaining))
<1>1. /\ taken \in Seq(TableIds) /\ rest \in Seq(TableIds) /\ rest \o taken \in Seq(TableIds)
      /\ ToSet(remaining) = ToSet(taken) \union ToSet(rest)
      /\ ToSet(rest \o taken) = ToSet(remaining)
  <2>1. remaining \in Seq(TableIds) /\ BatchSize \in Nat /\ BatchSize <= Len(remaining)
    BY BatchAssumption, LimitAssumption, LenProperties DEF KnownInv, Round, TooMany
  <2> QED BY <2>1, SetOfParts
<1>2. /\ stage = "round" /\ fresh \in TableIds /\ present \subseteq ToSet(remaining)
      /\ ToSet(remaining) \subseteq TableIds
      /\ UNCHANGED <<listed, flushed, starts>>
  BY DEF Round, KnownInv, KnownFiles, StartupTypeOK
<1> HIDE DEF taken, rest
<1>3. CASE /\ \A i \in ToSet(taken) : Opens(i)
           /\ batch' = ToSet(taken)
           /\ gathered' = UNION {onDisk[i] : i \in ToSet(taken)}
           /\ remaining' = rest
           /\ output' = fresh
           /\ fresh' = fresh + 1
           /\ reused' = (reused \/ Opens(fresh))
           /\ onDisk' = [onDisk EXCEPT ![fresh] = {}]
           /\ present' = present \union {fresh}
           /\ stage' = "write"
           /\ UNCHANGED tornTables
  <2>1. fresh' \in 0..(LastId + 1)
    BY <1>2, <1>3, StartupBoundsAssumption DEF TableIds
  <2>2. /\ onDisk' \in [TableIds -> SUBSET Data] /\ onDisk'[fresh] = {}
        /\ \A i \in TableIds : onDisk'[i] # {} => onDisk[i] # {}
    BY <1>2, <1>3 DEF KnownInv, StartupTypeOK
  <2>3. present' \subseteq TableIds /\ WholeTables' \subseteq present'
    BY <1>2, <1>3, <2>2 DEF KnownInv, StartupTypeOK, WholeTables
  <2>4. gathered' \subseteq Data
    BY <1>1, <1>2, <1>3 DEF KnownInv, StartupTypeOK
  <2>5. reused' \in BOOLEAN
    BY <1>3 DEF KnownInv, StartupTypeOK, Opens
  <2>6. ToSet(remaining') \union batch' \union ToSet(listed') \subseteq TableIds
    BY <1>1, <1>2, <1>3 DEF KnownInv, StartupTypeOK
  <2>7. StartupTypeOK'
    BY <1>2, <1>3, <2>1, <2>2, <2>3, <2>4, <2>5, <2>6 DEF KnownInv, StartupTypeOK
  <2>8. KnownFiles'
    BY <1>1, <1>2, <1>3, <2>2 DEF KnownFiles
  <2> QED BY <1>1, <1>2, <1>3, <2>7, <2>8 DEF KnownInv
<1>4. CASE /\ \E i \in ToSet(taken) : ~Opens(i)
           /\ remaining' = rest \o taken
           /\ stage' = AfterFailure
           /\ UNCHANGED <<onDisk, present, fresh, batch, output, gathered, reused, tornTables>>
  <2>1. StartupTypeOK'
    BY <1>1, <1>2, <1>4 DEF KnownInv, StartupTypeOK, WholeTables, AfterFailure
  <2> QED BY <1>1, <1>2, <1>4, <2>1 DEF KnownInv, KnownFiles, AfterFailure
<1>5. CASE /\ CutShort /\ remaining' = rest /\ fresh' \in {fresh, fresh + 1}
           /\ stage' = AfterFailure
           /\ UNCHANGED <<onDisk, present, batch, output, gathered, reused>>
  <2>1. fresh' \in 0..(LastId + 1) /\ tornTables' \in 0..MaxTorn
    BY <1>2, <1>5, StartupBoundsAssumption DEF TableIds, CutShort, KnownInv, StartupTypeOK
  <2>2. StartupTypeOK'
    BY <1>1, <1>2, <1>5, <2>1 DEF KnownInv, StartupTypeOK, WholeTables, AfterFailure
  <2> QED BY <1>1, <1>2, <1>5, <2>2 DEF KnownInv, KnownFiles, AfterFailure
<1> QED BY <1>3, <1>4, <1>5 DEF Round, taken, rest

LEMMA WriteKnown == ASSUME KnownInv, MergeWritten PROVE KnownInv'
<1>1. /\ stage = "write" /\ UNCHANGED <<present, fresh, output, gathered, listed, flushed, reused, starts>>
      /\ present \subseteq ToSet(remaining) \union batch \union {output}
      /\ output \in present /\ onDisk[output] = {} /\ output \in TableIds
  BY DEF MergeWritten, KnownInv, KnownFiles, StartupTypeOK
<1>2. CASE /\ onDisk' = Written /\ remaining' = Append(remaining, output)
           /\ stage' = "remove" /\ UNCHANGED <<batch, tornTables>>
  <2>1. remaining' \in Seq(TableIds) /\ ToSet(remaining') = ToSet(remaining) \union {output}
    BY <1>1, <1>2, SetOfAppend DEF KnownInv
  <2>2. /\ onDisk' \in [TableIds -> SUBSET Data]
        /\ \A i \in TableIds : onDisk'[i] # {} => i = output \/ onDisk[i] # {}
    BY <1>1, <1>2 DEF Written, KnownInv, StartupTypeOK
  <2>3. StartupTypeOK'
    <3>1. WholeTables' \subseteq present'
      BY <1>1, <2>2 DEF KnownInv, StartupTypeOK, WholeTables
    <3> QED BY <1>1, <1>2, <2>1, <2>2, <3>1 DEF KnownInv, StartupTypeOK
  <2> QED BY <1>1, <1>2, <2>1, <2>3 DEF KnownInv, KnownFiles
<1>3. CASE /\ CutShort /\ stage' = AfterFailure /\ batch' = {} /\ UNCHANGED <<onDisk, remaining>>
  <2>1. StartupTypeOK'
    BY <1>1, <1>3, StartupBoundsAssumption DEF KnownInv, StartupTypeOK, WholeTables, CutShort, AfterFailure
  <2> QED BY <1>1, <1>3, <2>1 DEF KnownInv, KnownFiles, AfterFailure
<1> QED BY <1>2, <1>3 DEF MergeWritten

LEMMA RemoveKnown == ASSUME KnownInv, RemoveOld PROVE KnownInv'
<1>1. PICK i \in batch : onDisk' = [onDisk EXCEPT ![i] = {}] /\ present' = present \ {i} /\ batch' = batch \ {i}
  BY DEF RemoveOld, FileGoes
<1>2. /\ stage = "remove" /\ stage' = IF batch' = {} THEN "round" ELSE "remove"
      /\ UNCHANGED <<fresh, remaining, output, gathered, listed, flushed, reused, starts, tornTables>>
  BY DEF RemoveOld
<1>3. /\ onDisk' \in [TableIds -> SUBSET Data]
      /\ \A j \in TableIds : onDisk'[j] # {} => j # i /\ onDisk[j] # {}
  BY <1>1 DEF KnownInv, StartupTypeOK
<1>4. StartupTypeOK'
  <2>1. WholeTables' \subseteq present'
    BY <1>1, <1>3 DEF KnownInv, StartupTypeOK, WholeTables
  <2> QED BY <1>1, <1>2, <1>3, <2>1 DEF KnownInv, StartupTypeOK
<1> QED BY <1>1, <1>2, <1>4 DEF KnownInv, KnownFiles

\* What a start ends with.
FewListed ==
  stage = "open" /\ stage' = "serving" => Len(listed') <= OpenLimit

LEMMA OpenKnown == ASSUME KnownInv, OpenAll PROVE KnownInv' /\ FewListed
<1>1. /\ listed' = Sorted(WholeTables) /\ stage' = "serving"
      /\ remaining' = <<>> /\ batch' = {} /\ gathered' = {}
      /\ UNCHANGED <<onDisk, present, output, flushed, reused, starts, tornTables>>
  BY DEF OpenAll
<1>2. fresh' \in 0..(LastId + 1)
  BY StartupBoundsAssumption DEF OpenAll, WholeTables, TableIds
<1>3. /\ WholeTables \in SUBSET present /\ present \in SUBSET TableIds /\ WholeTables \in SUBSET TableIds
  BY DEF KnownInv, StartupTypeOK
<1>4. listed' \in Seq(TableIds) /\ ToSet(listed') = WholeTables /\ Len(listed') = Cardinality(WholeTables)
  BY <1>1, <1>3, SortedIds
<1>5. StartupTypeOK'
  BY <1>1, <1>2, <1>3, <1>4, NoneLeft DEF KnownInv, StartupTypeOK, WholeTables
<1>6. ASSUME Len(remaining) <= OpenLimit, present \subseteq ToSet(remaining)
      PROVE  FewListed
  <2>1. remaining \in Seq(TableIds) /\ Len(remaining) \in Nat
    BY LenProperties DEF KnownInv
  <2>2. IsFiniteSet(ToSet(remaining)) /\ Cardinality(ToSet(remaining)) <= Len(remaining)
    BY <2>1, SetOfLength
  <2>3. WholeTables \in SUBSET ToSet(remaining)
    BY <1>3, <1>6
  <2>4. /\ IsFiniteSet(WholeTables) /\ Cardinality(WholeTables) <= Cardinality(ToSet(remaining))
        /\ Cardinality(WholeTables) \in Nat /\ Cardinality(ToSet(remaining)) \in Nat
    BY <2>2, <2>3, FS_Subset, FS_CardinalityType
  <2>5. Len(listed') <= OpenLimit
    BY <1>4, <1>6, <2>1, <2>2, <2>4, LimitAssumption
  <2> QED BY <2>5 DEF FewListed
<1>7. FewListed
  BY <1>1, <1>6 DEF KnownInv, KnownFiles, FewListed
<1> QED BY <1>1, <1>4, <1>5, <1>7, NoneLeft DEF KnownInv, KnownFiles

LEMMA QuietKnown == ASSUME KnownInv, Enough \/ Begin \/ ProcessEnds PROVE KnownInv'
<1>1. CASE Enough
  <2>1. Len(remaining) <= OpenLimit
    BY <1>1, LimitAssumption, LenProperties DEF Enough, TooMany, KnownInv
  <2>2. StartupTypeOK'
    BY <1>1 DEF Enough, KnownInv, StartupTypeOK, WholeTables, found
  <2> QED BY <1>1, <2>1, <2>2 DEF Enough, KnownInv, KnownFiles, found
<1>2. CASE Begin
  BY <1>2, StartupBoundsAssumption DEF Begin, KnownInv, StartupTypeOK, WholeTables, found, KnownFiles
<1>3. CASE ProcessEnds
  BY <1>3, NoneLeft DEF ProcessEnds, KnownInv, StartupTypeOK, WholeTables, KnownFiles
<1> QED BY <1>1, <1>2, <1>3

LEMMA StepKnown == KnownInv /\ [StartupNext]_startupVars => KnownInv' /\ [FewListed]_startupVars
<1> SUFFICES ASSUME KnownInv, [StartupNext]_startupVars PROVE KnownInv' /\ FewListed
  OBVIOUS
<1>1. CASE OpenAll
  BY <1>1, OpenKnown
<1>2. CASE FlushTable \/ Find \/ Round \/ MergeWritten \/ RemoveOld \/ Enough \/ Begin \/ ProcessEnds
  <2>1. ~(stage = "open" /\ stage' = "serving")
    BY <1>2 DEF FlushTable, Find, Round, MergeWritten, RemoveOld, Enough, Begin, ProcessEnds
  <2> QED
    BY <1>2, <2>1, FlushKnown, FindKnown, RoundKnown, WriteKnown, RemoveKnown, QuietKnown DEF FewListed
<1>3. CASE UNCHANGED startupVars
  BY <1>3 DEF startupVars, found, KnownInv, StartupTypeOK, WholeTables, KnownFiles, FewListed
<1> QED BY <1>1, <1>2, <1>3 DEF StartupNext, Starting

THEOREM KnownInductive == StartupSpec => []KnownInv
  BY InitKnown, StepKnown, PTL DEF StartupSpec

\* STARTUP_OPEN_LIMIT: for any number of tables, limit and size of a batch, a start whose loop is
\* not broken off by a batch that cannot be opened, read or written ends with few enough tables.
THEOREM StartsWithFew == StartupSpec => FewTables
<1>1. StartupSpec => [][FewListed]_startupVars
  BY InitKnown, StepKnown, PTL DEF StartupSpec
<1> QED BY <1>1, PTL DEF FewTables, FewListed

----------------------------------------------------------------------------
(* The types of the three                                                  *)

\* Who is at work has a request, and who writes the file has a map.
AtWork(r) ==
  /\ at[r] # "idle" => request[r] \in [bearer : Bearers, operation : Operations]
  /\ at[r] \in {"open", "write"} => saving[r] \in TokenMaps
TokenTypes == TokenTypeOK /\ \A r \in Requests : AtWork(r)

\* What a request says of tokens is about tokens there are.
LEMMA Asked ==
  ASSUME TokenTypes, NEW r \in Requests, at[r] # "idle"
  PROVE  /\ Bearer(r).kind = "token" => Bearer(r).token \in Tokens
         /\ request[r].operation.name = "revoke" => request[r].operation.token \in Tokens
<1>1. Bearer(r) \in Bearers /\ request[r].operation \in Operations
  BY DEF TokenTypes, AtWork, Bearer
<1>2. Bearer(r).kind = "token" => Bearer(r).token \in Tokens
  BY <1>1 DEF Bearers
<1>3. request[r].operation.name = "revoke" => request[r].operation.token \in Tokens
  BY <1>1 DEF Operations
<1> QED BY <1>2, <1>3

LEMMA MarkToken ==
  ASSUME NEW map \in TokenMaps, NEW t \in Tokens, map[t] # None
  PROVE  /\ [map EXCEPT ![t].used = TRUE] \in TokenMaps
         /\ [map EXCEPT ![t].active = FALSE] \in TokenMaps
<1>1. map \in [Tokens -> Info \union {None}] /\ map[t] \in Info
  BY DEF TokenMaps
<1>2. [map[t] EXCEPT !.used = TRUE] \in Info /\ [map[t] EXCEPT !.active = FALSE] \in Info
  BY <1>1 DEF Info
<1> QED BY <1>1, <1>2 DEF TokenMaps

LEMMA InitTypes == TokenInit => TokenTypes
<1> SUFFICES ASSUME TokenInit PROVE TokenTypes
  OBVIOUS
<1>1. TokenTypeOK
  BY NoTokensMap, TokenBoundsAssumption DEF TokenInit, TokenTypeOK
<1> QED BY <1>1 DEF TokenInit, TokenTypes, AtWork

\* A request moves and everything else of the requests stays.
LEMMA ReplyTypes ==
  ASSUME TokenTypes, NEW r \in Requests, Reply(r)
  PROVE  /\ at' \in [Requests -> {"idle", "auth", "operate", "save", "open", "write"}]
         /\ request' \in [Requests -> [bearer : Bearers, operation : Operations] \union {None}]
         /\ then' \in [Requests -> {"operate", "reply"}]
         /\ saving' \in [Requests -> TokenMaps \union {None}]
         /\ made' \in [Requests -> Tokens \union {None}]
         /\ \A q \in Requests : AtWork(q)'
<1>1. /\ at' = [at EXCEPT ![r] = "idle"]
      /\ request' = [request EXCEPT ![r] = None]
      /\ then' = [then EXCEPT ![r] = "reply"]
      /\ saving' = [saving EXCEPT ![r] = None]
      /\ made' = [made EXCEPT ![r] = None]
  BY DEF Reply
<1>2. ASSUME NEW q \in Requests PROVE AtWork(q)'
  BY <1>1 DEF TokenTypes, TokenTypeOK, AtWork
<1> QED BY <1>1, <1>2 DEF TokenTypes, TokenTypeOK

LEMMA ChangeTypes ==
  ASSUME TokenTypes, NEW r \in Requests, at[r] # "idle", NEW map \in TokenMaps,
         NEW label \in {"operate", "reply"}, ChangeMap(r, map, label), UNCHANGED request
  PROVE  /\ tokens' \in TokenMaps
         /\ at' \in [Requests -> {"idle", "auth", "operate", "save", "open", "write"}]
         /\ then' \in [Requests -> {"operate", "reply"}]
         /\ saving' \in [Requests -> TokenMaps \union {None}]
         /\ \A q \in Requests : AtWork(q)'
<1>1. /\ tokens' = map /\ at' = [at EXCEPT ![r] = "save"] /\ request' = request
      /\ saving' = [saving EXCEPT ![r] = None] /\ then' = [then EXCEPT ![r] = label]
  BY DEF ChangeMap
<1>2. ASSUME NEW q \in Requests PROVE AtWork(q)'
  BY <1>1 DEF TokenTypes, TokenTypeOK, AtWork
<1> QED BY <1>1, <1>2 DEF TokenTypes, TokenTypeOK

LEMMA ArriveTypes == ASSUME TokenTypes, NEW r \in Requests, Arrive(r) PROVE TokenTypes'
<1>1. PICK b \in Bearers, o \in Operations :
        request' = [request EXCEPT ![r] = [bearer |-> b, operation |-> o]]
  BY DEF Arrive
<1>2. /\ at' = [at EXCEPT ![r] = "auth"] /\ served' \in 0..MaxRequests
      /\ UNCHANGED <<server, tokens, tokenFile, expired, then, saving, made, toolState, tokenHistory,
                     failedSaves, stops>>
  BY TokenBoundsAssumption DEF Arrive, TokenTypes, TokenTypeOK
<1>3. TokenTypeOK'
  BY <1>1, <1>2 DEF TokenTypes, TokenTypeOK, toolState, tokenHistory
<1>4. ASSUME NEW q \in Requests PROVE AtWork(q)'
  BY <1>1, <1>2 DEF TokenTypes, TokenTypeOK, AtWork
<1> QED BY <1>3, <1>4 DEF TokenTypes

LEMMA AuthenticateTypes == ASSUME TokenTypes, NEW r \in Requests, Authenticate(r) PROVE TokenTypes'
<1>1. at[r] = "auth" /\ UNCHANGED <<server, tokenFile, expired, toolState, tokenHistory, failedSaves, stops, served>>
  BY DEF Authenticate, RequestVars
<1>2. CASE at' = [at EXCEPT ![r] = "operate"] /\ UNCHANGED <<tokens, request, then, saving, made>>
  <2>1. TokenTypeOK'
    BY <1>1, <1>2 DEF TokenTypes, TokenTypeOK, toolState, tokenHistory
  <2>2. ASSUME NEW q \in Requests PROVE AtWork(q)'
    BY <1>1, <1>2 DEF TokenTypes, TokenTypeOK, AtWork
  <2> QED BY <2>1, <2>2 DEF TokenTypes
<1>3. CASE /\ Bearer(r).kind = "token" /\ Accepts(Bearer(r).token)
           /\ ChangeMap(r, [tokens EXCEPT ![Bearer(r).token].used = TRUE], "operate")
           /\ UNCHANGED <<request, made>>
  <2> DEFINE map == [tokens EXCEPT ![Bearer(r).token].used = TRUE]
  <2>1. map \in TokenMaps
    <3>1. Bearer(r).token \in Tokens
      BY <1>1, <1>3, Asked
    <3>2. tokens \in TokenMaps /\ tokens[Bearer(r).token] # None
      BY <1>3 DEF TokenTypes, TokenTypeOK, Accepts
    <3> QED BY <3>1, <3>2, MarkToken
  <2>2. ChangeMap(r, map, "operate")
    BY <1>3
  <2> HIDE DEF map
  <2> QED BY <1>1, <1>3, <2>1, <2>2, ChangeTypes DEF TokenTypes, TokenTypeOK, toolState, tokenHistory
<1>4. CASE Reply(r) /\ UNCHANGED tokens
  BY <1>1, <1>4, ReplyTypes DEF TokenTypes, TokenTypeOK, toolState, tokenHistory
<1> QED BY <1>2, <1>3, <1>4 DEF Authenticate

LEMMA OperateTypes ==
  ASSUME TokenTypes, NEW r \in Requests, CreateToken(r) \/ RevokeToken(r) \/ OtherOperation(r)
  PROVE  TokenTypes'
<1>1. at[r] = "operate" /\ UNCHANGED <<server, tokenFile, expired, toolState, tokenHistory, failedSaves, stops, served>>
  BY DEF CreateToken, RevokeToken, OtherOperation, Operating, RequestVars
<1>2. CASE CreateToken(r)
  <2>1. PICK t \in Tokens : /\ ChangeMap(r, [tokens EXCEPT ![t] = Fresh], "reply")
                            /\ made' = [made EXCEPT ![r] = t] /\ request' = request
    BY <1>2 DEF CreateToken
  <2> DEFINE map == [tokens EXCEPT ![t] = Fresh]
  <2>2. map \in TokenMaps
    BY FreshInfo DEF TokenTypes, TokenTypeOK, TokenMaps
  <2>3. ChangeMap(r, map, "reply")
    BY <2>1
  <2> HIDE DEF map
  <2> QED BY <1>1, <2>1, <2>2, <2>3, ChangeTypes DEF TokenTypes, TokenTypeOK, toolState, tokenHistory
<1>3. CASE Reply(r) /\ UNCHANGED tokens
  BY <1>1, <1>3, ReplyTypes DEF TokenTypes, TokenTypeOK, toolState, tokenHistory
<1>4. CASE /\ Asks(r).name = "revoke" /\ tokens[Asks(r).token] # None
           /\ ChangeMap(r, [tokens EXCEPT ![Asks(r).token].active = FALSE], "reply")
           /\ UNCHANGED <<request, made>>
  <2> DEFINE map == [tokens EXCEPT ![Asks(r).token].active = FALSE]
  <2>1. map \in TokenMaps
    <3>1. Asks(r).token \in Tokens
      BY <1>1, <1>4, Asked DEF Asks
    <3>2. tokens \in TokenMaps
      BY DEF TokenTypes, TokenTypeOK
    <3> QED BY <1>4, <3>1, <3>2, MarkToken
  <2>2. ChangeMap(r, map, "reply")
    BY <1>4
  <2> HIDE DEF map
  <2> QED BY <1>1, <1>4, <2>1, <2>2, ChangeTypes DEF TokenTypes, TokenTypeOK, toolState, tokenHistory
<1> QED BY <1>2, <1>3, <1>4 DEF RevokeToken, OtherOperation

LEMMA SaveTypes ==
  ASSUME TokenTypes, NEW r \in Requests, SaveBegin(r) \/ SaveOpen(r) \/ SaveWrite(r)
  PROVE  TokenTypes'
<1>1. CASE SaveBegin(r)
  <2>1. TokenTypeOK'
    BY <1>1 DEF SaveBegin, TokenTypes, TokenTypeOK, toolState, tokenHistory
  <2>2. ASSUME NEW q \in Requests PROVE AtWork(q)'
    BY <1>1 DEF SaveBegin, TokenTypes, TokenTypeOK, AtWork
  <2> QED BY <2>1, <2>2 DEF TokenTypes
<1>2. CASE /\ SaveFails /\ Reply(r)
           /\ UNCHANGED <<server, tokens, tokenFile, expired, toolState, tokenHistory, stops, served>>
  <2>1. failedSaves' \in 0..MaxFailedSaves
    BY <1>2, TokenBoundsAssumption DEF SaveFails, TokenTypes, TokenTypeOK
  <2> QED BY <1>2, <2>1, ReplyTypes DEF TokenTypes, TokenTypeOK, toolState, tokenHistory
<1>3. CASE /\ at[r] = "open" /\ tokenFile' = Torn /\ at' = [at EXCEPT ![r] = "write"]
           /\ UNCHANGED <<request, then, saving, made, failedSaves>>
           /\ UNCHANGED <<server, tokens, expired, toolState, tokenHistory, stops, served>>
  <2>1. TokenTypeOK'
    BY <1>3, TornFile DEF TokenTypes, TokenTypeOK, toolState, tokenHistory
  <2>2. ASSUME NEW q \in Requests PROVE AtWork(q)'
    BY <1>3 DEF TokenTypes, TokenTypeOK, AtWork
  <2> QED BY <2>1, <2>2 DEF TokenTypes
<1>4. CASE /\ at[r] = "write" /\ tokenFile' = File("whole", saving[r]) /\ UNCHANGED failedSaves
           /\ UNCHANGED <<server, tokens, expired, toolState, handed, stops, served>>
           /\ \/ /\ at' = [at EXCEPT ![r] = "operate"]
                 /\ saving' = [saving EXCEPT ![r] = None]
                 /\ UNCHANGED <<request, then, made, issued, revoked>>
              \/ Told(r) /\ Reply(r)
  <2>1. saving[r] \in TokenMaps
    BY <1>4 DEF TokenTypes, AtWork
  <2>2. tokenFile' \in {Absent, Torn} \union {File("whole", map) : map \in TokenMaps}
    BY <1>4, <2>1, WholeFile
  <2>3. CASE /\ at' = [at EXCEPT ![r] = "operate"]
             /\ saving' = [saving EXCEPT ![r] = None]
             /\ UNCHANGED <<request, then, made, issued, revoked>>
    <3>1. TokenTypeOK'
      BY <1>4, <2>2, <2>3 DEF TokenTypes, TokenTypeOK, toolState
    <3>2. ASSUME NEW q \in Requests PROVE AtWork(q)'
      BY <1>4, <2>3 DEF TokenTypes, TokenTypeOK, AtWork
    <3> QED BY <3>1, <3>2 DEF TokenTypes
  <2>4. CASE Told(r) /\ Reply(r)
    <3>1. issued' \subseteq Tokens
      BY <2>4 DEF Told, TokenTypes, TokenTypeOK
    <3>2. revoked' \subseteq Tokens
      BY <1>4, <2>4, Asked DEF Told, TokenTypes, TokenTypeOK
    <3> QED BY <1>4, <2>2, <2>4, <3>1, <3>2, ReplyTypes DEF TokenTypes, TokenTypeOK, toolState
  <2> QED BY <1>4, <2>3, <2>4
<1> QED BY <1>1, <1>2, <1>3, <1>4 DEF SaveOpen, SaveWrite, tokenHistory

\* What leaves the requests alone.
LEMMA AloneTypes ==
  ASSUME TokenTypes, TokenTypeOK', UNCHANGED tokenTask
  PROVE  TokenTypes'
  BY DEF TokenTypes, AtWork, tokenTask

LEMMA FileTypes == ASSUME TokenTypeOK PROVE tokenFile.map \in TokenMaps
<1>1. MapsType
  BY TokenBoundsAssumption DEF MapsType, TokenTypeOK
<1> QED BY <1>1, FileMap

LEMMA ServerTypes == ASSUME TokenTypes, StartServer \/ StopServer PROVE TokenTypes'
<1>1. CASE StartServer
  <2>1. tokenFile.map \in TokenMaps
    BY FileTypes DEF TokenTypes
  <2>2. /\ server' \in {"down", "running", "refused"} /\ tokens' \in TokenMaps
        /\ issued' \subseteq Tokens /\ handed' \subseteq Tokens
        /\ UNCHANGED <<tokenFile, expired, tokenTask, toolState, revoked, failedSaves, stops, served>>
    BY <1>1, <2>1 DEF StartServer, TokenTypes, TokenTypeOK
  <2>3. TokenTypeOK'
    BY <2>2 DEF TokenTypes, TokenTypeOK, tokenTask, toolState
  <2> QED BY <2>2, <2>3, AloneTypes
<1>2. CASE StopServer
  <2>1. stops' \in 0..MaxStops
    BY <1>2, TokenBoundsAssumption DEF StopServer, TokenTypes, TokenTypeOK
  <2>2. TokenTypeOK'
    BY <1>2, <2>1, NoTokensMap DEF StopServer, TokenTypes, TokenTypeOK, toolState, tokenHistory
  <2>3. \A r \in Requests : at'[r] = "idle"
    BY <1>2 DEF StopServer
  <2> QED BY <2>2, <2>3 DEF TokenTypes, AtWork
<1> QED BY <1>1, <1>2

LEMMA ToolTypes == ASSUME TokenTypes, ToolLoad \/ ToolOpen \/ ToolWrite PROVE TokenTypes'
<1>1. CASE ToolLoad
  <2>1. PICK t \in ByTool : toolTokens' = [tokenFile.map EXCEPT ![t] = Fresh]
    BY <1>1 DEF ToolLoad
  <2>2. toolTokens' \in TokenMaps
    <3>1. tokenFile.map \in TokenMaps
      BY FileTypes DEF TokenTypes
    <3> QED BY <2>1, <3>1, FreshInfo DEF TokenMaps
  <2>3. TokenTypeOK' /\ UNCHANGED tokenTask
    BY <1>1, <2>2 DEF ToolLoad, ToolVars, TokenTypes, TokenTypeOK, tokenTask
  <2> QED BY <2>3, AloneTypes
<1>2. CASE ToolOpen
  <2>1. TokenTypeOK' /\ UNCHANGED tokenTask
    BY <1>2, TornFile DEF ToolOpen, ToolVars, TokenTypes, TokenTypeOK, tokenTask
  <2> QED BY <2>1, AloneTypes
<1>3. CASE ToolWrite
  <2>1. tokenFile' \in {Absent, Torn} \union {File("whole", map) : map \in TokenMaps}
    BY <1>3, WholeFile DEF ToolWrite, TokenTypes, TokenTypeOK
  <2>2. handed' \subseteq Tokens
    BY <1>3, TokensAssumption DEF ToolWrite, TokenTypes, TokenTypeOK
  <2>3. TokenTypeOK' /\ UNCHANGED tokenTask
    BY <1>3, <2>1, <2>2, NoTokensMap DEF ToolWrite, ToolVars, TokenTypes, TokenTypeOK, tokenTask
  <2> QED BY <2>3, AloneTypes
<1> QED BY <1>1, <1>2, <1>3

LEMMA StepTypes == TokenTypes /\ [TokenNext]_tokenVars => TokenTypes'
<1> SUFFICES ASSUME TokenTypes, [TokenNext]_tokenVars PROVE TokenTypes'
  OBVIOUS
<1>1. ASSUME NEW t \in Tokens, Expire(t) PROVE TokenTypes'
  <2>1. TokenTypeOK' /\ UNCHANGED tokenTask
    BY <1>1 DEF Expire, TokenTypes, TokenTypeOK, tokenTask, toolState, tokenHistory
  <2> QED BY <2>1, AloneTypes
<1>2. CASE UNCHANGED tokenVars
  <2>1. TokenTypeOK' /\ UNCHANGED tokenTask
    BY <1>2 DEF TokenTypes, TokenTypeOK, tokenVars, tokenTask, toolState, tokenHistory
  <2> QED BY <2>1, AloneTypes
<1> QED
  BY <1>1, <1>2, ArriveTypes, AuthenticateTypes, OperateTypes, SaveTypes, ServerTypes, ToolTypes
  DEF TokenNext, Step

\* The types of what api_token.rs, retention_manager.rs and the start of the engine keep, in the
\* sum of the three that the run explores.
THEOREM AdminTypes == AdminSpec => []AdminTypeOK
<1> DEFINE Inv == TokenTypes /\ CheckInv /\ KnownInv
<1>1. AdminInit => Inv
  BY InitTypes, InitCheck, InitKnown DEF AdminInit
<1>2. Inv /\ [AdminNext]_<<tokenVars, policyVars, startupVars, side>> => Inv'
  <2> SUFFICES ASSUME Inv, [AdminNext]_<<tokenVars, policyVars, startupVars, side>> PROVE Inv'
    OBVIOUS
  <2>1. [TokenNext]_tokenVars /\ [PolicyNext]_policyVars /\ [StartupNext]_startupVars
    BY DEF AdminNext
  <2> QED BY <2>1, StepTypes, StepCheck, StepKnown
<1>3. Inv => AdminTypeOK
  BY DEF TokenTypes, CheckInv, KnownInv, AdminTypeOK
<1> QED BY <1>1, <1>2, <1>3, PTL DEF AdminSpec
=============================================================================
