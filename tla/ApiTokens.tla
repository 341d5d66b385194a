----------------------------- MODULE ApiTokens -----------------------------
(***************************************************************************)
(* API tokens: the store in memory and its file, the requests that are     *)
(* authenticated with a token and create or revoke tokens, crashes and     *)
(* restarts, and the command-line tool that writes the same file           *)
(* (src/security/api_token.rs, src/api/middleware.rs, the token handlers   *)
(* of src/api/handlers.rs, src/bin/generate-api-token.rs).                 *)
(*                                                                         *)
(* A token stands for its text, its hash and its id.                       *)
(***************************************************************************)
EXTENDS Naturals, FiniteSets

CONSTANTS
  Tokens,       \* the tokens that may be created
  CreatedBy,    \* the user that creates each
  Expiring,     \* those created with an expiration
  Requests,     \* tasks that serve HTTP requests
  ByTool,       \* the tokens the command-line tool may create
  ToolWhile,    \* the phases of the server in which it is used
  None,
  MaxFailedSaves, \* bound: failing writes of the file
  MaxStops,       \* bound: ends of the server, crashes or not
  MaxRequests     \* bound: requests of one behaviour

ASSUME TokensAssumption == ByTool \subseteq Tokens /\ None \notin Tokens
ASSUME TokenBoundsAssumption == MaxFailedSaves \in Nat /\ MaxStops \in Nat /\ MaxRequests \in Nat

Users == {CreatedBy[t] : t \in Tokens}

\* What a request brings in its Authorization header.
Bearers == [kind : {"jwt"}, user : Users] \union [kind : {"token"}, token : Tokens]
           \union [kind : {"none", "badJwt"}]
\* What it asks for; "other" is any route that leaves the tokens alone.
Operations == [name : {"create"}] \union [name : {"revoke"}, token : Tokens] \union [name : {"other"}]

\* ApiToken, without what never changes.
Info == [active : BOOLEAN, used : BOOLEAN]
ASSUME NoneAssumption == None \notin Info
TokenMaps == [Tokens -> Info \union {None}]

VARIABLES
  server,     \* "down", "running", or "refused": it could not read the file
  tokens,     \* the map in memory
  tokenFile,  \* the file: "absent", "torn" or "whole" with a map
  expired,    \* the tokens whose time is over
  at,         \* per request: "idle", "auth", "operate", "save", "open" or "write"
  request,    \* its header and its operation, None when idle
  then,       \* where it goes after the save under way, "operate" or "reply"
  saving,     \* the map it is writing
  made,       \* the token its creation made, None before
  tool,       \* the command-line tool: "idle", "loaded", "write" or "done"
  toolTokens, \* its copy of the map
  issued,     \* history: tokens whose user was told of them and that a running server should know
  handed,     \* history: tokens the tool printed, to be known after the next start
  revoked,    \* history: tokens whose revocation was answered with success
  failedSaves, stops, served

tokenTask == <<at, request, then, saving, made>>
toolState == <<tool, toolTokens>>
tokenHistory == <<issued, handed, revoked>>
tokenVars == <<server, tokens, tokenFile, expired, tokenTask, toolState, tokenHistory,
               failedSaves, stops, served>>

NoTokens == [t \in Tokens |-> None]
File(kind, map) == [kind |-> kind, map |-> map]
Absent == File("absent", NoTokens)
Torn == File("torn", NoTokens)
Fresh == [active |-> TRUE, used |-> FALSE]
SaveFails == failedSaves < MaxFailedSaves /\ failedSaves' = failedSaves + 1

\* ApiToken::is_valid of a token the map holds.
Accepts(t) == tokens[t] # None /\ tokens[t].active /\ t \notin expired

----------------------------------------------------------------------------
(* save.  Its read lock is held until the file is written, so that no      *)
(* change of the map falls in between; several saves may.                  *)

Serving == server = "running"
Readers_None == {}
Readers == {r \in Requests : at[r] \in {"open", "write"}}

\* Takes the write lock for one change of the map, then saves and goes on at label.
ChangeMap(r, map, label) ==
  /\ Readers = {}
  /\ tokens' = map
  /\ saving' = [saving EXCEPT ![r] = None]
  /\ at' = [at EXCEPT ![r] = "save"]
  /\ then' = [then EXCEPT ![r] = label]

\* The request ends, whatever is answered.
Reply(r) ==
  /\ at' = [at EXCEPT ![r] = "idle"]
  /\ request' = [request EXCEPT ![r] = None]
  /\ then' = [then EXCEPT ![r] = "reply"]
  /\ saving' = [saving EXCEPT ![r] = None]
  /\ made' = [made EXCEPT ![r] = None]

SaveBegin_Locked(r) ==
  /\ Serving /\ at[r] = "save" /\ \A q \in Requests : at[q] # "save"
  /\ UNCHANGED tokenVars
SaveBegin(r) ==
  /\ Serving /\ at[r] = "save"
  /\ saving' = [saving EXCEPT ![r] = tokens]
  /\ at' = [at EXCEPT ![r] = "open"]
  /\ UNCHANGED <<server, tokens, tokenFile, expired, request, then, made, toolState, tokenHistory,
                 failedSaves, stops, served>>

\* fs::write truncates the file before it writes; an error of either is the operation's.
SaveOpen(r) ==
  /\ Serving /\ at[r] = "open"
  /\ \/ /\ tokenFile' = Torn
        /\ at' = [at EXCEPT ![r] = "write"]
        /\ UNCHANGED <<request, then, saving, made, failedSaves>>
     \/ /\ SaveFails
        /\ Reply(r)
        /\ UNCHANGED tokenFile
  /\ UNCHANGED <<server, tokens, expired, toolState, tokenHistory, stops, served>>

\* What a finished operation tells its user.
Told(r) ==
  /\ issued' = issued \union ({made[r]} \ {None})
  /\ revoked' = IF request[r].operation.name = "revoke"
                THEN revoked \union {request[r].operation.token} ELSE revoked
SaveWrite(r) ==
  /\ Serving /\ at[r] = "write"
  /\ \/ /\ tokenFile' = File("whole", saving[r])
        /\ \/ /\ then[r] = "operate"
              /\ at' = [at EXCEPT ![r] = "operate"]
              /\ saving' = [saving EXCEPT ![r] = None]
              /\ UNCHANGED <<request, then, made, issued, revoked>>
           \/ /\ then[r] = "reply"
              /\ Told(r)
              /\ Reply(r)
        /\ UNCHANGED failedSaves
     \/ /\ SaveFails
        /\ Reply(r)
        /\ UNCHANGED <<tokenFile, issued, revoked>>
  /\ UNCHANGED <<server, tokens, expired, toolState, handed, stops, served>>

----------------------------------------------------------------------------
(* Requests                                                                *)

Arrive(r) ==
  /\ Serving /\ at[r] = "idle" /\ served < MaxRequests
  /\ served' = served + 1
  /\ \E b \in Bearers, o \in Operations :
       request' = [request EXCEPT ![r] = [bearer |-> b, operation |-> o]]
  /\ at' = [at EXCEPT ![r] = "auth"]
  /\ UNCHANGED <<server, tokens, tokenFile, expired, then, saving, made, toolState, tokenHistory,
                 failedSaves, stops>>

Bearer(r) == request[r].bearer
RequestVars == <<server, tokenFile, expired, toolState, tokenHistory, failedSaves, stops, served>>

\* jwt_auth: no or another header and a JWT that does not verify are refused; a valid
\* token is marked as used and the map saved before the handler runs.
Authenticate(r) ==
  /\ Serving /\ at[r] = "auth"
  /\ \/ /\ Bearer(r).kind = "jwt"
        /\ at' = [at EXCEPT ![r] = "operate"]
        /\ UNCHANGED <<tokens, request, then, saving, made>>
     \/ /\ Bearer(r).kind = "token" /\ Accepts(Bearer(r).token)
        /\ ChangeMap(r, [tokens EXCEPT ![Bearer(r).token].used = TRUE], "operate")
        /\ UNCHANGED <<request, made>>
     \/ /\ \/ Bearer(r).kind \in {"none", "badJwt"}
           \/ Bearer(r).kind = "token" /\ ~Accepts(Bearer(r).token) /\ Readers = {}
        /\ Reply(r)
        /\ UNCHANGED tokens
  /\ UNCHANGED RequestVars

\* AuthContext::user_id.
UserId(r) == IF Bearer(r).kind = "jwt" THEN Bearer(r).user ELSE CreatedBy[Bearer(r).token]

Operating(r) == Serving /\ at[r] = "operate"
Asks(r) == request[r].operation

CreateToken(r) ==
  /\ Operating(r) /\ Asks(r).name = "create"
  /\ \E t \in Tokens \ ByTool :
       /\ tokens[t] = None /\ t \notin issued \union expired
       /\ CreatedBy[t] = UserId(r)
       /\ \A q \in Requests : made[q] # t
       /\ ChangeMap(r, [tokens EXCEPT ![t] = Fresh], "reply")
       /\ made' = [made EXCEPT ![r] = t]
  /\ UNCHANGED <<request, RequestVars>>

Owns(r) == CreatedBy[Asks(r).token] = UserId(r)
\* Revokes a token of the user's own; else, and when there is none, an error.
RevokeToken(r) ==
  /\ Operating(r) /\ Asks(r).name = "revoke" /\ Readers = {}
  /\ \/ /\ tokens[Asks(r).token] # None /\ Owns(r)
        /\ ChangeMap(r, [tokens EXCEPT ![Asks(r).token].active = FALSE], "reply")
        /\ UNCHANGED <<request, made>>
     \/ /\ tokens[Asks(r).token] = None \/ ~Owns(r)
        /\ Reply(r)
        /\ UNCHANGED tokens
  /\ UNCHANGED RequestVars

\* Any other handler; also the end of the model's supply of tokens.
OtherOperation(r) ==
  /\ Operating(r)
  /\ \/ Asks(r).name = "other"
     \/ /\ Asks(r).name = "create"
        /\ \A t \in Tokens \ ByTool : CreatedBy[t] = UserId(r) =>
             \/ tokens[t] # None \/ t \in issued \union expired
             \/ \E q \in Requests : made[q] = t
  /\ Reply(r)
  /\ UNCHANGED <<tokens, RequestVars>>

----------------------------------------------------------------------------
(* Time, start and crash                                                   *)

Expire(t) ==
  /\ t \in Expiring \ expired
  /\ expired' = expired \union {t}
  /\ UNCHANGED <<server, tokens, tokenFile, tokenTask, toolState, tokenHistory, failedSaves, stops, served>>

ToolBusy == tool \in {"loaded", "write"}

StartServer_TornIsEmpty ==
  /\ server = "down"
  /\ ToolBusy => "running" \in ToolWhile
  /\ server' = "running"
  /\ tokens' = tokenFile.map
  /\ issued' = issued \union handed
  /\ handed' = {}
  /\ UNCHANGED <<tokenFile, expired, tokenTask, toolState, revoked, failedSaves, stops, served>>
\* ApiTokenStore::new: a file that does not parse ends the start of the server.
StartServer ==
  /\ server = "down"
  /\ ToolBusy => "running" \in ToolWhile
  /\ \/ /\ tokenFile = Torn
        /\ server' = "refused"
        /\ UNCHANGED <<tokens, issued, handed>>
     \/ /\ tokenFile # Torn
        /\ server' = "running"
        /\ tokens' = tokenFile.map
        /\ issued' = issued \union handed
        /\ handed' = {}
  /\ UNCHANGED <<tokenFile, expired, tokenTask, toolState, revoked, failedSaves, stops, served>>

\* The end of the process, also in the middle of a save.
StopServer ==
  /\ Serving /\ stops < MaxStops
  /\ stops' = stops + 1
  /\ server' = "down"
  /\ tokens' = NoTokens
  /\ at' = [r \in Requests |-> "idle"]
  /\ request' = [r \in Requests |-> None]
  /\ then' = [r \in Requests |-> "reply"]
  /\ saving' = [r \in Requests |-> None]
  /\ made' = [r \in Requests |-> None]
  /\ UNCHANGED <<tokenFile, expired, toolState, tokenHistory, failedSaves, served>>

----------------------------------------------------------------------------
(* generate-api-token, a process of its own                                *)

ToolMay == server \in ToolWhile
ToolVars == <<server, tokens, expired, tokenTask, issued, revoked, failedSaves, stops, served>>

ToolLoad ==
  /\ ToolMay /\ tool = "idle" /\ ByTool # {} /\ tokenFile # Torn
  /\ \E t \in ByTool :
       toolTokens' = [tokenFile.map EXCEPT ![t] = Fresh]
  /\ tool' = "loaded"
  /\ UNCHANGED <<tokenFile, handed, ToolVars>>

ToolOpen ==
  /\ ToolMay /\ tool = "loaded"
  /\ tokenFile' = Torn
  /\ tool' = "write"
  /\ UNCHANGED <<toolTokens, handed, ToolVars>>

ToolWrite ==
  /\ ToolMay /\ tool = "write"
  /\ tokenFile' = File("whole", toolTokens)
  /\ handed' = handed \union {t \in ByTool : toolTokens[t] # None}
  /\ tool' = "done"
  /\ toolTokens' = NoTokens
  /\ UNCHANGED ToolVars

----------------------------------------------------------------------------
TokenInit ==
  /\ server = "down"
  /\ tokens = NoTokens /\ tokenFile = Absent /\ expired = {}
  /\ at = [r \in Requests |-> "idle"]
  /\ request = [r \in Requests |-> None]
  /\ then = [r \in Requests |-> "reply"]
  /\ saving = [r \in Requests |-> None]
  /\ made = [r \in Requests |-> None]
  /\ tool = "idle" /\ toolTokens = NoTokens
  /\ issued = {} /\ handed = {} /\ revoked = {}
  /\ failedSaves = 0 /\ stops = 0 /\ served = 0

Step(r) ==
  \/ Authenticate(r) \/ CreateToken(r) \/ RevokeToken(r) \/ OtherOperation(r)
  \/ SaveBegin(r) \/ SaveOpen(r) \/ SaveWrite(r)
TokenNext ==
  \/ \E r \in Requests : Arrive(r) \/ Step(r)
  \/ \E t \in Tokens : Expire(t)
  \/ StartServer \/ StopServer
  \/ ToolLoad \/ ToolOpen \/ ToolWrite

\* Every request is polled until it has replied; a waiting writer of the lock keeps new
\* readers out.
TokenFairness == \A r \in Requests : SF_tokenVars(Step(r))
TokenSpec == TokenInit /\ [][TokenNext]_tokenVars /\ TokenFairness

----------------------------------------------------------------------------
(* Properties                                                              *)

\* The type invariant.
TokenTypeOK ==
  /\ server \in {"down", "running", "refused"}
  /\ tokens \in TokenMaps
  /\ tokenFile \in {Absent, Torn} \union {File("whole", map) : map \in TokenMaps}
  /\ expired \subseteq Expiring
  /\ at \in [Requests -> {"idle", "auth", "operate", "save", "open", "write"}]
  /\ request \in [Requests -> [bearer : Bearers, operation : Operations] \union {None}]
  /\ then \in [Requests -> {"operate", "reply"}]
  /\ saving \in [Requests -> TokenMaps \union {None}]
  /\ made \in [Requests -> Tokens \union {None}]
  /\ tool \in {"idle", "loaded", "write", "done"} /\ toolTokens \in TokenMaps
  /\ issued \subseteq Tokens /\ handed \subseteq Tokens /\ revoked \subseteq Tokens
  /\ failedSaves \in 0..MaxFailedSaves /\ stops \in 0..MaxStops /\ served \in 0..MaxRequests

\* revoke_token: once its success was answered, no request gets in with the token, neither
\* next to saves of others nor after a crash and a restart.
RevokedRefused == Serving => \A t \in revoked : ~Accepts(t)

\* Revocations under way or whose answer was an error.
Contested == {t \in Tokens : tokens[t] # None /\ ~tokens[t].active}
\* create_token, and the tool: a token its user was given stays good until it expires or is
\* revoked, also after a crash and a restart; a server that does not know it does
\* not start.
IssuedAccepted ==
  Serving => \A t \in issued \ (expired \union Contested) : Accepts(t)

\* With no save under way and none failed, the file holds what is in memory: saves of several
\* requests overlap, but none writes an older map over a newer one.
FileAgrees ==
  (Serving /\ failedSaves = 0 /\ \A r \in Requests : at[r] \notin {"save", "open", "write"})
    => tokenFile.map = tokens

\* Every request is answered, or the server ends.
EachReplied == \A r \in Requests : at[r] # "idle" ~> at[r] = "idle"
=============================================================================
