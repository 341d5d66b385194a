-------------------------- MODULE RetentionPolicies --------------------------
(***************************************************************************)
(* Retention: the policies in memory and their file, the calls that change *)
(* them, the check that deletes tables, crashes and restarts               *)
(* (src/storage/retention_manager.rs, enforce_retention of                 *)
(* src/storage/mod.rs, the retention handlers of src/api/handlers.rs).     *)
(*                                                                         *)
(* Whether the timestamp a table reports is that of its newest frame, and  *)
(* how a check runs into flushes and merges, is in module StorageEngine.   *)
(***************************************************************************)
EXTENDS Naturals, Sequences, FiniteSets, SequencesExt

CONSTANTS
  Applications,
  Days,          \* the periods that are set
  Tables,        \* the tables there are at first
  AppsOf,        \* the applications with frames in each
  Stamp,         \* the day max_timestamp answers for each
  Changers,      \* tasks that change policies
  Changes,       \* the changes they make
  Checkers,      \* tasks that enforce: the periodic one and requests
  FromEnv,       \* the policies the environment names
  Forever,          \* keep forever
  Unset,         \* no policy of its own
  LastDay,       \* bound: of the calendar
  MaxPolicyFaults, \* bound: failing writes and unlinks
  MaxRestarts,   \* bound: ends of the server
  MaxChanges     \* bound: changes of the policies

ASSUME DaysAssumption == Days \subseteq Nat
ASSUME DistinctAssumption == Forever \notin Days /\ Unset \notin Days \union {Forever}

Periods == Days \union {Forever}
Policies == [global : Periods, applications : [Applications -> Periods \union {Unset}]]

ASSUME FromEnvAssumption == FromEnv \in Policies
ASSUME ChangesAssumption ==
  Changes \subseteq [name : {"global"}, days : Periods]
                   \union [name : {"set"}, application : Applications, days : Periods]
                   \union [name : {"remove"}, application : Applications]
ASSUME TablesAssumption ==
  \A t \in Tables : AppsOf[t] \subseteq Applications /\ IsFiniteSet(AppsOf[t]) /\ Stamp[t] \in Nat
ASSUME PolicyBoundsAssumption ==
  LastDay \in Nat /\ MaxPolicyFaults \in Nat /\ MaxRestarts \in Nat /\ MaxChanges \in Nat

VARIABLES
  engine,     \* "down", at its start "loaded" or "saving", or "running"
  policies,   \* in memory
  policyFile, \* "absent", "torn" or "whole" with policies
  doing,      \* per changer: "idle", "save", "open" or "write"
  writing,    \* the policies it is writing
  checking,   \* per checker: "idle", "select" or "delete"
  snapshot,   \* the policies it checks by
  condemned,  \* the tables it has still to delete
  tables,     \* the tables in the engine's list
  tableFiles, \* those with a file
  today,
  policyFaults, restarts, changes

changing == <<policies, policyFile, doing, writing>>
check == <<checking, snapshot, condemned, tables, tableFiles>>
policyVars == <<engine, changing, check, today, policyFaults, restarts, changes>>

Default == [global |-> Forever, applications |-> [a \in Applications |-> Unset]]
Stored(kind, p) == [kind |-> kind, policies |-> p]
PolicyFault == policyFaults < MaxPolicyFaults /\ policyFaults' = policyFaults + 1
Running == engine = "running"

----------------------------------------------------------------------------
(* Changes                                                                 *)

\* The policies after a change, with whether there is anything to save.
SetGlobal(days) == [policies EXCEPT !.global = days]
SetApplication(a, days) == [policies EXCEPT !.applications[a] = days]
RemoveApplication(a) == [policies EXCEPT !.applications[a] = Unset]
Result(change) ==
  CASE change.name = "global" -> SetGlobal(change.days)
    [] change.name = "set" -> SetApplication(change.application, change.days)
    [] change.name = "remove" -> RemoveApplication(change.application)

Saving_None == {}
\* save holds the read lock until the file is written.
Saving == {c \in Changers : doing[c] \in {"open", "write"}}
CheckVars == <<engine, check, today, restarts>>

\* A removal of what is not there is not saved.
ChangePolicy(c) ==
  /\ Running /\ doing[c] = "idle" /\ changes < MaxChanges /\ Saving = {}
  /\ changes' = changes + 1
  /\ \E change \in Changes :
       /\ policies' = Result(change)
       /\ doing' = IF change.name = "remove" /\ policies.applications[change.application] = Unset
                   THEN doing ELSE [doing EXCEPT ![c] = "save"]
  /\ UNCHANGED <<policyFile, writing, policyFaults, CheckVars>>

PolicySaveBegin(c) ==
  /\ Running /\ doing[c] = "save"
  /\ writing' = [writing EXCEPT ![c] = policies]
  /\ doing' = [doing EXCEPT ![c] = "open"]
  /\ UNCHANGED <<policies, policyFile, policyFaults, changes, CheckVars>>

Saved(c) ==
  /\ doing' = [doing EXCEPT ![c] = "idle"]
  /\ writing' = [writing EXCEPT ![c] = Default]

PolicySaveOpen(c) ==
  /\ Running /\ doing[c] = "open"
  /\ \/ /\ policyFile' = Stored("torn", Default)
        /\ doing' = [doing EXCEPT ![c] = "write"]
        /\ UNCHANGED <<writing, policyFaults>>
     \/ PolicyFault /\ Saved(c) /\ UNCHANGED policyFile
  /\ UNCHANGED <<policies, changes, CheckVars>>

PolicySaveWrite(c) ==
  /\ Running /\ doing[c] = "write"
  /\ \/ policyFile' = Stored("whole", writing[c]) /\ UNCHANGED policyFaults
     \/ PolicyFault /\ UNCHANGED policyFile
  /\ Saved(c)
  /\ UNCHANGED <<policies, changes, CheckVars>>

----------------------------------------------------------------------------
(* The choice of a period for a table                                      *)

\* The loop over the table's applications in the order the set yields them: the longest
\* period so far; one kept forever ends it without a period.
Longest_Last(a, b) == b
Longest(a, b) == IF a = Forever \/ b > a THEN b ELSE a
Effective(p, a) == IF p.applications[a] = Unset THEN p.global ELSE p.applications[a]
Considering(p, a, chosen) ==
  IF Effective(p, a) = Forever THEN chosen ELSE Longest(chosen, Effective(p, a))
Chosen(p, order) ==
  LET after[i \in 0..Len(order)] ==
        IF i = 0 THEN [days |-> Forever, done |-> FALSE]
        ELSE LET a == order[i] IN
             IF after[i - 1].done THEN after[i - 1]
             ELSE IF p.applications[a] = Forever THEN [days |-> Forever, done |-> TRUE]
             ELSE [days |-> Considering(p, a, after[i - 1].days), done |-> FALSE]
  IN after[Len(order)].days

\* The period of a table: the global one when no application has its own.
Period(p, order) ==
  IF \A a \in Applications : p.applications[a] = Unset THEN p.global ELSE Chosen(p, order)

Over(t, days) == days # Forever /\ today > Stamp[t] + days
Orders == UNION {SetToSeqs(AppsOf[t]) : t \in Tables}

----------------------------------------------------------------------------
(* enforce_retention                                                       *)

CheckBegin(e) ==
  /\ Running /\ checking[e] = "idle"
  /\ checking' = [checking EXCEPT ![e] = "select"]
  /\ snapshot' = [snapshot EXCEPT ![e] = policies]
  /\ UNCHANGED <<engine, changing, condemned, tables, tableFiles, today, policyFaults, restarts, changes>>

\* Under the read lock of the list.
CheckSelect(e) ==
  /\ Running /\ checking[e] = "select"
  /\ \E order \in [tables -> Orders] :
       /\ \A t \in tables : ToSet(order[t]) = AppsOf[t]
       /\ condemned' = [condemned EXCEPT ![e] =
            {t \in tables : Over(t, Period(snapshot[e], order[t]))}]
  /\ checking' = [checking EXCEPT ![e] = "delete"]
  /\ UNCHANGED <<engine, changing, snapshot, tables, tableFiles, today, policyFaults, restarts, changes>>

\* Each table leaves the list and then loses its file; a failing unlink is logged.
CheckDelete(e) ==
  /\ Running /\ checking[e] = "delete" /\ condemned[e] # {}
  /\ \E t \in condemned[e] :
       /\ condemned' = [condemned EXCEPT ![e] = @ \ {t}]
       /\ tables' = tables \ {t}
       /\ \/ tableFiles' = tableFiles \ {t} /\ UNCHANGED policyFaults
          \/ t \in tableFiles /\ PolicyFault /\ UNCHANGED tableFiles
  /\ UNCHANGED <<engine, changing, checking, snapshot, today, restarts, changes>>

CheckEnd_Once(e) ==
  /\ Running /\ checking[e] = "delete" /\ condemned[e] = {}
  /\ checking' = [checking EXCEPT ![e] = "ended"]
  /\ UNCHANGED <<engine, changing, snapshot, condemned, tables, tableFiles, today, policyFaults, restarts, changes>>
CheckEnd(e) ==
  /\ Running /\ checking[e] = "delete" /\ condemned[e] = {}
  /\ checking' = [checking EXCEPT ![e] = "idle"]
  /\ snapshot' = [snapshot EXCEPT ![e] = Default]
  /\ UNCHANGED <<engine, changing, condemned, tables, tableFiles, today, policyFaults, restarts, changes>>

----------------------------------------------------------------------------
(* Start and end of the server                                             *)

\* from_env: the environment counts only as long as there is no file; a file that does not
\* parse gives way to the default, which keeps everything.
Loaded ==
  CASE policyFile.kind = "absent" -> FromEnv
    [] policyFile.kind = "torn" -> Default
    [] OTHER -> policyFile.policies

AtRest == <<doing, writing, checking, snapshot, condemned, tableFiles, today, restarts, changes>>
StartLoad ==
  /\ engine = "down"
  /\ engine' = "loaded"
  /\ policies' = Loaded
  /\ UNCHANGED <<policyFile, policyFaults, tables, AtRest>>

\* What was loaded is saved at once, in the two steps of fs::write; an error ends the start.
StartFails ==
  PolicyFault /\ engine' = "down" /\ policies' = Default /\ UNCHANGED <<policyFile, tables>>
StartSaveOpen ==
  /\ engine = "loaded"
  /\ \/ /\ policyFile' = Stored("torn", Default)
        /\ engine' = "saving"
        /\ UNCHANGED <<policies, policyFaults, tables>>
     \/ StartFails
  /\ UNCHANGED AtRest
StartSaveWrite ==
  /\ engine = "saving"
  /\ \/ /\ policyFile' = Stored("whole", policies)
        /\ engine' = "running"
        /\ tables' = tableFiles
        /\ UNCHANGED <<policies, policyFaults>>
     \/ StartFails
  /\ UNCHANGED AtRest
StartEngine == StartLoad \/ StartSaveOpen \/ StartSaveWrite

\* A crash, or the end, also of a server that is starting.
EndEngine ==
  /\ engine # "down" /\ restarts < MaxRestarts
  /\ restarts' = restarts + 1
  /\ engine' = "down"
  /\ policies' = Default
  /\ doing' = [c \in Changers |-> "idle"]
  /\ writing' = [c \in Changers |-> Default]
  /\ checking' = [e \in Checkers |-> "idle"]
  /\ snapshot' = [e \in Checkers |-> Default]
  /\ condemned' = [e \in Checkers |-> {}]
  /\ tables' = {}
  /\ UNCHANGED <<policyFile, tableFiles, today, policyFaults, changes>>

DayPasses ==
  /\ today < LastDay
  /\ today' = today + 1
  /\ UNCHANGED <<engine, changing, check, policyFaults, restarts, changes>>

----------------------------------------------------------------------------
PolicyInit ==
  /\ engine = "down"
  /\ policies = Default
  /\ policyFile = Stored("absent", Default)
  /\ doing = [c \in Changers |-> "idle"]
  /\ writing = [c \in Changers |-> Default]
  /\ checking = [e \in Checkers |-> "idle"]
  /\ snapshot = [e \in Checkers |-> Default]
  /\ condemned = [e \in Checkers |-> {}]
  /\ tables = {} /\ tableFiles = Tables
  /\ today = 0
  /\ policyFaults = 0 /\ restarts = 0 /\ changes = 0

CheckStep(e) == CheckBegin(e) \/ CheckSelect(e) \/ CheckDelete(e) \/ CheckEnd(e)
PolicyNext ==
  \/ \E c \in Changers : ChangePolicy(c) \/ PolicySaveBegin(c) \/ PolicySaveOpen(c) \/ PolicySaveWrite(c)
  \/ \E e \in Checkers : CheckStep(e)
  \/ StartEngine \/ EndEngine \/ DayPasses

\* The periodic check ticks for ever, and each check goes on to its end.
PolicyFairness == \A e \in Checkers : WF_policyVars(CheckStep(e))
PolicySpec == PolicyInit /\ [][PolicyNext]_policyVars /\ PolicyFairness

----------------------------------------------------------------------------
(* Properties                                                              *)

PolicyTypeOK ==
  /\ engine \in {"down", "loaded", "saving", "running"}
  /\ policies \in Policies
  /\ policyFile \in [kind : {"absent", "torn", "whole"}, policies : Policies]
  /\ doing \in [Changers -> {"idle", "save", "open", "write"}]
  /\ writing \in [Changers -> Policies]
  /\ checking \in [Checkers -> {"idle", "select", "delete"}]
  /\ snapshot \in [Checkers -> Policies]
  /\ condemned \in [Checkers -> SUBSET Tables]
  /\ tables \subseteq Tables /\ tableFiles \subseteq Tables
  /\ today \in 0..LastDay
  /\ policyFaults \in 0..MaxPolicyFaults /\ restarts \in 0..MaxRestarts /\ changes \in 0..MaxChanges

\* The frames of an application in a table are past retention.
Past(p, t, a) == Over(t, Effective(p, a))

\* A table of joins only names no application; it is judged while no application has a policy.
Nameless(p, t) == AppsOf[t] = {} => Over(t, p.global) /\ \A a \in Applications : p.applications[a] = Unset

\* "We can only delete if ALL applications in the SSTable are past retention."
AllPast(p, t) == (\A a \in AppsOf[t] : Past(p, t, a)) /\ Nameless(p, t)

\* Whom the loop passes over: an application without a policy, which a global "never" keeps,
\* as long as another in the table has a period.
Overlooked(p, t, a) ==
  /\ p.applications[a] = Unset /\ p.global = Forever
  /\ \E b \in AppsOf[t] : p.applications[b] \notin {Unset, Forever}

\* What the code makes of it.
Allows(p, t) ==
  (\A a \in AppsOf[t] : Past(p, t, a) \/ Overlooked(p, t, a)) /\ Nameless(p, t)

\* enforce_retention, as its comment says: by the policies a check began with, nothing of an
\* application goes that is not past its own retention or, without a policy, the global one.
OnlyPastGo ==
  [][\A t \in tables \ tables' :
       engine' = "down" \/ \E e \in Checkers : checking[e] = "delete" /\ AllPast(snapshot[e], t)]_policyVars

\* enforce_retention: the overlooked apart, what goes is past retention in all its applications
\* and none is kept by a policy of its own, whatever order the loop takes, whatever is changed
\* meanwhile.
OnlyAllowedGo ==
  [][\A t \in tables \ tables' :
       engine' = "down" \/ \E e \in Checkers : checking[e] = "delete" /\ Allows(snapshot[e], t)]_policyVars

\* save: with none under way and none failed, the file holds what is in memory.
PoliciesSaved ==
  (Running /\ policyFaults = 0 /\ \A c \in Changers : doing[c] = "idle")
    => policyFile = Stored("whole", policies)

\* start_retention_enforcement: a table that is past retention leaves, unless the policies change
\* or the server ends.
OverdueGo ==
  \A t \in Tables :
    (t \in tables /\ AllPast(policies, t)) ~> (t \notin tables \/ ~AllPast(policies, t))
=============================================================================
