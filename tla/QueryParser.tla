---------------------------- MODULE QueryParser ----------------------------
(***************************************************************************)
(* The query language: the recursive descent over the tokens of a query,   *)
(* one action per parse function (src/query/parser.rs).  The tokens are    *)
(* chosen as the parser comes to look at them, so that a run stands for    *)
(* every query that begins with what was read.                             *)
(*                                                                         *)
(* Tokens are what the parser tells apart: keywords in any case, strings   *)
(* by what they parse as, numbers by what LIMIT makes of them.             *)
(***************************************************************************)
EXTENDS Naturals, Sequences, SequencesExt

CONSTANTS
  MaxFields,   \* MAX_SELECT_FIELDS (100)
  Identifiers, \* identifiers that appear as names of fields
  Numbers      \* integers that appear

ASSUME MaxFieldsAssumption == MaxFields \in Nat \ {0}
ASSUME NumbersAssumption == Numbers \subseteq Nat

Word(w) == [type |-> "Identifier", text |-> w]
Integer(n) == [type |-> "Integer", value |-> n]
\* A timestamp, a duration, a duration beyond the range of its type or with a last
\* character of several bytes, and what is none of these.
String(s) == [type |-> "String", holds |-> s]
Asterisk == [type |-> "Asterisk"]
Comma == [type |-> "Comma"]
End == [type |-> "End"]

Keywords == {"SELECT", "FROM", "DEVICE", "WHERE", "BETWEEN", "AND", "SINCE", "LAST", "LIMIT"}
Kinds == {"uplink", "downlink", "join", "status"}
Strings == {"timestamp", "duration", "overflow", "other"}
Tokens ==
  {Word(w) : w \in Keywords \union Kinds \union Identifiers} \union {Integer(n) : n \in Numbers}
  \union {String(s) : s \in Strings} \union {Asterisk, Comma, End}

Absent == [clause |-> "absent"]
All == [clause |-> "*"]
Fields(names) == [clause |-> "fields", names |-> names]

VARIABLES
  open,   \* the last string has no closing quote, so the query ends in it
  at,     \* what is parsed next: "tokenize", "select", "fields", ..., "accepted", "rejected", "panic"
  first,  \* the first of the tokens that are left, once it was looked at
  query,  \* the parts parsed so far
  read    \* history: the tokens looked at

unread == [type |-> "unread"]
parserVars == <<open, at, first, query, read>>

----------------------------------------------------------------------------
(* The parse functions                                                     *)

Outcomes == {"accepted", "rejected", "panic"}
Look ==
  /\ at \notin Outcomes \union {"tokenize"} /\ first = unread
  /\ \E t \in Tokens :
       /\ first' = t /\ read' = Append(read, t)
       /\ open => t = End
       /\ open' \in IF t.type = "String" THEN BOOLEAN ELSE {open}
  /\ UNCHANGED <<at, query>>

Seen(state) == at = state /\ first # unread
MoveTo(state) == at' = state
\* Goes on with the next token, or with the same one.
Consume(state) == MoveTo(state) /\ first' = unread /\ UNCHANGED <<read, open>>
Keep(state) == MoveTo(state) /\ UNCHANGED <<first, read, open>>
Reject == Keep("rejected") /\ UNCHANGED query

\* All characters become tokens before the first is parsed; one that begins none, or a
\* number beyond usize, rejects the query.  A string ends at its quote or with the query.
Tokenize ==
  /\ at = "tokenize"
  /\ MoveTo("SELECT") \/ MoveTo("rejected")
  /\ UNCHANGED <<first, query, read, open>>

\* The states that are named for the keyword they expect, and what follows it.
After == [SELECT |-> "select", FROM |-> "DEVICE", DEVICE |-> "device", AND |-> "end"]
ExpectKeyword(keyword) ==
  /\ Seen(keyword)
  /\ IF first = Word(keyword)
     THEN Consume(After[keyword]) /\ UNCHANGED query
     ELSE Reject

ParseSelect ==
  /\ Seen("select")
  /\ \/ /\ first = Asterisk
        /\ query' = [query EXCEPT !.select = All]
        /\ Consume("FROM")
     \/ /\ first.type = "Identifier" /\ first.text \in Kinds
        /\ query' = [query EXCEPT !.select = [clause |-> first.text]]
        /\ Consume("FROM")
     \/ /\ first.type = "Identifier" /\ first.text \notin Kinds
        /\ query' = [query EXCEPT !.select = Fields(<<first.text>>)]
        /\ Consume("fields")
     \/ /\ first.type \notin {"Asterisk", "Identifier"}
        /\ Reject

TooMany == Len(query.select.names) > MaxFields
\* A comma and a name, any number of times, and the check of how many there were.  The
\* names are bounded: one more than MaxFields is rejected for whatever follows but another.
ParseFields ==
  \/ /\ Seen("fields") /\ first = Comma
     /\ Len(query.select.names) <= MaxFields
     /\ Consume("field") /\ UNCHANGED query
  \/ /\ Seen("fields") /\ first # Comma
     /\ IF TooMany THEN Reject ELSE Keep("FROM") /\ UNCHANGED query
  \/ /\ Seen("field")
     /\ IF first.type = "Identifier"
        THEN /\ query' = [query EXCEPT !.select.names = Append(@, first.text)]
             /\ Consume("fields")
        ELSE Reject

\* Any string is a device here; DevEui::new judges it when the query is executed.
ParseFrom ==
  /\ Seen("device")
  /\ IF first.type = "String"
     THEN query' = [query EXCEPT !.from = first.holds] /\ Consume("WHERE?")
     ELSE Reject

\* peek_keyword.
Optional(keyword, state, next) ==
  /\ Seen(state)
  /\ IF first = Word(keyword) THEN Consume(keyword) ELSE Keep(next)
  /\ UNCHANGED query

ParseFilter ==
  /\ Seen("WHERE")
  /\ IF first \in {Word("BETWEEN"), Word("SINCE"), Word("LAST")}
     THEN query' = [query EXCEPT !.filter = [clause |-> first.text]] /\ Consume(first.text)
     ELSE Reject

ExpectTimestamp(state, next) ==
  /\ Seen(state)
  /\ IF first = String("timestamp") THEN Consume(next) /\ UNCHANGED query ELSE Reject

\* expect_duration and parse_duration.
ParseLast ==
  /\ Seen("LAST")
  /\ \/ first = String("duration") /\ Consume("LIMIT?") /\ UNCHANGED query
     \/ first = String("overflow") /\ Keep("panic") /\ UNCHANGED query
     \/ first \notin {String("duration"), String("overflow")} /\ Reject

Positive == first.value > 0
ParseLimit ==
  /\ Seen("LIMIT")
  /\ IF first.type = "Integer" /\ Positive
     THEN query' = [query EXCEPT !.limit = [clause |-> "LIMIT", value |-> first.value]] /\ Consume("stop")
     ELSE Reject

AllConsumed_Ignored == TRUE
AllConsumed == first = End
ParseEnd ==
  /\ Seen("stop")
  /\ IF AllConsumed THEN Keep("accepted") ELSE Keep("rejected")
  /\ UNCHANGED query

----------------------------------------------------------------------------
ParserInit ==
  /\ at = "tokenize"
  /\ first = unread /\ open = FALSE
  /\ query = [select |-> Absent, from |-> "", filter |-> Absent, limit |-> Absent]
  /\ read = <<>>

ParserNext ==
  \/ Tokenize \/ Look
  \/ \E keyword \in DOMAIN After : ExpectKeyword(keyword)
  \/ ParseSelect \/ ParseFields \/ ParseFrom
  \/ Optional("WHERE", "WHERE?", "LIMIT?") \/ Optional("LIMIT", "LIMIT?", "stop")
  \/ ParseFilter
  \/ ExpectTimestamp("BETWEEN", "AND") \/ ExpectTimestamp("end", "LIMIT?")
  \/ ExpectTimestamp("SINCE", "LIMIT?")
  \/ ParseLast \/ ParseLimit \/ ParseEnd

ParserSpec == ParserInit /\ [][ParserNext]_parserVars

----------------------------------------------------------------------------
(* Properties                                                              *)

\* The text of a query: the grammar in the comment of QueryParser with "status" as one more
\* kind.  The code has that kind; by the comment and the query guide "status" names a field.
SelectText(s) ==
  CASE s.clause = "*" -> <<Asterisk>>
    [] s.clause \in Kinds -> <<Word(s.clause)>>
    [] s.clause = "fields" ->
         [i \in 1..(2 * Len(s.names) - 1) |-> IF i % 2 = 1 THEN Word(s.names[(i + 1) \div 2]) ELSE Comma]
FilterText(f) ==
  CASE f.clause = "absent" -> <<>>
    [] f.clause = "BETWEEN" ->
         <<Word("WHERE"), Word("BETWEEN"), String("timestamp"), Word("AND"), String("timestamp")>>
    [] f.clause = "SINCE" -> <<Word("WHERE"), Word("SINCE"), String("timestamp")>>
    [] f.clause = "LAST" -> <<Word("WHERE"), Word("LAST"), String("duration")>>
LimitText(l) == IF l = Absent THEN <<>> ELSE <<Word("LIMIT"), Integer(l.value)>>
Text(q) ==
  <<Word("SELECT")>> \o SelectText(q.select) \o <<Word("FROM"), Word("DEVICE"), String(q.from)>>
  \o FilterText(q.filter) \o LimitText(q.limit) \o <<End>>

Names == Keywords \union Kinds \union Identifiers
Lists == {<<n>> : n \in Names \ Kinds}
         \union UNION {{<<n>> \o rest : n \in Names \ Kinds, rest \in [1..k -> Names]} : k \in 1..(MaxFields - 1)}
Queries ==
  [select : {All} \union {[clause |-> k] : k \in Kinds} \union {Fields(l) : l \in Lists},
   from : Strings,
   filter : {Absent} \union {[clause |-> c] : c \in {"BETWEEN", "SINCE", "LAST"}},
   limit : {Absent} \union {[clause |-> "LIMIT", value |-> n] : n \in Numbers \ {0}}]
Sentences == {Text(q) : q \in Queries}
Beginnings == UNION {{SubSeq(s, 1, n) : n \in 1..Len(s)} : s \in Sentences}

\* The parser accepts the texts of Queries and nothing else, where a last string may be left
\* open (by the query guide that is an error): what it accepts is the text of the query it
\* returns, every clause in its place and none added, and what it rejects by its tokens begins
\* no query.
ParsesTheGrammar ==
  /\ at = "accepted" => read = Text(query)
  /\ at = "rejected" /\ read # <<>> => read \notin Beginnings

=============================================================================
