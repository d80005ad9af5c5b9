------------------------------- MODULE UsageStats ------------------------------
(***************************************************************************)
(* What is counted of the messages: the statistics of the API               *)
(* (stats.service.ts), each a row of queries with an await between them     *)
(* while messages are saved and fail, and the usage of the Omega clients    *)
(* (omega-usage.service.ts), computed from one list of messages and rows    *)
(* that were read before.  A time is told by the period it falls in; types  *)
(* and chats of messages are left out, their lists being counted like the   *)
(* sessions'.                                                              *)
(***************************************************************************)
EXTENDS Naturals, Sequences, FiniteSets

CONSTANTS
  WaSessions,     \* sessions of the gateway
  Clients,        \* Omega clients
  NoOne,          \* the client of a session that is not assigned
  MaxMessages     \* bound: messages ever

VARIABLES
  messages,       \* the messages table
  rows,           \* omega_whatsapp_sessions: the client of each session
  report,         \* the report that is under way
  arrivals        \* history: messages saved since its first query

statsVars == <<messages, rows, report, arrivals>>

-----------------------------------------------------------------------------
(* "recent" is before midnight, but within the period that is asked for,    *)
(* within the last 24 hours and within the month.                          *)
Ages == {"today", "recent", "earlier"}
Today == {"today"}
Recent == {"today", "recent"}

(* Only what is sent can fail.                                             *)
Message == {m \in [session : WaSessions, dir : {"incoming", "outgoing"}, failed : BOOLEAN, age : Ages] :
              m.failed => m.dir = "outgoing"}

(* The queries of each report, in their order.  `of` is the session or the  *)
(* client that it is about.                                                *)
Steps == [
  overview     |-> <<"byDirection", "today", "failed">>,
  messageStats |-> <<"timeSeries", "bySession">>,
  sessionStats |-> <<"byDirectionOf", "todayOf", "failedOf", "hourly">>,
  usage        |-> <<"rows", "outgoing">>,
  clientUsage  |-> <<"rows", "outgoingOf">>]

Kinds == DOMAIN Steps
Abouts(kind) ==
  CASE kind = "sessionStats" -> WaSessions
    [] kind = "clientUsage" -> Clients
    [] OTHER -> {"all"}

NoReport == [pc |-> 0]
Report(pc, kind, of, answers) == [pc |-> pc, kind |-> kind, of |-> of, answers |-> answers]

Ids == 1..Len(messages)
Where(P(_)) == {i \in Ids : P(messages[i])}
Count(P(_)) == Cardinality(Where(P))
Those(dir, of, ages) ==
  {i \in Ids : messages[i].dir = dir /\ messages[i].session \in of /\ messages[i].age \in ages}
Directions(of, ages) ==
  [sent |-> Cardinality(Those("outgoing", of, ages)), received |-> Cardinality(Those("incoming", of, ages))]

(* What the usage counts: messages that went out and did not fail.          *)
Counted(m) == m.dir = "outgoing" /\ ~m.failed

(* Mutant: the sessions are counted of all time, beside a series of the     *)
(* period.                                                                 *)
MutantAllTime(s) == Directions({s}, Ages)

OfSession(s) == Directions({s}, Recent)

(* What a query answers.                                                    *)
Answer(query, of) ==
  CASE query = "byDirection"   -> Directions(WaSessions, Ages)
    [] query = "today"         -> Directions(WaSessions, Today)
    [] query = "failed"        -> Count(LAMBDA m : m.failed)
    [] query = "timeSeries"    -> [a \in Recent |-> Directions(WaSessions, {a})]
    [] query = "bySession"     ->
         [s \in WaSessions |-> OfSession(s)]
    [] query = "byDirectionOf" -> Directions({of}, Ages)
    [] query = "todayOf"       -> Count(LAMBDA m : m.session = of /\ m.age \in Today)
    [] query = "failedOf"      -> Count(LAMBDA m : m.session = of /\ m.failed)
    [] query = "hourly"        -> Directions({of}, Recent)
    [] query = "rows"          -> rows
    [] query = "outgoing"      -> Where(Counted)
    [] query = "outgoingOf"    -> {i \in Where(Counted) : report.answers.rows[messages[i].session] = of}

-----------------------------------------------------------------------------
Done == report # NoReport /\ report.pc > Len(Steps[report.kind])
Reporting(kinds) == Done /\ report.kind \in kinds
Got(query) == report.answers[query]

TypeOK ==
  /\ messages \in Seq(Message) /\ Len(messages) <= MaxMessages
  /\ rows \in [WaSessions -> Clients \cup {NoOne}]
  /\ report # NoReport =>
       /\ report.kind \in Kinds /\ report.of \in Abouts(report.kind)
       /\ report.pc \in 1..(Len(Steps[report.kind]) + 1)
       /\ DOMAIN report.answers = {Steps[report.kind][i] : i \in 1..(report.pc - 1)}
  /\ arrivals \in 0..MaxMessages

Init ==
  /\ \E m \in Message : messages = <<m>>
  /\ rows \in [WaSessions -> Clients \cup {NoOne}]
  /\ report = NoReport /\ arrivals = 0

(* getOverview, getMessageStats, getSessionStats, buildUsageOverview,       *)
(* buildClientUsage: a call arrives.                                        *)
Asked(kind, of) ==
  /\ report = NoReport
  /\ report' = Report(1, kind, of, <<>>)
  /\ arrivals' = 0
  /\ UNCHANGED <<messages, rows>>

With(f, query, answer) ==
  [q \in DOMAIN f \cup {query} |-> IF q = query THEN answer ELSE f[q]]

Queries ==
  LET query == Steps[report.kind][report.pc]
  IN  /\ report # NoReport /\ ~Done
      /\ report' = Report(report.pc + 1, report.kind, report.of,
                            With(report.answers, query, Answer(query, report.of)))
      /\ UNCHANGED <<messages, rows, arrivals>>

Answered ==
  /\ Done
  /\ report' = NoReport
  /\ UNCHANGED <<messages, rows, arrivals>>

(* Meanwhile messages are saved, refused by the engine, and sessions are    *)
(* assigned.                                                               *)
Saved(session, dir) ==
  /\ Len(messages) < MaxMessages
  /\ messages' = Append(messages, [session |-> session, dir |-> dir, failed |-> FALSE, age |-> "today"])
  /\ arrivals' = IF report = NoReport THEN 0 ELSE arrivals + 1
  /\ UNCHANGED <<rows, report>>

SendFails(i) ==
  /\ messages[i].dir = "outgoing" /\ ~messages[i].failed /\ messages[i].age = "today"
  /\ messages' = [messages EXCEPT ![i].failed = TRUE]
  /\ UNCHANGED <<rows, report, arrivals>>

Assigned(s, c) ==
  /\ rows[s] # c
  /\ rows' = [rows EXCEPT ![s] = c]
  /\ UNCHANGED <<messages, report, arrivals>>

Next ==
  \/ \E kind \in Kinds : \E of \in Abouts(kind) : Asked(kind, of)
  \/ Queries \/ Answered
  \/ \E s \in WaSessions :
       \/ \E dir \in {"incoming", "outgoing"} : Saved(s, dir)
       \/ \E c \in Clients \cup {NoOne} : Assigned(s, c)
  \/ \E i \in Ids : SendFails(i)

-----------------------------------------------------------------------------
(* composeUsage and composeClientUsage, of what was read.  A message counts *)
(* for the client its session was assigned to when the rows were read.      *)
Since(ages, list) == {i \in list : messages[i].age \in ages}

(* Mutant: the client is looked up again while the messages are counted.     *)
MutantReadsAgain(i) == rows[messages[i].session]

ClientOf(i) == Got("rows")[messages[i].session]

PerClient(c, ages) == Cardinality({i \in Since(ages, Got("outgoing")) : ClientOf(i) = c})
PerSession(s, ages) == Cardinality({i \in Since(ages, Got("outgoing")) : messages[i].session = s})
Totals(ages) == Cardinality(Since(ages, Got("outgoing")))

OwnSessions(c) == {s \in WaSessions : Got("rows")[s] = c}
TotalOf(ages) == Cardinality(Since(ages, Got("outgoingOf")))
TotalOfSession(s) == Cardinality({i \in Got("outgoingOf") : messages[i].session = s})

(* The sum of what the function f gives: so many pairs of an argument and a *)
(* number up to its value there are.                                       *)
SumOver(f) == Cardinality(UNION {{x} \X (1..f[x]) : x \in DOMAIN f})

SentBySession == SumOver([s \in WaSessions |-> Got("bySession")[s].sent])
SentInSeries == SumOver([a \in Recent |-> Got("timeSeries")[a].sent])

-----------------------------------------------------------------------------
(* Properties.                                                             *)

(* A report that several queries make up contradicts itself by no more than *)
(* what arrived while they ran: no more of today, and no more failures,     *)
(* than there are messages, and the sessions add up to the time series.     *)
ReportsAddUp ==
  /\ Reporting({"overview"}) =>
       /\ Got("today").sent <= Got("byDirection").sent + arrivals
       /\ Got("today").received <= Got("byDirection").received + arrivals
       /\ Got("failed") <= Got("byDirection").sent + arrivals
  /\ Reporting({"messageStats"}) =>
       /\ SentBySession <= SentInSeries + arrivals
       /\ SentBySession >= SentInSeries
  /\ Reporting({"sessionStats"}) =>
       LET all == Got("byDirectionOf")
       IN  /\ Got("todayOf") <= all.sent + all.received + arrivals
           /\ Got("failedOf") <= all.sent + arrivals
           /\ Got("hourly").sent + Got("hourly").received >= Got("todayOf")

(* Every message of the usage counts for one client at most, and a client   *)
(* is charged for exactly what its sessions sent, also when sessions are    *)
(* assigned while the report is made.                                       *)
UsageIsShared ==
  /\ Reporting({"usage"}) =>
       /\ \A ages \in {Today, Recent} : SumOver([c \in Clients |-> PerClient(c, ages)]) <= Totals(ages)
       /\ \A c \in Clients :
            PerClient(c, Recent) = SumOver([s \in OwnSessions(c) |-> PerSession(s, Recent)])
  /\ Reporting({"clientUsage"}) =>
       /\ TotalOf(Today) <= TotalOf(Recent)
       /\ TotalOf(Recent) <= SumOver([s \in OwnSessions(report.of) |-> TotalOfSession(s)])

-----------------------------------------------------------------------------
(* Inductive invariants: how an answer that a report has compares with what *)
(* is counted now.                                                         *)
Has(query) == report # NoReport /\ query \in DOMAIN report.answers
Number(dir, of, ages) == Cardinality(Those(dir, of, ages))
TodayOf(of) == Count(LAMBDA m : m.session = of /\ m.age \in Today)
Directed == [sent : Nat, received : Nat]

(* Since a query no more messages came than have arrived; none goes away.   *)
OverviewFollows ==
  /\ Has("byDirection") =>
       /\ Got("byDirection") \in Directed
       /\ Number("outgoing", WaSessions, Ages) <= Got("byDirection").sent + arrivals
       /\ Number("incoming", WaSessions, Ages) <= Got("byDirection").received + arrivals
  /\ Has("today") =>
       /\ Got("today") \in Directed
       /\ Got("today").sent <= Got("byDirection").sent + arrivals
       /\ Got("today").received <= Got("byDirection").received + arrivals
  /\ Has("failed") => Got("failed") \in Nat /\ Got("failed") <= Got("byDirection").sent + arrivals

MessageStatsFollow ==
  /\ Has("timeSeries") =>
       /\ SentInSeries \in Nat
       /\ SentInSeries <= Number("outgoing", WaSessions, Recent)
       /\ Number("outgoing", WaSessions, Recent) <= SentInSeries + arrivals
  /\ Has("bySession") =>
       /\ SentBySession \in Nat
       /\ SentInSeries <= SentBySession
       /\ SentBySession <= SentInSeries + arrivals

SessionStatsFollow ==
  /\ Has("byDirectionOf") =>
       /\ Got("byDirectionOf") \in Directed
       /\ Number("outgoing", {report.of}, Ages) <= Got("byDirectionOf").sent + arrivals
       /\ Number("outgoing", {report.of}, Ages) + Number("incoming", {report.of}, Ages)
            <= Got("byDirectionOf").sent + Got("byDirectionOf").received + arrivals
  /\ Has("todayOf") =>
       /\ Got("todayOf") \in Nat /\ Got("todayOf") <= TodayOf(report.of)
       /\ Got("todayOf") <= Got("byDirectionOf").sent + Got("byDirectionOf").received + arrivals
  /\ Has("failedOf") => Got("failedOf") \in Nat /\ Got("failedOf") <= Got("byDirectionOf").sent + arrivals
  /\ Has("hourly") =>
       Got("hourly") \in Directed /\ Got("hourly").sent + Got("hourly").received >= Got("todayOf")

UsageFollows ==
  /\ Has("rows") => Got("rows") \in [WaSessions -> Clients \cup {NoOne}]
  /\ Has("outgoing") => Got("outgoing") \subseteq Ids
  /\ Has("outgoingOf") =>
       Got("outgoingOf") \subseteq Ids /\ \A i \in Got("outgoingOf") : ClientOf(i) = report.of

StatsInv ==
  /\ TypeOK /\ arrivals < Len(messages)
  /\ OverviewFollows /\ MessageStatsFollow /\ SessionStatsFollow /\ UsageFollows
===============================================================================
