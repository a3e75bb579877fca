----------------------------- MODULE LogSummary -----------------------------
(***************************************************************************)
(* The analysis itself: internal/analysis reads a log line by line,        *)
(* internal/summary aggregates the records into the canonical summary, and *)
(* both callers, the service's processJob and the benchmark's              *)
(* AnalyzeCorpus, go through it.                                           *)
(*                                                                         *)
(* A line is reduced to what the engine tells apart.  Paths and methods    *)
(* are numbered in ascending byte order, time stamps count ticks and zero  *)
(* is Go's zero time.  Left out: the size of a response, which no summary  *)
(* uses; percentages, a function of two counts; the number of bytes; and   *)
(* the cancellation of the context, which both callers leave in the        *)
(* background.                                                             *)
(***************************************************************************)
EXTENDS Naturals, Sequences, FiniteSets

CONSTANTS
  Paths,     \* the paths of the log, ascending, each split at its slashes
  Methods,   \* the methods of the log, numbers in ascending order
  Lines,     \* the lines a log may have
  MaxLines   \* bound of the model: lines of a log

Faults == {"none", "shape", "timestamp", "status"}
Line == [long : BOOLEAN, fault : Faults, path : DOMAIN Paths, method : Methods, stamp : Nat]

ASSUME PathAssumption == Paths \in Seq(Seq(STRING))
ASSUME MethodAssumption == Methods \subseteq Nat
ASSUME LineAssumption == Lines \subseteq Line
ASSUME BoundAssumption == MaxLines \in Nat

ZeroTime == 0
NoRate == [requests |-> 0, duration |-> 1]
Row == [path : DOMAIN Paths, method : Methods, count : Nat]

VARIABLES
  surface,    \* the caller: processJob or AnalyzeCorpus
  input,      \* the lines of the log
  pos,        \* lines read so far
  matched, filtered, malformed,  \* analysis.Result
  records,    \* its records, in the order of the log
  pc,         \* where the analysis is
  pending,    \* keys of the counts map that were not visited yet
  ranked,     \* summary.RankedRequests
  rate        \* summary.RequestsPerSec, as a fraction

tallies == <<pos, matched, filtered, malformed, records>>
sum     == <<pending, ranked, rate>>
vars    == <<surface, input, tallies, pc, sum>>

TypeOK ==
  /\ surface \in {"service", "bench"}
  /\ input \in Seq(Lines)
  /\ pos \in 0..Len(input)
  /\ matched \in Nat /\ filtered \in Nat /\ malformed \in Nat
  /\ records \in Seq(Lines)
  /\ pc \in {"new", "open", "scan", "compute", "rank", "sort", "done", "failed"}
  /\ pending \subseteq Row
  /\ ranked \in Seq(Row)
  /\ rate \in [requests : Nat, duration : Nat \ {0}]

Init ==
  /\ surface \in {"service", "bench"}
  /\ input = <<>>
  /\ pos = 0
  /\ matched = 0 /\ filtered = 0 /\ malformed = 0
  /\ records = <<>>
  /\ pc = "new"
  /\ pending = {}
  /\ ranked = <<>>
  /\ rate = NoRate

-----------------------------------------------------------------------------
Goto(from, to) == pc = from /\ pc' = to

\* NewEngine: one format and one profile are supported.
NewEngine ==
  /\ \E format \in {"combined", "caddy", ""}, profile \in {"default", ""} :
       Goto("new", IF format = "combined" /\ profile = "default" THEN "open" ELSE "failed")
  /\ UNCHANGED <<surface, input, tallies, sum>>

\* AnalyzeBytes: an empty input is an error.
Open ==
  /\ pc = "open"
  /\ \E n \in 0..MaxLines : input' \in [1..n -> Lines]
  /\ pc' = IF input' = <<>> THEN "failed" ELSE "scan"
  /\ UNCHANGED <<surface, tallies, sum>>

\* A health check is a whole first segment: /health and /health/x, not /healthy.
ShouldFilter(path) ==
  Len(path) >= 2 /\ path[1] = "" /\
  path[2] \in {"health", "healthz", "readyz", "ping", "alive", "_health"}

\* parseCombinedLog: what is wrong with a line is found before its path is looked at.
Fate(line) ==
  IF line.fault # "none" THEN "malformed"
  ELSE IF ShouldFilter(Paths[line.path]) THEN "filtered"
  ELSE "matched"

\* Mutated form of Keeps: filtered lines kept as records.
KeepsFiltered(fate) == fate # "malformed"

Keeps(fate) == fate = "matched"

\* One turn of Analyze's loop.
ScanLine ==
  /\ Goto("scan", "scan")
  /\ pos < Len(input)
  /\ LET line == input[pos + 1]
         fate == Fate(line)
     IN /\ ~line.long
        /\ matched' = matched + (IF fate = "matched" THEN 1 ELSE 0)
        /\ filtered' = filtered + (IF fate = "filtered" THEN 1 ELSE 0)
        /\ malformed' = malformed + (IF fate = "malformed" THEN 1 ELSE 0)
        /\ records' = IF Keeps(fate) THEN Append(records, line) ELSE records
  /\ pos' = pos + 1
  /\ UNCHANGED <<surface, input, sum>>

\* A line beyond the scanner's buffer ends the scan with an error, and everything
\* read so far is dropped.
ScanError ==
  /\ Goto("scan", "failed")
  /\ pos < Len(input)
  /\ input[pos + 1].long
  /\ UNCHANGED <<surface, input, tallies, sum>>

\* The end of the input.  The service refuses a data set without one valid line.
EndOfInput ==
  /\ pos = Len(input)
  /\ Goto("scan", IF surface = "service" /\ matched = 0 /\ malformed > 0
                  THEN "failed" ELSE "compute")
  /\ UNCHANGED <<surface, input, tallies, sum>>

-----------------------------------------------------------------------------
\* Mutated form of Lasting: records out of order divide by a negative span.
Apart(first, last) == last # first

\* Mutated form of Lasting: an empty span is divided by.
AtLeastZero(first, last) == last >= first

Lasting(first, last) == last > first

\* The requests over the time from the first record to the last one.
RateOf(recs, total) ==
  IF Len(recs) < 2 THEN NoRate
  ELSE LET first == recs[1].stamp
           last == recs[Len(recs)].stamp
       IN IF first # ZeroTime /\ last # ZeroTime /\ Lasting(first, last)
          THEN [requests |-> total, duration |-> last - first]
          ELSE NoRate

CountOf(recs, path, method) ==
  Cardinality({i \in DOMAIN recs : recs[i].path = path /\ recs[i].method = method})

\* The rows of the counts map.
Counts(recs) ==
  {[path |-> recs[i].path, method |-> recs[i].method,
    count |-> CountOf(recs, recs[i].path, recs[i].method)] : i \in DOMAIN recs}

Compute ==
  /\ Goto("compute", "rank")
  /\ rate' = RateOf(records, matched)
  /\ pending' = Counts(records)
  /\ UNCHANGED <<surface, input, tallies, ranked>>

\* The range over the counts map visits the keys in any order.
AppendRow ==
  /\ Goto("rank", "rank")
  /\ \E row \in pending :
       /\ ranked' = Append(ranked, row)
       /\ pending' = pending \ {row}
  /\ UNCHANGED <<surface, input, tallies, rate>>

RankedAll ==
  /\ Goto("rank", "sort")
  /\ pending = {}
  /\ UNCHANGED <<surface, input, tallies, sum>>

\* Mutated form of Less: no tie-break by method.
LessByPath(a, b) ==
  a.count > b.count \/ (a.count = b.count /\ a.path < b.path)

Less(a, b) ==
  \/ a.count > b.count
  \/ a.count = b.count /\ a.path < b.path
  \/ a.count = b.count /\ a.path = b.path /\ a.method < b.method

\* What sort.SliceStable makes of rows: elements that tie keep their order.
StableOrders(rows) ==
  {p \in [DOMAIN rows -> DOMAIN rows] :
     \A i, j \in DOMAIN rows : i < j =>
       \/ Less(rows[p[i]], rows[p[j]])
       \/ p[i] < p[j] /\ ~Less(rows[p[j]], rows[p[i]])}

\* Compute sorts the rows, AnalyzeCorpus its copy of them once more.
SortRows ==
  /\ Goto("sort", "done")
  /\ \E p \in StableOrders(ranked) : ranked' = [i \in DOMAIN ranked |-> ranked[p[i]]]
  /\ UNCHANGED <<surface, input, tallies, pending, rate>>

Next ==
  \/ NewEngine \/ Open \/ ScanLine \/ ScanError \/ EndOfInput
  \/ Compute \/ AppendRow \/ RankedAll \/ SortRows

Spec == Init /\ [][Next]_vars

-----------------------------------------------------------------------------
\* The lines read so far that met a fate.
Tally(fate) == Cardinality({i \in 1..pos : Fate(input[i]) = fate})

LinesAccounted ==
  /\ pc \in {"new", "open"} => pos = 0
  /\ pc \in {"compute", "rank", "sort", "done"} => pos = Len(input)
  /\ matched = Tally("matched") /\ filtered = Tally("filtered") /\ malformed = Tally("malformed")
  /\ matched + filtered + malformed = pos
  /\ Len(records) = matched

\* The lines of a log that a reader would count for the ranking.
ValidIn(log) == {i \in DOMAIN log : Fate(log[i]) = "matched"}
Valid == ValidIn(input)

\* e finds the lines the records were made of, in the order of the log.
Enumerates(e) ==
  /\ \A k \in DOMAIN records : records[k] = input[e[k]]
  /\ \A k, l \in DOMAIN records : k < l => e[k] < e[l]
  /\ \A i \in Valid : i <= pos => \E k \in DOMAIN records : e[k] = i

RecordsTraced ==
  /\ \E e \in [DOMAIN records -> {i \in Valid : i <= pos}] : Enumerates(e)
  /\ pc \in {"rank", "sort", "done"} => rate = RateOf(records, matched)

\* Every line read was put in exactly one of the three tallies, the one of its fate,
\* also on the way to an error; the records are the valid lines of the part that was
\* read, each of them once and in the order of the log; and the rate given out is that
\* of these records, which no later step changes (engine.go:117-146, summary.go:56).
LogAccounted == LinesAccounted /\ RecordsTraced

\* The ranking that a reader would make of a log: its rows, and the order among them.
RowsOf(log) ==
  {[path |-> log[i].path, method |-> log[i].method,
    count |-> Cardinality({j \in ValidIn(log) : /\ log[j].path = log[i].path
                                               /\ log[j].method = log[i].method})] :
     i \in ValidIn(log)}

Outranks(a, b) ==
  \/ a.count > b.count
  \/ /\ a.count = b.count
     /\ a.path < b.path \/ (a.path = b.path /\ a.method < b.method)

Ranks(rows, set) ==
  /\ {rows[i] : i \in DOMAIN rows} = set
  /\ \A i, j \in DOMAIN rows : i < j => Outranks(rows[i], rows[j])

\* "This function is deterministic: identical input produces identical output": the
\* ranking is a function of the set of the log's valid lines, whatever the order in
\* which the map was visited: one row for every path and method, with its count,
\* in one strict order.
RankingIsCanonical == pc = "done" => Ranks(ranked, RowsOf(input))

\* The members of a finite set, one after the other as a relation orders them.
Below(x, set, before) == {y \in set : <<y, x>> \in before}

InOrder(set, before) ==
  [k \in 1..Cardinality(set) |-> CHOOSE x \in set : Cardinality(Below(x, set, before)) = k - 1]

\* The summary of a log, with no reference to how it is computed.
SummaryOf(log) ==
  LET valid == ValidIn(log)
      rows  == RowsOf(log)
      found == InOrder(valid, {ij \in valid \X valid : ij[1] < ij[2]})
      With(fate) == Cardinality({i \in DOMAIN log : Fate(log[i]) = fate})
  IN [matched   |-> With("matched"),
      filtered  |-> With("filtered"),
      malformed |-> With("malformed"),
      ranked    |-> InOrder(rows, {ab \in rows \X rows : Outranks(ab[1], ab[2])}),
      rate      |-> RateOf([k \in DOMAIN found |-> log[found[k]]], With("matched"))]

Summary == [matched |-> matched, filtered |-> filtered, malformed |-> malformed,
            ranked |-> ranked, rate |-> rate]

\* What is given out is a function of the log: it does not depend on the order in which
\* the map was visited, nor on which of the two callers asked.
SummaryIsDeterministic == pc = "done" => Summary = SummaryOf(input)

\* The rate is a finite number, and it is only above zero when it divides the whole
\* number of requests by the time between two records that both have a date.
RateIsFinite ==
  /\ rate.duration > 0
  /\ pc = "done" /\ rate.requests > 0 =>
       /\ rate.requests = matched
       /\ \E i, j \in Valid : /\ input[j].stamp = input[i].stamp + rate.duration
                              /\ input[i].stamp # ZeroTime

-----------------------------------------------------------------------------
\* summary.go says of the rate: "Calculate requests per second from the input data's
\* timestamp span": for dated records it divides by the latest minus the earliest.
RateUsesSpan ==
  pc = "done" /\ (\A i \in Valid : input[i].stamp # ZeroTime) =>
    \A i, j \in Valid : input[j].stamp > input[i].stamp =>
      rate.requests = matched /\ rate.duration >= input[j].stamp - input[i].stamp
=============================================================================
