-------------------------- MODULE LogSummary_proofs --------------------------
(***************************************************************************)
(* Proofs about LogSummary for logs of any length over any lines.  The     *)
(* invariant carries, besides the types and the tallies, the enumeration   *)
(* of the valid lines that the records are, that the rate is computed from *)
(* them, and that ranked and pending rows together are the rows of the     *)
(* counts map: from these follows what rate and ranking may be, and that   *)
(* both depend on nothing but the log.                                     *)
(***************************************************************************)
EXTENDS LogSummary, FiniteSetTheorems, SequenceTheorems, TLAPS

IInv == TypeOK /\ LinesAccounted /\ RecordsTraced

-----------------------------------------------------------------------------
\* A key of the counts map is counted by a natural number.
LEMMA CountType ==
  ASSUME NEW recs \in Seq(Lines), NEW p, NEW m
  PROVE  CountOf(recs, p, m) \in Nat
<1> DEFINE S == {i \in DOMAIN recs : recs[i].path = p /\ recs[i].method = m}
<1>1. IsFiniteSet(1..Len(recs))
  BY FS_Interval, LenProperties
<1>2. S \subseteq 1..Len(recs)
  BY LenProperties
<1>3. IsFiniteSet(S)
  BY <1>1, <1>2, FS_Subset
<1>4. Cardinality(S) \in Nat
  BY <1>3, FS_CardinalityType
<1> QED
  BY <1>4 DEF CountOf

\* What Compute hands to the ranking is a set of well-formed rows.
LEMMA CountsType ==
  ASSUME NEW recs \in Seq(Lines)
  PROVE  Counts(recs) \subseteq Row
<1> SUFFICES ASSUME NEW i \in DOMAIN recs
             PROVE  [path |-> recs[i].path, method |-> recs[i].method,
                     count |-> CountOf(recs, recs[i].path, recs[i].method)] \in Row
  BY DEF Counts
<1>1. recs[i] \in Line
  BY ElementOfSeq, LenProperties, LineAssumption
<1>2. CountOf(recs, recs[i].path, recs[i].method) \in Nat
  BY CountType
<1> QED
  BY <1>1, <1>2 DEF Line, Row

\* The rate of any records over any total is a fraction with a positive denominator.
LEMMA RateType ==
  ASSUME NEW recs \in Seq(Lines), NEW total \in Nat
  PROVE  RateOf(recs, total) \in [requests : Nat, duration : Nat \ {0}]
<1>1. CASE Len(recs) < 2
  BY <1>1 DEF RateOf, NoRate
<1>2. CASE ~(Len(recs) < 2)
  <2> DEFINE first == recs[1].stamp
             last == recs[Len(recs)].stamp
  <2>1. first \in Nat /\ last \in Nat
    <3>1. Len(recs) \in Nat /\ 1 \in 1..Len(recs) /\ Len(recs) \in 1..Len(recs)
      BY <1>2, LenProperties
    <3>2. recs[1] \in Line /\ recs[Len(recs)] \in Line
      BY <3>1, ElementOfSeq, LineAssumption
    <3> QED
      BY <3>2 DEF Line
  <2>2. last > first => last - first \in Nat \ {0}
    BY <2>1
  <2>3. RateOf(recs, total) =
          IF first # ZeroTime /\ last # ZeroTime /\ last > first
          THEN [requests |-> total, duration |-> last - first] ELSE NoRate
    BY <1>2 DEF RateOf, Lasting
  <2> HIDE DEF first, last
  <2> QED
    BY <2>2, <2>3 DEF NoRate
<1> QED
  BY <1>1, <1>2

-----------------------------------------------------------------------------
LEMMA InitIInv == Init => IInv
<1> SUFFICES ASSUME Init PROVE IInv
  OBVIOUS
<1>1. TypeOK
  BY DEF Init, TypeOK, NoRate
<1>2. \A fate : Tally(fate) = 0
  <2>1. \A fate : {i \in 1..pos : Fate(input[i]) = fate} = {}
    BY DEF Init
  <2> QED BY <2>1, FS_EmptySet DEF Tally
<1>3. LinesAccounted
  BY <1>2 DEF Init, LinesAccounted
<1>4. RecordsTraced
  <2>1. DOMAIN records = {} /\ {i \in Valid : i <= pos} = {}
    BY DEF Init, Valid, ValidIn
  <2> DEFINE e == [k \in DOMAIN records |-> 0]
  <2>2. e \in [DOMAIN records -> {i \in Valid : i <= pos}] /\ Enumerates(e)
    BY <2>1 DEF Enumerates
  <2> HIDE DEF e
  <2> QED BY <2>2 DEF Init, RecordsTraced
<1> QED BY <1>1, <1>3, <1>4 DEF IInv

\* The line that is read next is one of the log's lines.
LEMMA NextLine ==
  ASSUME TypeOK, pos < Len(input)
  PROVE  pos + 1 \in DOMAIN input /\ input[pos + 1] \in Lines /\ pos + 1 \in 0..Len(input)
  BY LenProperties, ElementOfSeq DEF TypeOK

\* Reading one more line adds it to the tally of its fate and to no other.
LEMMA TallyStep ==
  ASSUME pos \in Nat, pos' = pos + 1, input' = input, NEW fate
  PROVE  Tally(fate)' = Tally(fate) + (IF Fate(input[pos + 1]) = fate THEN 1 ELSE 0)
<1> DEFINE before == {i \in 1..pos : Fate(input[i]) = fate}
           after == {i \in 1..(pos + 1) : Fate(input[i]) = fate}
<1>1. IsFiniteSet(before) /\ Cardinality(before) \in Nat
  <2>1. IsFiniteSet(1..pos)
    BY FS_Interval
  <2>2. before \subseteq 1..pos
    OBVIOUS
  <2> HIDE DEF before
  <2> QED BY <2>1, <2>2, FS_Subset, FS_CardinalityType
<1>2. pos + 1 \notin before /\ 1..(pos + 1) = 1..pos \cup {pos + 1}
  OBVIOUS
<1>3. Tally(fate) = Cardinality(before) /\ Tally(fate)' = Cardinality(after)
  BY DEF Tally, Fate, ShouldFilter
<1>4. CASE Fate(input[pos + 1]) = fate
  <2>1. after = before \cup {pos + 1}
    BY <1>2, <1>4
  <2>2. Cardinality(before \cup {pos + 1}) = Cardinality(before) + 1
    <3> HIDE DEF before
    <3> QED BY <1>1, <1>2, FS_AddElement
  <2> HIDE DEF before, after
  <2> QED BY <1>3, <1>4, <2>1, <2>2
<1>5. CASE Fate(input[pos + 1]) # fate
  <2>1. after = before
    BY <1>2, <1>5
  <2> HIDE DEF before, after
  <2> QED BY <1>1, <1>3, <1>5, <2>1
<1> QED BY <1>4, <1>5

\* A valid line that is read next becomes the last record; another one leaves the
\* records what they were.
LEMMA EnumerationStep ==
  ASSUME TypeOK, RecordsTraced, pos < Len(input), pos' = pos + 1, input' = input,
         records' = IF Fate(input[pos + 1]) = "matched" THEN Append(records, input[pos + 1]) ELSE records
  PROVE  \E e \in [DOMAIN records' -> {i \in Valid' : i <= pos'}] : Enumerates(e)'
<1> DEFINE next == pos + 1
           read == {i \in Valid : i <= pos}
           more == {i \in Valid : i <= next}
<1>1. /\ next \in DOMAIN input /\ input[next] \in Lines /\ next \in Nat /\ pos \in Nat /\ ~(next <= pos)
      /\ DOMAIN input \subseteq Nat
  BY NextLine, LenProperties DEF TypeOK
<1>2. PICK e \in [DOMAIN records -> read] : Enumerates(e)
  BY DEF RecordsTraced
<1>3. records \in Seq(Lines) /\ Len(records) \in Nat /\ DOMAIN records = 1..Len(records)
  BY LenProperties DEF TypeOK
<1>4. Valid' = Valid /\ Valid \subseteq Nat
  BY <1>1 DEF Valid, ValidIn, Fate, ShouldFilter
<1>5. \A i \in Valid : i <= next <=> i <= pos \/ i = next
  BY <1>1, <1>4
<1>6. \A i \in read : i \in more /\ i < next
  BY <1>1, <1>4, <1>5
<1>7. CASE Fate(input[next]) = "matched"
  <2> DEFINE n == Len(records) + 1
             longer == [k \in 1..n |-> IF k = n THEN next ELSE e[k]]
  <2>1. records' = Append(records, input[next])
    BY <1>7
  <2>2. /\ DOMAIN records' = 1..n
        /\ \A k \in 1..Len(records) : records'[k] = records[k]
        /\ records'[n] = input[next]
    BY <1>1, <1>3, <2>1, AppendProperties, LenProperties
  <2>3. /\ n \in 1..n /\ \A k \in 1..n : k # n => k \in DOMAIN records /\ k < n
        /\ \A k \in DOMAIN records : k # n /\ k \in 1..n
    BY <1>3
  <2>4. next \in more
    BY <1>1, <1>5, <1>7 DEF Valid, ValidIn
  <2>5. /\ longer[n] = next
        /\ \A k \in DOMAIN records : longer[k] = e[k] /\ e[k] \in read
    BY <1>2, <2>3
  <2> HIDE DEF n
  <2>6. longer \in [1..n -> more]
    BY <1>6, <2>3, <2>4, <2>5
  <2> HIDE DEF longer
  <2>12. PICK f \in [1..n -> more] : /\ f[n] = next
                                    /\ \A k \in DOMAIN records : f[k] = e[k] /\ e[k] \in read
    BY <2>5, <2>6
  <2>7. \A k \in 1..n : records'[k] = input[f[k]]
    <3>1. \A k \in DOMAIN records : records[k] = input[e[k]]
      BY <1>2 DEF Enumerates
    <3>2. \A k \in DOMAIN records : records'[k] = input[f[k]]
      BY <1>3, <2>2, <2>12, <3>1
    <3> QED BY <2>2, <2>3, <2>12, <3>2
  <2>8. ASSUME NEW k \in 1..n, NEW l \in 1..n, k < l
        PROVE  f[k] < f[l]
    <3>1. k # n /\ k \in DOMAIN records
      <4>1. n \in Nat
        BY <1>3 DEF n
      <4> QED BY <2>3, <2>8, <4>1
    <3> HIDE DEF next
    <3>2. CASE l = n
      BY <1>6, <2>12, <3>1, <3>2
    <3>3. CASE l # n
      BY <1>2, <2>3, <2>12, <2>8, <3>1, <3>3 DEF Enumerates
    <3> QED BY <3>2, <3>3
  <2>9. ASSUME NEW i \in Valid, i <= next
        PROVE  \E k \in 1..n : f[k] = i
    <3>1. CASE i = next
      BY <2>3, <2>12, <3>1
    <3>2. CASE i # next
      <4>1. i <= pos
        BY <1>5, <2>9, <3>2
      <4>2. PICK k \in DOMAIN records : e[k] = i
        BY <1>2, <4>1 DEF Enumerates
      <4> QED BY <2>3, <2>12, <4>2
    <3> QED BY <3>1, <3>2
  <2>10. Enumerates(f)'
    <3>1. (\A k \in DOMAIN records' : records'[k] = input'[f[k]])
      BY <2>2, <2>7
    <3>2. \A k, l \in DOMAIN records' : k < l => f[k] < f[l]
      BY <2>2, <2>8
    <3>3. \A i \in Valid' : i <= pos' => \E k \in DOMAIN records' : f[k] = i
      BY <1>4, <2>2, <2>9
    <3> QED BY <3>1, <3>2, <3>3 DEF Enumerates
  <2>11. f \in [DOMAIN records' -> {i \in Valid' : i <= pos'}]
    BY <1>4, <2>2
  <2> QED BY <2>10, <2>11
<1>8. CASE Fate(input[next]) # "matched"
  <2>1. records' = records /\ next \notin Valid
    BY <1>8 DEF Valid, ValidIn
  <2>2. more = read
    BY <1>5, <2>1
  <2>3. Enumerates(e)'
    <3>1. \A k \in DOMAIN records' : records'[k] = input'[e[k]]
      BY <1>2, <2>1 DEF Enumerates
    <3>2. \A k, l \in DOMAIN records' : k < l => e[k] < e[l]
      BY <1>2, <2>1 DEF Enumerates
    <3>3. \A i \in Valid' : i <= pos' => \E k \in DOMAIN records' : e[k] = i
      BY <1>2, <1>4, <2>1, <2>2 DEF Enumerates
    <3> QED BY <3>1, <3>2, <3>3 DEF Enumerates
  <2>4. e \in [DOMAIN records' -> {i \in Valid' : i <= pos'}]
    <3>1. {i \in Valid' : i <= pos'} = more
      BY <1>4
    <3> HIDE DEF more, read
    <3> QED BY <1>2, <2>1, <2>2, <3>1
  <2> QED BY <2>3, <2>4
<1> QED BY <1>7, <1>8

LEMMA ScanLineIInv == IInv /\ ScanLine => IInv'
<1> SUFFICES ASSUME IInv, ScanLine PROVE IInv'
  OBVIOUS
<1> DEFINE line == input[pos + 1]
           fate == Fate(line)
<1>1. /\ pos + 1 \in DOMAIN input /\ line \in Lines /\ pos + 1 \in 0..Len(input)
      /\ pos \in Nat /\ pos < Len(input)
  BY NextLine, LenProperties DEF ScanLine, IInv, TypeOK
<1>2. fate \in {"malformed", "filtered", "matched"}
  BY DEF Fate
<1>3. /\ matched' = matched + (IF fate = "matched" THEN 1 ELSE 0)
      /\ filtered' = filtered + (IF fate = "filtered" THEN 1 ELSE 0)
      /\ malformed' = malformed + (IF fate = "malformed" THEN 1 ELSE 0)
      /\ records' = IF fate = "matched" THEN Append(records, line) ELSE records
      /\ pos' = pos + 1 /\ input' = input /\ pc = "scan" /\ pc' = "scan"
      /\ surface' = surface /\ pending' = pending /\ ranked' = ranked /\ rate' = rate
  BY DEF ScanLine, Goto, Keeps, sum
<1>4. \A f : Tally(f)' = Tally(f) + (IF fate = f THEN 1 ELSE 0)
  BY <1>1, <1>3, TallyStep
<1>5. \E e \in [DOMAIN records' -> {i \in Valid' : i <= pos'}] : Enumerates(e)'
  BY <1>1, <1>3, EnumerationStep DEF IInv
<1> HIDE DEF line, fate
<1>6. matched \in Nat /\ filtered \in Nat /\ malformed \in Nat /\ records \in Seq(Lines)
  BY DEF IInv, TypeOK
<1>7. records' \in Seq(Lines) /\ Len(records') = matched'
  <2>1. Len(records) = matched
    BY DEF IInv, LinesAccounted
  <2>2. CASE fate = "matched"
    <3>1. records' = Append(records, line) /\ matched' = matched + 1 /\ line \in Lines
      BY <1>1, <1>3, <2>2 DEF line
    <3> QED BY <1>6, <2>1, <3>1, AppendProperties
  <2>3. CASE fate # "matched"
    <3>1. records' = records /\ matched' = matched
      BY <1>3, <1>6, <2>3
    <3> QED BY <1>6, <2>1, <3>1
  <2> QED BY <2>2, <2>3
<1>8. TypeOK'
  <2>1. matched' \in Nat /\ filtered' \in Nat /\ malformed' \in Nat /\ pos' \in 0..Len(input')
    BY <1>1, <1>3, <1>6
  <2> QED
    BY <2>1, <1>3, <1>7 DEF IInv, TypeOK
<1>9. LinesAccounted'
  <2>1. matched' + filtered' + malformed' = pos'
    <3>1. matched + filtered + malformed = pos
      BY DEF IInv, LinesAccounted
    <3>2. \/ /\ matched' = matched + 1 /\ filtered' = filtered /\ malformed' = malformed
          \/ /\ matched' = matched /\ filtered' = filtered + 1 /\ malformed' = malformed
          \/ /\ matched' = matched /\ filtered' = filtered /\ malformed' = malformed + 1
      BY <1>2, <1>3, <1>6
    <3> QED BY <1>1, <1>3, <1>6, <3>1, <3>2
  <2>2. /\ matched' = Tally("matched")' /\ filtered' = Tally("filtered")'
        /\ malformed' = Tally("malformed")'
    BY <1>3, <1>4 DEF IInv, LinesAccounted
  <2> QED
    BY <1>3, <1>7, <2>1, <2>2 DEF LinesAccounted
<1>10. RecordsTraced'
  BY <1>3, <1>5 DEF RecordsTraced
<1> QED
  BY <1>8, <1>9, <1>10 DEF IInv

\* A step that leaves the log, the tallies and the rate alone keeps them consistent.
LEMMA TalliesKept ==
  ASSUME LinesAccounted, RecordsTraced, UNCHANGED <<input, tallies, rate>>,
         pc' \in {"rank", "sort", "done"} => pc \in {"rank", "sort", "done"},
         pc' \in {"compute", "rank", "sort", "done"} =>
           pc \in {"compute", "rank", "sort", "done"} \/ pos = Len(input),
         pc' \in {"new", "open"} => pc \in {"new", "open"}
  PROVE  LinesAccounted' /\ RecordsTraced'
<1> USE DEF tallies
<1>1. (\A fate : Tally(fate)' = Tally(fate)) /\ Valid' = Valid
  BY DEF Tally, Valid, ValidIn
<1>2. LinesAccounted'
  BY <1>1 DEF LinesAccounted
<1>3. RecordsTraced'
  BY <1>1 DEF RecordsTraced, Enumerates
<1> QED BY <1>2, <1>3

LEMMA NextIInv == IInv /\ [Next]_vars => IInv'
<1> SUFFICES ASSUME IInv, [Next]_vars PROVE IInv'
  OBVIOUS
<1> USE DEF Goto, tallies, sum
<1>1. CASE NewEngine
  <2>1. UNCHANGED <<surface, input, tallies, sum>> /\ pc = "new" /\ pc' \in {"open", "failed"}
    BY <1>1 DEF NewEngine
  <2>2. TypeOK'
    BY <2>1 DEF IInv, TypeOK
  <2> QED
    BY <2>1, <2>2, TalliesKept DEF IInv
<1>2. CASE Open
  <2>1. PICK n \in 0..MaxLines : input' \in [1..n -> Lines]
    BY <1>2 DEF Open
  <2>2. input' \in Seq(Lines)
    BY <2>1, BoundAssumption
  <2>3. UNCHANGED <<surface, tallies, sum>> /\ pc' \in {"scan", "failed"} /\ pc = "open"
    BY <1>2 DEF Open
  <2>4. pos = 0 /\ matched = 0 /\ records = <<>>
    <3>1. pos = 0 /\ matched = 0 /\ Len(records) = 0
      <4>1. pos = 0 /\ matched + filtered + malformed = pos /\ Len(records) = matched
        BY <2>3 DEF IInv, LinesAccounted
      <4>2. matched \in Nat /\ filtered \in Nat /\ malformed \in Nat
        BY DEF IInv, TypeOK
      <4> QED BY <4>1, <4>2
    <3> QED
      BY <3>1, EmptySeq DEF IInv, TypeOK
  <2>5. TypeOK'
    <3>1. pos' \in 0..Len(input')
      BY <2>2, <2>3, <2>4, LenProperties
    <3> QED
      BY <2>2, <2>3, <3>1 DEF IInv, TypeOK
  <2>6. LinesAccounted'
    <3>1. \A fate : Tally(fate) = 0 /\ Tally(fate)' = 0
      <4>1. \A fate : {i \in 1..0 : Fate(input[i]) = fate} = {} /\ {i \in 1..0 : Fate(input'[i]) = fate} = {}
        OBVIOUS
      <4> QED BY <2>3, <2>4, <4>1, FS_EmptySet DEF Tally
    <3> QED BY <2>3, <3>1 DEF IInv, LinesAccounted
  <2>7. RecordsTraced'
    <3>1. DOMAIN records' = {} /\ {i \in Valid' : i <= pos'} = {}
      <4>1. DOMAIN input' \subseteq 1..Len(input') /\ pos' = 0
        BY <2>2, <2>3, <2>4, LenProperties
      <4> QED BY <2>3, <2>4, <4>1 DEF Valid, ValidIn
    <3>2. PICK e : e \in [{} -> {}]
      <4>1. [k \in {} |-> 0] \in [{} -> {}]
        OBVIOUS
      <4> QED BY <4>1
    <3>3. Enumerates(e)'
      BY <3>1 DEF Enumerates
    <3>4. \E f \in [DOMAIN records' -> {i \in Valid' : i <= pos'}] : Enumerates(f)'
      BY <3>1, <3>2, <3>3
    <3>5. pc' \notin {"rank", "sort", "done"}
      BY <2>3
    <3> QED BY <3>4, <3>5 DEF RecordsTraced
  <2> QED
    BY <2>5, <2>6, <2>7 DEF IInv
<1>3. CASE ScanLine
  BY <1>3, ScanLineIInv
<1>4. CASE ScanError
  <2>1. UNCHANGED <<surface, input, tallies, sum>> /\ pc' = "failed"
    BY <1>4 DEF ScanError
  <2>2. TypeOK'
    BY <2>1 DEF IInv, TypeOK
  <2> QED
    BY <2>1, <2>2, TalliesKept DEF IInv
<1>5. CASE EndOfInput
  <2>1. UNCHANGED <<surface, input, tallies, sum>> /\ pc' \in {"compute", "failed"} /\ pos = Len(input)
    BY <1>5 DEF EndOfInput
  <2>2. TypeOK'
    BY <2>1 DEF IInv, TypeOK
  <2> QED
    BY <2>1, <2>2, TalliesKept DEF IInv
<1>6. CASE Compute
  <2>1. /\ UNCHANGED <<surface, input, tallies, ranked>> /\ pc = "compute" /\ pc' = "rank"
        /\ rate' = RateOf(records, matched) /\ pending' = Counts(records)
    BY <1>6 DEF Compute
  <2>2. rate' \in [requests : Nat, duration : Nat \ {0}] /\ pending' \subseteq Row
    BY <2>1, RateType, CountsType DEF IInv, TypeOK
  <2>3. TypeOK'
    BY <2>1, <2>2 DEF IInv, TypeOK
  <2>4. (\A fate : Tally(fate)' = Tally(fate)) /\ Valid' = Valid
    BY <2>1 DEF Tally, Valid, ValidIn
  <2>5. LinesAccounted' /\ RecordsTraced'
    BY <2>1, <2>4 DEF IInv, LinesAccounted, RecordsTraced, Enumerates
  <2> QED
    BY <2>3, <2>5 DEF IInv
<1>7. CASE AppendRow
  <2>1. PICK row \in pending : ranked' = Append(ranked, row) /\ pending' = pending \ {row}
    BY <1>7 DEF AppendRow
  <2>2. UNCHANGED <<surface, input, tallies, rate>> /\ pc = "rank" /\ pc' = "rank"
    BY <1>7 DEF AppendRow
  <2>3. ranked' \in Seq(Row) /\ pending' \subseteq Row
    BY <2>1, AppendProperties DEF IInv, TypeOK
  <2>4. TypeOK'
    BY <2>2, <2>3 DEF IInv, TypeOK
  <2> QED
    BY <2>2, <2>4, TalliesKept DEF IInv
<1>8. CASE RankedAll
  <2>1. UNCHANGED <<surface, input, tallies, sum>> /\ pc = "rank" /\ pc' = "sort"
    BY <1>8 DEF RankedAll
  <2>2. TypeOK'
    BY <2>1 DEF IInv, TypeOK
  <2> QED
    BY <2>1, <2>2, TalliesKept DEF IInv
<1>9. CASE SortRows
  <2>1. PICK p \in StableOrders(ranked) : ranked' = [i \in DOMAIN ranked |-> ranked[p[i]]]
    BY <1>9 DEF SortRows
  <2>2. UNCHANGED <<surface, input, tallies, pending, rate>> /\ pc = "sort" /\ pc' = "done"
    BY <1>9 DEF SortRows
  <2>3. p \in [1..Len(ranked) -> 1..Len(ranked)] /\ ranked \in [1..Len(ranked) -> Row]
        /\ Len(ranked) \in Nat
    BY <2>1, LenProperties DEF StableOrders, IInv, TypeOK
  <2>4. ranked' \in [1..Len(ranked) -> Row]
    BY <2>1, <2>3
  <2>5. ranked' \in Seq(Row)
    BY <2>3, <2>4
  <2>6. TypeOK'
    BY <2>2, <2>5 DEF IInv, TypeOK
  <2> QED
    BY <2>2, <2>6, TalliesKept DEF IInv
<1>10. CASE UNCHANGED vars
  <2>1. UNCHANGED <<surface, input, tallies, sum, pc>>
    BY <1>10 DEF vars
  <2>2. TypeOK'
    BY <2>1 DEF IInv, TypeOK
  <2> QED
    BY <2>1, <2>2, TalliesKept DEF IInv
<1> QED
  BY <1>1, <1>2, <1>3, <1>4, <1>5, <1>6, <1>7, <1>8, <1>9, <1>10 DEF Next

LEMMA Invariance == Spec => []IInv
  BY InitIInv, NextIInv, PTL DEF Spec

\* The invariant gives the rate's property: a rate above zero comes from the first
\* and the last record, both dated, both lines of the log.
LEMMA RateFromRecords == IInv => RateIsFinite
<1> SUFFICES ASSUME IInv PROVE RateIsFinite
  OBVIOUS
<1>1. rate.duration > 0
  BY DEF IInv, TypeOK
<1>2. ASSUME pc = "done", rate.requests > 0
      PROVE  /\ rate.requests = matched
             /\ \E i, j \in Valid : /\ input[j].stamp = input[i].stamp + rate.duration
                                    /\ input[i].stamp # ZeroTime
  <2>1. rate = RateOf(records, matched) /\ records \in Seq(Lines) /\ Len(records) \in Nat
    BY <1>2, LenProperties DEF IInv, RecordsTraced, TypeOK
  <2> DEFINE first == records[1].stamp
             last == records[Len(records)].stamp
  <2>2. Len(records) >= 2 /\ first # ZeroTime /\ last > first
        /\ rate = [requests |-> matched, duration |-> last - first]
    BY <2>1, <1>2 DEF RateOf, NoRate, Lasting
  <2>3. 1 \in DOMAIN records /\ Len(records) \in DOMAIN records
    BY <2>1, <2>2, LenProperties
  <2>4. first \in Nat /\ last \in Nat
    <3>1. records[1] \in Line /\ records[Len(records)] \in Line
      BY <2>1, <2>3, ElementOfSeq, LenProperties, LineAssumption
    <3> QED
      BY <3>1 DEF Line
  <2>0. \A k \in DOMAIN records : \E i \in Valid : records[k] = input[i]
    <3>1. PICK e \in [DOMAIN records -> {i \in Valid : i <= pos}] : Enumerates(e)
      BY DEF IInv, RecordsTraced
    <3> QED BY <3>1 DEF Enumerates
  <2>5. PICK i \in Valid : records[1] = input[i]
    BY <2>0, <2>3
  <2>6. PICK j \in Valid : records[Len(records)] = input[j]
    BY <2>0, <2>3
  <2>7. input[i].stamp = first /\ input[j].stamp = last
    BY <2>5, <2>6
  <2> HIDE DEF first, last
  <2>8. input[j].stamp = input[i].stamp + rate.duration /\ rate.requests = matched
    BY <2>2, <2>4, <2>7
  <2> QED
    BY <2>2, <2>7, <2>8
<1> QED
  BY <1>1, <1>2 DEF RateIsFinite

\* Every reachable state of an analysis, of any log, is type correct.
THEOREM AnalysisTypes == Spec => []TypeOK
<1>1. IInv => TypeOK
  BY DEF IInv
<1> QED
  BY <1>1, Invariance, PTL

\* engine.go Analyze and summary.go Compute: on any log, at every point, every line
\* read is in exactly one tally, the records are valid lines of the log, one for each
\* matched line, and the rate is the one computed from them.
THEOREM LogAccountedFor == Spec => []LogAccounted
<1>1. IInv => LogAccounted
  BY DEF IInv, LogAccounted
<1> QED
  BY <1>1, Invariance, PTL

\* summary.go Compute: for any log the rate is finite, and above zero only between
\* two dated lines of the log.
THEOREM FiniteRate == Spec => []RateIsFinite
  BY RateFromRecords, Invariance, PTL

-----------------------------------------------------------------------------
\* The ranking: which rows, and in which order.
RowSet(rows) == {rows[i] : i \in DOMAIN rows}

IsInjectiveSeq(rows) == \A i, j \in DOMAIN rows : rows[i] = rows[j] => i = j

Ordered(rows) == \A i, j \in DOMAIN rows : i < j => Less(rows[i], rows[j])

\* Rows that were visited and rows that were not are together the rows of the counts
\* map, no row twice; only the sort puts them in order.
RankInv ==
  /\ pc \in {"new", "open", "scan", "compute"} => ranked = <<>>
  /\ pc \in {"rank", "sort", "done"} =>
       /\ RowSet(ranked) \cup pending = Counts(records)
       /\ RowSet(ranked) \cap pending = {}
       /\ IsInjectiveSeq(ranked)
  /\ pc \in {"sort", "done"} => pending = {}
  /\ pc = "done" => Ordered(ranked)

\* Less is a strict order of rows, and it is total on rows with distinct keys.
LEMMA LessOrders ==
  /\ \A a \in Row : ~Less(a, a)
  /\ \A a, b \in Row : Less(a, b) => ~Less(b, a)
  /\ \A a, b, c \in Row : Less(a, b) /\ Less(b, c) => Less(a, c)
  /\ \A a, b \in Row : a.path # b.path \/ a.method # b.method => Less(a, b) \/ Less(b, a)
<1>1. \A a \in Row : a.path \in Nat /\ a.method \in Nat /\ a.count \in Nat
  <2>1. DOMAIN Paths \subseteq Nat
    BY PathAssumption, LenProperties
  <2> QED BY <2>1, MethodAssumption DEF Row
<1> HIDE DEF Row
<1>2. \A a \in Row : ~Less(a, a)
  BY <1>1 DEF Less
<1>3. \A a, b \in Row : Less(a, b) => ~Less(b, a)
  BY <1>1 DEF Less
<1>4. \A a, b, c \in Row : Less(a, b) /\ Less(b, c) => Less(a, c)
  BY <1>1 DEF Less
<1>5. \A a, b \in Row : a.path # b.path \/ a.method # b.method => Less(a, b) \/ Less(b, a)
  BY <1>1 DEF Less
<1> QED BY <1>2, <1>3, <1>4, <1>5

\* Two different rows of the counts map have different keys, so the sort never meets
\* a tie.
LEMMA CountsComparable ==
  ASSUME NEW recs \in Seq(Lines), NEW a \in Counts(recs), NEW b \in Counts(recs), a # b
  PROVE  Less(a, b) \/ Less(b, a)
<1>1. PICK i \in DOMAIN recs :
        a = [path |-> recs[i].path, method |-> recs[i].method,
             count |-> CountOf(recs, recs[i].path, recs[i].method)]
  BY DEF Counts
<1>2. PICK j \in DOMAIN recs :
        b = [path |-> recs[j].path, method |-> recs[j].method,
             count |-> CountOf(recs, recs[j].path, recs[j].method)]
  BY DEF Counts
<1>3. a.path # b.path \/ a.method # b.method
  BY <1>1, <1>2
<1>4. a \in Row /\ b \in Row
  BY CountsType
<1> QED BY <1>3, <1>4, LessOrders

\* A stable order is a permutation of the rows, and what it makes of rows without ties
\* is strictly ordered.
LEMMA StableSort ==
  ASSUME NEW rows \in Seq(Row), IsInjectiveSeq(rows),
         \A a, b \in RowSet(rows) : a # b => Less(a, b) \/ Less(b, a),
         NEW p \in StableOrders(rows), NEW sorted, sorted = [i \in DOMAIN rows |-> rows[p[i]]]
  PROVE  RowSet(sorted) = RowSet(rows) /\ IsInjectiveSeq(sorted) /\ Ordered(sorted)
<1> DEFINE D == DOMAIN rows
<1>1. D = 1..Len(rows) /\ Len(rows) \in Nat /\ D \subseteq Nat /\ IsFiniteSet(D)
  <2>1. D = 1..Len(rows) /\ Len(rows) \in Nat
    BY LenProperties
  <2>2. IsFiniteSet(1..Len(rows))
    BY <2>1, FS_Interval
  <2> QED BY <2>1, <2>2
<1>2. /\ p \in [D -> D]
      /\ \A i, j \in D : i < j =>
           \/ Less(rows[p[i]], rows[p[j]])
           \/ p[i] < p[j] /\ ~Less(rows[p[j]], rows[p[i]])
  BY DEF StableOrders
<1>3. \A i \in D : rows[i] \in Row /\ p[i] \in D
  BY <1>1, <1>2, ElementOfSeq
<1>4. DOMAIN sorted = D /\ \A i \in D : sorted[i] = rows[p[i]]
  OBVIOUS
<1> HIDE DEF D
<1>5. \A i, j \in D : i < j => p[i] # p[j]
  <2> SUFFICES ASSUME NEW i \in D, NEW j \in D, i < j, p[i] = p[j] PROVE FALSE
    OBVIOUS
  <2>1. ~Less(rows[p[i]], rows[p[i]])
    BY <1>3, LessOrders
  <2>2. ~(p[i] < p[i])
    BY <1>1, <1>3
  <2> QED BY <1>2, <2>1, <2>2
<1>6. \A i, j \in D : i # j => p[i] # p[j]
  BY <1>1, <1>5
<1>7. p \in Injection(D, D)
  BY <1>2, <1>6 DEF Injection, IsInjective
<1>8. p \in Surjection(D, D)
  BY <1>1, <1>7, FS_Injection
<1>9. RowSet(sorted) = RowSet(rows)
  <2>1. \A t \in D : \E i \in D : p[i] = t
    BY <1>8 DEF Surjection
  <2>2. RowSet(sorted) = {rows[p[i]] : i \in D} /\ RowSet(rows) = {rows[i] : i \in D}
    BY <1>4 DEF RowSet, D
  <2>3. \A t \in D : rows[t] \in {rows[p[i]] : i \in D}
    BY <2>1
  <2> QED BY <1>3, <2>2, <2>3
<1>10. IsInjectiveSeq(sorted)
  <2>1. \A s, t \in D : rows[s] = rows[t] => s = t
    BY DEF IsInjectiveSeq, D
  <2>2. \A i, j \in D : sorted[i] = sorted[j] => i = j
    BY <1>3, <1>4, <1>6, <2>1
  <2> QED BY <1>4, <2>2 DEF IsInjectiveSeq
<1>11. Ordered(sorted)
  <2> SUFFICES ASSUME NEW i \in D, NEW j \in D, i < j
               PROVE  Less(rows[p[i]], rows[p[j]])
    BY <1>4 DEF Ordered
  <2>1. rows[p[i]] # rows[p[j]]
    BY <1>3, <1>5 DEF IsInjectiveSeq, D
  <2>2. rows[p[i]] \in RowSet(rows) /\ rows[p[j]] \in RowSet(rows)
    BY <1>3 DEF RowSet, D
  <2>3. Less(rows[p[i]], rows[p[j]]) \/ Less(rows[p[j]], rows[p[i]])
    BY <2>1, <2>2
  <2> QED BY <1>2, <2>3
<1> QED BY <1>9, <1>10, <1>11

LEMMA InitRankInv == Init => RankInv
  BY DEF Init, RankInv

\* A step that leaves records and ranking alone keeps the invariant where it held.
LEMMA RankingKept ==
  ASSUME RankInv, UNCHANGED <<records, pending, ranked>>,
         pc' \in {"new", "open", "scan", "compute"} => pc \in {"new", "open", "scan", "compute"},
         pc' \in {"rank", "sort", "done"} => pc \in {"rank", "sort", "done"},
         pc' \in {"sort", "done"} => pc \in {"sort", "done"} \/ pending = {},
         pc' = "done" => pc = "done"
  PROVE  RankInv'
<1>1. /\ RowSet(ranked)' = RowSet(ranked) /\ Counts(records)' = Counts(records)
      /\ IsInjectiveSeq(ranked)' = IsInjectiveSeq(ranked) /\ Ordered(ranked)' = Ordered(ranked)
  BY DEF RowSet, IsInjectiveSeq, Ordered
<1>2. ranked' = ranked /\ pending' = pending
  OBVIOUS
<1> QED BY <1>1, <1>2 DEF RankInv

LEMMA NextRankInv == IInv /\ RankInv /\ [Next]_vars => RankInv'
<1> SUFFICES ASSUME IInv, RankInv, [Next]_vars PROVE RankInv'
  OBVIOUS
<1> USE DEF Goto, tallies, sum
<1>1. CASE NewEngine \/ Open \/ ScanError \/ EndOfInput
  <2>1. /\ UNCHANGED <<records, pending, ranked>> /\ pc \in {"new", "open", "scan"}
        /\ pc' \in {"open", "scan", "compute", "failed"}
    BY <1>1 DEF NewEngine, Open, ScanError, EndOfInput
  <2> QED BY <2>1, RankingKept
<1>2. CASE ScanLine
  <2>1. ranked' = ranked /\ pc = "scan" /\ pc' = "scan"
    BY <1>2 DEF ScanLine
  <2> QED BY <2>1 DEF RankInv
<1>3. CASE Compute
  <2>1. ranked' = ranked /\ records' = records /\ pc = "compute" /\ pc' = "rank" /\ pending' = Counts(records)
    BY <1>3 DEF Compute
  <2>2. ranked = <<>>
    BY <2>1 DEF RankInv
  <2>3. RowSet(ranked)' = {} /\ IsInjectiveSeq(ranked)'
    BY <2>1, <2>2 DEF RowSet, IsInjectiveSeq
  <2>4. Counts(records)' = Counts(records)
    BY <2>1
  <2> QED BY <2>1, <2>3, <2>4 DEF RankInv
<1>4. CASE AppendRow
  <2>1. PICK row \in pending : ranked' = Append(ranked, row) /\ pending' = pending \ {row}
    BY <1>4 DEF AppendRow
  <2>2. records' = records /\ pc = "rank" /\ pc' = "rank"
    BY <1>4 DEF AppendRow
  <2> DEFINE n == Len(ranked)
  <2>3. n \in Nat /\ DOMAIN ranked = 1..n
    BY LenProperties DEF IInv, TypeOK
  <2>4. /\ DOMAIN ranked' = 1..(n + 1)
        /\ \A i \in 1..n : ranked'[i] = ranked[i]
        /\ ranked'[n + 1] = row
    BY <2>1, <2>3, AppendProperties, LenProperties DEF IInv, TypeOK
  <2> HIDE DEF n
  <2>5. 1..(n + 1) = 1..n \cup {n + 1} /\ n + 1 \notin 1..n
    BY <2>3
  <2>6. RowSet(ranked)' = RowSet(ranked) \cup {row}
    BY <2>3, <2>4, <2>5 DEF RowSet
  <2>7. /\ RowSet(ranked) \cup pending = Counts(records) /\ RowSet(ranked) \cap pending = {}
        /\ IsInjectiveSeq(ranked)
    BY <2>2 DEF RankInv
  <2>8. row \notin RowSet(ranked)
    BY <2>7
  <2>9. IsInjectiveSeq(ranked)'
    <3>1. \A i \in 1..n : ranked[i] # row
      BY <2>3, <2>8 DEF RowSet
    <3> QED BY <2>3, <2>4, <2>5, <2>7, <3>1 DEF IsInjectiveSeq
  <2>10. Counts(records)' = Counts(records)
    BY <2>2
  <2> QED BY <2>1, <2>2, <2>6, <2>7, <2>8, <2>9, <2>10 DEF RankInv
<1>5. CASE RankedAll
  <2>1. UNCHANGED <<records, pending, ranked>> /\ pc = "rank" /\ pc' = "sort" /\ pending = {}
    BY <1>5 DEF RankedAll
  <2> QED BY <2>1, RankingKept
<1>6. CASE SortRows
  <2>1. PICK p \in StableOrders(ranked) : ranked' = [i \in DOMAIN ranked |-> ranked[p[i]]]
    BY <1>6 DEF SortRows
  <2>2. UNCHANGED <<records, pending>> /\ pc = "sort" /\ pc' = "done"
    BY <1>6 DEF SortRows
  <2>3. pending = {} /\ RowSet(ranked) = Counts(records) /\ IsInjectiveSeq(ranked)
    BY <2>2 DEF RankInv
  <2>4. ranked \in Seq(Row) /\ records \in Seq(Lines)
    BY DEF IInv, TypeOK
  <2>5. \A a, b \in RowSet(ranked) : a # b => Less(a, b) \/ Less(b, a)
    BY <2>3, <2>4, CountsComparable
  <2>6. RowSet(ranked') = RowSet(ranked) /\ IsInjectiveSeq(ranked') /\ Ordered(ranked')
    BY <2>1, <2>3, <2>4, <2>5, StableSort
  <2>7. /\ RowSet(ranked)' = RowSet(ranked') /\ IsInjectiveSeq(ranked)' = IsInjectiveSeq(ranked')
        /\ Ordered(ranked)' = Ordered(ranked') /\ Counts(records)' = Counts(records)
    BY <2>2 DEF RowSet, IsInjectiveSeq, Ordered
  <2> QED BY <2>2, <2>3, <2>6, <2>7 DEF RankInv
<1>7. CASE UNCHANGED vars
  <2>1. UNCHANGED <<records, pending, ranked>> /\ pc' = pc
    BY <1>7 DEF vars
  <2> QED BY <2>1, RankingKept
<1> QED
  BY <1>1, <1>2, <1>3, <1>4, <1>5, <1>6, <1>7 DEF Next

LEMMA RankInvariance == Spec => [](IInv /\ RankInv)
  BY InitIInv, NextIInv, InitRankInv, NextRankInv, PTL DEF Spec

-----------------------------------------------------------------------------
\* s runs through a set, from place 1 to place n, in the strict order of a relation.
RunsThrough(s, n, set, before) ==
  /\ DOMAIN s = 1..n /\ set = {s[i] : i \in 1..n}
  /\ \A i, j \in 1..n : i < j <=> <<s[i], s[j]>> \in before

\* As many members of the set are before an element as there are places before its place.
LEMMA Position ==
  ASSUME NEW n \in Nat, NEW s, NEW set, NEW before, RunsThrough(s, n, set, before)
  PROVE  /\ \A i \in 1..n : Cardinality(Below(s[i], set, before)) = i - 1
         /\ \A j, k \in 1..n : s[j] = s[k] => j = k
<1>1. /\ DOMAIN s = 1..n /\ set = {s[j] : j \in 1..n}
      /\ \A i, j \in 1..n : i < j <=> <<s[i], s[j]>> \in before
  BY DEF RunsThrough
<1>2. \A j, k \in 1..n : s[j] = s[k] => j = k
  <2> SUFFICES ASSUME NEW j \in 1..n, NEW k \in 1..n, s[j] = s[k], j < k PROVE FALSE
    OBVIOUS
  <2>1. <<s[j], s[j]>> \in before /\ ~(j < j)
    BY <1>1
  <2> QED BY <1>1, <2>1
<1>3. ASSUME NEW i \in 1..n PROVE Cardinality(Below(s[i], set, before)) = i - 1
  <2> DEFINE lower == Below(s[i], set, before)
             f == [j \in 1..(i - 1) |-> s[j]]
  <2>1. i \in Nat /\ i >= 1 /\ i - 1 \in Nat
        /\ \A j \in Nat : j \in 1..(i - 1) <=> j \in 1..n /\ j < i
    OBVIOUS
  <2>2. \A j \in 1..n : s[j] \in set /\ (s[j] \in lower <=> j < i)
    BY <1>1 DEF Below
  <2>3. \A x \in lower : \E j \in 1..n : s[j] = x
    BY <1>1 DEF Below
  <2> HIDE DEF lower
  <2>4. f \in [1..(i - 1) -> lower]
    BY <2>1, <2>2
  <2>5. \A j, k \in 1..(i - 1) : f[j] = f[k] => j = k
    BY <1>2, <2>1
  <2>6. \A x \in lower : \E j \in 1..(i - 1) : f[j] = x
    <3> SUFFICES ASSUME NEW x \in lower PROVE \E j \in 1..(i - 1) : f[j] = x
      OBVIOUS
    <3>1. PICK j \in 1..n : x = s[j]
      BY <2>3
    <3>2. j \in 1..(i - 1)
      BY <2>1, <2>2, <3>1
    <3> QED BY <3>1, <3>2
  <2>7. IsFiniteSet(1..(i - 1)) /\ Cardinality(1..(i - 1)) = i - 1
    BY <2>1, FS_Interval
  <2> HIDE DEF f
  <2>8. f \in Bijection(1..(i - 1), lower)
    BY <2>4, <2>5, <2>6 DEF Bijection, Injection, IsInjective, Surjection
  <2>9. Cardinality(lower) = Cardinality(1..(i - 1))
    BY <2>7, <2>8, FS_Bijection DEF ExistsBijection
  <2> QED BY <2>7, <2>9 DEF lower
<1> QED BY <1>2, <1>3

\* Such a sequence is determined by the set and the relation.
LEMMA RunIsInOrder ==
  ASSUME NEW n \in Nat, NEW set, NEW s \in [1..n -> set], NEW before,
         RunsThrough(s, n, set, before)
  PROVE  Cardinality(set) = n /\ s = InOrder(set, before)
<1>1. set = {s[i] : i \in 1..n}
  BY DEF RunsThrough
<1>2. /\ \A i \in 1..n : Cardinality(Below(s[i], set, before)) = i - 1
      /\ \A j, k \in 1..n : s[j] = s[k] => j = k
  BY Position
<1>3. Cardinality(set) = n
  <2>1. s \in Bijection(1..n, set)
    BY <1>1, <1>2 DEF Bijection, Injection, IsInjective, Surjection
  <2>2. IsFiniteSet(1..n) /\ Cardinality(1..n) = n
    <3>1. 1 \in Int /\ n \in Int /\ (1 > n => n = 0) /\ n - 1 + 1 = n
      OBVIOUS
    <3> QED BY <3>1, FS_Interval
  <2> QED BY <2>1, <2>2, FS_Bijection DEF ExistsBijection
<1>4. ASSUME NEW k \in 1..n
      PROVE  (CHOOSE x \in set : Cardinality(Below(x, set, before)) = k - 1) = s[k]
  <2>1. s[k] \in set /\ Cardinality(Below(s[k], set, before)) = k - 1
    BY <1>1, <1>2
  <2>2. ASSUME NEW x \in set, Cardinality(Below(x, set, before)) = k - 1
        PROVE  x = s[k]
    <3>1. PICK i \in 1..n : x = s[i]
      BY <1>1
    <3>2. i - 1 = k - 1
      BY <1>2, <2>2, <3>1
    <3> QED BY <3>1, <3>2
  <2> QED BY <2>1, <2>2
<1>5. InOrder(set, before) = [k \in 1..n |-> s[k]]
  BY <1>3, <1>4 DEF InOrder
<1> QED BY <1>3, <1>5

\* When the whole log was read, the records run through its valid lines in their order.
LineOrder == {ij \in Valid \X Valid : ij[1] < ij[2]}

LEMMA RecordsRunThroughLog ==
  ASSUME IInv, pos = Len(input)
  PROVE  \E e \in [1..Len(records) -> Valid] :
           /\ RunsThrough(e, Len(records), Valid, LineOrder)
           /\ \A k \in 1..Len(records) : records[k] = input[e[k]]
<1>1. DOMAIN records = 1..Len(records) /\ Len(records) \in Nat /\ input \in Seq(Lines)
      /\ DOMAIN input = 1..Len(input) /\ Len(input) \in Nat
  BY LenProperties DEF IInv, TypeOK
<1>2. \A i \in Valid : i <= pos /\ i \in Nat
  BY <1>1 DEF Valid, ValidIn
<1>3. {i \in Valid : i <= pos} = Valid
  BY <1>2
<1>4. PICK e \in [1..Len(records) -> Valid] : Enumerates(e)
  BY <1>1, <1>3 DEF IInv, RecordsTraced
<1> DEFINE n == Len(records)
<1> HIDE DEF n
<1>5. /\ \A k \in 1..n : records[k] = input[e[k]] /\ e[k] \in Valid
      /\ \A k, l \in 1..n : k < l => e[k] < e[l]
      /\ \A i \in Valid : \E k \in 1..n : e[k] = i
  BY <1>1, <1>2, <1>4 DEF Enumerates, n
<1>6. ASSUME NEW k \in 1..n, NEW l \in 1..n, e[k] < e[l]
      PROVE  k < l
  <2>1. e[k] \in Nat /\ e[l] \in Nat /\ k \in Nat /\ l \in Nat
    BY <1>1, <1>2, <1>5
  <2>2. CASE l < k
    <3>1. e[l] < e[k]
      BY <1>5, <2>2
    <3> QED BY <1>6, <2>1, <3>1
  <2>3. CASE l = k
    BY <1>6, <2>1, <2>3
  <2> QED BY <2>1, <2>2, <2>3
<1>7. \A k, l \in 1..n : k < l <=> <<e[k], e[l]>> \in LineOrder
  BY <1>5, <1>6 DEF LineOrder
<1>8. Valid = {e[k] : k \in 1..n} /\ DOMAIN e = 1..n
  BY <1>4, <1>5 DEF n
<1> QED BY <1>4, <1>5, <1>7, <1>8 DEF RunsThrough, n

LEMMA RecordsOfTheLog ==
  ASSUME IInv, pos = Len(input)
  PROVE  LET found == InOrder(Valid, LineOrder)
         IN  records = [k \in DOMAIN found |-> input[found[k]]]
<1> DEFINE found == InOrder(Valid, LineOrder)
<1>1. Len(records) \in Nat /\ records \in [1..Len(records) -> Lines]
  BY LenProperties DEF IInv, TypeOK
<1>2. PICK e \in [1..Len(records) -> Valid] :
        /\ RunsThrough(e, Len(records), Valid, LineOrder)
        /\ \A k \in 1..Len(records) : records[k] = input[e[k]]
  BY RecordsRunThroughLog
<1> HIDE DEF found
<1>3. e = found
  <2>1. e = InOrder(Valid, LineOrder)
    BY <1>1, <1>2, RunIsInOrder
  <2> QED BY <2>1 DEF found
<1>4. records = [k \in DOMAIN found |-> input[found[k]]]
  BY <1>1, <1>2, <1>3
<1> QED BY <1>4 DEF found

\* A key is counted as often as it is on a valid line.
LEMMA CountsOfTheLog ==
  ASSUME IInv, pos = Len(input), NEW p, NEW m
  PROVE  CountOf(records, p, m) =
           Cardinality({j \in Valid : input[j].path = p /\ input[j].method = m})
<1> DEFINE n == Len(records)
           K == {k \in 1..n : records[k].path = p /\ records[k].method = m}
           J == {j \in Valid : input[j].path = p /\ input[j].method = m}
<1>1. DOMAIN records = 1..n /\ n \in Nat
  BY LenProperties DEF IInv, TypeOK
<1>2. PICK e \in [1..n -> Valid] : /\ RunsThrough(e, n, Valid, LineOrder)
                                   /\ \A k \in 1..n : records[k] = input[e[k]]
  BY RecordsRunThroughLog
<1>3. \A k, l \in 1..n : e[k] = e[l] => k = l
  BY <1>1, <1>2, Position
<1>4. \A j \in Valid : \E k \in 1..n : e[k] = j
  BY <1>2 DEF RunsThrough
<1>5. IsFiniteSet(K)
  <2>1. IsFiniteSet(1..n) /\ K \subseteq 1..n
    BY <1>1, FS_Interval
  <2> HIDE DEF n, K
  <2> QED BY <2>1, FS_Subset
<1> DEFINE f == [k \in K |-> e[k]]
<1> HIDE DEF n
<1>6. /\ f \in [K -> J]
      /\ \A k, l \in K : f[k] = f[l] => k = l
      /\ \A j \in J : \E k \in K : f[k] = j
  BY <1>2, <1>3, <1>4
<1> HIDE DEF f, K, J
<1>7. f \in Bijection(K, J)
  BY <1>6 DEF Bijection, Injection, IsInjective, Surjection
<1>8. Cardinality(J) = Cardinality(K)
  BY <1>5, <1>7, FS_Bijection DEF ExistsBijection
<1> QED BY <1>1, <1>8 DEF K, J, CountOf

\* So the rows of the counts map are the rows of the log.
LEMMA RowsOfTheLog ==
  ASSUME IInv, pos = Len(input)
  PROVE  Counts(records) = RowsOf(input)
<1> DEFINE N(p, m) == Cardinality({j \in Valid : input[j].path = p /\ input[j].method = m})
           n == Len(records)
<1>1. \A p, m : CountOf(records, p, m) = N(p, m)
  BY CountsOfTheLog
<1>2. DOMAIN records = 1..n
  BY LenProperties DEF IInv, TypeOK
<1>3. PICK e \in [1..n -> Valid] : /\ RunsThrough(e, n, Valid, LineOrder)
                                   /\ \A k \in 1..n : records[k] = input[e[k]]
  BY RecordsRunThroughLog
<1>4. Valid = {e[k] : k \in 1..n}
  BY <1>3 DEF RunsThrough
<1> HIDE DEF N, n
<1> DEFINE RowFor(line) == [path |-> line.path, method |-> line.method,
                            count |-> N(line.path, line.method)]
<1>5. Counts(records) = {RowFor(records[k]) : k \in 1..n}
  BY <1>1, <1>2 DEF Counts
<1>6. RowsOf(input) = {RowFor(input[i]) : i \in Valid}
  BY DEF RowsOf, N, Valid
<1> HIDE DEF RowFor
<1>7. \A k \in 1..n : e[k] \in Valid /\ RowFor(records[k]) = RowFor(input[e[k]])
  BY <1>3
<1>8. Counts(records) \subseteq RowsOf(input)
  BY <1>5, <1>6, <1>7
<1>9. \A i \in Valid : RowFor(input[i]) \in Counts(records)
  <2> SUFFICES ASSUME NEW i \in Valid PROVE RowFor(input[i]) \in Counts(records)
    OBVIOUS
  <2>1. PICK k \in 1..n : e[k] = i
    BY <1>4
  <2> QED BY <1>5, <1>7, <2>1
<1>10. RowsOf(input) \subseteq Counts(records)
  BY <1>6, <1>9
<1> QED BY <1>8, <1>10

\* At the end the ranking is a ranking of the log.
LEMMA RankedCanonically == IInv /\ RankInv => RankingIsCanonical
<1> SUFFICES ASSUME IInv, RankInv, pc = "done" PROVE Ranks(ranked, RowsOf(input))
  BY DEF RankingIsCanonical
<1>1. pos = Len(input)
  BY DEF IInv, LinesAccounted
<1>2. RowSet(ranked) = RowsOf(input)
  BY <1>1, RowsOfTheLog DEF RankInv
<1>3. \A a, b : Less(a, b) => Outranks(a, b)
  BY DEF Less, Outranks
<1>4. \A i, j \in DOMAIN ranked : i < j => Outranks(ranked[i], ranked[j])
  BY <1>3 DEF RankInv, Ordered
<1> QED BY <1>2, <1>4 DEF Ranks, RowSet

LEMMA RankedInOrder ==
  ASSUME IInv, RankInv, pc = "done"
  PROVE  LET rows == RowsOf(input)
         IN  ranked = InOrder(rows, {ab \in rows \X rows : Outranks(ab[1], ab[2])})
<1> DEFINE rows == RowsOf(input)
           order == {ab \in rows \X rows : Outranks(ab[1], ab[2])}
           n == Len(ranked)
<1>1. n \in Nat /\ DOMAIN ranked = 1..n /\ ranked \in [1..n -> Row]
  BY LenProperties DEF IInv, TypeOK
<1>2. Ranks(ranked, rows)
  BY RankedCanonically DEF RankingIsCanonical
<1> HIDE DEF n, rows
<1>3. /\ rows = {ranked[i] : i \in 1..n}
      /\ \A i, j \in 1..n : i < j => Outranks(ranked[i], ranked[j])
  BY <1>1, <1>2 DEF Ranks
<1>4. ASSUME NEW i \in 1..n, NEW j \in 1..n, Outranks(ranked[i], ranked[j])
      PROVE  i < j
  <2>1. ranked[i] \in Row /\ ranked[j] \in Row /\ Less(ranked[i], ranked[j])
    BY <1>1, <1>4 DEF Less, Outranks
  <2>2. ~Less(ranked[j], ranked[i]) /\ ~Less(ranked[i], ranked[i])
    BY <2>1, LessOrders
  <2>3. CASE j < i
    BY <1>3, <2>2, <2>3 DEF Less, Outranks
  <2>4. CASE j = i
    BY <2>1, <2>2, <2>4
  <2> QED BY <1>1, <2>3, <2>4
<1>5. \A i, j \in 1..n : i < j <=> <<ranked[i], ranked[j]>> \in order
  BY <1>3, <1>4
<1> HIDE DEF order
<1>6. RunsThrough(ranked, n, rows, order)
  BY <1>1, <1>3, <1>5 DEF RunsThrough
<1>7. ranked = InOrder(rows, order)
  <2>1. ranked \in [1..n -> rows]
    BY <1>1, <1>3
  <2> QED BY <1>1, <1>6, <2>1, RunIsInOrder
<1> QED BY <1>7 DEF order, rows

\* The lines of a log that meet a fate.
With(log, fate) == Cardinality({i \in DOMAIN log : Fate(log[i]) = fate})

LEMMA SummaryOfTheLog == IInv /\ RankInv => SummaryIsDeterministic
<1> SUFFICES ASSUME IInv, RankInv, pc = "done" PROVE Summary = SummaryOf(input)
  BY DEF SummaryIsDeterministic
<1> DEFINE found == InOrder(Valid, LineOrder)
           rows == RowsOf(input)
           order == {ab \in rows \X rows : Outranks(ab[1], ab[2])}
<1>1. pos = Len(input) /\ DOMAIN input = 1..Len(input)
  BY LenProperties DEF IInv, LinesAccounted, TypeOK
<1>2. matched = With(input, "matched") /\ filtered = With(input, "filtered") /\ malformed = With(input, "malformed")
  BY <1>1 DEF IInv, LinesAccounted, Tally, With
<1>3. records = [k \in DOMAIN found |-> input[found[k]]]
  BY <1>1, RecordsOfTheLog
<1>4. rate = RateOf([k \in DOMAIN found |-> input[found[k]]], With(input, "matched"))
  <2>1. rate = RateOf(records, matched)
    BY DEF IInv, RecordsTraced
  <2> HIDE DEF found
  <2> QED BY <1>2, <1>3, <2>1
<1>5. ranked = InOrder(rows, order)
  BY RankedInOrder
<1>6. SummaryOf(input) =
        [matched |-> With(input, "matched"), filtered |-> With(input, "filtered"),
         malformed |-> With(input, "malformed"), ranked |-> InOrder(rows, order),
         rate |-> RateOf([k \in DOMAIN found |-> input[found[k]]], With(input, "matched"))]
  BY DEF SummaryOf, Valid, LineOrder, With
<1> HIDE DEF found, rows, order
<1> QED BY <1>2, <1>4, <1>5, <1>6 DEF Summary

\* A permutation of a finite set takes a part of it to a part of the same size.
LEMMA SamePart ==
  ASSUME NEW D, IsFiniteSet(D), NEW p \in Bijection(D, D), NEW A, A \subseteq D, NEW B, B \subseteq D,
         \A i \in D : i \in A <=> p[i] \in B
  PROVE  Cardinality(A) = Cardinality(B)
<1> DEFINE f == [i \in A |-> p[i]]
<1>1. /\ p \in [D -> D]
      /\ \A i, j \in D : p[i] = p[j] => i = j
      /\ \A j \in D : \E i \in D : p[i] = j
  BY DEF Bijection, Injection, IsInjective, Surjection
<1>2. f \in [A -> B] /\ \A i, j \in A : f[i] = f[j] => i = j
  BY <1>1
<1>3. \A j \in B : \E i \in A : f[i] = j
  <2> SUFFICES ASSUME NEW j \in B PROVE \E i \in A : f[i] = j
    OBVIOUS
  <2>1. PICK i \in D : p[i] = j
    BY <1>1
  <2> QED BY <2>1
<1> HIDE DEF f
<1>4. f \in Bijection(A, B)
  BY <1>2, <1>3 DEF Bijection, Injection, IsInjective, Surjection
<1>5. IsFiniteSet(A)
  BY FS_Subset
<1> QED BY <1>4, <1>5, FS_Bijection DEF ExistsBijection

\* The rows of a log are those of its lines in any other order.
LEMMA RowsIgnoreOrder ==
  ASSUME NEW log, NEW D, D = DOMAIN log, IsFiniteSet(D), NEW p \in Bijection(D, D),
         NEW shuffled, shuffled = [i \in D |-> log[p[i]]]
  PROVE  /\ RowsOf(shuffled) = RowsOf(log)
         /\ \A fate : With(shuffled, fate) = With(log, fate)
<1> DEFINE In(l, path, method) == {j \in ValidIn(l) : l[j].path = path /\ l[j].method = method}
           RowFor(line) == [path |-> line.path, method |-> line.method,
                            count |-> Cardinality(In(log, line.path, line.method))]
<1>1. /\ DOMAIN shuffled = D /\ \A i \in D : shuffled[i] = log[p[i]] /\ p[i] \in D
      /\ \A j \in D : \E i \in D : p[i] = j
  BY DEF Bijection, Injection, Surjection
<1>2. \A i \in D : i \in ValidIn(shuffled) <=> p[i] \in ValidIn(log)
  BY <1>1 DEF ValidIn
<1>3. ValidIn(shuffled) \subseteq D /\ ValidIn(log) \subseteq D
  BY <1>1 DEF ValidIn
<1>4. ASSUME NEW path, NEW method
      PROVE  Cardinality(In(shuffled, path, method)) = Cardinality(In(log, path, method))
  <2> DEFINE A == In(shuffled, path, method)
             B == In(log, path, method)
  <2>1. A \subseteq D /\ B \subseteq D
    BY <1>3
  <2>2. \A i \in D : i \in A <=> p[i] \in B
    BY <1>1, <1>2
  <2> HIDE DEF A, B
  <2>3. Cardinality(A) = Cardinality(B)
    BY <2>1, <2>2, SamePart
  <2> QED BY <2>3 DEF A, B
<1>5. RowsOf(log) = {RowFor(log[i]) : i \in ValidIn(log)}
  BY DEF RowsOf
<1>6. RowsOf(shuffled) = {RowFor(shuffled[i]) : i \in ValidIn(shuffled)}
  <2> DEFINE Own(line) == [path |-> line.path, method |-> line.method,
                           count |-> Cardinality(In(shuffled, line.path, line.method))]
  <2>1. RowsOf(shuffled) = {Own(shuffled[i]) : i \in ValidIn(shuffled)}
    BY DEF RowsOf
  <2> HIDE DEF In
  <2>2. \A line : Own(line) = RowFor(line)
    BY <1>4
  <2> HIDE DEF Own, RowFor
  <2> QED BY <2>1, <2>2
<1>7. ASSUME NEW fate
      PROVE  With(shuffled, fate) = With(log, fate)
  <2> DEFINE A == {i \in DOMAIN shuffled : Fate(shuffled[i]) = fate}
             B == {i \in DOMAIN log : Fate(log[i]) = fate}
  <2>1. A \subseteq D /\ B \subseteq D
    BY <1>1
  <2>2. \A i \in D : i \in A <=> p[i] \in B
    BY <1>1
  <2> HIDE DEF A, B
  <2>3. Cardinality(A) = Cardinality(B)
    BY <2>1, <2>2, SamePart
  <2> QED BY <2>3 DEF A, B, With
<1> HIDE DEF RowFor
<1>8. \A i \in ValidIn(shuffled) : p[i] \in ValidIn(log) /\ RowFor(shuffled[i]) = RowFor(log[p[i]])
  BY <1>1, <1>2, <1>3
<1>9. RowsOf(shuffled) \subseteq RowsOf(log)
  BY <1>5, <1>6, <1>8
<1>10. \A j \in ValidIn(log) : RowFor(log[j]) \in RowsOf(shuffled)
  <2> SUFFICES ASSUME NEW j \in ValidIn(log) PROVE RowFor(log[j]) \in RowsOf(shuffled)
    OBVIOUS
  <2>1. PICK i \in D : p[i] = j
    BY <1>1, <1>3
  <2>2. i \in ValidIn(shuffled)
    BY <1>2, <2>1
  <2> QED BY <1>6, <1>8, <2>1, <2>2
<1>11. RowsOf(log) \subseteq RowsOf(shuffled)
  BY <1>5, <1>10
<1> QED BY <1>7, <1>9, <1>11

\* summary.go Compute, for any log over any paths and methods: the ranking has one row
\* for every path and method of a valid line, with its count, in one strict order.
THEOREM CanonicalRanking == Spec => []RankingIsCanonical
  BY RankedCanonically, RankInvariance, PTL

\* summary.go:38, "identical input produces identical output": tallies, ranking and
\* rate are a function of the log alone, whatever the order in which the counts map
\* was visited and whichever caller asked.
THEOREM DeterministicSummary == Spec => []SummaryIsDeterministic
  BY SummaryOfTheLog, RankInvariance, PTL

\* Of what SummaryOf makes of a log, only the rate depends on the order of its lines:
\* the tallies and the ranking of a log whose lines were written in another order, as
\* concurrent requests are, are the same (engine.go:117, summary.go:64).  The rate is
\* that of the first and the last line (summary.go:56), see RateUsesSpan.
THEOREM OnlyRateDependsOnOrder ==
  ASSUME NEW log \in Seq(Lines), NEW p \in Bijection(DOMAIN log, DOMAIN log)
  PROVE  LET one == SummaryOf(log)
             two == SummaryOf([i \in DOMAIN log |-> log[p[i]]])
         IN  [two EXCEPT !.rate = one.rate] = one
<1> DEFINE D == DOMAIN log
           shuffled == [i \in D |-> log[p[i]]]
           Rate(l) == LET valid == ValidIn(l)
                          found == InOrder(valid, {ij \in valid \X valid : ij[1] < ij[2]})
                      IN  RateOf([k \in DOMAIN found |-> l[found[k]]], With(l, "matched"))
           Order(rows) == InOrder(rows, {ab \in rows \X rows : Outranks(ab[1], ab[2])})
<1>1. IsFiniteSet(D)
  <2>1. D = 1..Len(log) /\ Len(log) \in Nat
    BY LenProperties
  <2>2. IsFiniteSet(1..Len(log))
    BY <2>1, FS_Interval
  <2> QED BY <2>1, <2>2
<1>2. /\ RowsOf(shuffled) = RowsOf(log)
      /\ \A fate : With(shuffled, fate) = With(log, fate)
  <2>1. p \in Bijection(D, D) /\ D = DOMAIN log
    OBVIOUS
  <2>2. PICK other : other = [i \in D |-> log[p[i]]]
    OBVIOUS
  <2>3. other = shuffled
    BY <2>2
  <2> HIDE DEF D, shuffled
  <2>4. RowsOf(other) = RowsOf(log) /\ \A fate : With(other, fate) = With(log, fate)
    BY <1>1, <2>1, <2>2, RowsIgnoreOrder
  <2> QED BY <2>3, <2>4
<1>3. \A l : SummaryOf(l) =
        [matched |-> With(l, "matched"), filtered |-> With(l, "filtered"),
         malformed |-> With(l, "malformed"), ranked |-> Order(RowsOf(l)), rate |-> Rate(l)]
  BY DEF SummaryOf, With
<1> HIDE DEF Rate, Order, shuffled
<1>4. [SummaryOf(shuffled) EXCEPT !.rate = SummaryOf(log).rate] = SummaryOf(log)
  BY <1>2, <1>3
<1> QED BY <1>4 DEF shuffled, D
=============================================================================
