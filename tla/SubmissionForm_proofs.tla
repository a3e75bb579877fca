------------------------ MODULE SubmissionForm_proofs ------------------------
(***************************************************************************)
(* The verdict on a request with any number of parts.  The loop over the   *)
(* parts is a fold; what it has read after k parts is proved for the least *)
(* k that could be a counterexample, and there is none.                    *)
(***************************************************************************)
EXTENDS SubmissionForm, FiniteSetTheorems, TLAPS

-----------------------------------------------------------------------------
(* Numbers and turns of the loop.                                          *)

\* Every set of natural numbers has a least one.
LEMMA Least ==
  ASSUME NEW S \in SUBSET Nat, S # {}
  PROVE  \E n \in S : \A m \in S : n <= m
<1> DEFINE Segments == {1..n : n \in S}
           R == StrictSubsetOrdering(Nat)
<1>1. Segments \subseteq FiniteSubsetsOf(Nat)
  BY FS_Interval DEF FiniteSubsetsOf
<1>2. IsWellFoundedOn(R, FiniteSubsetsOf(Nat))
  BY FS_StrictSubsetOrderingWellFounded
<1>3. PICK s \in Segments : \A t \in Segments : ~(<<t, s>> \in R)
  <2> HIDE DEF R
  <2>1. Segments # {}
    OBVIOUS
  <2> HIDE DEF Segments
  <2> QED BY <1>1, <1>2, <2>1, WFMin
<1>4. PICK n \in S : s = 1..n
  BY <1>3
<1>5. ASSUME NEW m \in S, m < n PROVE FALSE
  <2>1. 1..m \in Segments /\ 1..m \subseteq Nat /\ 1..n \subseteq Nat
    OBVIOUS
  <2>2. 1..m \subseteq 1..n /\ n \in 1..n /\ n \notin 1..m
    BY <1>5
  <2>3. <<1..m, 1..n>> \in R
    BY <2>1, <2>2 DEF StrictSubsetOrdering
  <2> QED BY <2>1, <2>3, <1>3, <1>4
<1> QED BY <1>5

\* The fold over the parts is as many turns of the loop as there are parts.
LEMMA LoopTurns ==
  ASSUME NEW S, NEW parts \in Seq(S)
  PROVE  \E turn : /\ turn[0] = Start
                   /\ \A k \in 1..Len(parts) : turn[k] = ReadPart(turn[k - 1], parts[k])
                   /\ ReadParts(parts) = turn[Len(parts)]
<1> DEFINE n == Len(parts)
           largest(s) == CHOOSE x \in s : \A y \in s : x >= y
           body(g, s) == IF s = {} THEN Start
                         ELSE LET x == largest(s) IN ReadPart(g[s \ {x}], parts[x])
           solves(g, k) == g = [s \in SUBSET (1..k) |-> body(g, s)]
           iter == CHOOSE g : g = [s \in SUBSET (1..n) |-> body(g, s)]
<1>1. n \in Nat /\ DOMAIN parts = 1..n
  OBVIOUS
<1>2. ReadParts(parts) = iter[1..n]
  <2>1. ReadParts(parts) = (CHOOSE g : g = [s \in SUBSET (DOMAIN parts) |-> body(g, s)])[DOMAIN parts]
    BY DEF ReadParts, FoldLeft, MapThenFoldSet, Max
  <2> QED BY <1>1, <2>1
<1>3. ASSUME NEW k \in Nat, NEW s \in SUBSET (1..k), k \in s
      PROVE  largest(s) = k
  <2>1. \A y \in s : k >= y
    OBVIOUS
  <2>2. largest(s) \in s /\ \A y \in s : largest(s) >= y
    BY <1>3, <2>1
  <2> DEFINE l == largest(s)
  <2>3. l \in s /\ l >= k /\ k >= l
    BY <1>3, <2>1, <2>2
  <2> HIDE DEF l
  <2>4. l \in Int
    BY <2>3
  <2>5. l = k
    BY <2>3, <2>4
  <2> QED BY <2>5 DEF l
<1>4. ASSUME NEW k \in Nat, NEW g, solves(g, k)
      PROVE  \E h : solves(h, k + 1)
  <2> DEFINE m == k + 1
             h == [s \in SUBSET (1..m) |-> IF m \in s THEN ReadPart(g[s \ {m}], parts[m]) ELSE g[s]]
  <2>1. m \in Nat /\ m \notin 1..k /\ \A s \in SUBSET (1..m) : s \ {m} \in SUBSET (1..k) /\ (m \notin s => s \in SUBSET (1..k))
    <3>1. 1..m = 1..k \cup {m}
      OBVIOUS
    <3> QED BY <3>1
  <2>2. \A s \in SUBSET (1..k) : h[s] = g[s] /\ s \in SUBSET (1..m)
    <3>1. \A s \in SUBSET (1..k) : m \notin s /\ s \in SUBSET (1..m)
      BY <2>1
    <3> HIDE DEF m
    <3> QED BY <3>1
  <2>3. ASSUME NEW s \in SUBSET (1..m)
        PROVE  h[s] = body(h, s)
    <3>1. CASE m \in s
      <4>1. largest(s) = m /\ s # {}
        BY <1>3, <2>1, <3>1
      <4>2. h[s] = ReadPart(g[s \ {m}], parts[m])
        BY <3>1
      <4>3. h[s \ {m}] = g[s \ {m}]
        BY <2>1, <2>2
      <4> HIDE DEF largest, h, m
      <4> QED BY <4>1, <4>2, <4>3
    <3>2. CASE m \notin s
      <4>1. h[s] = g[s] /\ s \in SUBSET (1..k)
        BY <2>1, <3>2
      <4>2. g[s] = body(g, s)
        <5> HIDE DEF body
        <5>1. g = [t \in SUBSET (1..k) |-> body(g, t)]
          BY <1>4
        <5> QED BY <4>1, <5>1
      <4>3. CASE s = {}
        <5> HIDE DEF h
        <5> QED BY <4>1, <4>2, <4>3
      <4>4. CASE s # {}
        <5> DEFINE x == largest(s)
        <5>1. s \ {x} \in SUBSET (1..k)
          BY <4>1
        <5>2. h[s \ {x}] = g[s \ {x}]
          BY <2>2, <5>1
        <5> HIDE DEF h, x
        <5>3. body(h, s) = ReadPart(h[s \ {x}], parts[x]) /\ body(g, s) = ReadPart(g[s \ {x}], parts[x])
          BY <4>4 DEF x
        <5> QED BY <4>1, <4>2, <5>2, <5>3
      <4> QED BY <4>3, <4>4
    <3> QED BY <3>1, <3>2
  <2>4. h = [s \in SUBSET (1..m) |-> body(h, s)]
    <3>1. \A s \in SUBSET (1..m) : h[s] = body(h, s)
      BY <2>3
    <3>2. h = [s \in SUBSET (1..m) |-> h[s]]
      OBVIOUS
    <3> HIDE DEF h, body
    <3> QED BY <3>1, <3>2
  <2> HIDE DEF h, body
  <2> QED BY <2>4
<1>5. \E g : solves(g, 0)
  <2> DEFINE g == [s \in SUBSET (1..0) |-> Start]
  <2>1. \A s \in SUBSET (1..0) : s = {}
    OBVIOUS
  <2>2. \A s \in SUBSET (1..0) : body(g, s) = Start
    BY <2>1
  <2>3. g = [s \in SUBSET (1..0) |-> body(g, s)]
    <3> HIDE DEF body
    <3> QED BY <2>2
  <2> HIDE DEF g, body
  <2> QED BY <2>3
<1>6. \A k \in Nat : \E g : solves(g, k)
  <2> HIDE DEF solves
  <2> DEFINE Unsolved == {k \in Nat : ~ \E g : solves(g, k)}
  <2>1. SUFFICES ASSUME Unsolved # {} PROVE FALSE
    OBVIOUS
  <2>2. PICK k \in Unsolved : \A m \in Unsolved : k <= m
    BY <2>1, Least
  <2>3. k # 0 /\ k - 1 \in Nat /\ k = (k - 1) + 1
    BY <1>5, <2>2
  <2>4. \E g : solves(g, k - 1)
    BY <2>2, <2>3
  <2>5. \E g : solves(g, (k - 1) + 1)
    BY <1>4, <2>3, <2>4
  <2> QED BY <2>2, <2>3, <2>5
<1>7. solves(iter, n)
  <2>1. \E g : solves(g, n)
    BY <1>1, <1>6
  <2> HIDE DEF body
  <2> QED BY <2>1
<1>8. \A s \in SUBSET (1..n) : iter[s] = body(iter, s)
  <2> HIDE DEF iter, body
  <2> QED BY <1>7
<1> HIDE DEF iter
<1> DEFINE turn == [k \in 0..n |-> iter[1..k]]
<1>9. turn[0] = Start
  <2>1. 1..0 = {} /\ {} \in SUBSET (1..n) /\ 0 \in 0..n
    BY <1>1
  <2> QED BY <1>8, <2>1
<1>10. ASSUME NEW k \in 1..n
       PROVE  turn[k] = ReadPart(turn[k - 1], parts[k])
  <2>1. /\ k \in Nat /\ k \in 1..k /\ 1..k \in SUBSET (1..n) /\ 1..k # {}
        /\ k \in 0..n /\ k - 1 \in 0..n /\ (1..k) \ {k} = 1..(k - 1)
    <3>1. k \in Int /\ n \in Int /\ 1 <= k /\ k <= n
      BY <1>1
    <3> HIDE DEF n
    <3>2. 1..k \subseteq 1..n
      BY <3>1
    <3>3. (1..k) \ {k} = 1..(k - 1)
      BY <3>1
    <3>4. k \in Nat /\ k \in 1..k /\ k \in 0..n /\ k - 1 \in 0..n
      BY <3>1
    <3> QED BY <3>2, <3>3, <3>4
  <2>2. largest(1..k) = k
    BY <1>3, <2>1
  <2>3. iter[1..k] = ReadPart(iter[(1..k) \ {k}], parts[k])
    <3> HIDE DEF largest
    <3> QED BY <1>8, <2>1, <2>2
  <2> QED BY <2>1, <2>3
<1>11. turn[n] = iter[1..n]
  BY <1>1
<1> HIDE DEF turn
<1> QED BY <1>2, <1>9, <1>10, <1>11

-----------------------------------------------------------------------------
(* What has been read after some parts.                                    *)

Fields(v, i, f, p) == [verdict |-> v, input |-> i, format |-> f, profile |-> p]

Bad(part) == ~Acceptable(part) \/ part.torn

\* i is the last of the first k parts that has the name.
LastIn(parts, k, name, i) ==
  /\ i \in 1..k /\ parts[i].name = name
  /\ \A j \in 1..k : parts[j].name = name => j <= i

Unnamed(parts, k, name) == \A j \in 1..k : parts[j].name # name

InputAfter(input, parts, k) ==
  \/ input = NoInput /\ Unnamed(parts, k, "file")
  \/ \E i \in 1..k : LastIn(parts, k, "file", i) /\ input = parts[i].input

TextAfter(text, parts, k, name) ==
  \/ text = "supported" /\ Unnamed(parts, k, name)
  \/ \E i \in 1..k : LastIn(parts, k, name, i) /\ text = parts[i].text

\* The loop has stopped at a bad part, or has kept the last part of each name.
StoppedBy(read, parts, k) ==
  \E v, i, f, p : /\ v \in Rejections /\ read = Fields(v, i, f, p)
                  /\ \E j \in 1..k : Bad(parts[j])

OpenAfter(read, parts, k) ==
  \E i, f, p : /\ read = Fields("open", i, f, p)
               /\ \A j \in 1..k : Acceptable(parts[j])
               /\ InputAfter(i, parts, k)
               /\ TextAfter(f, parts, k, "format") /\ TextAfter(p, parts, k, "profile")

LEMMA StopFields ==
  ASSUME NEW v, NEW i, NEW f, NEW p, NEW e
  PROVE  Stop(Fields(v, i, f, p), e) = Fields(e, i, f, p)
BY DEF Stop, Fields

LEMMA FieldsOf ==
  \A v, i, f, p : /\ Fields(v, i, f, p).verdict = v /\ Fields(v, i, f, p).input = i
                  /\ Fields(v, i, f, p).format = f /\ Fields(v, i, f, p).profile = p
BY DEF Fields

\* One turn with a file.
LEMMA FileTurn ==
  ASSUME NEW i, NEW f, NEW p, NEW part \in FilePart
  PROVE  LET read == ReadPart(Fields("open", i, f, p), part) IN
         \/ Bad(part) /\ \E v \in Rejections : read = Fields(v, i, f, p)
         \/ Acceptable(part) /\ read = Fields("open", part.input, f, p)
<1> DEFINE read == Fields("open", i, f, p)
<1>1. ReadPart(read, part) = ReadFile(read, part)
  <2>1. part.name = "file"
    BY DEF FilePart
  <2>2. read.verdict = "open"
    BY FieldsOf
  <2> HIDE DEF read
  <2> QED BY <2>1, <2>2 DEF ReadPart
<1>2. TooLarge(part.input) <=> ~(Size[part.input] <= MaxInputSize)
  <2>1. part.input \in Inputs
    BY DEF FilePart
  <2>2. Size[part.input] \in Int /\ MaxInputSize \in Int
    BY <2>1, SizeAssumption
  <2> QED BY <2>2 DEF TooLarge
<1>3. [read EXCEPT !.input = part.input] = Fields("open", part.input, f, p)
  BY DEF Fields
<1>4. \A e : Stop(read, e) = Fields(e, i, f, p)
  BY StopFields
<1>5. Acceptable(part) <=> part.filename # "unsafe" /\ ~TooLarge(part.input)
  BY <1>2 DEF Acceptable, FilePart
<1> HIDE DEF read
<1>6. CASE part.filename = "unsafe"
  BY <1>1, <1>4, <1>5, <1>6 DEF ReadFile, Bad, Rejections, read
<1>7. CASE part.filename # "unsafe" /\ TooLarge(part.input)
  BY <1>1, <1>4, <1>5, <1>7 DEF ReadFile, Bad, Rejections, read
<1>8. CASE part.filename # "unsafe" /\ ~TooLarge(part.input) /\ part.torn
  BY <1>1, <1>4, <1>5, <1>8 DEF ReadFile, Bad, Rejections, read
<1>9. CASE part.filename # "unsafe" /\ ~TooLarge(part.input) /\ ~part.torn
  BY <1>1, <1>3, <1>5, <1>9 DEF ReadFile, read
<1> QED BY <1>6, <1>7, <1>8, <1>9

\* One turn with a text field.
LEMMA TextTurn ==
  ASSUME NEW i, NEW f, NEW p, NEW part \in TextPart
  PROVE  LET read == ReadPart(Fields("open", i, f, p), part) IN
         \/ Bad(part) /\ \E v \in Rejections : read = Fields(v, i, f, p)
         \/ /\ Acceptable(part)
            /\ read = IF part.name = "format" THEN Fields("open", i, part.text, p)
                                              ELSE Fields("open", i, f, part.text)
<1> DEFINE read == Fields("open", i, f, p)
<1>1. part.name \in {"format", "profile"} /\ part.name # "file"
  BY DEF TextPart
<1>2. ReadPart(read, part) = ReadText(read, part)
  BY <1>1, FieldsOf DEF ReadPart
<1>3. [read EXCEPT !["format"] = part.text] = Fields("open", i, part.text, p)
  BY DEF Fields
<1>4. [read EXCEPT !["profile"] = part.text] = Fields("open", i, f, part.text)
  BY DEF Fields
<1>5. \A e : Stop(read, e) = Fields(e, i, f, p)
  BY StopFields
<1>6. Acceptable(part) <=> part.text # "too long"
  BY <1>1 DEF Acceptable
<1> HIDE DEF read
<1>7. CASE part.text = "too long"
  BY <1>2, <1>5, <1>6, <1>7 DEF ReadText, Bad, Rejections, read
<1>8. CASE part.text # "too long" /\ part.torn
  BY <1>2, <1>5, <1>6, <1>8 DEF ReadText, Bad, Rejections, read
<1>9. CASE part.text # "too long" /\ ~part.torn
  <2>1. ReadPart(read, part) = [read EXCEPT ![part.name] = part.text]
    BY <1>2, <1>9 DEF ReadText
  <2> QED BY <1>1, <1>3, <1>4, <1>6, <1>9, <2>1 DEF read
<1> QED BY <1>7, <1>8, <1>9

\* Any other part is skipped, and nothing follows a rejection.
LEMMA OtherTurn ==
  /\ \A i, f, p : \A part \in OtherPart :
       Acceptable(part) /\ ReadPart(Fields("open", i, f, p), part) = Fields("open", i, f, p)
  /\ \A v \in Rejections : \A i, f, p, part :
       ReadPart(Fields(v, i, f, p), part) = Fields(v, i, f, p)
<1>1. ASSUME NEW i, NEW f, NEW p, NEW part \in OtherPart
      PROVE  Acceptable(part) /\ ReadPart(Fields("open", i, f, p), part) = Fields("open", i, f, p)
  <2>1. part.name = "other"
    BY DEF OtherPart
  <2> QED BY <2>1, FieldsOf DEF Acceptable, ReadPart
<1>2. ASSUME NEW v \in Rejections, NEW i, NEW f, NEW p, NEW part
      PROVE  ReadPart(Fields(v, i, f, p), part) = Fields(v, i, f, p)
  <2>1. v # "open"
    BY DEF Rejections
  <2> QED BY <2>1, FieldsOf DEF ReadPart
<1> QED BY <1>1, <1>2

\* The next part is the last of its name; of the other names it changes nothing.
LEMMA NextPart ==
  ASSUME NEW parts, NEW k \in Nat, NEW name, NEW i
  PROVE  /\ parts[k + 1].name = name => LastIn(parts, k + 1, name, k + 1)
         /\ parts[k + 1].name # name =>
              /\ Unnamed(parts, k, name) => Unnamed(parts, k + 1, name)
              /\ LastIn(parts, k, name, i) => LastIn(parts, k + 1, name, i)
BY DEF LastIn, Unnamed

\* Without the part of the name nothing changes for the name.
LEMMA OthersKeep ==
  ASSUME NEW parts, NEW k \in Nat, NEW x
  PROVE  /\ parts[k + 1].name # "file" /\ InputAfter(x, parts, k) => InputAfter(x, parts, k + 1)
         /\ \A name : parts[k + 1].name # name /\ TextAfter(x, parts, k, name)
                        => TextAfter(x, parts, k + 1, name)
<1>0. 1..k \subseteq 1..(k + 1)
  OBVIOUS
<1>1. ASSUME parts[k + 1].name # "file", InputAfter(x, parts, k)
      PROVE  InputAfter(x, parts, k + 1)
  <2>1. CASE x = NoInput /\ Unnamed(parts, k, "file")
    BY <1>0, <1>1, <2>1, NextPart DEF InputAfter
  <2>2. CASE \E i \in 1..k : LastIn(parts, k, "file", i) /\ x = parts[i].input
    <3>1. PICK i \in 1..k : LastIn(parts, k, "file", i) /\ x = parts[i].input
      BY <2>2
    <3>2. LastIn(parts, k + 1, "file", i) /\ i \in 1..(k + 1)
      BY <1>0, <1>1, <3>1, NextPart
    <3> QED BY <3>1, <3>2 DEF InputAfter
  <2> QED BY <1>1, <2>1, <2>2 DEF InputAfter
<1>2. ASSUME NEW name, parts[k + 1].name # name, TextAfter(x, parts, k, name)
      PROVE  TextAfter(x, parts, k + 1, name)
  <2>1. CASE x = "supported" /\ Unnamed(parts, k, name)
    BY <1>0, <1>2, <2>1, NextPart DEF TextAfter
  <2>2. CASE \E i \in 1..k : LastIn(parts, k, name, i) /\ x = parts[i].text
    <3>1. PICK i \in 1..k : LastIn(parts, k, name, i) /\ x = parts[i].text
      BY <2>2
    <3>2. LastIn(parts, k + 1, name, i) /\ i \in 1..(k + 1)
      BY <1>0, <1>2, <3>1, NextPart
    <3> QED BY <3>1, <3>2 DEF TextAfter
  <2> QED BY <1>2, <2>1, <2>2 DEF TextAfter
<1> QED BY <1>1, <1>2

LEMMA LastKeeps ==
  ASSUME NEW parts, NEW k \in Nat
  PROVE  /\ parts[k + 1].name = "file" => InputAfter(parts[k + 1].input, parts, k + 1)
         /\ \A name : parts[k + 1].name = name => TextAfter(parts[k + 1].text, parts, k + 1, name)
<1>1. k + 1 \in 1..(k + 1)
  OBVIOUS
<1> QED BY <1>1, NextPart DEF InputAfter, TextAfter

\* One turn of the loop.
LEMMA Turn ==
  ASSUME NEW parts \in Seq(Part), NEW k \in Nat, k + 1 \in 1..Len(parts),
         NEW read, StoppedBy(read, parts, k) \/ OpenAfter(read, parts, k)
  PROVE  LET next == ReadPart(read, parts[k + 1]) IN
         StoppedBy(next, parts, k + 1) \/ OpenAfter(next, parts, k + 1)
<1> DEFINE part == parts[k + 1]
           next == ReadPart(read, part)
<1> SUFFICES StoppedBy(next, parts, k + 1) \/ OpenAfter(next, parts, k + 1)
  OBVIOUS
<1>1. part \in Part
  OBVIOUS
<1>2. k + 1 \in 1..(k + 1) /\ \A j \in 1..(k + 1) : j \in 1..k \/ j = k + 1
  OBVIOUS
<1>3. 1..k \subseteq 1..(k + 1)
  OBVIOUS
<1>4. CASE StoppedBy(read, parts, k)
  <2>1. next = read
    BY <1>4, OtherTurn DEF StoppedBy
  <2> HIDE DEF next
  <2> QED BY <1>3, <1>4, <2>1 DEF StoppedBy, next
<1>5. CASE OpenAfter(read, parts, k)
  <2>1. PICK i, f, p : /\ read = Fields("open", i, f, p)
                       /\ \A j \in 1..k : Acceptable(parts[j])
                       /\ InputAfter(i, parts, k)
                       /\ TextAfter(f, parts, k, "format") /\ TextAfter(p, parts, k, "profile")
    BY <1>5 DEF OpenAfter
  <2>2. ASSUME Bad(part), NEW v \in Rejections, next = Fields(v, i, f, p)
        PROVE  StoppedBy(next, parts, k + 1)
    BY <1>2, <2>2 DEF StoppedBy
  <2>3. Acceptable(part) => \A j \in 1..(k + 1) : Acceptable(parts[j])
    BY <1>2, <2>1
  <2>4. CASE part \in FilePart
    <3>1. part.name = "file"
      BY <2>4 DEF FilePart
    <3>2. /\ InputAfter(part.input, parts, k + 1)
          /\ TextAfter(f, parts, k + 1, "format") /\ TextAfter(p, parts, k + 1, "profile")
      BY <2>1, <3>1, OthersKeep, LastKeeps
    <3>3. \/ Bad(part) /\ \E v \in Rejections : next = Fields(v, i, f, p)
          \/ Acceptable(part) /\ next = Fields("open", part.input, f, p)
      BY <2>1, <2>4, FileTurn
    <3> HIDE DEF next, part
    <3> QED BY <2>2, <2>3, <3>2, <3>3 DEF OpenAfter
  <2>5. CASE part \in TextPart
    <3>1. part.name \in {"format", "profile"}
      BY <2>5 DEF TextPart
    <3>2. InputAfter(i, parts, k + 1)
      BY <2>1, <3>1, OthersKeep
    <3>3. \/ Bad(part) /\ \E v \in Rejections : next = Fields(v, i, f, p)
          \/ /\ Acceptable(part)
             /\ next = IF part.name = "format" THEN Fields("open", i, part.text, p)
                                               ELSE Fields("open", i, f, part.text)
      BY <2>1, <2>5, TextTurn
    <3>4. part.name = "format" =>
            TextAfter(part.text, parts, k + 1, "format") /\ TextAfter(p, parts, k + 1, "profile")
      BY <2>1, OthersKeep, LastKeeps
    <3>5. part.name = "profile" =>
            TextAfter(f, parts, k + 1, "format") /\ TextAfter(part.text, parts, k + 1, "profile")
      BY <2>1, OthersKeep, LastKeeps
    <3> HIDE DEF next, part
    <3> QED BY <2>2, <2>3, <3>1, <3>2, <3>3, <3>4, <3>5 DEF OpenAfter
  <2>6. CASE part \in OtherPart
    <3>1. part.name = "other"
      BY <2>6 DEF OtherPart
    <3>2. /\ InputAfter(i, parts, k + 1)
          /\ TextAfter(f, parts, k + 1, "format") /\ TextAfter(p, parts, k + 1, "profile")
      BY <2>1, <3>1, OthersKeep
    <3>3. Acceptable(part) /\ next = Fields("open", i, f, p)
      BY <2>1, <2>6, OtherTurn
    <3> HIDE DEF next, part
    <3> QED BY <2>3, <3>2, <3>3 DEF OpenAfter
  <2> QED BY <1>1, <2>4, <2>5, <2>6 DEF Part
<1> QED BY <1>4, <1>5

LEMMA LoopReads ==
  ASSUME NEW parts \in Seq(Part)
  PROVE  \/ StoppedBy(ReadParts(parts), parts, Len(parts))
         \/ OpenAfter(ReadParts(parts), parts, Len(parts))
<1> DEFINE n == Len(parts)
<1>1. PICK turn : /\ turn[0] = Start
                  /\ \A k \in 1..n : turn[k] = ReadPart(turn[k - 1], parts[k])
                  /\ ReadParts(parts) = turn[n]
  BY LoopTurns
<1>2. n \in Nat
  OBVIOUS
<1> DEFINE Wrong == {k \in 0..n : ~(StoppedBy(turn[k], parts, k) \/ OpenAfter(turn[k], parts, k))}
<1> HIDE DEF n
<1>3. SUFFICES ASSUME Wrong # {} PROVE FALSE
  <2>1. n \in 0..n
    BY <1>2
  <2> QED BY <1>1, <1>3, <2>1 DEF n
<1>4. PICK k \in Wrong : \A m \in Wrong : k <= m
  <2>1. Wrong \in SUBSET Nat
    BY <1>2
  <2> HIDE DEF Wrong
  <2> QED BY <1>3, <2>1, Least
<1>5. k # 0
  <2>1. Start = Fields("open", NoInput, "supported", "supported")
    BY DEF Start, Fields
  <2>2. OpenAfter(Start, parts, 0)
    BY <2>1 DEF OpenAfter, InputAfter, TextAfter, Unnamed
  <2> QED BY <1>1, <1>4, <2>2
<1>6. k - 1 \in Nat /\ k = (k - 1) + 1 /\ k \in 1..n /\ k - 1 \in 0..n /\ ~(k <= k - 1)
  BY <1>2, <1>4, <1>5
<1>7. StoppedBy(turn[k - 1], parts, k - 1) \/ OpenAfter(turn[k - 1], parts, k - 1)
  BY <1>4, <1>6
<1>8. turn[k] = ReadPart(turn[k - 1], parts[k])
  BY <1>1, <1>6
<1> DEFINE m == k - 1
<1>9. /\ m \in Nat /\ m + 1 \in 1..Len(parts) /\ m + 1 = k
      /\ StoppedBy(turn[m], parts, m) \/ OpenAfter(turn[m], parts, m)
  BY <1>6, <1>7 DEF n
<1> HIDE DEF m, Wrong
<1>10. StoppedBy(turn[k], parts, k) \/ OpenAfter(turn[k], parts, k)
  <2>1. LET next == ReadPart(turn[m], parts[m + 1]) IN
        StoppedBy(next, parts, m + 1) \/ OpenAfter(next, parts, m + 1)
    BY <1>9, Turn
  <2> QED BY <1>8, <1>9, <2>1 DEF m
<1> QED BY <1>4, <1>10 DEF Wrong

-----------------------------------------------------------------------------
(* The verdict.                                                            *)

\* The last part of a name among all parts.
LEMMA TheLast ==
  ASSUME NEW parts \in Seq(Part), NEW name
  PROVE  /\ Unnamed(parts, Len(parts), name) => LastOf(parts, name) = {}
         /\ \A i : LastIn(parts, Len(parts), name, i) => LastOf(parts, name) = {parts[i]}
<1> DEFINE n == Len(parts)
           named == {j \in DOMAIN parts : parts[j].name = name}
           last == {j \in named : \A m \in named : m <= j}
<1>1. DOMAIN parts = 1..n /\ n \in Nat
  OBVIOUS
<1>2. LastOf(parts, name) = {parts[j] : j \in last}
  BY DEF LastOf
<1>3. ASSUME Unnamed(parts, n, name) PROVE last = {}
  BY <1>1, <1>3 DEF Unnamed
<1>4. ASSUME NEW i, LastIn(parts, n, name, i) PROVE last = {i}
  <2>1. i \in named /\ \A m \in named : m <= i
    BY <1>1, <1>4 DEF LastIn
  <2>2. ASSUME NEW j \in last PROVE j = i
    <3>1. j <= i /\ i <= j /\ i \in 1..n /\ j \in 1..n
      BY <1>1, <2>1, <2>2
    <3> HIDE DEF n
    <3> QED BY <3>1
  <2> QED BY <2>1, <2>2
<1> HIDE DEF last, n
<1> QED BY <1>2, <1>3, <1>4 DEF n

\* What was kept of a text field is the text of its last part, or the default.
LEMMA TextOf ==
  ASSUME NEW parts \in Seq(Part), NEW name, NEW text, TextAfter(text, parts, Len(parts), name)
  PROVE  (\A part \in LastOf(parts, name) : part.text \in {"", "supported"}) <=> Supported(text)
<1>1. CASE text = "supported" /\ Unnamed(parts, Len(parts), name)
  BY <1>1, TheLast DEF Supported
<1>2. CASE \E i \in 1..Len(parts) : LastIn(parts, Len(parts), name, i) /\ text = parts[i].text
  <2>1. PICK i : LastIn(parts, Len(parts), name, i) /\ text = parts[i].text
    BY <1>2
  <2>2. LastOf(parts, name) = {parts[i]}
    BY <2>1, TheLast
  <2> QED BY <2>1, <2>2 DEF Supported
<1> QED BY <1>1, <1>2 DEF TextAfter

\* What was kept as input is the last file.
LEMMA InputOf ==
  ASSUME NEW parts \in Seq(Part), NEW input, InputAfter(input, parts, Len(parts))
  PROVE  /\ input = NoInput => LastOf(parts, "file") = {}
         /\ input # NoInput => /\ input \in Inputs
                               /\ \E file : LastOf(parts, "file") = {file} /\ file.input = input
<1>1. CASE input = NoInput /\ Unnamed(parts, Len(parts), "file")
  BY <1>1, TheLast
<1>2. CASE \E i \in 1..Len(parts) : LastIn(parts, Len(parts), "file", i) /\ input = parts[i].input
  <2>1. PICK i \in 1..Len(parts) : LastIn(parts, Len(parts), "file", i) /\ input = parts[i].input
    BY <1>2
  <2>2. LastOf(parts, "file") = {parts[i]}
    BY <2>1, TheLast
  <2>3. parts[i] \in Part /\ parts[i].name = "file"
    BY <2>1 DEF LastIn
  <2>4. parts[i] \in FilePart
    BY <2>3 DEF Part, TextPart, OtherPart
  <2>5. input \in Inputs
    BY <2>1, <2>4 DEF FilePart
  <2> QED BY <2>1, <2>2, <2>5, SizeAssumption
<1> QED BY <1>1, <1>2 DEF InputAfter

LEMMA RequestShape ==
  ASSUME NEW form \in Requests
  PROVE  /\ form.contentType \in {"", "malformed", "multipart", "json", "other"}
         /\ form.length \in Int /\ form.boundary \in BOOLEAN /\ form.closed \in BOOLEAN
         /\ form.parts \in Seq(Part)
         /\ \A j \in DOMAIN form.parts : form.parts[j].torn => ~form.closed
<1> DEFINE Shape == [contentType : {"", "malformed", "multipart", "json", "other"}, length : Int,
                     boundary : BOOLEAN, closed : BOOLEAN, wellFormed : BOOLEAN, parts : Seq(Part)]
<1>1. form \in Shape /\ \A j \in DOMAIN form.parts : form.parts[j].torn => ~form.closed
  BY DEF Requests
<1> QED BY <1>1

\* A body that is closed has no torn part.
LEMMA ClosedIsWhole ==
  ASSUME NEW form \in Requests, form.closed, NEW j \in 1..Len(form.parts)
  PROVE  Bad(form.parts[j]) <=> ~Acceptable(form.parts[j])
<1> DEFINE parts == form.parts
<1>1. ~parts[j].torn
  <2>1. parts \in Seq(Part) /\ \A k \in DOMAIN parts : parts[k].torn => ~form.closed
    BY RequestShape
  <2>2. j \in 1..Len(parts)
    OBVIOUS
  <2> HIDE DEF parts
  <2> QED BY <2>1, <2>2
<1> QED BY <1>1 DEF Bad

\* handleMultipartSubmission accepts exactly the well-formed bodies.
LEMMA MultipartVerdict ==
  ASSUME NEW form \in Requests, form.contentType = "multipart", form.length <= MaxInputSize
  PROVE  /\ MultipartSubmission(form).verdict = "ok" <=> WellFormed(form)
         /\ WellFormed(form) => \E file : /\ LastOf(form.parts, "file") = {file}
                                          /\ MultipartSubmission(form).input = file.input
<1> DEFINE parts == form.parts
           read == ReadParts(parts)
           verdict == MultipartSubmission(form)
<1>1. parts \in Seq(Part) /\ DOMAIN parts = 1..Len(parts) /\ form.boundary \in BOOLEAN /\ form.closed \in BOOLEAN
  <2>1. parts \in Seq(Part) /\ form.boundary \in BOOLEAN /\ form.closed \in BOOLEAN
    BY RequestShape
  <2> HIDE DEF parts
  <2> QED BY <2>1
<1>2. Start = Fields("open", NoInput, "supported", "supported")
  BY DEF Start, Fields
<1>3. \A v, i, f, p, e : Stop(Fields(v, i, f, p), e).verdict = e
  BY StopFields, FieldsOf
<1>4. CASE ~form.boundary
  <2>1. verdict = Stop(Start, "invalid_input")
    BY <1>4 DEF MultipartSubmission
  <2>2. verdict.verdict = "invalid_input"
    BY <1>2, <1>3, <2>1
  <2> QED BY <1>4, <2>2 DEF WellFormed
<1>5. CASE form.boundary /\ StoppedBy(read, parts, Len(parts))
  <2>1. PICK v, i, f, p : /\ v \in Rejections /\ read = Fields(v, i, f, p)
                          /\ \E j \in 1..Len(parts) : Bad(parts[j])
    BY <1>5 DEF StoppedBy
  <2>2. read.verdict = v /\ v # "open" /\ v # "ok"
    BY <2>1, FieldsOf DEF Rejections
  <2>3. verdict = read
    BY <1>5, <2>2 DEF MultipartSubmission
  <2>4. ~WellFormed(form)
    <3>1. PICK j \in 1..Len(parts) : Bad(parts[j])
      BY <2>1
    <3>2. form.closed => ~Acceptable(parts[j])
      BY <3>1, ClosedIsWhole
    <3> QED BY <1>1, <3>2 DEF WellFormed
  <2> QED BY <2>2, <2>3, <2>4
<1>6. CASE form.boundary /\ OpenAfter(read, parts, Len(parts))
  <2>1. PICK i, f, p : /\ read = Fields("open", i, f, p)
                       /\ \A j \in 1..Len(parts) : Acceptable(parts[j])
                       /\ InputAfter(i, parts, Len(parts))
                       /\ TextAfter(f, parts, Len(parts), "format") /\ TextAfter(p, parts, Len(parts), "profile")
    BY <1>6 DEF OpenAfter
  <2>2. read.verdict = "open" /\ read.input = i /\ read.format = f /\ read.profile = p
    BY <2>1, FieldsOf
  <2>3. CASE ~form.closed
    <3>1. verdict = Stop(read, "invalid_input")
      BY <1>6, <2>2, <2>3 DEF MultipartSubmission
    <3>2. verdict.verdict = "invalid_input"
      BY <1>3, <2>1, <3>1
    <3> QED BY <2>3, <3>2 DEF WellFormed
  <2>4. CASE form.closed
    <3>1. WellFormed(form) <=>
            /\ \E file \in LastOf(parts, "file") : Size[file.input] > 0
            /\ Supported(f) /\ Supported(p)
      <4>1. Supported(f) <=> \A part \in LastOf(parts, "format") : part.text \in {"", "supported"}
        BY <1>1, <2>1, TextOf
      <4>2. Supported(p) <=> \A part \in LastOf(parts, "profile") : part.text \in {"", "supported"}
        BY <1>1, <2>1, TextOf
      <4> QED BY <1>1, <1>6, <2>1, <2>4, <4>1, <4>2 DEF WellFormed
    <3>2. /\ i = NoInput => LastOf(parts, "file") = {}
          /\ i # NoInput => /\ i \in Inputs
                            /\ \E file : LastOf(parts, "file") = {file} /\ file.input = i
      BY <1>1, <2>1, InputOf
    <3>3. CASE i = NoInput \/ Size[i] = 0
      <4>1. verdict = Stop(read, "validation_failed")
        BY <1>6, <2>2, <2>4, <3>3 DEF MultipartSubmission
      <4>2. verdict.verdict = "validation_failed"
        BY <1>3, <2>1, <4>1
      <4>3. ~ \E file \in LastOf(parts, "file") : Size[file.input] > 0
        BY <3>2, <3>3
      <4> QED BY <3>1, <4>2, <4>3
    <3>4. CASE i # NoInput /\ Size[i] # 0
      <4>1. verdict = CreateAndRun(read)
        BY <1>6, <2>2, <2>4, <3>4 DEF MultipartSubmission
      <4>2. PICK file : LastOf(parts, "file") = {file} /\ file.input = i
        BY <3>2, <3>4
      <4>3. Size[i] \in Nat
        BY <3>2, <3>4, SizeAssumption
      <4>4. \E file2 \in LastOf(parts, "file") : Size[file2.input] > 0
        BY <3>4, <4>2, <4>3
      <4>5. CASE Supported(f) /\ Supported(p)
        <5>1. verdict = [read EXCEPT !.verdict = "ok"]
          BY <2>2, <4>1, <4>5 DEF CreateAndRun
        <5>2. [read EXCEPT !.verdict = "ok"] = Fields("ok", i, f, p)
          BY <2>1 DEF Fields
        <5>3. verdict = Fields("ok", i, f, p)
          BY <5>1, <5>2
        <5> HIDE DEF verdict
        <5>4. verdict.verdict = "ok" /\ verdict.input = i
          BY <5>3, FieldsOf
        <5> QED BY <3>1, <4>2, <4>4, <4>5, <5>4 DEF verdict
      <4>6. CASE ~(Supported(f) /\ Supported(p))
        <5>1. verdict = Stop(read, "validation_failed")
          BY <2>2, <4>1, <4>6 DEF CreateAndRun
        <5>2. verdict.verdict = "validation_failed"
          BY <1>3, <2>1, <5>1
        <5> QED BY <3>1, <4>6, <5>2
      <4> QED BY <4>5, <4>6
    <3> QED BY <3>3, <3>4
  <2> QED BY <1>1, <2>3, <2>4
<1> QED BY <1>1, <1>4, <1>5, <1>6, LoopReads

\* submitAnalysis (analysis_handler.go:256): whatever its parts, their number and their
\* order, a request is accepted exactly if it is well formed, and the job gets the
\* last file of the form.
THEOREM VerdictIsExact ==
  ASSUME NEW form \in Requests
  PROVE  /\ Submit(form).verdict = "ok" <=> WellFormed(form)
         /\ WellFormed(form) =>
              {Submit(form).input} = {file.input : file \in LastOf(form.parts, "file")}
<1>1. /\ form.length \in Int /\ MaxInputSize \in Int
      /\ form.contentType \in {"", "malformed", "multipart", "json", "other"}
  <2>1. MaxInputSize \in Int
    BY SizeAssumption
  <2>2. form.length \in Int /\ form.contentType \in {"", "malformed", "multipart", "json", "other"}
    BY RequestShape
  <2> QED BY <2>1, <2>2
<1>2. \A e : Stop(Start, e).verdict = e
  <2>1. Start = Fields("open", NoInput, "supported", "supported")
    BY DEF Start, Fields
  <2> QED BY <2>1, StopFields, FieldsOf
<1>3. CASE form.contentType # "multipart" \/ ~(form.length <= MaxInputSize)
  <2>1. \E e \in Rejections : Submit(form) = Stop(Start, e)
    <3>1. JSONSubmission(form) \in {Stop(Start, "validation_failed"), Stop(Start, "invalid_input")}
      BY DEF JSONSubmission
    <3>2. Submit(form) \in {Stop(Start, "unsupported_media_type"), Stop(Start, "invalid_input"),
                            Stop(Start, "input_too_large"), JSONSubmission(form)}
      <4> DEFINE type == form.contentType
      <4>1. CASE type = ""
        BY <4>1 DEF Submit
      <4>2. CASE type = "malformed"
        BY <4>2 DEF Submit
      <4>3. CASE type \notin {"", "malformed"} /\ ~(form.length <= MaxInputSize)
        <5> DEFINE length == form.length
        <5>1. length > MaxInputSize
          <6>1. length \in Int /\ MaxInputSize \in Int /\ ~(length <= MaxInputSize)
            BY <1>1, <4>3
          <6> HIDE DEF length
          <6> QED BY <6>1
        <5> QED BY <4>3, <5>1 DEF Submit
      <4>4. CASE type = "json" /\ form.length <= MaxInputSize
        <5>1. ~(form.length > MaxInputSize)
          BY <1>1, <4>4
        <5> QED BY <4>4, <5>1 DEF Submit
      <4>5. CASE type = "other" /\ form.length <= MaxInputSize
        <5>1. ~(form.length > MaxInputSize)
          BY <1>1, <4>5
        <5> QED BY <4>5, <5>1 DEF Submit
      <4> QED BY <1>1, <1>3, <4>1, <4>2, <4>3, <4>4, <4>5
    <3> QED BY <3>1, <3>2 DEF Rejections
  <2>2. Submit(form).verdict # "ok"
    BY <1>2, <2>1 DEF Rejections
  <2> QED BY <1>3, <2>2 DEF WellFormed
<1>4. CASE form.contentType = "multipart" /\ form.length <= MaxInputSize
  <2>1. Submit(form) = MultipartSubmission(form)
    BY <1>1, <1>4 DEF Submit
  <2> QED BY <1>4, <2>1, MultipartVerdict
<1> QED BY <1>3, <1>4
=============================================================================
