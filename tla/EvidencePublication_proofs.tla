---------------------- MODULE EvidencePublication_proofs ----------------------
(***************************************************************************)
(* What a published bundle holds and what the index names, for any         *)
(* scenarios, any members, any number of publications and any failures.    *)
(***************************************************************************)
EXTENDS EvidencePublication, TLAPS

Working == {"member", "validate", "save", "decide", "index"}
Checked == {"validate", "save", "decide", "index", "published"}

\* A member is there, whole, and written by the run under way.
Own(m) == Files[m] # None /\ Files[m].run = run /\ Files[m].whole

Marked(s, m) == bundle[s][m] # None /\ bundle[s][m].marked

\* What the publication has written by now is its own.
Progress ==
  /\ pc # "idle" => run \in 1..MaxRuns
  /\ pc = "member" => \A i \in 1..(next - 1) : Own(Plan[i])
  /\ pc \in Checked => \A m \in InSeq(Plan) : Own(m)
  /\ pc \in {"decide", "index", "published"} => Own(Validation)

\* A passed verdict still describes the directory while it is being published.
Verdict ==
  /\ pc = "index" => passed
  /\ pc \in {"save", "decide", "index"} /\ passed =>
       Missing(scenario) = {} /\ Matches(scenario) = {}
  /\ pc = "published" => Missing(scenario) = {} /\ Matches(scenario) = {}

InvOfBundle == TypeOK /\ Progress /\ Verdict

-----------------------------------------------------------------------------
LEMMA InSeqConcat ==
  ASSUME NEW S, NEW a \in Seq(S), NEW b \in Seq(S)
  PROVE  a \o b \in Seq(S) /\ InSeq(a \o b) = InSeq(a) \cup InSeq(b)
<1> DEFINE c == a \o b
<1>1. /\ c \in Seq(S) /\ Len(c) = Len(a) + Len(b) /\ Len(a) \in Nat /\ Len(b) \in Nat
      /\ DOMAIN a = 1..Len(a) /\ DOMAIN b = 1..Len(b) /\ DOMAIN c = 1..Len(c)
      /\ \A i \in 1..Len(c) : c[i] = IF i <= Len(a) THEN a[i] ELSE b[i - Len(a)]
  OBVIOUS
<1> HIDE DEF c
<1>2. InSeq(c) \subseteq InSeq(a) \cup InSeq(b)
  <2> SUFFICES ASSUME NEW i \in 1..Len(c) PROVE c[i] \in InSeq(a) \cup InSeq(b)
    BY <1>1 DEF InSeq
  <2>1. CASE i <= Len(a)
    BY <2>1, <1>1 DEF InSeq
  <2>2. CASE i > Len(a)
    <3>1. i - Len(a) \in 1..Len(b) /\ c[i] = b[i - Len(a)]
      BY <2>2, <1>1
    <3> QED BY <3>1, <1>1 DEF InSeq
  <2> QED BY <2>1, <2>2, <1>1
<1>3. InSeq(a) \subseteq InSeq(c)
  <2> SUFFICES ASSUME NEW i \in 1..Len(a) PROVE a[i] \in InSeq(c)
    BY <1>1 DEF InSeq
  <2>1. i \in 1..Len(c) /\ c[i] = a[i]
    BY <1>1
  <2> QED BY <2>1, <1>1 DEF InSeq
<1>4. InSeq(b) \subseteq InSeq(c)
  <2> SUFFICES ASSUME NEW i \in 1..Len(b) PROVE b[i] \in InSeq(c)
    BY <1>1 DEF InSeq
  <2>1. Len(a) + i \in 1..Len(c) /\ c[Len(a) + i] = b[i]
    BY <1>1
  <2> QED BY <2>1, <1>1 DEF InSeq
<1> QED BY <1>1, <1>2, <1>3, <1>4 DEF c

\* The plan: members but never the validation, the core ones always, and an
\* optional part exactly when it is wanted.
PlanIsSound ==
  /\ Plan \in Seq(Members) /\ Len(Plan) \in Nat
  /\ InSeq(CoreMembers) \subseteq InSeq(Plan)
  /\ InSeq(Plan) \subseteq Members \ {Validation}
  /\ \A f \in wanted \cap Optional : Parts(f) \subseteq InSeq(Plan)
  /\ \A m \in InSeq(Plan) : DirOf(m) \subseteq wanted

LEMMA PlanFacts == PlanIsSound
<1> USE DEF PlanIsSound
<1>1. CoreMembers \in Seq(Members)
  <2>1. \A i \in 1..Len(CoreMembers) : CoreMembers[i] \in Members
    BY MemberAssumption DEF InSeq, Members
  <2> QED BY <2>1, MemberAssumption
<1>2. /\ Redaction \in Seq(Members) /\ Integration \in Seq(Members) /\ <<>> \in Seq(Members)
      /\ InSeq(Redaction) = {"redaction/report.json", "redaction/scan.json"}
      /\ InSeq(Integration) = {"service-integration/cross-check.json"} /\ InSeq(<<>>) = {}
  BY DEF InSeq, Redaction, Integration, Members
<1>3. /\ InSeq(CoreMembers) \cup InSeq(Redaction) \cup InSeq(Integration) \subseteq Members
      /\ Validation \notin InSeq(CoreMembers) \cup InSeq(Redaction) \cup InSeq(Integration)
  BY <1>2, MemberAssumption DEF Members, Validation
<1> DEFINE Joined(r, n) == (CoreMembers \o r) \o n
<1>4. ASSUME NEW r \in Seq(Members), NEW n \in Seq(Members)
      PROVE  /\ Joined(r, n) \in Seq(Members)
             /\ InSeq(Joined(r, n)) = InSeq(CoreMembers) \cup InSeq(r) \cup InSeq(n)
  <2>1. /\ CoreMembers \o r \in Seq(Members)
        /\ InSeq(CoreMembers \o r) = InSeq(CoreMembers) \cup InSeq(r)
    BY <1>1, InSeqConcat
  <2> DEFINE c == CoreMembers \o r
  <2> HIDE DEF c
  <2>2. c \in Seq(Members) /\ InSeq(c) = InSeq(CoreMembers) \cup InSeq(r) /\ Joined(r, n) = c \o n
    BY <2>1 DEF c
  <2>3. c \o n \in Seq(Members) /\ InSeq(c \o n) = InSeq(c) \cup InSeq(n)
    BY <2>2, InSeqConcat
  <2> HIDE DEF Joined
  <2> QED BY <2>2, <2>3
<1> HIDE DEF Joined
<1>5. /\ "redaction" \in wanted /\ "service-integration" \in wanted => Plan = Joined(Redaction, Integration)
      /\ "redaction" \in wanted /\ "service-integration" \notin wanted => Plan = Joined(Redaction, <<>>)
      /\ "redaction" \notin wanted /\ "service-integration" \in wanted => Plan = Joined(<<>>, Integration)
      /\ "redaction" \notin wanted /\ "service-integration" \notin wanted => Plan = Joined(<<>>, <<>>)
  BY DEF Plan, Joined
<1>6. /\ Plan \in Seq(Members)
      /\ InSeq(Plan) = InSeq(CoreMembers)
                         \cup (IF "redaction" \in wanted THEN InSeq(Redaction) ELSE {})
                         \cup (IF "service-integration" \in wanted THEN InSeq(Integration) ELSE {})
  <2>1. CASE "redaction" \in wanted /\ "service-integration" \in wanted
    <3>1. Plan = Joined(Redaction, Integration)
      BY <2>1, <1>5
    <3>2. /\ Joined(Redaction, Integration) \in Seq(Members)
          /\ InSeq(Joined(Redaction, Integration)) = InSeq(CoreMembers) \cup InSeq(Redaction) \cup InSeq(Integration)
      BY <1>2, <1>4
    <3> QED BY <2>1, <3>1, <3>2, <1>2
  <2>2. CASE "redaction" \in wanted /\ "service-integration" \notin wanted
    <3>1. Plan = Joined(Redaction, <<>>)
      BY <2>2, <1>5
    <3>2. /\ Joined(Redaction, <<>>) \in Seq(Members)
          /\ InSeq(Joined(Redaction, <<>>)) = InSeq(CoreMembers) \cup InSeq(Redaction) \cup InSeq(<<>>)
      BY <1>2, <1>4
    <3> QED BY <2>2, <3>1, <3>2, <1>2
  <2>3. CASE "redaction" \notin wanted /\ "service-integration" \in wanted
    <3>1. Plan = Joined(<<>>, Integration)
      BY <2>3, <1>5
    <3>2. /\ Joined(<<>>, Integration) \in Seq(Members)
          /\ InSeq(Joined(<<>>, Integration)) = InSeq(CoreMembers) \cup InSeq(<<>>) \cup InSeq(Integration)
      BY <1>2, <1>4
    <3> QED BY <2>3, <3>1, <3>2, <1>2
  <2>4. CASE "redaction" \notin wanted /\ "service-integration" \notin wanted
    <3>1. Plan = Joined(<<>>, <<>>)
      BY <2>4, <1>5
    <3>2. /\ Joined(<<>>, <<>>) \in Seq(Members)
          /\ InSeq(Joined(<<>>, <<>>)) = InSeq(CoreMembers) \cup InSeq(<<>>) \cup InSeq(<<>>)
      BY <1>2, <1>4
    <3> QED BY <2>4, <3>1, <3>2, <1>2
  <2> QED BY <2>1, <2>2, <2>3, <2>4
<1>7. ASSUME NEW m \in InSeq(Plan) PROVE DirOf(m) \subseteq wanted
  <2>1. CASE m \in InSeq(Redaction)
    <3>1. "redaction" \in wanted
      BY <1>2, <1>6, <2>1, MemberAssumption
    <3> QED BY <2>1, <3>1 DEF DirOf
  <2>2. CASE m \notin InSeq(Redaction) /\ m \in InSeq(Integration)
    <3>1. "service-integration" \in wanted
      BY <1>2, <1>6, <2>2, MemberAssumption
    <3> QED BY <2>2, <3>1 DEF DirOf
  <2>3. CASE m \notin InSeq(Redaction) /\ m \notin InSeq(Integration)
    BY <2>3 DEF DirOf
  <2> QED BY <2>1, <2>2, <2>3
<1> QED BY <1>3, <1>6, <1>7 DEF Parts, Optional

\* The plan is the plan of what is wanted.
LEMMA SamePlan == wanted' = wanted => Plan' = Plan
BY DEF Plan

-----------------------------------------------------------------------------
(* Types.                                                                  *)

LEMMA MemberTypes ==
  ASSUME TypeOK, next <= Len(Plan)
  PROVE  Member \in InSeq(Plan) /\ Member \in Members /\ Member # Validation
BY PlanFacts DEF TypeOK, Member, InSeq, PlanIsSound

LEMMA PutTypes ==
  ASSUME TypeOK, run \in 1..MaxRuns, NEW m \in Members,
         NEW whole \in BOOLEAN, NEW marked \in BOOLEAN, Put(m, whole, marked)
  PROVE  /\ bundle' \in [Scenarios -> [Members -> Content \cup {None}]]
         /\ bundle'[scenario][m] = [run |-> run, whole |-> whole, marked |-> marked]
         /\ \A s \in Scenarios, n \in Members :
              s # scenario \/ n # m => bundle'[s][n] = bundle[s][n]
         /\ bundle'[scenario][m] # None
BY NoneAssumption DEF TypeOK, Put, Content

\* What Put does to the files of the run's directory.
LEMMA PutOwn ==
  ASSUME TypeOK, run \in 1..MaxRuns, NEW m \in Members,
         NEW marked \in BOOLEAN, Put(m, TRUE, marked),
         UNCHANGED <<run, scenario>>
  PROVE  /\ Own(m)'
         /\ \A n \in Members : Own(n) => Own(n)'
<1> DEFINE file == [run |-> run, whole |-> TRUE, marked |-> marked]
<1>1. /\ bundle'[scenario][m] = file /\ file # None
      /\ \A n \in Members : n # m => bundle'[scenario][n] = bundle[scenario][n]
  BY PutTypes DEF TypeOK
<1>2. file.run = run /\ file.whole = TRUE
  OBVIOUS
<1> HIDE DEF file
<1> QED BY <1>1, <1>2 DEF Own, Files

LEMMA TypesInit == Init => TypeOK
<1> SUFFICES ASSUME Init PROVE TypeOK
  OBVIOUS
<1>1. next \in 1..Len(Plan) + 1
  BY PlanFacts DEF Init, PlanIsSound
<1>a. bundle \in [Scenarios -> [Members -> Content \cup {None}]]
   BY DEF Init
<1>b. dirs \in [Scenarios -> SUBSET Optional]
   BY DEF Init
<1>c. index = Torn \/ index \subseteq Entry
   BY DEF Init
<1>d. run \in 0..MaxRuns
   BY BoundAssumption DEF Init
<1>e. wanted \subseteq Features /\ pc \in PCs
   BY DEF Init, PCs
<1>f. published \in [Scenarios -> 0..MaxRuns]
   BY BoundAssumption DEF Init
<1> QED BY <1>1, <1>a, <1>b, <1>c, <1>d, <1>e, <1>f, BoundAssumption DEF Init, TypeOK

LEMMA TypesStep == ASSUME TypeOK, pc # "idle" => run \in 1..MaxRuns, [Next]_vars PROVE TypeOK'
<1> USE DEF TypeOK, PCs
<1>1. CASE Begin
  <2>1. /\ run' \in 1..MaxRuns /\ next' = 1 /\ wanted' \subseteq Features
    BY <1>1, BoundAssumption DEF Begin
  <2>2. PlanIsSound'
    BY PlanFacts, PTL
  <2>3. next' \in 1..Len(Plan') + 1
    BY <2>1, <2>2 DEF PlanIsSound
  <2>4. /\ scenario' \in Scenarios /\ pc' \in PCs /\ passed' \in BOOLEAN
        /\ UNCHANGED <<bundle, dirs, index, published, flawed>>
    BY <1>1 DEF Begin, disk, history
  <2> QED BY <2>1, <2>3, <2>4
<1>2. CASE WriteMember
  <2>1. /\ pc = "member" /\ next \in 1..Len(Plan) /\ Len(Plan) \in Nat
        /\ next' \in {next, next + 1}
    <3>1. Len(Plan) \in Nat
      BY PlanFacts DEF PlanIsSound
    <3>2. next <= Len(Plan) /\ pc = "member" /\ next' \in {next, next + 1}
      BY <1>2 DEF WriteMember, Fails, Goto, NextMember
    <3> QED BY <3>1, <3>2
  <2>5. Plan' = Plan
    BY <1>2, SamePlan DEF WriteMember, options
  <2>6. next' \in 1..Len(Plan') + 1
    BY <2>1, <2>5
  <2>2. Member \in Members
    BY <2>1, MemberTypes
  <2>3. dirs' \in [Scenarios -> SUBSET Optional]
    BY <1>2 DEF WriteMember, DirOf, Optional
  <2>4. bundle' \in [Scenarios -> [Members -> Content \cup {None}]]
    BY <1>2, <2>1, <2>2, PutTypes DEF WriteMember, Fails, Goto
  <2>7. /\ index' = index /\ run' = run /\ scenario' = scenario /\ wanted' = wanted
        /\ passed' = passed /\ pc' \in PCs /\ published' = published /\ flawed' \in SUBSET Scenarios
    BY <1>2 DEF WriteMember, Fails, Goto, options, history
  <2> QED BY <2>3, <2>4, <2>6, <2>7
<1>3. CASE WroteAll
  BY SamePlan, <1>3 DEF WroteAll, Goto, disk, options, history
<1>4. CASE Abandon
  BY SamePlan, <1>4 DEF Abandon, Fails, Goto, disk, options
<1>5. CASE Validate
  BY SamePlan, <1>5 DEF Validate, Goto, disk, options, history
<1>6. CASE SaveValidation
  <2>1. bundle' \in [Scenarios -> [Members -> Content \cup {None}]]
    BY SamePlan, <1>6, PutTypes DEF SaveValidation, Goto, Fails, Members
  <2> QED BY SamePlan, <1>6, <2>1 DEF SaveValidation, Fails, Goto, options, history
<1>7. CASE Decide
  BY SamePlan, <1>7 DEF Decide, Fails, Goto, disk, options, history
<1>8. CASE UpdateIndex
  <2>1. pc = "index" /\ run \in 1..MaxRuns
    BY SamePlan, <1>8 DEF UpdateIndex, Goto, Fails
  <2>2. index' = Torn \/ index' \subseteq Entry
    BY SamePlan, <1>8, <2>1 DEF UpdateIndex, Entered, Entry
  <2> QED BY SamePlan, <1>8, <2>1, <2>2 DEF UpdateIndex, Fails, Goto, options
<1>9. CASE UNCHANGED vars
  BY SamePlan, <1>9 DEF vars, disk, options, history
<1> QED BY <1>1, <1>2, <1>3, <1>4, <1>5, <1>6, <1>7, <1>8, <1>9 DEF Next

-----------------------------------------------------------------------------
(* The bundle.                                                             *)

\* A step that writes no file of this directory keeps what is said of it.
LEMMA KeepsBundle ==
  ASSUME UNCHANGED <<bundle, dirs, run, scenario, wanted>>
  PROVE  /\ \A m : Own(m)' <=> Own(m)
         /\ \A i : Plan'[i] = Plan[i]
         /\ InSeq(Plan)' = InSeq(Plan)
         /\ \A s : Matches(s)' = Matches(s) /\ Missing(s)' = Missing(s)
<1>1. Plan' = Plan
  BY SamePlan
<1> QED BY <1>1 DEF Own, Files, Matches, Missing, Required, InSeq

LEMMA ProgressStep ==
  ASSUME TypeOK, TypeOK', Progress, [Next]_vars
  PROVE  Progress'
<1> USE DEF Progress, Working, Checked
<1>1. CASE Begin
  <2>1. /\ run' \in 1..MaxRuns /\ next' = 1 /\ pc' = "member"
    BY <1>1, BoundAssumption DEF Begin, TypeOK
  <2> QED BY <2>1
<1>2. CASE WriteMember
  <2>1. /\ run \in 1..MaxRuns /\ Member \in InSeq(Plan) /\ Member \in Members
        /\ next \in 1..Len(Plan) + 1 /\ Len(Plan) \in Nat /\ next <= Len(Plan)
        /\ UNCHANGED <<run, scenario, wanted>> /\ pc = "member" /\ pc' \in {"member", "failed"}
    BY <1>2, MemberTypes, PlanFacts
       DEF WriteMember, Fails, Goto, options, TypeOK, PlanIsSound
  <2>2. Plan' = Plan
    BY <2>1, SamePlan
  <2>3. CASE pc' = "member"
    <3>1. /\ next' = next + 1
          /\ \E marked \in BOOLEAN : Put(Member, TRUE, marked)
      BY <1>2, <2>3 DEF WriteMember, Fails, Goto, NextMember
    <3>2. \A m \in Members : m = Member => Own(m)'
      BY <2>1, <3>1, PutOwn
    <3>3. \A m \in Members : Own(m) => Own(m)'
      BY <2>1, <3>1, PutOwn
    <3>4. \A i \in 1..(next - 1) : Own(Plan[i]) /\ Plan[i] \in Members
      BY <2>1, PlanFacts DEF PlanIsSound
    <3>5. \A i \in 1..next : Own(Plan[i])'
      <4> SUFFICES ASSUME NEW i \in 1..next PROVE Own(Plan[i])'
        OBVIOUS
      <4>1. CASE i = next
        <5>1. \A m \in Members : m = Plan[i] => Own(m)'
          BY <4>1, <3>2 DEF Member
        <5>2. Plan[i] \in Members /\ Plan[i]' = Plan[i]
          BY <2>1, <2>2, <4>1 DEF Member
        <5> QED BY <5>1, <5>2 DEF Own
      <4>2. CASE i # next
        <5>1. Own(Plan[i]) /\ Plan[i] \in Members /\ Plan[i]' = Plan[i]
          BY <4>2, <3>4, <2>1, <2>2
        <5>2. \A m \in Members : m = Plan[i] => Own(m)'
          BY <3>3, <5>1
        <5> QED BY <5>1, <5>2 DEF Own
      <4> QED BY <4>1, <4>2
    <3>6. next' - 1 = next
      BY <3>1, <2>1
    <3> QED BY <2>1, <2>3, <3>5, <3>6
  <2>4. CASE pc' = "failed"
    BY <2>1, <2>4
  <2> QED BY <2>1, <2>3, <2>4
<1>3. CASE WroteAll
  <2>1. /\ pc = "member" /\ pc' = "validate" /\ next > Len(Plan) /\ run' = run
        /\ UNCHANGED <<bundle, dirs, run, scenario, wanted>>
    BY <1>3 DEF WroteAll, Goto, disk, options
  <2>2. \A m \in InSeq(Plan) : Own(m)
    <3>1. Len(Plan) \in Nat /\ DOMAIN Plan = 1..Len(Plan) /\ next = Len(Plan) + 1
      BY <2>1, PlanFacts DEF PlanIsSound, TypeOK
    <3> QED BY <3>1, <2>1 DEF InSeq
  <2> QED BY <2>1, <2>2, KeepsBundle
<1>4. CASE Abandon
  <2>1. pc' = "failed" /\ run' = run /\ pc # "idle"
    BY <1>4 DEF Abandon, Fails, Goto, options
  <2> QED BY <2>1
<1>5. CASE Validate
  <2>1. /\ pc = "validate" /\ pc' = "save"
        /\ UNCHANGED <<bundle, dirs, run, scenario, wanted>>
    BY <1>5 DEF Validate, Goto, disk, options
  <2> QED BY <2>1, KeepsBundle
<1>6. CASE SaveValidation
  <2>1. /\ pc = "save" /\ pc' \in {"decide", "failed"} /\ Validation \in Members
        /\ UNCHANGED <<run, scenario, wanted>>
    BY <1>6 DEF SaveValidation, Fails, Goto, options, Members
  <2>2. CASE pc' = "decide"
    <3>1. \E marked \in BOOLEAN : Put(Validation, TRUE, marked)
      BY <1>6, <2>2 DEF SaveValidation, Fails, Goto
    <3>2. /\ Own(Validation)'
          /\ \A m \in Members : Own(m) => Own(m)'
      BY <2>1, <3>1, PutOwn DEF Progress
    <3>4. InSeq(Plan)' = InSeq(Plan) /\ InSeq(Plan) \subseteq Members
      BY <2>1, SamePlan, PlanFacts DEF PlanIsSound
    <3>5. \A m \in InSeq(Plan)' : Own(m)'
      BY <3>2, <3>4, <2>1
    <3> QED BY <2>1, <2>2, <3>2, <3>5
  <2>3. CASE pc' = "failed"
    BY <2>1, <2>3
  <2> QED BY <2>1, <2>2, <2>3
<1>7. CASE Decide
  <2>1. /\ pc = "decide" /\ pc' \in {"index", "failed"}
        /\ UNCHANGED <<bundle, dirs, run, scenario, wanted>>
    BY <1>7 DEF Decide, Fails, Goto, disk, options
  <2> QED BY <2>1, KeepsBundle
<1>8. CASE UpdateIndex
  <2>1. /\ pc = "index" /\ pc' \in {"published", "failed"}
        /\ UNCHANGED <<bundle, dirs, run, scenario, wanted>>
    BY <1>8 DEF UpdateIndex, Fails, Goto, options
  <2> QED BY <2>1, KeepsBundle
<1>9. CASE UNCHANGED vars
  <2>1. UNCHANGED <<bundle, dirs, run, scenario, wanted, pc, next>>
    BY <1>9 DEF vars, disk, options
  <2> QED BY <2>1, KeepsBundle
<1> QED BY <1>1, <1>2, <1>3, <1>4, <1>5, <1>6, <1>7, <1>8, <1>9 DEF Next

LEMMA VerdictStep ==
  ASSUME TypeOK, Progress, Verdict, [Next]_vars
  PROVE  Verdict'
<1> USE DEF Verdict
<1>1. CASE Begin \/ WriteMember \/ WroteAll \/ Abandon
  <2>1. pc' \in {"member", "validate", "failed"}
    BY <1>1 DEF Begin, WriteMember, WroteAll, Abandon, Fails, Goto
  <2> QED BY <2>1
<1>2. CASE Validate
  <2>1. /\ pc' = "save" /\ passed' = (Missing(scenario) = {} /\ Matches(scenario) = {})
        /\ UNCHANGED <<bundle, dirs, run, scenario, wanted>>
    BY <1>2 DEF Validate, Goto, disk, options
  <2>2. Matches(scenario)' = Matches(scenario) /\ Missing(scenario)' = Missing(scenario)
    BY <2>1, KeepsBundle DEF Matches, Missing, Required
  <2> QED BY <2>1, <2>2
<1>3. CASE SaveValidation
  <2>1. /\ pc = "save" /\ pc' \in {"decide", "failed"} /\ Validation \in Members
        /\ UNCHANGED <<scenario, passed, dirs>> /\ run \in 1..MaxRuns
    BY <1>3 DEF SaveValidation, Fails, Goto, options, Members, Progress
  <2>2. ASSUME pc' = "decide", passed
        PROVE  Missing(scenario)' = {} /\ Matches(scenario)' = {}
    <3>1. Missing(scenario) = {} /\ Matches(scenario) = {}
      BY <2>1, <2>2
    <3>2. Put(Validation, TRUE, FALSE)
      BY <1>3, <2>2, <3>1 DEF SaveValidation, Fails, Goto
    <3>3. /\ bundle'[scenario][Validation] = [run |-> run, whole |-> TRUE, marked |-> FALSE]
          /\ \A n \in Members : n # Validation => bundle'[scenario][n] = bundle[scenario][n]
      BY <2>1, <3>2, PutTypes DEF TypeOK
    <3>4. ~bundle'[scenario][Validation].marked
      BY <3>3
    <3>5. bundle'[scenario][Validation] # None
      BY <2>1, <3>2, PutTypes
    <3>6. Matches(scenario)' = {}
      BY <2>1, <3>1, <3>3, <3>4 DEF Matches
    <3>7. \A m \in Required(scenario) : m \in Members
      BY DEF Required, Parts, Members
    <3>8. Required(scenario)' = Required(scenario)
      BY <2>1 DEF Required
    <3>9. Missing(scenario)' = {}
      BY <2>1, <3>1, <3>3, <3>7, <3>8, <3>5 DEF Missing
    <3> QED BY <3>6, <3>9
  <2> QED BY <2>1, <2>2
<1>4. CASE Decide
  <2>1. /\ pc = "decide" /\ pc' \in {"index", "failed"} /\ passed' = passed
        /\ pc' = "index" => passed
        /\ UNCHANGED <<bundle, dirs, run, scenario, wanted>>
    BY <1>4 DEF Decide, MayIndex, Fails, Goto, disk, options
  <2>2. Matches(scenario)' = Matches(scenario) /\ Missing(scenario)' = Missing(scenario)
    BY <2>1, KeepsBundle DEF Matches, Missing, Required
  <2> QED BY <2>1, <2>2
<1>5. CASE UpdateIndex
  <2>1. /\ pc = "index" /\ pc' \in {"published", "failed"} /\ passed' = passed
        /\ UNCHANGED <<bundle, dirs, run, scenario, wanted>>
    BY <1>5 DEF UpdateIndex, Fails, Goto, options
  <2>2. Matches(scenario)' = Matches(scenario) /\ Missing(scenario)' = Missing(scenario)
    BY <2>1, KeepsBundle DEF Matches, Missing, Required
  <2> QED BY <2>1, <2>2
<1>6. CASE UNCHANGED vars
  <2>1. UNCHANGED <<bundle, dirs, run, scenario, wanted, pc, passed>>
    BY <1>6 DEF vars, disk, options
  <2>2. Matches(scenario)' = Matches(scenario) /\ Missing(scenario)' = Missing(scenario)
    BY <2>1, KeepsBundle DEF Matches, Missing, Required
  <2> QED BY <2>1, <2>2
<1> QED BY <1>1, <1>2, <1>3, <1>4, <1>5, <1>6 DEF Next

LEMMA BundleInit == Init => InvOfBundle
<1> SUFFICES ASSUME Init PROVE Progress /\ Verdict
  BY TypesInit DEF InvOfBundle
<1> QED BY DEF Init, Progress, Verdict, Checked

LEMMA BundleStep == InvOfBundle /\ [Next]_vars => InvOfBundle'
<1> SUFFICES ASSUME TypeOK, Progress, Verdict, [Next]_vars
             PROVE  TypeOK' /\ Progress' /\ Verdict'
  BY DEF InvOfBundle
<1>1. TypeOK'
  BY TypesStep DEF Progress
<1> QED BY <1>1, ProgressStep, VerdictStep

LEMMA BundleInvariant == Spec => []InvOfBundle
BY BundleInit, BundleStep, PTL DEF Spec

\* Every reachable state of the publication, for any evidence set, is type correct.
THEOREM PublicationTypes == Spec => []TypeOK
<1>1. InvOfBundle => TypeOK
  BY DEF InvOfBundle
<1> QED BY <1>1, BundleInvariant, PTL

\* What publishEvidenceSet (evidence.go) reports as published is complete, whole, of
\* the run that reports it and free of forbidden markers, whatever earlier and failed
\* publications left in the directory.
THEOREM PublishedBundleIsCurrent == Spec => []PublishedIsCurrent
<1>1. InvOfBundle => PublishedIsCurrent
  <2> SUFFICES ASSUME InvOfBundle, pc = "published"
               PROVE  /\ \A m \in InSeq(Plan) \cup {Validation} :
                           Files[m] # None /\ Files[m].run = run /\ Files[m].whole
                      /\ \A m \in Members : Files[m] # None => ~Files[m].marked
    BY DEF PublishedIsCurrent
  <2>1. \A m \in InSeq(Plan) \cup {Validation} : Own(m)
    BY DEF InvOfBundle, Progress, Checked
  <2>2. Matches(scenario) = {}
    BY DEF InvOfBundle, Verdict
  <2> QED BY <2>1, <2>2 DEF Own, Matches, Files
<1> QED BY <1>1, BundleInvariant, PTL

-----------------------------------------------------------------------------
(* The index.                                                              *)

LEMMA EntriesStep ==
  ASSUME InvOfBundle, EntriesArePublished, [Next]_vars
  PROVE  EntriesArePublished'
<1>1. CASE UpdateIndex
  <2>1. run \in 1..MaxRuns /\ scenario \in Scenarios /\ published \in [Scenarios -> 0..MaxRuns]
    BY <1>1 DEF UpdateIndex, Goto, Fails, InvOfBundle, Progress, TypeOK
  <2>2. CASE index' = Torn
    BY <2>2 DEF EntriesArePublished
  <2>3. CASE index' # Torn
    <3>1. /\ index # Torn
          /\ index' = {e \in index : e.scenario # scenario} \cup {[scenario |-> scenario, run |-> run]}
          /\ published' = [published EXCEPT ![scenario] = run]
      BY <1>1, <2>3 DEF UpdateIndex, Entered
    <3>2. index = {[scenario |-> s, run |-> published[s]] : s \in {t \in Scenarios : published[t] # 0}}
      BY <3>1 DEF EntriesArePublished
    <3>3. \A s \in Scenarios : published'[s] = IF s = scenario THEN run ELSE published[s]
      BY <2>1, <3>1
    <3>4. index' = {[scenario |-> s, run |-> published'[s]] : s \in {t \in Scenarios : published'[t] # 0}}
      BY <2>1, <3>1, <3>2, <3>3
    <3> QED BY <3>4 DEF EntriesArePublished
  <2> QED BY <2>2, <2>3
<1>2. CASE ~UpdateIndex
  <2>1. UNCHANGED <<index, published>>
    BY <1>2 DEF Next, vars, disk, history, Begin, WriteMember, WroteAll, Abandon,
                Validate, SaveValidation, Decide, Fails
  <2> QED BY <2>1 DEF EntriesArePublished
<1> QED BY <1>1, <1>2

\* A publication under way is later than every success before it.
Later ==
  \A s \in Scenarios :
    published[s] <= run /\ (pc \in Working => published[s] < run)

\* The bundle of a run: the core members and the validation are its own and whole, and
\* no file of the directory has a marker.
Whole(s, r) ==
  /\ \A m \in InSeq(CoreMembers) \cup {Validation} :
       bundle[s][m] # None /\ bundle[s][m].run = r /\ bundle[s][m].whole
  /\ Matches(s) = {}

Standing(s) == published[s] # 0 => Overwritten(s, published[s]) \/ Whole(s, published[s])

LEMMA LaterStep ==
  ASSUME InvOfBundle, Later, [Next]_vars
  PROVE  Later'
<1>1. run \in 0..MaxRuns /\ MaxRuns \in Nat /\ published \in [Scenarios -> 0..MaxRuns]
  BY BoundAssumption DEF InvOfBundle, TypeOK
<1>2. CASE Begin
  <2>1. run' = run + 1 /\ published' = published
    BY <1>2 DEF Begin, history
  <2> QED BY <1>1, <2>1 DEF Later
<1>3. CASE UpdateIndex
  <2>1. /\ pc = "index" /\ pc' \notin Working /\ run' = run
        /\ published' \in {published, [published EXCEPT ![scenario] = run]}
    BY <1>3 DEF UpdateIndex, Fails, Goto, options, Working
  <2>2. ASSUME NEW s \in Scenarios PROVE published'[s] <= run
    BY <1>1, <2>1 DEF Later
  <2> QED BY <2>1, <2>2 DEF Later
<1>4. CASE WriteMember \/ WroteAll \/ Abandon \/ Validate \/ SaveValidation \/ Decide \/ UNCHANGED vars
  <2>1. UNCHANGED <<run, published>> /\ (pc' \in Working => pc \in Working)
    BY <1>4 DEF WriteMember, WroteAll, Abandon, Validate, SaveValidation, Decide,
                Fails, Goto, options, history, vars, Working
  <2> QED BY <2>1 DEF Later
<1> QED BY <1>2, <1>3, <1>4 DEF Next

\* A step that does not touch the directory of a scenario.
LEMMA KeepsStanding ==
  ASSUME NEW s \in Scenarios, Standing(s), bundle'[s] = bundle[s], published'[s] = published[s]
  PROVE  Standing(s)'
<1>1. /\ Overwritten(s, published[s]) <=> Overwritten(s, published[s])'
      /\ Whole(s, published[s]) <=> Whole(s, published[s])'
  BY DEF Overwritten, Whole, Matches
<1> QED BY <1>1 DEF Standing

LEMMA StandingStep ==
  ASSUME InvOfBundle, Later, \A s \in Scenarios : Standing(s), [Next]_vars
  PROVE  \A s \in Scenarios : Standing(s)'
<1>0. /\ TypeOK /\ Progress /\ Verdict /\ scenario \in Scenarios
      /\ bundle \in [Scenarios -> [Members -> Content \cup {None}]]
      /\ published \in [Scenarios -> 0..MaxRuns] /\ MaxRuns \in Nat
  BY BoundAssumption DEF InvOfBundle, TypeOK
<1>1. CASE WriteMember \/ SaveValidation
  <2>1. /\ pc \in Working /\ run \in 1..MaxRuns /\ UNCHANGED <<run, published>>
    BY <1>0, <1>1 DEF WriteMember, SaveValidation, Fails, Goto, options, history, Progress, Working
  <2>2. \/ bundle' = bundle
        \/ \E m \in Members, whole \in BOOLEAN, marked \in BOOLEAN : Put(m, whole, marked)
    <3>1. CASE WriteMember
      BY <1>0, <3>1, MemberTypes DEF WriteMember
    <3>2. CASE SaveValidation
      <4>1. Validation \in Members
        BY DEF Members
      <4> QED BY <3>2, <4>1 DEF SaveValidation
    <3> QED BY <1>1, <3>1, <3>2
  <2>3. CASE bundle' = bundle
    BY <2>1, <2>3, KeepsStanding
  <2>4. ASSUME NEW m \in Members, NEW whole \in BOOLEAN, NEW marked \in BOOLEAN,
               Put(m, whole, marked)
        PROVE  \A s \in Scenarios : Standing(s)'
    <3>1. /\ bundle'[scenario][m] = [run |-> run, whole |-> whole, marked |-> marked]
          /\ bundle'[scenario][m] # None
          /\ \A s \in Scenarios : s # scenario => bundle'[s] = bundle[s]
      BY <1>0, <2>1, <2>4, PutTypes DEF Put
    <3>2. bundle'[scenario][m].run = run /\ published'[scenario] = published[scenario]
      BY <2>1, <3>1
    <3>3. published[scenario] < run
      BY <1>0, <2>1 DEF Later
    <3>4. run > published'[scenario]
      BY <1>0, <2>1, <3>2, <3>3
    <3>5. ASSUME NEW s \in Scenarios, s = scenario PROVE Standing(s)'
      <4>1. bundle'[s][m] # None /\ bundle'[s][m].run > published'[s]
        BY <3>1, <3>2, <3>4, <3>5
      <4>2. \E n \in Members : bundle'[s][n] # None /\ bundle'[s][n].run > published'[s]
        BY <4>1
      <4> QED BY <4>2 DEF Standing, Overwritten
    <3>6. ASSUME NEW s \in Scenarios, s # scenario PROVE Standing(s)'
      BY <2>1, <3>1, <3>6, KeepsStanding
    <3> QED BY <3>5, <3>6
  <2> QED BY <2>2, <2>3, <2>4
<1>2. CASE UpdateIndex /\ published' # published
  <2>1. /\ pc = "index" /\ bundle' = bundle
        /\ published' = [published EXCEPT ![scenario] = run]
    BY <1>2 DEF UpdateIndex, Fails, Goto
  <2>2. InSeq(CoreMembers) \subseteq InSeq(Plan)
    BY PlanFacts DEF PlanIsSound
  <2>3. \A m \in InSeq(CoreMembers) \cup {Validation} : Own(m)
    BY <1>0, <2>1, <2>2 DEF Progress, Checked
  <2>4. Matches(scenario) = {}
    BY <1>0, <2>1 DEF Verdict
  <2>5. Whole(scenario, run)
    BY <2>3, <2>4 DEF Whole, Own, Files
  <2>6. published'[scenario] = run
    BY <1>0, <2>1
  <2>7. ASSUME NEW s \in Scenarios, s = scenario PROVE Standing(s)'
    <3>1. Whole(s, run) /\ published'[s] = run /\ bundle' = bundle
      BY <2>1, <2>5, <2>6, <2>7
    <3> QED BY <3>1 DEF Standing, Whole, Matches
  <2>8. ASSUME NEW s \in Scenarios, s # scenario PROVE Standing(s)'
    <3>1. published'[s] = published[s] /\ bundle'[s] = bundle[s]
      BY <1>0, <2>1, <2>8
    <3> QED BY <3>1, KeepsStanding
  <2> QED BY <2>7, <2>8
<1>3. CASE ~(WriteMember \/ SaveValidation) /\ published' = published
  <2>1. bundle' = bundle
    BY <1>3 DEF Next, vars, disk, Begin, WroteAll, Abandon, Validate, Decide, UpdateIndex
  <2> QED BY <1>3, <2>1, KeepsStanding
<1>4. published' # published => WriteMember \/ SaveValidation \/ UpdateIndex
  BY DEF Next, vars, history, Begin, WroteAll, Abandon, Validate, Decide, Fails
<1> QED BY <1>1, <1>2, <1>3, <1>4

\* What holds of the directories of published scenarios holds of the index's entries.
LEMMA EntriesStand ==
  ASSUME EntriesArePublished, \A s \in Scenarios : Standing(s)
  PROVE  EntriesVouch
<1> SUFFICES ASSUME index # Torn, NEW entry \in index
             PROVE  \/ Overwritten(entry.scenario, entry.run)
                    \/ Whole(entry.scenario, entry.run)
  BY DEF EntriesVouch, Whole
<1>1. PICK s \in Scenarios : published[s] # 0 /\ entry = [scenario |-> s, run |-> published[s]]
  BY DEF EntriesArePublished
<1>2. entry.scenario = s /\ entry.run = published[s]
  BY <1>1
<1> QED BY <1>1, <1>2 DEF Standing

IndexInv == EntriesArePublished /\ Later /\ \A s \in Scenarios : Standing(s)

\* updateEvidenceIndex (evidence.go) keeps the index equal to the last successful
\* publication of each scenario through any failures, or leaves it unreadable, and
\* only a later run of the same scenario takes away the bundle that an entry names.
THEOREM IndexNamesLastSuccess == Spec => []IndexTracksPublished
<1>1. Init => IndexInv
  <2> SUFFICES ASSUME Init PROVE IndexInv
    OBVIOUS
  <2>1. EntriesArePublished
    BY DEF Init, EntriesArePublished
  <2>2. \A s \in Scenarios : published[s] = 0 /\ run = 0 /\ pc \notin Working
    BY DEF Init, Working
  <2> QED BY <2>1, <2>2 DEF IndexInv, Later, Standing
<1>2. InvOfBundle /\ IndexInv /\ [Next]_vars => IndexInv'
  <2> SUFFICES ASSUME InvOfBundle, IndexInv, [Next]_vars PROVE IndexInv'
    OBVIOUS
  <2>1. EntriesArePublished'
    BY EntriesStep DEF IndexInv
  <2>2. Later'
    BY LaterStep DEF IndexInv
  <2>3. \A s \in Scenarios : Standing(s)'
    BY StandingStep DEF IndexInv
  <2> QED BY <2>1, <2>2, <2>3 DEF IndexInv
<1>3. IndexInv => IndexTracksPublished
  BY EntriesStand DEF IndexInv, IndexTracksPublished
<1> QED BY <1>1, <1>2, <1>3, BundleInvariant, PTL DEF Spec

-----------------------------------------------------------------------------
(* Rejections.                                                             *)

\* A directory in which no publication has failed since the last success has nothing
\* in it that would fail the next one: an optional part is complete or being written,
\* and a marker is only in what this run wrote, or in the validation that quotes it.
NoLeftovers ==
  \A s \in Scenarios \ flawed :
    /\ \A f \in dirs[s] :
         \/ \A m \in Parts(f) : bundle[s][m] # None
         \/ s = scenario /\ pc = "member" /\ f \in wanted
    /\ \A m \in Members : Marked(s, m) =>
         /\ s = scenario /\ pc \in {"member", "validate", "save", "decide"}
         /\ m \in InSeq(Plan) \/ (pc = "decide" /\ m = Validation)

\* A success leaves no marker, so what has one is from a later run.
MarksAreLater ==
  \A s \in Scenarios, m \in Members : Marked(s, m) => bundle[s][m].run > published[s]

\* A step that neither writes files nor moves to another scenario.
LEMMA KeepsLeftovers ==
  ASSUME NoLeftovers, flawed \subseteq flawed',
         UNCHANGED <<bundle, dirs, scenario, wanted>>,
         pc = "member" /\ pc' # pc =>
           \A f \in wanted \cap dirs[scenario] : \A m \in Parts(f) : Files[m] # None,
         pc' # pc /\ scenario \notin flawed' =>
           /\ pc' \in {"member", "validate", "save", "decide"} \/ Matches(scenario) = {}
           /\ pc # "decide" \/ Matches(scenario) = {}
  PROVE  NoLeftovers'
<1>1. Plan' = Plan /\ InSeq(Plan)' = InSeq(Plan)
  BY SamePlan DEF InSeq
<1>2. SUFFICES ASSUME NEW s \in Scenarios, s \notin flawed'
               PROVE  /\ \A f \in dirs[s] :
                           \/ \A m \in Parts(f) : bundle[s][m] # None
                           \/ s = scenario /\ pc' = "member" /\ f \in wanted
                      /\ \A m \in Members : Marked(s, m) =>
                           /\ s = scenario /\ pc' \in {"member", "validate", "save", "decide"}
                           /\ m \in InSeq(Plan) \/ (pc' = "decide" /\ m = Validation)
  BY <1>1 DEF NoLeftovers, Marked
<1>3. s \notin flawed
  BY <1>2
<1>4. CASE pc' = pc
  BY <1>3, <1>4 DEF NoLeftovers
<1>5. CASE pc' # pc
  <2>1. \A f \in dirs[s] : \A m \in Parts(f) : bundle[s][m] # None
    BY <1>3, <1>5 DEF NoLeftovers, Files
  <2>2. ASSUME NEW m \in Members, Marked(s, m)
        PROVE  /\ s = scenario /\ pc' \in {"member", "validate", "save", "decide"}
               /\ m \in InSeq(Plan)
    <3>1. s = scenario /\ (m \in InSeq(Plan) \/ pc = "decide")
      BY <1>3, <2>2 DEF NoLeftovers
    <3>2. Matches(scenario) # {}
      BY <2>2, <3>1 DEF Marked, Matches
    <3> QED BY <1>2, <1>5, <3>1, <3>2
  <2> QED BY <2>1, <2>2
<1> QED BY <1>4, <1>5

LEMMA LeftoversStep ==
  ASSUME InvOfBundle, InvOfBundle', NoLeftovers, [Next]_vars
  PROVE  NoLeftovers'
<1>0. /\ TypeOK /\ Progress /\ Verdict
      /\ bundle \in [Scenarios -> [Members -> Content \cup {None}]]
      /\ dirs \in [Scenarios -> SUBSET Optional] /\ scenario \in Scenarios
  BY DEF InvOfBundle, TypeOK
<1>1. CASE Begin
  <2>1. /\ pc \notin {"member", "validate", "save", "decide"}
        /\ UNCHANGED <<bundle, dirs, flawed>>
    BY <1>1 DEF Begin, disk, history
  <2> QED BY <2>1 DEF NoLeftovers, Marked
<1>2. CASE WriteMember
  <2>1. /\ pc = "member" /\ run \in 1..MaxRuns
        /\ Member \in InSeq(Plan) /\ Member \in Members
        /\ UNCHANGED <<run, scenario, wanted>>
        /\ dirs' = [dirs EXCEPT ![scenario] = @ \cup DirOf(Member)]
    BY <1>0, <1>2, MemberTypes DEF WriteMember, Fails, Goto, options, Progress
  <2>2. InSeq(Plan)' = InSeq(Plan) /\ DirOf(Member) \subseteq wanted
    BY <2>1, SamePlan, PlanFacts DEF InSeq, PlanIsSound
  <2>3. ASSUME NEW s \in Scenarios, s # scenario
        PROVE  bundle'[s] = bundle[s] /\ dirs'[s] = dirs[s]
    BY <1>0, <1>2, <2>1, <2>3 DEF WriteMember, Put
  <2>4. CASE pc' = "member"
    <3>1. /\ flawed' = flawed
          /\ \E marked \in BOOLEAN : Put(Member, TRUE, marked)
      BY <1>2, <2>4 DEF WriteMember, Fails, Goto, history
    <3>2. \A m \in Members : m # Member => bundle'[scenario][m] = bundle[scenario][m]
      BY <1>0, <2>1, <3>1, PutTypes
    <3>3. bundle'[scenario][Member] # None
      BY <1>0, <2>1, <3>1, PutTypes
    <3>4. SUFFICES ASSUME NEW s \in Scenarios, s \notin flawed
                   PROVE  /\ \A f \in dirs'[s] :
                               \/ \A m \in Parts(f) : bundle'[s][m] # None
                               \/ s = scenario /\ f \in wanted
                          /\ \A m \in Members :
                               bundle'[s][m] # None /\ bundle'[s][m].marked =>
                                 s = scenario /\ m \in InSeq(Plan)
      BY <2>1, <2>2, <2>4, <3>1 DEF NoLeftovers, Marked
    <3>5. CASE s # scenario
      BY <2>1, <2>3, <3>4, <3>5 DEF NoLeftovers, Marked
    <3>6. CASE s = scenario
      <4>1. ASSUME NEW f \in dirs'[s], f \notin wanted, NEW m \in Parts(f)
            PROVE  bundle'[s][m] # None
        <5>1. f \in dirs[s]
          BY <1>0, <2>1, <2>2, <3>6, <4>1
        <5>2. bundle[s][m] # None
          BY <3>4, <4>1, <5>1 DEF NoLeftovers
        <5>3. m \in Members
          BY <4>1 DEF Parts, Members
        <5> QED BY <3>2, <3>3, <3>6, <5>2, <5>3
      <4>2. ASSUME NEW m \in Members, bundle'[s][m] # None, bundle'[s][m].marked
            PROVE  m \in InSeq(Plan)
        BY <2>1, <3>2, <3>4, <3>6, <4>2 DEF NoLeftovers, Marked
      <4> QED BY <3>6, <4>1, <4>2
    <3> QED BY <3>5, <3>6
  <2>5. CASE pc' = "failed"
    <3>1. flawed' = flawed \cup {scenario}
      BY <1>2, <2>5 DEF WriteMember, Fails, Goto
    <3> QED BY <2>1, <2>3, <3>1 DEF NoLeftovers, Marked
  <2> QED BY <1>2, <2>4, <2>5 DEF WriteMember, Fails, Goto
<1>3. CASE WroteAll
  <2>1. /\ pc = "member" /\ pc' = "validate"
        /\ UNCHANGED <<bundle, dirs, run, scenario, wanted, flawed>>
    BY <1>3 DEF WroteAll, Goto, disk, options, history
  <2>2. \A m \in InSeq(Plan)' : Own(m)'
    BY <2>1 DEF InvOfBundle, Progress, Checked
  <2>3. \A m \in InSeq(Plan) : Own(m)
    BY <2>1, <2>2, KeepsBundle
  <2>4. \A f \in wanted \cap dirs[scenario] : \A m \in Parts(f) : Files[m] # None
    BY <1>0, <2>3, PlanFacts DEF PlanIsSound, Own
  <2> QED BY <2>1, <2>4, KeepsLeftovers
<1>4. CASE Abandon
  <2>1. /\ pc' = "failed" /\ flawed' = flawed \cup {scenario}
        /\ UNCHANGED <<bundle, dirs>>
    BY <1>4 DEF Abandon, Fails, Goto, disk
  <2> QED BY <2>1 DEF NoLeftovers, Marked
<1>5. CASE Validate
  <2>1. /\ pc = "validate" /\ pc' = "save"
        /\ UNCHANGED <<bundle, dirs, scenario, wanted, flawed>>
    BY <1>5 DEF Validate, Goto, disk, options, history
  <2> QED BY <2>1, KeepsLeftovers
<1>6. CASE SaveValidation
  <2>1. /\ pc = "save" /\ pc' \in {"decide", "failed"} /\ Validation \in Members
        /\ UNCHANGED <<run, scenario, wanted, dirs>> /\ run \in 1..MaxRuns
    BY <1>0, <1>6 DEF SaveValidation, Fails, Goto, options, Members, Progress
  <2>2. InSeq(Plan)' = InSeq(Plan)
    BY <2>1, SamePlan DEF InSeq
  <2>3. ASSUME NEW s \in Scenarios, s # scenario
        PROVE  bundle'[s] = bundle[s]
    BY <1>0, <1>6, <2>3 DEF SaveValidation, Put
  <2>4. CASE pc' = "decide"
    <3>1. /\ flawed' = flawed
          /\ \E marked \in BOOLEAN : Put(Validation, TRUE, marked)
      BY <1>6, <2>4 DEF SaveValidation, Fails, Goto, history
    <3>2. /\ \A m \in Members : m # Validation => bundle'[scenario][m] = bundle[scenario][m]
          /\ bundle'[scenario][Validation] # None
      BY <1>0, <2>1, <3>1, PutTypes
    <3>3. SUFFICES ASSUME NEW s \in Scenarios, s \notin flawed
                   PROVE  /\ \A f \in dirs[s] : \A m \in Parts(f) : bundle'[s][m] # None
                          /\ \A m \in Members :
                               bundle'[s][m] # None /\ bundle'[s][m].marked =>
                                 s = scenario /\ (m \in InSeq(Plan) \/ m = Validation)
      BY <2>1, <2>2, <2>4, <3>1 DEF NoLeftovers, Marked
    <3>4. /\ \A f \in dirs[s] : \A m \in Parts(f) : bundle[s][m] # None
          /\ \A m \in Members : Marked(s, m) => s = scenario /\ m \in InSeq(Plan)
      BY <2>1, <3>3 DEF NoLeftovers
    <3>5. \A f : Parts(f) \subseteq Members
      BY DEF Parts, Members
    <3>6. CASE s # scenario
      BY <2>3, <3>4, <3>6 DEF Marked
    <3>7. CASE s = scenario
      BY <3>2, <3>4, <3>5, <3>7 DEF Marked
    <3> QED BY <3>6, <3>7
  <2>5. CASE pc' = "failed"
    <3>1. flawed' = flawed \cup {scenario}
      BY <1>6, <2>5 DEF SaveValidation, Fails, Goto
    <3> QED BY <2>1, <2>3, <3>1 DEF NoLeftovers, Marked
  <2> QED BY <2>1, <2>4, <2>5
<1>7. CASE Decide
  <2>1. /\ pc = "decide" /\ UNCHANGED <<bundle, dirs, scenario, wanted>>
        /\ \/ passed /\ pc' = "index" /\ flawed' = flawed
           \/ pc' = "failed" /\ flawed' = flawed \cup {scenario}
    BY <1>7 DEF Decide, MayIndex, Fails, Goto, disk, options, history
  <2>2. passed => Matches(scenario) = {}
    BY <1>0, <2>1 DEF Verdict
  <2> QED BY <2>1, <2>2, KeepsLeftovers
<1>8. CASE UpdateIndex
  <2>1. /\ pc = "index" /\ pc' \in {"published", "failed"}
        /\ flawed \ {scenario} \subseteq flawed'
        /\ UNCHANGED <<bundle, dirs, scenario, wanted>>
    BY <1>8 DEF UpdateIndex, Fails, Goto, options
  <2>2. Missing(scenario) = {} /\ Matches(scenario) = {}
    BY <1>0, <2>1 DEF Verdict
  <2>3. SUFFICES ASSUME NEW s \in Scenarios, s \notin flawed'
                 PROVE  /\ \A f \in dirs[s] : \A m \in Parts(f) : bundle[s][m] # None
                        /\ \A m \in Members : ~Marked(s, m)
    BY <2>1 DEF NoLeftovers, Marked
  <2>4. CASE s = scenario
    BY <2>2, <2>4 DEF Missing, Required, Matches, Marked
  <2>5. CASE s # scenario
    <3>1. s \notin flawed
      BY <2>1, <2>3, <2>5
    <3> QED BY <2>1, <2>5, <3>1 DEF NoLeftovers
  <2> QED BY <2>4, <2>5
<1>9. CASE UNCHANGED vars
  <2>1. UNCHANGED <<bundle, dirs, scenario, wanted, pc, flawed>>
    BY <1>9 DEF vars, disk, options, history
  <2> QED BY <2>1, KeepsLeftovers
<1> QED BY <1>1, <1>2, <1>3, <1>4, <1>5, <1>6, <1>7, <1>8, <1>9 DEF Next

LEMMA MarksStep ==
  ASSUME InvOfBundle, Later, MarksAreLater, [Next]_vars
  PROVE  MarksAreLater'
<1>0. /\ TypeOK /\ Progress /\ Verdict /\ scenario \in Scenarios
      /\ bundle \in [Scenarios -> [Members -> Content \cup {None}]]
      /\ published \in [Scenarios -> 0..MaxRuns] /\ MaxRuns \in Nat
  BY BoundAssumption DEF InvOfBundle, TypeOK
<1>1. SUFFICES ASSUME NEW s \in Scenarios, NEW n \in Members, Marked(s, n)'
               PROVE  bundle'[s][n].run > published'[s]
  BY DEF MarksAreLater
<1>2. CASE WriteMember \/ SaveValidation
  <2>1. /\ pc \in Working /\ run \in 1..MaxRuns /\ published' = published
    BY <1>0, <1>2 DEF WriteMember, SaveValidation, Fails, Goto, options, history, Progress, Working
  <2>2. published[scenario] < run
    BY <1>0, <2>1 DEF Later
  <2>3. CASE bundle' = bundle
    BY <1>1, <2>1, <2>3 DEF MarksAreLater, Marked
  <2>4. ASSUME NEW m \in Members, NEW whole \in BOOLEAN, NEW marked \in BOOLEAN,
               Put(m, whole, marked)
        PROVE  bundle'[s][n].run > published'[s]
    <3>1. /\ bundle'[scenario][m] = [run |-> run, whole |-> whole, marked |-> marked]
          /\ s # scenario \/ n # m => bundle'[s][n] = bundle[s][n]
      BY <1>0, <2>1, <2>4, PutTypes
    <3>2. bundle'[scenario][m].run = run
      BY <3>1
    <3>3. CASE s = scenario /\ n = m
      BY <1>0, <2>1, <2>2, <3>2, <3>3
    <3>4. CASE s # scenario \/ n # m
      BY <1>1, <2>1, <3>1, <3>4 DEF MarksAreLater, Marked
    <3> QED BY <3>3, <3>4
  <2>5. CASE WriteMember
    BY <1>0, <2>3, <2>4, <2>5, MemberTypes DEF WriteMember
  <2>6. CASE SaveValidation
    <3>1. Validation \in Members
      BY DEF Members
    <3> QED BY <2>4, <2>6, <3>1 DEF SaveValidation
  <2> QED BY <1>2, <2>5, <2>6
<1>3. CASE UpdateIndex
  <2>1. /\ pc = "index" /\ bundle' = bundle
        /\ published' \in {published, [published EXCEPT ![scenario] = run]}
    BY <1>3 DEF UpdateIndex, Fails, Goto
  <2>2. Matches(scenario) = {}
    BY <1>0, <1>3 DEF Verdict, UpdateIndex, Fails, Goto
  <2>3. s # scenario
    BY <1>1, <2>1, <2>2 DEF Marked, Matches
  <2>4. published'[s] = published[s]
    BY <1>0, <2>1, <2>3
  <2> QED BY <1>1, <2>1, <2>4 DEF MarksAreLater, Marked
<1>4. CASE Begin \/ WroteAll \/ Abandon \/ Validate \/ Decide \/ UNCHANGED vars
  <2>1. bundle' = bundle /\ published' = published
    BY <1>4 DEF Begin, WroteAll, Abandon, Validate, Decide, Fails, vars, disk, history
  <2> QED BY <1>1, <2>1 DEF MarksAreLater, Marked
<1> QED BY <1>2, <1>3, <1>4 DEF Next

LEMMA ExplainedStep ==
  ASSUME InvOfBundle, NoLeftovers, MarksAreLater, RejectionExplained, [Next]_vars
  PROVE  RejectionExplained'
<1>0. /\ TypeOK /\ Progress
      /\ bundle \in [Scenarios -> [Members -> Content \cup {None}]]
      /\ dirs \in [Scenarios -> SUBSET Optional] /\ scenario \in Scenarios
  BY DEF InvOfBundle, TypeOK
<1>1. CASE Begin \/ WriteMember \/ WroteAll \/ Abandon \/ SaveValidation \/ Decide \/ UpdateIndex
  <2>1. pc' # "save"
    BY <1>1 DEF Begin, WriteMember, WroteAll, Abandon, SaveValidation, Decide, UpdateIndex,
                Fails, Goto
  <2> QED BY <2>1 DEF RejectionExplained
<1>2. CASE Validate
  <2>1. /\ pc = "validate"
        /\ passed' = (Missing(scenario) = {} /\ Matches(scenario) = {})
        /\ UNCHANGED <<bundle, dirs, run, scenario, wanted, published, flawed>>
    BY <1>2 DEF Validate, Goto, disk, options, history
  <2>2. InSeq(Plan)' = InSeq(Plan) /\ Matches(scenario)' = Matches(scenario)
    BY <2>1, KeepsBundle
  <2>3. \A m \in InSeq(Plan) : Files[m] # None
    BY <1>0, <2>1 DEF Progress, Checked, Own
  <2>4. ASSUME Missing(scenario) # {}
        PROVE  /\ scenario \in flawed
               /\ \E f \in dirs[scenario] \ wanted : \E m \in Parts(f) : Files[m] = None
    <3>1. PICK m \in Required(scenario) : Files[m] = None
      BY <2>4 DEF Missing, Files
    <3>2. m \notin InSeq(CoreMembers)
      BY <2>3, <3>1, PlanFacts DEF PlanIsSound
    <3>3. PICK f \in dirs[scenario] : m \in Parts(f)
      BY <3>1, <3>2 DEF Required
    <3>4. f \in Optional
      BY <1>0
    <3>5. f \notin wanted
      BY <2>3, <3>1, <3>3, <3>4, PlanFacts DEF PlanIsSound
    <3>6. scenario \in flawed
      BY <1>0, <2>1, <3>1, <3>3 DEF NoLeftovers, Files
    <3> QED BY <3>1, <3>3, <3>5, <3>6
  <2>5. ASSUME Matches(scenario) # {}
        PROVE  \/ \E m \in InSeq(Plan) : Files[m].marked
               \/ /\ scenario \in flawed
                  /\ \E m \in Matches(scenario) \ InSeq(Plan) : Files[m].run > published[scenario]
    <3>1. PICK m \in Matches(scenario) : TRUE
      BY <2>5
    <3>2. m \in Members /\ Marked(scenario, m)
      BY <3>1 DEF Matches, Marked
    <3>3. Files[m].marked /\ Files[m].run > published[scenario]
      BY <1>0, <3>2 DEF MarksAreLater, Marked, Files
    <3>4. m \in InSeq(Plan) \/ scenario \in flawed
      BY <1>0, <2>1, <3>2 DEF NoLeftovers
    <3> QED BY <3>1, <3>3, <3>4
  <2>6. CASE passed'
    BY <2>6 DEF RejectionExplained
  <2>7. CASE ~passed'
    <3>1. Missing(scenario) # {} \/ Matches(scenario) # {}
      BY <2>1, <2>7
    <3>2. Files' = Files
      BY <2>1 DEF Files
    <3> QED BY <2>1, <2>2, <2>4, <2>5, <3>1, <3>2 DEF RejectionExplained
  <2> QED BY <2>6, <2>7
<1>3. CASE UNCHANGED vars
  <2>1. UNCHANGED <<bundle, dirs, run, scenario, wanted, pc, passed, published, flawed>>
    BY <1>3 DEF vars, disk, options, history
  <2>2. InSeq(Plan)' = InSeq(Plan) /\ Matches(scenario)' = Matches(scenario) /\ Files' = Files
    BY <2>1, KeepsBundle DEF Files
  <2> QED BY <2>1, <2>2 DEF RejectionExplained
<1> QED BY <1>1, <1>2, <1>3 DEF Next

\* validateBundleForPublication (evidence.go) rejects a bundle only for a marker in
\* what the run wrote, or for what a run that failed since the scenario's last success
\* has left behind: a sequence of successes never blocks the next one.
THEOREM RejectionsAreExplained == Spec => []RejectionExplained
<1> DEFINE Inv == Later /\ NoLeftovers /\ MarksAreLater /\ RejectionExplained
<1>1. Init => Inv
  BY DEF Init, Later, Working, NoLeftovers, MarksAreLater, Marked, RejectionExplained
<1>2. InvOfBundle /\ InvOfBundle' /\ Inv /\ [Next]_vars => Inv'
  BY LaterStep, LeftoversStep, MarksStep, ExplainedStep
<1>3. Inv => RejectionExplained
  OBVIOUS
<1> HIDE DEF Inv
<1> QED BY <1>1, <1>2, <1>3, BundleInvariant, PTL DEF Spec
=============================================================================
