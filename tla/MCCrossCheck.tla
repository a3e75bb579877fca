---------------------------- MODULE MCCrossCheck ----------------------------
(* The instance of CrossCheck that TLC checks: inputs that compare equal, that *)
(* have more rows than a page, that the engine or the upload limit refuses, or *)
(* whose path a page does not give back.                                       *)
EXTENDS CrossCheck

CONSTANTS j1, j2, j3, plain, variant, long, broken, odd, large, huge, empty

MCInputs == {plain, variant, long, broken, odd, large, huge, empty}
MCJobIDs == {j1, j2, j3}
MCSize   == [i \in MCInputs |-> CASE i = empty -> 0 [] i = large -> 4 [] i = huge -> 5 [] OTHER -> 3]
MCLimit  == 4

Row(path, count) == [method |-> "GET", path |-> path, count |-> count]
Figures(rate, rows) == [total |-> 3, rate |-> rate, lines |-> 3, matched |-> 3, filtered |-> 0, rows |-> rows]

MCAnalysis ==
  [i \in MCInputs |->
     CASE i = plain   -> Figures(1501, <<Row("/a", 3)>>)
       [] i = variant -> Figures(1504, <<Row("/a", 3)>>)
       [] i = long    -> Figures(1501, <<Row("/a", 3), Row("/b", 2), Row("/c", 1)>>)
       [] i = odd     -> Figures(1501, <<Row("/a+nbsp", 3)>>)
       [] OTHER       -> Broken]

MCTrimmed == [p \in {"/a", "/b", "/c", "/a+nbsp"} |-> IF p = "/a+nbsp" THEN "/a" ELSE p]

MCSituations ==
  {<<plain, plain>>, <<plain, variant>>, <<long, plain>>, <<long, long>>, <<odd, odd>>,
   <<plain, broken>>, <<plain, large>>}

Form(type, length, boundary, closed, parts) ==
  [contentType |-> type, length |-> length, boundary |-> boundary, closed |-> closed,
   wellFormed |-> closed, parts |-> parts]

File(name, input, torn) == [name |-> "file", filename |-> name, input |-> input, torn |-> torn]

\* Up to three parts; only the last one of an unclosed body is torn.
Whole == {p \in FilePart : ~p.torn /\ p.input \in {plain, large, huge, empty}} \cup {p \in TextPart : ~p.torn}
           \cup {p \in OtherPart : ~p.torn}
Final == Whole \cup {[p EXCEPT !.torn = TRUE] : p \in Whole}

Bodies == {<<>>} \cup {<<p>> : p \in Final} \cup {<<p, q>> : p \in Whole, q \in Final}
            \cup {<<p, q, r>> : p \in Whole, q \in Whole, r \in {s \in Final : s.name # "profile"}}

Torn(parts) == parts # <<>> /\ parts[Len(parts)].torn

MCForms ==
  {Form("multipart", -1, TRUE, ~Torn(parts), parts) : parts \in Bodies}
    \cup {Form("multipart", length, boundary, FALSE, <<File("safe", plain, FALSE)>>)
            : length \in {3, 4, 5}, boundary \in BOOLEAN}
    \cup {Form(type, length, TRUE, closed, <<File("safe", plain, FALSE)>>)
            : type \in {"", "malformed", "multipart", "json", "other"}, length \in {4, 5}, closed \in BOOLEAN}

MCOtherForms == {Form("multipart", -1, TRUE, TRUE, <<File("safe", plain, FALSE)>>),
                 Form("multipart", -1, TRUE, TRUE, <<File("unsafe", plain, FALSE), File("safe", plain, FALSE)>>),
                 Form("multipart", -1, TRUE, TRUE, <<File("safe", broken, FALSE)>>)}
=============================================================================
