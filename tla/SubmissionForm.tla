--------------------------- MODULE SubmissionForm ---------------------------
(***************************************************************************)
(* What POST /v1/analyses makes of a request before it touches any table:  *)
(* submitAnalysis, the multipart loop and the checks of createAndRunJob,   *)
(* as an operator from a request to a verdict and a submission.  The loop  *)
(* returns at the first part it cannot take, and a later part of the same  *)
(* name replaces an earlier one.                                           *)
(*                                                                         *)
(* Texts are reduced to what the code tells apart: blank, supported,       *)
(* unknown, or longer than multipartTextFieldLimit.  A body that is not    *)
(* closed by its boundary ends in its last part, which is then torn, or    *)
(* after it.                                                               *)
(***************************************************************************)
EXTENDS Integers, Sequences, SequencesExt

CONSTANTS
  Inputs,        \* contents of an uploaded file
  NoInput,       \* none of them
  Size,          \* their lengths
  MaxInputSize   \* PARSERGO_MAX_UPLOAD_BYTES

ASSUME SizeAssumption == NoInput \notin Inputs /\ Size \in [Inputs -> Nat] /\ MaxInputSize \in Nat \ {0}

Texts     == {"", "supported", "unknown", "too long"}
FilePart  == [name : {"file"}, filename : {"", "safe", "unsafe"}, input : Inputs, torn : BOOLEAN]
TextPart  == [name : {"format", "profile"}, text : Texts, torn : BOOLEAN]
OtherPart == [name : {"other"}, torn : BOOLEAN]
Part      == FilePart \cup TextPart \cup OtherPart

\* What may arrive; a length of -1 is an unknown one.
Requests ==
  {form \in [contentType : {"", "malformed", "multipart", "json", "other"}, length : Int,
             boundary : BOOLEAN, closed : BOOLEAN, wellFormed : BOOLEAN, parts : Seq(Part)] :
     \A i \in DOMAIN form.parts : form.parts[i].torn => ~form.closed /\ i = Len(form.parts)}

Rejections == {"unsupported_media_type", "invalid_input", "input_too_large",
               "unsafe_filename", "validation_failed"}

\* inputData before a file part was read, and the defaults of the other fields.
Start == [verdict |-> "open", input |-> NoInput, format |-> "supported", profile |-> "supported"]

Stop(read, rejection) == [read EXCEPT !.verdict = rejection]

\* Mutated form of TooLarge: the limit itself refused, LimitedReader one byte short.
AtLimit(input) == Size[input] >= MaxInputSize

\* The LimitedReader of MaxInputSize + 1 bytes is used up.
TooLarge(input) == Size[input] >= MaxInputSize + 1

\* A limit is reached before the end of a body that is cut short.
ReadFile(read, part) ==
  CASE part.filename = "unsafe" -> Stop(read, "unsafe_filename")
    [] part.filename # "unsafe" /\ TooLarge(part.input) -> Stop(read, "input_too_large")
    [] part.filename # "unsafe" /\ ~TooLarge(part.input) /\ part.torn -> Stop(read, "invalid_input")
    [] OTHER -> [read EXCEPT !.input = part.input]

ReadText(read, part) ==
  CASE part.text = "too long" -> Stop(read, "input_too_large")
    [] part.text # "too long" /\ part.torn -> Stop(read, "invalid_input")
    [] OTHER -> [read EXCEPT ![part.name] = part.text]

ReadPart(read, part) ==
  CASE read.verdict # "open"             -> read
    [] read.verdict = "open" /\ part.name = "file" -> ReadFile(read, part)
    [] read.verdict = "open" /\ part.name \in {"format", "profile"} -> ReadText(read, part)
    [] OTHER                             -> read

ReadParts(parts) == FoldLeft(ReadPart, Start, parts)

\* A blank text stands for the default.
Supported(text) == text \in {"", "supported"}

CreateAndRun(read) ==
  IF Supported(read.format) /\ Supported(read.profile)
    THEN [read EXCEPT !.verdict = "ok"]
    ELSE Stop(read, "validation_failed")

MultipartSubmission(form) ==
  LET read == ReadParts(form.parts) IN
  CASE ~form.boundary -> Stop(Start, "invalid_input")
    [] form.boundary /\ read.verdict # "open" -> read
    [] form.boundary /\ read.verdict = "open" /\ ~form.closed -> Stop(read, "invalid_input")
    [] form.boundary /\ read.verdict = "open" /\ form.closed ->
         IF read.input = NoInput \/ Size[read.input] = 0
           THEN Stop(read, "validation_failed")
           ELSE CreateAndRun(read)

\* A well-formed JSON body is told that its submission is not implemented.
JSONSubmission(form) ==
  Stop(Start, IF form.wellFormed THEN "validation_failed" ELSE "invalid_input")

\* submitAnalysis, in the order of its checks; length is r.ContentLength.
Submit(form) ==
  CASE form.contentType = ""          -> Stop(Start, "unsupported_media_type")
    [] form.contentType = "malformed" -> Stop(Start, "invalid_input")
    [] form.contentType \notin {"", "malformed"} ->
         CASE form.length > MaxInputSize      -> Stop(Start, "input_too_large")
           [] form.length <= MaxInputSize     ->
                CASE form.contentType = "multipart" -> MultipartSubmission(form)
                  [] form.contentType = "json"      -> JSONSubmission(form)
                  [] OTHER                          -> Stop(Start, "unsupported_media_type")

-----------------------------------------------------------------------------
(* What a request has to be, said without the loop.                        *)

Acceptable(part) ==
  /\ part.name = "file" => part.filename # "unsafe" /\ Size[part.input] <= MaxInputSize
  /\ part.name \in {"format", "profile"} => part.text # "too long"

\* The last part of a name, or nothing.
LastOf(parts, name) ==
  LET named == {i \in DOMAIN parts : parts[i].name = name}
  IN  {parts[i] : i \in {j \in named : \A k \in named : k <= j}}

WellFormed(form) ==
  /\ form.contentType = "multipart" /\ form.boundary /\ form.closed
  /\ form.length <= MaxInputSize
  /\ \A i \in DOMAIN form.parts : Acceptable(form.parts[i])
  /\ \E file \in LastOf(form.parts, "file") : Size[file.input] > 0
  /\ \A name \in {"format", "profile"} :
       \A part \in LastOf(form.parts, name) : part.text \in {"", "supported"}
=============================================================================
