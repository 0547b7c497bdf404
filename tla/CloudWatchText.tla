--------------------------- MODULE CloudWatchText ---------------------------
(***************************************************************************)
(* MarshalForCloudWatch (internal/logging/entry.go): the JSON of a traffic *)
(* entry gets a newline behind its first field, the summary _q, which is   *)
(* found by scanning the bytes with two flags.                             *)
(*                                                                         *)
(* The summary holds the application's name and the path of the request,   *)
(* so any character.  Here a character is one of four that the scan tells  *)
(* apart, the encoder escapes two of them, and the rest of the entry is    *)
(* one more field.                                                         *)
(***************************************************************************)
EXTENDS Integers, Sequences, SequencesExt

CONSTANT MaxSummary   \* bound on the length of the summary

Character == {"quote", "backslash", "comma", "other"}

VARIABLES
    category,   \* the entry's, as it is given
    summary,    \* its summary
    body,       \* what json.Marshal makes of it
    phase,      \* "typing" (the summary grows), "scan" or "done"
    index,      \* the byte the scan looks at
    inString, escaped,
    cut         \* the newline follows this byte, 0 if there is none

vars == <<category, summary, body, phase, index, inString, escaped, cut>>

Init ==
    /\ category \in {"TRAFFIC", "HEALTH"}
    /\ summary = <<>>
    /\ body = <<>>
    /\ phase = "typing"
    /\ index = 1
    /\ inString = FALSE
    /\ escaped = FALSE
    /\ cut = 0

Type(c) ==
    /\ phase = "typing"
    /\ Len(summary) < MaxSummary
    /\ summary' = Append(summary, c)
    /\ UNCHANGED <<category, body, phase, index, inString, escaped, cut>>

\* A string as encoding/json writes it.
Escape(c) == IF c \in {"quote", "backslash"} THEN <<"backslash", c>> ELSE <<c>>
JSON(s)   == <<"quote">> \o FlattenSeq([i \in DOMAIN s |-> Escape(s[i])]) \o <<"quote">>

\* A field; its colon and a brace before it are other characters.
Field(s) == JSON(<<"other">>) \o <<"other">> \o JSON(s)

\* ensureEntry takes the summary from health entries and omitempty leaves it out.
Summary    == IF category = "HEALTH" THEN <<>> ELSE summary
FirstField == <<"other">> \o (IF Summary = <<>> THEN <<>> ELSE Field(Summary))

\* Health entries, and those without a summary, are left alone.
MarshalForCloudWatch ==
    /\ phase = "typing"
    /\ body' = FirstField \o (IF Summary = <<>> THEN <<>> ELSE <<"comma">>)
               \o Field(<<"other">>) \o <<"comma">> \o Field(<<"other">>) \o <<"other">>
    /\ phase' = IF Summary = <<>> THEN "done" ELSE "scan"
    /\ UNCHANGED <<category, summary, index, inString, escaped, cut>>

----------------------------------------------------------------------------
(* insertNewlineAfterSummary. *)

\* Mutant of Escapes: an escaped character is not skipped.
NeverEscapes(c) == FALSE

Escapes(c) == c = "backslash" /\ inString

\* One byte.
Scan ==
    /\ phase = "scan"
    /\ index =< Len(body)
    /\ LET c == body[index]
       IN  \/ escaped /\ escaped' = FALSE /\ UNCHANGED <<inString, cut, phase>>
           \/ ~escaped /\ c = "backslash" /\ escaped' = Escapes(c) /\ UNCHANGED <<inString, cut, phase>>
           \/ ~escaped /\ c = "quote" /\ inString' = ~inString /\ UNCHANGED <<escaped, cut, phase>>
           \/ ~escaped /\ c = "comma" /\ ~inString /\ cut' = index /\ phase' = "done" /\ UNCHANGED <<inString, escaped>>
           \/ ~escaped /\ (c = "other" \/ (c = "comma" /\ inString)) /\ UNCHANGED <<inString, escaped, cut, phase>>
    /\ index' = index + 1
    /\ UNCHANGED <<category, summary, body>>

Next == (\E c \in Character : Type(c)) \/ MarshalForCloudWatch \/ Scan

Spec == Init /\ [][Next]_vars

----------------------------------------------------------------------------
(* Properties. *)

\* SPEC.md: CloudWatch entries "insert a newline immediately after _q": never inside
\* the summary, whatever quotes, backslashes and commas it holds, and, so that the
\* text remains the same JSON, right behind the comma that follows it.  Health
\* entries have no _q and no newline.
NewlineAfterSummary ==
    /\ cut # 0 => cut = Len(FirstField) + 1 /\ body[cut] = "comma"
    /\ phase = "done" => (cut # 0 <=> category = "TRAFFIC" /\ summary # <<>>)
=============================================================================
