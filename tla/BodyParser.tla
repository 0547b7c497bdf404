----------------------------- MODULE BodyParser -----------------------------
(***************************************************************************)
(* ParseBody (internal/logging/entry.go): what the log entry shows of a    *)
(* captured body.  An XML body is read token by token; decodeXMLElement    *)
(* calls itself for every element, so the state is the stack of its calls. *)
(*                                                                         *)
(* A text is an atom, Blank if it is empty once trimmed; attributes are    *)
(* texts.  xml.Decoder is strict: an end tag always closes the innermost   *)
(* open element, anything else is an error token.  JSON and form bodies    *)
(* are decoded by libraries, here by their outcome.                        *)
(***************************************************************************)
EXTENDS Integers, Sequences, SequencesExt, Functions

CONSTANTS
    Name,        \* local names of elements
    Attributes,  \* the attributes an element may have: sequences of [name, value]
    Text,        \* texts
    Blank,       \* a text of white space
    MaxDepth,    \* maxXMLParseDepth
    MaxTokens    \* bound on the length of a document

DepthAssumption == MaxDepth \in Nat

VARIABLES
    media,       \* the media type: "json", "form", "xml" or "other"
    truncated,   \* the capture was cut off
    phase,       \* "begin", "prolog", "element" or "done"
    stack,       \* the calls of decodeXMLElement: [name, fields, text]
    result,      \* what ParseBody returns
    tokens,      \* how many tokens have been read
    \* The document read so far, for the properties: the open elements, outermost
    \* first, each with its attributes and its children in order.
    open

vars == <<media, truncated, phase, stack, result, tokens, open>>

Null   == [kind |-> "null"]
Raw    == [kind |-> "raw", mark |-> FALSE]
Marked == [kind |-> "raw", mark |-> TRUE]    \* with "...(truncated)"
Parsed == [kind |-> "parsed"]                \* by the JSON or the form decoder

Object(f) == [kind |-> "object", fields |-> f]
List(s)   == [kind |-> "list", items |-> s]
String(s) == [kind |-> "string", parts |-> s]  \* the parts joined by spaces

Init ==
    /\ media \in {"json", "form", "xml", "other"}
    /\ truncated \in BOOLEAN
    /\ phase = "begin"
    /\ stack = <<>>
    /\ result = Null
    /\ tokens = 0
    /\ open = <<>>

Return(value) ==
    /\ phase' = "done"
    /\ result' = value
    /\ UNCHANGED <<media, truncated, tokens, open>>

\* Mutant of FormatBodyRaw: the mark is forgotten.
Unmarked(cut) == Raw

FormatBodyRaw(cut) == IF cut THEN Marked ELSE Raw

\* An empty body is nil; a truncated one is never parsed.
ParseBody ==
    /\ phase = "begin"
    /\ \/ Return(Null) /\ UNCHANGED stack
       \/ (truncated \/ media = "other") /\ Return(FormatBodyRaw(truncated)) /\ UNCHANGED stack
       \/ ~truncated /\ media \in {"json", "form"} /\ \E r \in {Parsed, Raw} : Return(r) /\ UNCHANGED stack
       \/ /\ ~truncated /\ media = "xml"
          /\ phase' = "prolog"
          /\ UNCHANGED <<media, truncated, stack, result, tokens, open>>

----------------------------------------------------------------------------
(* parseXMLBody and decodeXMLElement. *)

\* The decoder's next token.
Token == phase \in {"prolog", "element"} /\ tokens < MaxTokens /\ tokens' = tokens + 1

\* A syntax error, or the end of the text: the raw body is logged instead.
DecodeFails ==
    /\ phase \in {"prolog", "element"}
    /\ stack' = <<>>
    /\ Return(FormatBodyRaw(FALSE))

\* Mutant of TooDeep: one level more.
OneLevelMore(depth) == depth > MaxDepth + 1

TooDeep(depth) == depth > MaxDepth

\* Keys differ in their first character: @, one of a name, or #.
Attribute(name) == <<"attribute", name>>
Child(name)     == <<"child", name>>
TextKey         == <<"text">>

SelectLast(attributes, k) ==
    Last(SelectSeq(attributes, LAMBDA a : Attribute(a.name) = k))

\* Only the local name counts: of two attributes that share it the later wins.
AttributeFields(attributes) ==
    [k \in {Attribute(attributes[i].name) : i \in DOMAIN attributes} |->
        String(<<SelectLast(attributes, k).value>>)]

\* A start tag: the root's after anything else, or a child's.
StartElement(name, attributes) ==
    /\ Token
    /\ IF TooDeep(Len(stack) + 1)
       THEN /\ stack' = <<>>
            /\ phase' = "done"
            /\ result' = FormatBodyRaw(FALSE)
       ELSE /\ stack' = Append(stack, [name |-> name, text |-> <<>>,
                   fields |-> AttributeFields(attributes)])
            /\ phase' = "element"
            /\ result' = result
    /\ open' = Append(open, [name |-> name, attributes |-> attributes, children |-> <<>>])
    /\ UNCHANGED <<media, truncated>>

\* Text outside the root and comments anywhere are skipped; blank text is nothing.
CharData(text) ==
    /\ Token
    /\ IF phase = "element"
       THEN /\ stack' = IF text = Blank THEN stack
                        ELSE [stack EXCEPT ![Len(stack)].text = Append(@, text)]
            /\ open' = [open EXCEPT ![Len(open)].children = Append(@, [text |-> text])]
       ELSE UNCHANGED <<stack, open>>
    /\ UNCHANGED <<media, truncated, phase, result>>

With(f, key, value) == [k \in DOMAIN f \cup {key} |-> IF k = key THEN value ELSE f[k]]

\* Mutant of appendXMLChild: the third child of a name makes a list in the list.
ListOfLists(fields, key, value) ==
    With(fields, key, IF key \in DOMAIN fields THEN List(<<fields[key], value>>) ELSE value)

\* Children of one name become a list from the second on.
appendXMLChild(fields, key, value) ==
    CASE key \notin DOMAIN fields -> With(fields, key, value)
      [] key \in DOMAIN fields /\ fields[key].kind # "list" -> With(fields, key, List(<<fields[key], value>>))
      [] OTHER -> With(fields, key, List(Append(fields[key].items, value)))

\* What an element becomes: its text alone, an object, or an empty object.
Element(frame) ==
    CASE frame.fields = <<>> /\ frame.text = <<>> -> Object(<<>>)
      [] frame.fields = <<>> /\ frame.text # <<>> -> String(frame.text)
      [] OTHER -> Object(IF frame.text = <<>> THEN frame.fields
                         ELSE With(frame.fields, TextKey, String(frame.text)))

\* The call for the element returns to the one for its parent, or to
\* parseXMLBody, which looks at nothing behind the root.
EndElement ==
    /\ phase = "element"
    /\ Token
    /\ LET frame == Last(stack)
           rest  == Front(stack)
       IN  IF rest = <<>>
           THEN /\ phase' = "done"
                /\ result' = Object([k \in {Child(frame.name)} |-> Element(frame)])
                /\ stack' = <<>>
                /\ open' = open
           ELSE /\ stack' = [rest EXCEPT ![Len(rest)].fields = appendXMLChild(@, Child(frame.name), Element(frame))]
                /\ open' = [Front(open) EXCEPT ![Len(rest)].children = Append(@, Last(open))]
                /\ UNCHANGED <<phase, result>>
    /\ UNCHANGED <<media, truncated>>

Next ==
    \/ ParseBody
    \/ DecodeFails
    \/ \E name \in Name, attributes \in Attributes : StartElement(name, attributes)
    \/ \E text \in Text \cup {Blank} : CharData(text)
    \/ EndElement

Spec == Init /\ [][Next]_vars

----------------------------------------------------------------------------
(* Properties. *)

\* Type invariant: the calls are the open elements, and the recursion is bounded.
TypeOK ==
    /\ phase \in {"begin", "prolog", "element", "done"}
    /\ Len(stack) =< MaxDepth
    /\ phase = "element" => Len(stack) = Len(open) /\ \A i \in DOMAIN stack : stack[i].name = open[i].name
    /\ result.kind \in {"null", "raw", "parsed", "object"}

IsText(child) == "text" \in DOMAIN child

\* The elements whose children are in b or texts, and those of at most n levels.
ElementsOver(b) ==
    [name : Name, attributes : Attributes, children : Seq(b \cup [text : Text \cup {Blank}])]

Elements[n \in Nat] == IF n = 0 THEN {} ELSE ElementsOver(Elements[n - 1])

\* The key that shows a child, none for blank text; and the children under one, in order.
Nowhere == <<>>

KeyOf(child) ==
    IF ~IsText(child) THEN Child(child.name) ELSE IF child.text = Blank THEN Nowhere ELSE TextKey

Under(children, key) ==
    LET taken[n \in 0 .. Len(children)] ==
            IF n = 0 THEN <<>>
            ELSE IF KeyOf(children[n]) = key THEN Append(taken[n - 1], children[n]) ELSE taken[n - 1]
    IN  taken[Len(children)]

\* What the log shows of an element with these meanings of its children.
Shown(element, meaning) ==
    LET fields   == AttributeFields(element.attributes)
        keys     == DOMAIN fields \cup ({KeyOf(element.children[i]) : i \in DOMAIN element.children} \ {Nowhere})
        child(k) == Under(element.children, k)
        text     == String([i \in DOMAIN child(TextKey) |-> child(TextKey)[i].text])
        field(k) == IF k = TextKey THEN text
                    ELSE IF k \in DOMAIN fields THEN fields[k]
                    ELSE IF Len(child(k)) = 1 THEN meaning[child(k)[1]]
                    ELSE List([i \in DOMAIN child(k) |-> meaning[child(k)[i]]])
    IN  IF keys = {TextKey} THEN text ELSE Object([k \in keys |-> field(k)])

\* Reference: what the log shows of an element, by the element as a whole.
Meaning[n \in Nat] == [element \in Elements[n] |-> Shown(element, Meaning[n - 1])]

\* A whole XML document is shown completely and in order: every text and every child
\* of every element, however they are mixed and repeated, with children that share a
\* name in one list, and its attributes, except that of several with one local name
\* only the last is kept (decodeXMLElement, appendXMLChild; AttributeFields is also
\* the reference's).
XMLIsComplete ==
    result.kind = "object" => result = Object([k \in {Child(open[1].name)} |-> Meaning[MaxDepth][open[1]]])

\* SPEC.md: "Truncated request or response bodies must be marked": a truncated body
\* carries the mark, a whole one does not, and a truncated one is never parsed.
TruncationShows ==
    phase = "done" /\ result # Null => (result = Marked <=> truncated)
=============================================================================
