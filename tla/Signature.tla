----------------------------- MODULE Signature -----------------------------
(***************************************************************************)
(* The structural hash of bodies and queries (internal/logging/hash.go).   *)
(* A body is a tree of scalars, nulls, objects and arrays.  Its signature  *)
(* is a text, here a sequence of the tokens the code writes; a key is such *)
(* a sequence too, as the code writes it without quotes or escapes, and    *)
(* may hold the tokens that separate fields.  Its hash is a function of    *)
(* that text of which nothing is known (SHA-256, cut to three bytes).      *)
(*                                                                         *)
(* The state is a pair of bodies, the same place of two exchanges, that    *)
(* grow by being put into the same surroundings.                           *)
(***************************************************************************)
EXTENDS Integers, Sequences, FiniteSets, SequencesExt

CONSTANTS
    Value,     \* values of scalars
    KeyOrder,  \* the keys of objects, each once, in the order of sort.Strings
    Digest(_), \* the hash of a text
    MaxDepth,  \* maxStructureSignatureDepth
    MaxWraps   \* bound on the number of surroundings

Keys == {KeyOrder[i] : i \in DOMAIN KeyOrder}

Scalar(v)   == [kind |-> "scalar", value |-> v]
Null        == [kind |-> "null"]
Object(f)   == [kind |-> "object", fields |-> f]
Array(s)    == [kind |-> "array", items |-> s]
Missing     == [kind |-> "missing"]    \* in the place of a key that an object does not have

Atom == {Scalar(v) : v \in Value} \cup {Null}

\* The bodies to begin with, of no or one level, objects with a key missing; and
\* what may stand beside them.
Leaf    == Atom \cup {Object(f) : f \in {g \in [Keys -> Atom \cup {Missing}] : \E k \in Keys : g[k] = Missing}}
                \cup {Array(s) : s \in UNION {[1 .. n -> Atom] : n \in 0 .. 2}}
Sibling == {Array(<<>>), Null}

\* The bodies whose parts are in b, and those of at most n levels of objects and arrays.
Around(b) ==
    Atom \cup [kind : {"object"}, fields : [Keys -> b \cup {Missing}]]
         \cup [kind : {"array"}, items : Seq(b)]

Bodies[n \in Nat] == IF n = 0 THEN Atom ELSE Around(Bodies[n - 1])

ShapeAssumption ==
    /\ MaxDepth \in Nat /\ MaxWraps \in Nat
    /\ KeyOrder \in Seq(Seq(STRING))

VARIABLES first, second, wraps

vars == <<first, second, wraps>>

----------------------------------------------------------------------------
(* structureSignature.  A parsed body is a tree without nil maps and slices: the *)
(* marks that enter keeps of the containers being visited never meet again and   *)
(* are left out.                                                                 *)

Container(t) == t.kind \in {"object", "array"}

\* Mutant of TooDeep: one level more is looked at.
OneMore(depth) == depth > MaxDepth

TooDeep(depth) == depth >= MaxDepth

\* A key that is missing adds no text.
AtomSignature(t) ==
    CASE t.kind = "missing" -> <<>>
      [] t.kind = "null" -> <<"n">>
      [] t.kind = "scalar" -> <<"v">>

\* Mutant of objectSignature: the keys are not written.
ValuesOnly(sigs) ==
    <<"o{">> \o FlattenSeq([i \in DOMAIN KeyOrder |->
                   IF sigs[KeyOrder[i]] = <<>> THEN <<>> ELSE sigs[KeyOrder[i]] \o <<";">>]) \o <<"}">>

Field(key, sig) == IF sig = <<>> THEN <<>> ELSE key \o <<":">> \o sig \o <<";">>

\* Of the signature of each key's value.
objectSignature(sigs) ==
    <<"o{">> \o FlattenSeq([i \in DOMAIN KeyOrder |-> Field(KeyOrder[i], sigs[KeyOrder[i]])]) \o <<"}">>

\* Mutant of arraySignature: the signatures keep the order of the elements.
Unsorted(sigs) ==
    LET new == SelectSeq([i \in DOMAIN sigs |-> i], LAMBDA i : \A j \in 1 .. i - 1 : sigs[j] # sigs[i])
    IN  <<"a[">> \o FlattenSeq([i \in DOMAIN new |-> sigs[new[i]] \o <<",">>]) \o <<"]">>

\* Without repetitions, in an order that depends on the signatures alone.
arraySignature(sigs) ==
    LET signatures == SetToSeq({sigs[i] : i \in DOMAIN sigs})
    IN  <<"a[">> \o FlattenSeq([i \in DOMAIN signatures |-> signatures[i] \o <<",">>]) \o <<"]">>

\* Of the bodies of at most n levels.
structureSignatureValue[n \in Nat] ==
    [t \in Bodies[n] \cup {Missing} |-> [depth \in Nat |->
        IF ~Container(t) THEN AtomSignature(t)
        ELSE IF TooDeep(depth) THEN <<"x">>
        ELSE IF t.kind = "object"
             THEN objectSignature([k \in Keys |-> structureSignatureValue[n - 1][t.fields[k]][depth + 1]])
             ELSE arraySignature([i \in DOMAIN t.items |-> structureSignatureValue[n - 1][t.items[i]][depth + 1]])]]

structureSignature(t) == structureSignatureValue[MaxWraps + 1][t][0]

\* A missing body has no hash.
bodyStructureHash(t) == IF t = Null THEN <<>> ELSE <<Digest(structureSignature(t))>>

Init ==
    /\ first \in Leaf
    /\ second \in Leaf
    /\ wraps = 0

Wrap(f(_)) ==
    /\ wraps < MaxWraps
    /\ wraps' = wraps + 1
    /\ first' = f(first)
    /\ second' = f(second)

\* Both become the field k of an object with sibling s in its other fields.
InObject(k, s) == Wrap(LAMBDA t : Object([j \in Keys |-> IF j = k THEN t ELSE s]))

OnlyField(k) == Wrap(LAMBDA t : Object([j \in Keys |-> IF j = k THEN t ELSE Missing]))

\* Both become elements of an array, before or after a sibling, or twice.
InArray(s) ==
    \/ Wrap(LAMBDA t : Array(<<s, t>>))
    \/ wraps < MaxWraps /\ wraps' = wraps + 1
       /\ first' = Array(<<first, s, first>>) /\ second' = Array(<<s, second>>)

Next ==
    \/ \E k \in Keys, s \in Sibling : InObject(k, s)
    \/ \E k \in Keys : OnlyField(k)
    \/ \E s \in Sibling : InArray(s)

Spec == Init /\ [][Next]_vars

----------------------------------------------------------------------------
(* Properties. *)

\* Two bodies have the same shape up to the depth limit: the same keys with values
\* of the same shape, and for arrays, each element has its like in the other.
\* SPEC.md has the values of scalars ignored; strictly, a null is no other scalar.
Kind(t, strictly) == IF t.kind = "null" /\ ~strictly THEN "scalar" ELSE t.kind

SameShape[n \in Nat] ==
    [t \in Bodies[n] \cup {Missing} |-> [u \in Bodies[n] \cup {Missing} |->
    [depth \in Nat |-> [strictly \in BOOLEAN |->
        \/ Container(t) /\ Container(u) /\ depth >= MaxDepth
        \/ /\ Kind(t, strictly) = Kind(u, strictly)
           /\ t.kind = "object" =>
                  \A k \in Keys : SameShape[n - 1][t.fields[k]][u.fields[k]][depth + 1][strictly]
           /\ t.kind = "array" =>
                  /\ \A i \in DOMAIN t.items : \E j \in DOMAIN u.items :
                         SameShape[n - 1][t.items[i]][u.items[j]][depth + 1][strictly]
                  /\ \A j \in DOMAIN u.items : \E i \in DOMAIN t.items :
                         SameShape[n - 1][t.items[i]][u.items[j]][depth + 1][strictly]]]]]

\* The keys of the objects in a body.
KeysIn[n \in Nat] ==
    [t \in Bodies[n] \cup {Missing} |->
        CASE t.kind = "object" ->
                 UNION {{k} \cup KeysIn[n - 1][t.fields[k]] : k \in {j \in Keys : t.fields[j] # Missing}}
          [] t.kind = "array" -> UNION {KeysIn[n - 1][t.items[i]] : i \in DOMAIN t.items}
          [] OTHER -> {}]

\* No key in the body holds a token that ends a key, a field or an object.
Plain(t) == \A k \in KeysIn[MaxWraps + 1][t] : \A i \in DOMAIN k : k[i] \notin {":", ";", "}"}

\* The hash of a body does not change between exchanges of one shape, whatever the
\* order and number of an array's elements, the values of its scalars and all that
\* lies below the depth limit (structureSignatureValue).  Nothing is claimed of bodies
\* with a null in the place of another scalar: they differ for the code, which writes
\* "n" for the one and "v" for the other, and are of one shape for SPEC.md.
OneShapeOneHash ==
    SameShape[MaxWraps + 1][first][second][0][TRUE] => bodyStructureHash(first) = bodyStructureHash(second)

\* What is hashed tells shapes apart, down to the depth limit: bodies of one signature
\* have the same keys in the same places and the same containers.  This needs keys
\* without the delimiters that objectSignature writes: {"a:v;b": 1} and
\* {"a": 1, "b": 1} have one signature.
SignatureTellsShapes ==
    Plain(first) /\ Plain(second) /\ structureSignature(first) = structureSignature(second)
        => SameShape[MaxWraps + 1][first][second][0][FALSE]
=============================================================================
