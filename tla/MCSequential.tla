---------------------------- MODULE MCSequential ----------------------------
(***************************************************************************)
(* Small instances of Sequential.                                          *)
(***************************************************************************)
EXTENDS Sequential, SequencesExt

----------------------------------------------------------------------------
(* Inputs of Emf: every sequence of up to three data over a set with each  *)
(* reason canAdd has to refuse, and the data cwproxy builds.               *)

NoDims == [k \in {} |-> ""]
Wide   == [k \in {"d1", "d2", "d3", "d4"} |-> "x"]

SmallData ==
    { datum("m", 1, "Count", NoDims), datum("m", 2, "Count", [d |-> "x"]),
      datum("m", 1, "Bytes", [d |-> "x"]), datum("m", 1, "Count", [d |-> "y"]),
      datum("n", NaN, "Count", [d |-> "x"]), datum("d", 1, "Count", [m |-> "x"]),
      datum("delay", 1, "Count", NoDims), datum("n", 1, "Count", [request |-> "x"]),
      datum("_aws", 1, "Count", NoDims), datum("", 1, "Count", NoDims),
      datum("n", 2, "Count", Wide), datum("n", 3, "Count", [d |-> "x", e |-> "y"]) }

\* More names than an event may have, with repetitions before and after the limit.
ManyNames ==
    LET name == <<"a", "b", "c", "a", "f", "g", "i", "j", "a", "h">>
    IN  [i \in DOMAIN name |-> datum(name[i], 1, "Count", IF i = 4 THEN [d |-> "x"] ELSE NoDims)]

MCInput == UNION {[1 .. n -> SmallData] : n \in 0 .. 3} \cup {ManyNames} \cup Traffic \cup Probes

MCData == UNION {Range(s) : s \in MCInput}

----------------------------------------------------------------------------
(* Documents whose elements may have two attributes of one local name. *)

MCAttributes == {<<>>, << [name |-> "id", value |-> "1"], [name |-> "id", value |-> "2"] >>}

----------------------------------------------------------------------------
(* Keys, one of which holds delimiters of the signature: an object that has *)
(* it alone may have the signature of one that has the others.  The hash   *)
(* of a text is its length and the places of its scalars.                  *)

MCKeyOrder == << <<"a">>, <<"a", ":", "v", ";", "b">>, <<"b">> >>

MCDigest(t) == <<Len(t), {i \in DOMAIN t : t[i] = "v"}>>

----------------------------------------------------------------------------
(* Settings: texts around every limit of the loader; health entries of every *)
(* form, with and without each optional part; names of a deployment's pod,   *)
(* of a stateful set's and of a plain machine.                               *)

Texts(values) == values \cup {Absent, Blank, Garbage}

MCRaw ==
    [MAX_ATTEMPTS        |-> Texts({0, 1, 4}),
     INITIAL_BACKOFF     |-> Texts({0, 1, 6}),
     MAX_BACKOFF         |-> Texts({0, 3, 6}),
     BACKOFF_MULTIPLIER  |-> Texts({1, 2, 3, 4, Inf, NaN}),
     METHODS             |-> {Absent, Blank, {}, {"get", "GET", "post"}},
     STATUS_CODES        |-> {Absent, Blank, <<Garbage>>, << <<504, 502>>, <<500, 500>> >>,
                              << <<500, 500>>, <<99, 502>> >>},
     ON_TRANSPORT_ERRORS |-> {Absent, Garbage, TRUE},
     BODY_BUFFER_BYTES   |-> {Absent, Garbage, 0}]

\* The defaults keep their order: 50 ms, 250 ms and 2.
MCDefault ==
    [MAX_ATTEMPTS |-> 2, INITIAL_BACKOFF |-> 1, MAX_BACKOFF |-> 5, BACKOFF_MULTIPLIER |-> 4,
     METHODS |-> {"GET", "HEAD", "OPTIONS"}, STATUS_CODES |-> 500 .. 599,
     ON_TRANSPORT_ERRORS |-> FALSE, BODY_BUFFER_BYTES |-> 64]

HealthEntry(form, scheme, host, port, path, query) ==
    [form |-> form, scheme |-> scheme, host |-> host, port |-> port, path |-> path, query |-> query]

Paths == {None, "/ready"}

MCEntry ==
    {HealthEntry("url", scheme, host, port, path, None) :
        scheme \in {"http", "HTTPS"}, host \in {None, "alb"}, port \in {None, 9000}, path \in Paths}
    \cup {HealthEntry("path", None, None, None, path, "q") : path \in {None, "/"}}
    \cup {HealthEntry("path", None, None, None, path, None) : path \in {"/", "/live"}}
    \cup {HealthEntry("port", None, None, port, path, None) : port \in {None, 0, 9000, 65536}, path \in Paths}
    \cup {HealthEntry("host", None, "alb", port, path, None) : port \in {None, 9000}, path \in Paths}
    \cup {HealthEntry("url", "ftp", "alb", None, None, None), HealthEntry("bad", None, None, None, None, None)}

MCPodName == {<<"web", "app", "hash", "rand">>, <<"web", "rand">>, <<"machine">>}
=============================================================================
