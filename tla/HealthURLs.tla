----------------------------- MODULE HealthURLs -----------------------------
(***************************************************************************)
(* HEALTH_URLS: ResolveHealthURLs (internal/config/config.go) completes    *)
(* the entries of the list, main passes the result to the health runner,   *)
(* which probes it, and its paths to the handler, which does not meter     *)
(* requests for them.                                                      *)
(*                                                                         *)
(* An entry is a record of its parts, None for a part that is not written, *)
(* and the form it is written in: "url" (with ://), "path" (begins with /  *)
(* or ?), "port" (begins with :) or "host"; an entry that is empty or that *)
(* url.Parse refuses has the form "bad".  The list grows by one entry at a *)
(* time, so that every list up to MaxEntries is a state.                   *)
(***************************************************************************)
EXTENDS Integers, Sequences

CONSTANTS
    Entry,      \* the entries that may be written
    None,       \* a part that is not written
    Failed,     \* ResolveHealthURLs returns an error
    AppHost, AppPort,
    MaxEntries  \* bound on the length of the list

MaxPort == 65535

Forms == {"url", "path", "port", "host", "bad"}

EntryAssumption ==
    /\ \A e \in Entry :
           /\ DOMAIN e = {"form", "scheme", "host", "port", "path", "query"}
           /\ e.form \in Forms
           /\ e.form # "url" => e.scheme = None
           /\ e.form \in {"path", "port"} => e.host = None
           /\ e.form = "path" => e.port = None
    /\ AppPort \in 1 .. MaxPort
    /\ None \notin {AppHost, "/health"}

VARIABLES
    entries,  \* the entries of HEALTH_URLS
    urls      \* what ResolveHealthURLs returns

vars == <<entries, urls>>

----------------------------------------------------------------------------
DefaultHealthPath == "/health"

\* An empty HEALTH_URLS stands for {APP_HOST}:{APP_PORT}/health.
DefaultEntry ==
    [form |-> "host", scheme |-> None, host |-> AppHost, port |-> AppPort,
     path |-> DefaultHealthPath, query |-> None]

\* Mutant of parsePort: the upper limit is one too high.
PortOffByOne(port) == port = None \/ port \in 1 .. MaxPort + 1

parsePort(port) == port = None \/ port \in 1 .. MaxPort

\* parsePartialHealthURL fails on a port outside the range.
Parses(e) == e.form # "bad" /\ parsePort(e.port)

OrElse(part, default) == IF part = None THEN default ELSE part

\* Mutant of DefaultPort: APP_PORT for every http entry.
AppPortAlways(scheme, index) == IF scheme = "https" THEN 443 ELSE AppPort

\* The port of an entry that has none.
DefaultPort(scheme, index) ==
    CASE scheme = "https" -> 443
      [] scheme # "https" /\ index = 1 -> AppPort
      [] OTHER -> 80

\* Mutant of BasePath: the path of the entry before.
LastPath(list) ==
    LET written == {i \in DOMAIN list : list[i].path # None}
    IN  IF written = {} THEN DefaultHealthPath ELSE list[CHOOSE i \in written : \A j \in written : j =< i].path

\* The path of an entry that has none is that of the first one.
BasePath(list) == OrElse(list[1].path, DefaultHealthPath)

Lower(scheme) == IF scheme = "HTTPS" THEN "https" ELSE scheme

\* ResolveHealthURLs: every entry is parsed before the first is completed.
ResolveHealthURLs(raw) ==
    LET list == IF raw = <<>> THEN <<DefaultEntry>> ELSE raw
        scheme(i) == Lower(OrElse(list[i].scheme, "http"))
    IN  IF \E i \in DOMAIN list : ~Parses(list[i]) \/ scheme(i) \notin {"http", "https"}
        THEN Failed
        ELSE [i \in DOMAIN list |->
                 [scheme |-> scheme(i),
                  host   |-> OrElse(list[i].host, AppHost),
                  port   |-> OrElse(list[i].port, DefaultPort(scheme(i), i)),
                  path   |-> OrElse(list[i].path, BasePath(list)),
                  query  |-> list[i].query]]

Init ==
    /\ entries = <<>>
    /\ urls = ResolveHealthURLs(<<>>)

AddEntry(e) ==
    /\ Len(entries) < MaxEntries
    /\ entries' = Append(entries, e)
    /\ urls' = ResolveHealthURLs(entries')

Next == \E e \in Entry : AddEntry(e)

Spec == Init /\ [][Next]_vars

----------------------------------------------------------------------------
(* The two users of the list. *)

\* Mutant of healthPathSet: the paths as they are written.
WrittenPaths(list) == {entries[i].path : i \in DOMAIN entries} \ {None}

\* The paths the handler does not meter; an empty one is "/".
healthPathSet(list) == {IF list[i].path = "" THEN "/" ELSE list[i].path : i \in DOMAIN list}

isHealthPath(path, list) == (IF path = "" THEN "/" ELSE path) \in healthPathSet(list)

----------------------------------------------------------------------------
(* Properties. *)

\* Type invariant: a resolved URL has no part missing but the query.
TypeOK ==
    urls = Failed \/ \A i \in DOMAIN urls :
        /\ urls[i].scheme \in {"http", "https"}
        /\ urls[i].port \in 1 .. MaxPort
        /\ None \notin {urls[i].host, urls[i].path}

\* SPEC.md: "Requests coming through the reverse proxy whose path matches any
\* resolved HEALTH_URLS path must not emit proxy traffic telemetry": a probe that
\* comes back through the proxy is never metered, also when its path is inherited.
ProbesAreNotMetered ==
    urls # Failed => \A i \in DOMAIN urls : isHealthPath(urls[i].path, urls)

\* SPEC.md's defaults: "APP_PORT for the first entry, 80 for later http entries,
\* and 443 for https entries", and the host and path of the first.
DefaultsAsSpecified ==
    urls # Failed /\ entries # <<>> =>
        \A i \in DOMAIN urls :
            /\ entries[i].port = None => urls[i].port =
                   (IF urls[i].scheme = "https" THEN 443 ELSE IF i = 1 THEN AppPort ELSE 80)
            /\ entries[i].host = None => urls[i].host = AppHost
            /\ entries[i].path = None => urls[i].path = urls[1].path
=============================================================================
