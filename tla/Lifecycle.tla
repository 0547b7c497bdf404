------------------------------ MODULE Lifecycle ------------------------------
(***************************************************************************)
(* The program from start to exit (cmd/cwproxy/main.go): the target that   *)
(* inspector mode starts (internal/inspector/child.go), the detection of   *)
(* its port, the clean-up of a failed start, the server and its graceful   *)
(* shutdown, the main select loop, the closing of the sinks and the exit   *)
(* code.  The goroutines are main, Child.wait, the server's and the one    *)
(* that calls server.Shutdown.  http.Server, the target and the operating  *)
(* system are external.  Every timeout may strike at any moment.           *)
(***************************************************************************)
EXTENDS Integers, Sequences

CONSTANTS
    Closers,    \* the CloudWatch sinks in the order in which they are closed
    ExitCodes   \* what the target may exit with, -1 if a signal ended it

ASSUME LifecycleAssumption ==
    /\ Closers \in Seq(STRING)
    /\ \A i, j \in DOMAIN Closers : Closers[i] = Closers[j] => i = j
    /\ ExitCodes \subseteq (-1 .. 255)

Sink == {Closers[i] : i \in DOMAIN Closers}

VARIABLES
    inspector,    \* a target command was given
    appPort,      \* APP_PORT is set
    main,         \* where run() is
    child,        \* "none", "running", "reaped", "recorded" (result set), "done" (channel closed)
    code,         \* the exit code of the target, once it is reaped
    listens,      \* the target itself listens on a port
    helper,       \* a process the target started: "none", "forked" or "listening"
    obeys,        \* the target exits on SIGINT and SIGTERM
    told, killed, \* SIGINT or SIGTERM was forwarded, SIGKILL was sent, to its process group
    signals,      \* signals in the buffered channel
    server,       \* "off", "starting", "serving" or "stopped"
    serverErrors, \* the buffered channel
    busy,         \* connections are accepted and not finished
    shutdown,     \* server.Shutdown: "none", "running", "nil" or "deadline"
    runErr,       \* the server failed
    sink,         \* sink[s]: "absent", "open", "closed" or "unflushed" (Close met its deadline)
    closing,      \* the sink to close next
    startupErr,   \* why the start failed: "none", "start", "childExit" or "config"
    exitCode

childVars  == <<child, code, listens, helper, obeys>>
serverVars == <<server, serverErrors, busy>>
sinkVars   == <<sink, closing>>
vars == <<inspector, appPort, main, childVars, told, killed, signals, serverVars, shutdown, runErr,
          sinkVars, startupErr, exitCode>>

Init ==
    /\ inspector \in BOOLEAN /\ appPort \in BOOLEAN /\ obeys \in BOOLEAN
    /\ main = "start"
    /\ child = "none" /\ code = 0 /\ listens = FALSE /\ helper = "none"
    /\ told = FALSE /\ killed = FALSE
    /\ signals = 0
    /\ server = "off" /\ serverErrors = <<>> /\ busy = FALSE
    /\ shutdown = "none"
    /\ runErr = FALSE
    /\ sink = [s \in Sink |-> "absent"] /\ closing = 1
    /\ startupErr = "none"
    /\ exitCode = 0

----------------------------------------------------------------------------
(* The target and the goroutine that waits for it. *)

ChildListens ==
    /\ child = "running"
    /\ listens' = TRUE
    /\ UNCHANGED <<child, code, helper, obeys>>

HelperForks ==
    /\ child = "running"
    /\ helper = "none"
    /\ helper' = "forked"
    /\ UNCHANGED <<child, code, listens, obeys>>

\* A helper may begin to listen after the target has exited.
HelperListens ==
    /\ helper = "forked"
    /\ ~killed
    /\ helper' = "listening"
    /\ UNCHANGED <<child, code, listens, obeys>>

\* The target exits, of its own accord, or because of a signal, or killed.
ChildExits ==
    /\ child = "running"
    /\ child' = "reaped"
    /\ code' \in IF killed THEN {-1} ELSE ExitCodes
    /\ listens' = FALSE
    /\ UNCHANGED <<helper, obeys>>

\* Child.wait stores the result under the lock, then closes the done channel.
SetResult == child = "reaped" /\ child' = "recorded" /\ UNCHANGED <<code, listens, helper, obeys>>
CloseDone == child = "recorded" /\ child' = "done" /\ UNCHANGED <<code, listens, helper, obeys>>

Target ==
    /\ ChildListens \/ HelperForks \/ HelperListens \/ ChildExits \/ SetResult \/ CloseDone
    /\ UNCHANGED <<inspector, appPort, main, told, killed, signals, serverVars, shutdown, runErr,
                   sinkVars, startupErr, exitCode>>

\* Child.Result.
Exited == child \in {"recorded", "done"}

\* Kill(-pid, sig) finds no process group once everything in it is gone.
GroupExists == child = "running" \/ helper # "none"

ForwardSignal == told' = (told \/ GroupExists)

----------------------------------------------------------------------------
(* Startup. *)

\* Mutants of childExitError: -1 is passed on, and every failure becomes 1.
RawExitCode(c) == c
AnyFailureIsOne(c) == IF c = 0 THEN 0 ELSE 1

\* -1, ended by a signal, becomes 1.
childExitError(c) == IF c < 0 THEN 1 ELSE c

Exit(n) == main' = "exited" /\ exitCode' = n

StartTarget ==
    /\ main = "start"
    /\ \/ ~inspector /\ main' = "config" /\ UNCHANGED <<child, startupErr, exitCode>>
       \/ inspector /\ startupErr' = "start" /\ Exit(1) /\ UNCHANGED child
       \/ /\ inspector
          /\ child' = "running"
          /\ main' = IF appPort THEN "config" ELSE "detect"
          /\ UNCHANGED <<startupErr, exitCode>>
    /\ UNCHANGED <<inspector, appPort, code, listens, helper, obeys, told, killed, signals,
                   serverVars, shutdown, runErr, sinkVars>>

StartupFails(err, n) ==
    /\ startupErr' = err
    /\ main' = "cleanup"
    /\ exitCode' = n

\* Mutant of ExitBeforeListen: the detection goes on.
KeepsPolling == main' = "detect" /\ UNCHANGED <<startupErr, exitCode>>

\* The exit of the target before it listens is an error even if its code is 0.
ExitBeforeListen == StartupFails("childExit", IF code = 0 THEN 1 ELSE childExitError(code))

\* Each round of waitForInspectorPort looks at the result, ...
DetectResult ==
    /\ main = "detect"
    /\ \/ Exited /\ ExitBeforeListen
       \/ ~Exited /\ main' = "ports" /\ UNCHANGED <<startupErr, exitCode>>
    /\ UNCHANGED <<told, signals>>

PortFound == child = "running" /\ (listens \/ helper = "listening")

\* ... at the sockets of the process tree, which is found from the target, ...
DetectPorts ==
    /\ main = "ports"
    /\ main' = IF PortFound THEN "config" ELSE "detectWait"
    /\ UNCHANGED <<startupErr, exitCode, told, signals>>

\* ... and waits for the end of the target, a signal or the ticker.
DetectWait ==
    /\ main = "detectWait"
    /\ \/ child = "done" /\ ExitBeforeListen /\ UNCHANGED <<told, signals>>
       \/ /\ signals > 0
          /\ signals' = signals - 1
          /\ ForwardSignal
          /\ main' = "detect"
          /\ UNCHANGED <<startupErr, exitCode>>
       \/ main' = "detect" /\ UNCHANGED <<startupErr, exitCode, told, signals>>

LoadConfig ==
    /\ main = "config"
    /\ \/ main' = "sinks" /\ UNCHANGED <<startupErr, exitCode>>
       \/ StartupFails("config", 1)
    /\ UNCHANGED <<told, signals>>

Startup ==
    /\ DetectResult \/ DetectPorts \/ DetectWait \/ LoadConfig
    /\ UNCHANGED <<inspector, appPort, childVars, killed, serverVars, shutdown, runErr, sinkVars>>

\* Mutant of StopChild: the target is left alone.
LeavesChild == main = "cleanup" /\ main' = "exited" /\ UNCHANGED killed

\* cleanupInspectorStartupFailure: the target is killed unless its result is
\* there.  Kill fails in the window between its end and its result.
StopChild ==
    /\ main = "cleanup"
    /\ IF child = "none" \/ Exited \/ ~GroupExists
       THEN main' = "exited" /\ UNCHANGED killed
       ELSE main' = "killWait" /\ killed' = TRUE

\* The wait for the end of the killed target is limited.
KillWait ==
    /\ main = "killWait"
    /\ main' = "exited"
    /\ UNCHANGED killed

Cleanup ==
    /\ StopChild \/ KillWait
    /\ UNCHANGED <<inspector, appPort, childVars, told, signals, serverVars, shutdown, runErr,
                   sinkVars, startupErr, exitCode>>

\* The sinks: no region or no AWS configuration leaves all of them out, and
\* each is left out whose log group or stream cannot be made.  Then the health
\* runner and the server are started.
OpenSinks ==
    /\ main = "sinks"
    /\ sink' \in [Sink -> {"absent", "open"}]
    /\ server' = "starting"
    /\ main' = "select"
    /\ UNCHANGED <<inspector, appPort, childVars, told, killed, signals, serverErrors, busy, shutdown,
                   runErr, closing, startupErr, exitCode>>

----------------------------------------------------------------------------
(* The server's goroutine and the one of server.Shutdown. *)

Listen ==
    /\ server = "starting"
    /\ shutdown = "none"
    /\ server' = "serving"
    /\ UNCHANGED <<serverErrors, busy, shutdown>>

Accept ==
    /\ server = "serving"
    /\ busy' = TRUE
    /\ UNCHANGED <<server, serverErrors, shutdown>>

Finish ==
    /\ busy
    /\ busy' = FALSE
    /\ UNCHANGED <<server, serverErrors, shutdown>>

\* ListenAndServe returns http.ErrServerClosed once the shutdown has begun.
\* It may also have met another error, to listen or, before that, to accept.
ServerReturns ==
    /\ \/ shutdown # "none" /\ serverErrors' = Append(serverErrors, "closed")
       \/ /\ server = "starting" \/ shutdown = "none"
          /\ serverErrors' = Append(serverErrors, "failed")
    /\ server \in {"starting", "serving"}
    /\ server' = "stopped"
    /\ UNCHANGED <<busy, shutdown>>

\* Mutant of ShutdownReturns: no deadline.
ShutdownWaits ==
    /\ shutdown = "running"
    /\ server # "serving" /\ ~busy
    /\ shutdown' = "nil"
    /\ UNCHANGED serverVars

\* Shutdown waits for the listener and the connections, or its 10 s are over.
ShutdownReturns ==
    /\ shutdown = "running"
    /\ shutdown' \in (IF server # "serving" /\ ~busy THEN {"nil"} ELSE {}) \cup {"deadline"}
    /\ UNCHANGED serverVars

Server ==
    /\ Listen \/ Accept \/ Finish \/ ServerReturns \/ ShutdownReturns
    /\ UNCHANGED <<inspector, appPort, main, childVars, told, killed, signals, runErr, sinkVars,
                   startupErr, exitCode>>

----------------------------------------------------------------------------
(* The main goroutine, from its select on. *)

\* once.Do: stopRun, and the goroutine that calls server.Shutdown.
initiateShutdown == shutdown' = IF shutdown = "none" THEN "running" ELSE shutdown

\* Without a target the first event leaves the select.
NormalEvent ==
    /\ main = "select" /\ ~inspector
    /\ \/ /\ serverErrors # <<>>
          /\ serverErrors' = Tail(serverErrors)
          /\ runErr' = (Head(serverErrors) = "failed")
          /\ UNCHANGED signals
       \/ signals > 0 /\ signals' = signals - 1 /\ UNCHANGED <<serverErrors, runErr>>
    /\ initiateShutdown
    /\ main' = "drain"
    /\ UNCHANGED told

\* With a target only its end does; failures and signals are passed on to it.
ServerErrorEvent ==
    /\ main = "select" /\ inspector
    /\ serverErrors # <<>>
    /\ serverErrors' = Tail(serverErrors)
    /\ \/ Head(serverErrors) = "closed" /\ UNCHANGED <<runErr, told, shutdown>>
       \/ Head(serverErrors) = "failed" /\ runErr' = TRUE /\ ForwardSignal /\ initiateShutdown
    /\ UNCHANGED <<main, signals>>

\* Mutant of SignalEvent: the signal is not forwarded.
SignalKept ==
    /\ main = "select" /\ inspector
    /\ signals > 0
    /\ signals' = signals - 1
    /\ initiateShutdown
    /\ UNCHANGED <<main, serverErrors, runErr, told>>

SignalEvent ==
    /\ main = "select" /\ inspector
    /\ signals > 0
    /\ signals' = signals - 1
    /\ ForwardSignal
    /\ initiateShutdown
    /\ UNCHANGED <<main, serverErrors, runErr>>

ChildEvent ==
    /\ main = "select" /\ inspector
    /\ child = "done"
    /\ initiateShutdown
    /\ main' = "drain"
    /\ UNCHANGED <<signals, serverErrors, runErr, told>>

Select ==
    /\ NormalEvent \/ ServerErrorEvent \/ SignalEvent \/ ChildEvent
    /\ UNCHANGED <<inspector, appPort, childVars, killed, server, busy, sinkVars, startupErr, exitCode>>

\* Mutant of Drain: the sinks are closed at once.
DrainsNothing == main = "drain" /\ main' = "close" /\ UNCHANGED <<sinkVars, exitCode>>

\* The receive from shutdownDone.
Drain ==
    /\ main = "drain"
    /\ shutdown \in {"nil", "deadline"}
    /\ main' = "close"
    /\ UNCHANGED <<sinkVars, exitCode>>

\* closeAll closes one after the other under one deadline, and goes on when one
\* Close fails.
CloseSink ==
    /\ main = "close"
    /\ closing =< Len(Closers)
    /\ closing' = closing + 1
    /\ \E outcome \in {"closed", "unflushed"} :
        sink' = [sink EXCEPT ![Closers[closing]] = IF @ = "open" THEN outcome ELSE @]
    /\ UNCHANGED <<main, exitCode>>

\* Mutant of NormalExitCode: the error of closeAll is dropped.
IgnoresCloseError == IF shutdown = "deadline" \/ runErr THEN 1 ELSE 0

NormalExitCode ==
    IF shutdown = "deadline" \/ runErr \/ \E s \in Sink : sink[s] = "unflushed" THEN 1 ELSE 0

Return ==
    /\ main = "close"
    /\ closing > Len(Closers)
    /\ Exit(IF inspector THEN childExitError(code) ELSE NormalExitCode)
    /\ UNCHANGED sinkVars

Ending ==
    /\ Drain \/ CloseSink \/ Return
    /\ UNCHANGED <<inspector, appPort, childVars, told, killed, signals, serverVars, shutdown, runErr,
                   startupErr>>

\* os/signal sends without blocking to a channel of two.
Signal ==
    /\ main # "exited"
    /\ signals < 2
    /\ signals' = signals + 1
    /\ UNCHANGED <<inspector, appPort, main, childVars, told, killed, serverVars, shutdown, runErr,
                   sinkVars, startupErr, exitCode>>

Main == StartTarget \/ Startup \/ Cleanup \/ OpenSinks \/ Select \/ Ending

Gone == main = "exited" /\ UNCHANGED vars

Next == (main # "exited" /\ (Target \/ Server \/ Signal)) \/ Main \/ Gone

Spec == Init /\ [][Next]_vars

\* The goroutines are scheduled and every wait of theirs has a timeout, except
\* for the AWS calls of OpenSinks; a select does not ignore a ready channel for
\* ever.  A target that obeys exits when told.
Fairness ==
    /\ WF_vars(StartTarget \/ Startup \/ Cleanup \/ Select \/ Ending)
    /\ WF_vars(Select /\ ChildEvent)
    /\ WF_vars(Server /\ (ServerReturns \/ ShutdownReturns))
    /\ WF_vars(Target /\ (SetResult \/ CloseDone))
    /\ WF_vars(Target /\ ChildExits /\ (killed \/ (told /\ obeys)))

FairSpec == Spec /\ Fairness

----------------------------------------------------------------------------
(* Properties. *)

\* The type invariant.  Neither channel of main ever holds more than its buffer,
\* so that no goroutine blocks on a send after main stopped receiving.
TypeOK ==
    /\ inspector \in BOOLEAN /\ appPort \in BOOLEAN
    /\ main \in {"start", "detect", "ports", "detectWait", "config", "cleanup", "killWait", "sinks",
                 "select", "drain", "close", "exited"}
    /\ child \in {"none", "running", "reaped", "recorded", "done"}
    /\ code \in ExitCodes \cup {-1, 0}
    /\ listens \in BOOLEAN /\ helper \in {"none", "forked", "listening"} /\ obeys \in BOOLEAN
    /\ told \in BOOLEAN /\ killed \in BOOLEAN
    /\ signals \in 0 .. 2
    /\ server \in {"off", "starting", "serving", "stopped"}
    /\ serverErrors \in {<<>>, <<"closed">>, <<"failed">>}
    /\ busy \in BOOLEAN
    /\ shutdown \in {"none", "running", "nil", "deadline"}
    /\ runErr \in BOOLEAN
    /\ sink \in [Sink -> {"absent", "open", "closed", "unflushed"}]
    /\ closing \in 1 .. Len(Closers) + 1
    /\ startupErr \in {"none", "start", "childExit", "config"}
    /\ exitCode \in 0 .. 255

\* cwproxy never leaves the target running behind it: when it exits, however the
\* start or the run ended, the target is gone or was sent SIGKILL.
NoOrphan == main = "exited" => child # "running" \/ killed

\* Once the proxy has been started, inspector mode ends only after the target,
\* and with its exit code (1 if a signal ended it), whatever failed on the way;
\* the code is one a process can exit with.
ExitCodeIsChilds ==
    /\ TypeOK
    /\ main = "exited" /\ inspector /\ startupErr = "none" =>
           child = "done" /\ exitCode = (IF code = -1 THEN 1 ELSE code)

\* No partial failure hides behind exit code 0 in normal mode: the server did not
\* fail, every connection was finished, and every sink was flushed.
CleanExitIsFlushed ==
    main = "exited" /\ ~inspector /\ exitCode = 0 =>
        /\ server # "off" /\ ~runErr /\ ~busy
        /\ \A s \in Sink : sink[s] \in {"absent", "closed"}

\* The sinks outlive the traffic: while one is closed, a connection can be busy
\* only if the graceful shutdown ran out of time; and none is left open, not
\* even the ones behind a sink whose Close failed.
SinksOutliveTraffic ==
    /\ busy /\ (\E s \in Sink : sink[s] \in {"closed", "unflushed"}) => shutdown = "deadline"
    /\ main = "exited" => \A s \in Sink : sink[s] # "open"

\* In normal mode a signal ends the program: neither the connections nor a sink
\* can hold it up, as both waits have deadlines.
SignalEnds == (main = "select" /\ ~inspector /\ signals > 0) ~> (main = "exited")

\* In inspector mode a signal ends a target that obeys it, and the program with it.
ForwardedSignalEnds ==
    (main = "select" /\ inspector /\ signals > 0 /\ obeys) ~> (main = "exited")

\* The end of the target ends the program, also if it comes during the detection
\* of the port (only the AWS calls that open the sinks have no deadline).
ChildExitEnds == (child = "reaped") ~> (main \in {"exited", "sinks"})

\* cwproxy ends when it is told to, by a signal or by the end of its target:
\* nobody waits for somebody who waits for him.
EndsWhenTold == SignalEnds /\ ForwardedSignalEnds /\ ChildExitEnds

\* README.md: "wrapper processes and short-lived launchers are supported as long
\* as a descendant process starts listening".
LaunchersSupported == startupErr = "childExit" => helper # "listening"
=============================================================================
