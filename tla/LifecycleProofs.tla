-------------------------- MODULE LifecycleProofs --------------------------
(***************************************************************************)
(* Proofs about Lifecycle for every sequence of sinks and every set of     *)
(* exit codes that LifecycleAssumption allows.                             *)
(***************************************************************************)
EXTENDS Lifecycle, SequenceTheorems, TLAPS

\* The two halves of TypeOK: the flags and the rest.
FlagTypes ==
    /\ inspector \in BOOLEAN /\ appPort \in BOOLEAN /\ listens \in BOOLEAN /\ obeys \in BOOLEAN
    /\ told \in BOOLEAN /\ killed \in BOOLEAN /\ busy \in BOOLEAN /\ runErr \in BOOLEAN

OtherTypes ==
    /\ main \in {"start", "detect", "ports", "detectWait", "config", "cleanup", "killWait", "sinks",
                 "select", "drain", "close", "exited"}
    /\ child \in {"none", "running", "reaped", "recorded", "done"}
    /\ code \in ExitCodes \cup {-1, 0}
    /\ helper \in {"none", "forked", "listening"}
    /\ signals \in 0 .. 2
    /\ server \in {"off", "starting", "serving", "stopped"}
    /\ serverErrors \in {<<>>, <<"closed">>, <<"failed">>}
    /\ shutdown \in {"none", "running", "nil", "deadline"}
    /\ sink \in [Sink -> {"absent", "open", "closed", "unflushed"}]
    /\ closing \in 1 .. Len(Closers) + 1
    /\ startupErr \in {"none", "start", "childExit", "config"}
    /\ exitCode \in 0 .. 255

\* main is still starting, or the start failed.
Starting == main \in {"start", "detect", "ports", "detectWait", "config", "sinks"}
NotStarted == Starting \/ startupErr # "none"

\* The target exists only in inspector mode and after its start.
ChildInv == (~inspector \/ main = "start") => child = "none"

\* A start that failed is on its way out with an error, and only then is the
\* clean-up entered.
FailedInv ==
    /\ main \in {"cleanup", "killWait"} => startupErr # "none"
    /\ startupErr # "none" => main \in {"cleanup", "killWait", "exited"} /\ exitCode # 0
    /\ main = "killWait" => killed

\* The server and the sinks exist once the start is complete.
StartedInv ==
    /\ NotStarted => server = "off" /\ shutdown = "none" /\ sink = [s \in Sink |-> "absent"]
    /\ ~NotStarted => server # "off"

\* ListenAndServe returns once, and a shutdown that ended well left no
\* connection and nobody who could accept one.
ServerInv ==
    /\ server # "stopped" => serverErrors = <<>>
    /\ server \in {"off", "starting"} => ~busy
    /\ shutdown = "nil" => ~busy /\ server # "serving"

\* Inspector mode leaves its select with the end of the target, and the sinks are
\* closed from the first one on after the shutdown.
EndInv ==
    /\ main \in {"drain", "close"} /\ inspector => child = "done"
    /\ main = "close" => shutdown \in {"nil", "deadline"}
    /\ main \notin {"close", "exited"} => closing = 1 /\ \A s \in Sink : sink[s] \in {"absent", "open"}
    /\ main = "close" => \A i \in 1 .. closing - 1 : sink[Closers[i]] # "open"

\* What holds when the program is over.
ExitInv ==
    main = "exited" =>
        /\ child # "running" \/ killed
        /\ startupErr = "none" =>
              /\ shutdown \in {"nil", "deadline"}
              /\ \A s \in Sink : sink[s] # "open"
              /\ inspector => child = "done" /\ exitCode = childExitError(code)
              /\ ~inspector => exitCode = NormalExitCode

IndInv ==
    /\ FlagTypes
    /\ OtherTypes
    /\ ChildInv
    /\ FailedInv
    /\ StartedInv
    /\ ServerInv
    /\ EndInv
    /\ ExitInv

----------------------------------------------------------------------------
(* Every step keeps the invariant. *)

\* The exit codes of the target, and what childExitError makes of them.
LEMMA CodeFacts ==
    ASSUME OtherTypes
    PROVE  /\ code \in -1 .. 255 /\ childExitError(code) \in 0 .. 255
           /\ childExitError(code) = IF code = -1 THEN 1 ELSE code
           /\ code # 0 => childExitError(code) # 0
<1>1. code \in -1 .. 255
  BY LifecycleAssumption DEF OtherTypes
<1> QED
  BY <1>1 DEF childExitError

LEMMA InitInv == Init => IndInv
<1> SUFFICES ASSUME Init PROVE IndInv
  OBVIOUS
<1> USE DEF Init
<1>1. FlagTypes
  BY Zenon DEF FlagTypes
<1>0. OtherTypes
  <2>1. Len(Closers) \in Nat
    BY LifecycleAssumption, LenProperties
  <2>2. closing \in 1 .. Len(Closers) + 1
    BY <2>1
  <2> QED
    BY <2>2 DEF OtherTypes
<1>2. ChildInv /\ FailedInv /\ ServerInv /\ EndInv /\ ExitInv
  BY DEF ChildInv, FailedInv, ServerInv, EndInv, ExitInv
<1>3. StartedInv
  BY DEF StartedInv, NotStarted, Starting
<1> QED
  BY <1>0, <1>1, <1>2, <1>3 DEF IndInv

\* The target and Child.wait, while the program runs.
LEMMA TargetInv == IndInv /\ main # "exited" /\ Target => IndInv'
<1> SUFFICES ASSUME IndInv, main # "exited", Target PROVE IndInv'
  OBVIOUS
<1> USE DEF IndInv
<1>1. /\ UNCHANGED <<inspector, appPort, main, told, killed, signals, serverVars, shutdown, runErr,
                     sinkVars, startupErr, exitCode, obeys>>
      /\ (child # "none" /\ child' # "none") \/ UNCHANGED child
      /\ child = "done" => UNCHANGED <<child, code>>
  BY DEF Target, ChildListens, HelperForks, HelperListens, ChildExits, SetResult, CloseDone
<1>2. FlagTypes' /\ OtherTypes'
  <2>1. /\ child' \in {"none", "running", "reaped", "recorded", "done"}
        /\ listens' \in BOOLEAN /\ helper' \in {"none", "forked", "listening"}
    BY DEF Target, ChildListens, HelperForks, HelperListens, ChildExits, SetResult, CloseDone,
           FlagTypes, OtherTypes
  <2>2. code' \in ExitCodes \cup {-1, 0}
    BY DEF Target, ChildListens, HelperForks, HelperListens, ChildExits, SetResult, CloseDone,
           FlagTypes, OtherTypes
  <2> QED
    <3>1. FlagTypes'
      BY <1>1, <2>1, Zenon DEF FlagTypes, serverVars
    <3>2. OtherTypes'
      BY <1>1, <2>1, <2>2 DEF OtherTypes, serverVars, sinkVars
    <3> QED
      BY <3>1, <3>2
<1>3. ChildInv'
  BY <1>1 DEF ChildInv, FlagTypes
<1>4. FailedInv'
  BY <1>1 DEF FailedInv
<1>5. StartedInv'
  BY <1>1 DEF StartedInv, NotStarted, Starting, serverVars, sinkVars
<1>6. ServerInv' /\ EndInv'
  BY <1>1 DEF ServerInv, EndInv, serverVars, sinkVars
<1>7. ExitInv'
  BY <1>1 DEF ExitInv
<1> QED
  BY <1>2, <1>3, <1>4, <1>5, <1>6, <1>7

\* The start, up to the opening of the sinks.
LEMMA StartTargetInv == IndInv /\ StartTarget => IndInv'
<1> SUFFICES ASSUME IndInv, StartTarget PROVE IndInv'
  OBVIOUS
<1> USE DEF IndInv
<1>1. /\ main = "start" /\ child = "none"
      /\ UNCHANGED <<inspector, appPort, code, listens, helper, obeys, told, killed, signals,
                     serverVars, shutdown, runErr, sinkVars>>
      /\ \/ /\ main' \in {"config", "detect"} /\ UNCHANGED <<startupErr, exitCode>>
            /\ child' = child \/ (inspector /\ child' = "running")
         \/ /\ main' = "exited" /\ startupErr' = "start" /\ exitCode' = 1
            /\ UNCHANGED child
  BY DEF StartTarget, ChildInv, Exit
<1>2. FlagTypes' /\ OtherTypes'
  <2>1. FlagTypes'
    BY <1>1, Zenon DEF FlagTypes, childVars, serverVars
  <2>2. /\ main' \in {"config", "detect", "exited"} /\ child' \in {"none", "running"}
        /\ startupErr' \in {"none", "start"} /\ exitCode' \in {exitCode, 1}
    BY <1>1 DEF FailedInv
  <2>3. OtherTypes'
    BY <1>1, <2>2 DEF OtherTypes, serverVars, sinkVars
  <2> QED
    BY <2>1, <2>3
<1>3. ChildInv' /\ FailedInv'
  BY <1>1 DEF ChildInv, FailedInv
<1>4. StartedInv'
  BY <1>1 DEF StartedInv, NotStarted, Starting, serverVars, sinkVars
<1>5. ServerInv' /\ EndInv'
  BY <1>1 DEF ServerInv, EndInv, serverVars, sinkVars
<1>6. ExitInv'
  BY <1>1 DEF ExitInv
<1> QED
  BY <1>2, <1>3, <1>4, <1>5, <1>6

\* waitForInspectorPort and the configuration: a step goes on, or fails with an
\* exit code that is not 0.
LEMMA StartupInv == IndInv /\ Startup => IndInv'
<1> SUFFICES ASSUME IndInv, Startup PROVE IndInv'
  OBVIOUS
<1> USE DEF IndInv
<1>1. UNCHANGED <<inspector, appPort, childVars, killed, serverVars, shutdown, runErr, sinkVars>>
  BY DEF Startup
<1>2. main \in {"detect", "ports", "detectWait", "config"}
  BY DEF Startup, DetectResult, DetectPorts, DetectWait, LoadConfig
<1>3. signals' \in 0 .. 2 /\ told' \in BOOLEAN
  <2>1. UNCHANGED <<told, signals>> \/ (signals > 0 /\ signals' = signals - 1 /\ ForwardSignal)
    BY DEF Startup, DetectResult, DetectPorts, DetectWait, LoadConfig
  <2>2. signals' \in 0 .. 2
    BY <2>1 DEF OtherTypes
  <2>3. told' \in BOOLEAN
    BY <2>1, Zenon DEF FlagTypes, ForwardSignal
  <2> QED
    BY <2>2, <2>3
<1>4. \/ main' \in {"detect", "ports", "detectWait", "config", "sinks"} /\ UNCHANGED <<startupErr, exitCode>>
      \/ /\ main' = "cleanup" /\ startupErr' \in {"childExit", "config"}
         /\ exitCode' \in 1 .. 255
  <2>1. (IF code = 0 THEN 1 ELSE childExitError(code)) \in 1 .. 255
    BY CodeFacts
  <2> QED
    BY <2>1 DEF Startup, DetectResult, DetectPorts, DetectWait, LoadConfig, ExitBeforeListen, StartupFails
<1>5. FlagTypes' /\ OtherTypes'
  <2>1. FlagTypes'
    BY <1>1, <1>3, Zenon DEF FlagTypes, childVars, serverVars
  <2>2. /\ main' \in {"detect", "ports", "detectWait", "config", "sinks", "cleanup"}
        /\ startupErr' \in {startupErr, "childExit", "config"} /\ exitCode' \in {exitCode} \cup 1 .. 255
    BY <1>4
  <2>3. OtherTypes'
    BY <1>1, <1>3, <2>2 DEF OtherTypes, childVars, serverVars, sinkVars
  <2> QED
    BY <2>1, <2>3
<1>6. ChildInv' /\ FailedInv'
  BY <1>1, <1>2, <1>4 DEF ChildInv, FailedInv, childVars
<1>7. StartedInv'
  BY <1>1, <1>2, <1>4 DEF StartedInv, NotStarted, Starting, serverVars, sinkVars
<1>8. ServerInv' /\ EndInv'
  BY <1>1, <1>2, <1>4 DEF ServerInv, EndInv, serverVars, sinkVars
<1>9. ExitInv'
  BY <1>4 DEF ExitInv
<1> QED
  BY <1>5, <1>6, <1>7, <1>8, <1>9

\* cleanupInspectorStartupFailure: the program exits only when the target is gone
\* or was killed.
LEMMA CleanupInv == IndInv /\ Cleanup => IndInv'
<1> SUFFICES ASSUME IndInv, Cleanup PROVE IndInv'
  OBVIOUS
<1> USE DEF IndInv
<1>1. UNCHANGED <<inspector, appPort, childVars, told, signals, serverVars, shutdown, runErr,
                  sinkVars, startupErr, exitCode>>
  BY DEF Cleanup
<1>2. /\ main \in {"cleanup", "killWait"} /\ startupErr # "none"
      /\ \/ main' = "exited" /\ killed' = killed /\ (child # "running" \/ killed)
         \/ main' = "killWait" /\ killed' = TRUE
  BY DEF Cleanup, StopChild, KillWait, FailedInv, Exited, GroupExists
<1>3. FlagTypes' /\ OtherTypes'
  <2>1. FlagTypes'
    BY <1>1, <1>2, Zenon DEF FlagTypes, childVars, serverVars
  <2>2. OtherTypes'
    BY <1>1, <1>2 DEF OtherTypes, childVars, serverVars, sinkVars
  <2> QED
    BY <2>1, <2>2
<1>4. ChildInv' /\ FailedInv'
  BY <1>1, <1>2 DEF ChildInv, FailedInv, childVars
<1>5. StartedInv'
  BY <1>1, <1>2 DEF StartedInv, NotStarted, Starting, serverVars, sinkVars
<1>6. ServerInv' /\ EndInv'
  BY <1>1, <1>2 DEF ServerInv, EndInv, serverVars, sinkVars
<1>7. ExitInv'
  BY <1>1, <1>2 DEF ExitInv, childVars
<1> QED
  BY <1>3, <1>4, <1>5, <1>6, <1>7

LEMMA OpenSinksInv == IndInv /\ OpenSinks => IndInv'
<1> SUFFICES ASSUME IndInv, OpenSinks PROVE IndInv'
  OBVIOUS
<1> USE DEF IndInv, OpenSinks
<1>1. FlagTypes' /\ OtherTypes'
  <2>1. FlagTypes'
    BY Zenon DEF FlagTypes, childVars, serverVars
  <2>2. OtherTypes'
    BY DEF OtherTypes, childVars, serverVars, sinkVars
  <2> QED
    BY <2>1, <2>2
<1>2. ChildInv' /\ FailedInv'
  BY DEF ChildInv, FailedInv, childVars
<1>3. StartedInv'
  BY DEF StartedInv, NotStarted, Starting, FailedInv
<1>4. ServerInv' /\ EndInv'
  BY DEF ServerInv, EndInv, StartedInv, NotStarted, Starting
<1>5. ExitInv'
  BY DEF ExitInv
<1> QED
  BY <1>1, <1>2, <1>3, <1>4, <1>5

\* The server's goroutine and server.Shutdown, while the program runs: one that
\* ended well leaves nobody who could accept a connection.
LEMMA ServerStepInv == IndInv /\ main # "exited" /\ Server => IndInv'
<1> SUFFICES ASSUME IndInv, main # "exited", Server PROVE IndInv'
  OBVIOUS
<1> USE DEF IndInv
<1>1. UNCHANGED <<inspector, appPort, main, childVars, told, killed, signals, runErr, sinkVars,
                  startupErr, exitCode>>
  BY DEF Server
<1>2. /\ server' \in {"off", "starting", "serving", "stopped"}
      /\ server' = "off" <=> server = "off"
      /\ shutdown' \in {"none", "running", "nil", "deadline"}
      /\ shutdown' # shutdown => shutdown = "running" /\ shutdown' # "none"
      /\ serverErrors' \in {<<>>, <<"closed">>, <<"failed">>}
      /\ ServerInv'
  <2>1. CASE Listen
    BY <2>1 DEF Listen, ServerInv, OtherTypes
  <2>2. CASE Accept
    BY <2>2 DEF Accept, ServerInv, OtherTypes
  <2>3. CASE Finish
    BY <2>3 DEF Finish, ServerInv, OtherTypes
  <2>4. CASE ServerReturns
    <3>1. serverErrors = <<>>
      BY <2>4 DEF ServerReturns, ServerInv
    <3>2. serverErrors' \in {<<"closed">>, <<"failed">>}
      BY <2>4, <3>1 DEF ServerReturns
    <3> QED
      BY <2>4, <3>2 DEF ServerReturns, ServerInv, OtherTypes
  <2>5. CASE ShutdownReturns
    BY <2>5 DEF ShutdownReturns, ServerInv, OtherTypes, serverVars
  <2> QED
    BY <2>1, <2>2, <2>3, <2>4, <2>5 DEF Server
<1>3. FlagTypes'
  <2>1. busy' \in BOOLEAN
    BY Zenon DEF Server, Listen, Accept, Finish, ServerReturns, ShutdownReturns, FlagTypes, serverVars
  <2> QED
    BY <1>1, <2>1, Zenon DEF FlagTypes, childVars
<1>4. OtherTypes'
  BY <1>1, <1>2 DEF OtherTypes, childVars, sinkVars
<1>5. ChildInv' /\ FailedInv'
  BY <1>1 DEF ChildInv, FailedInv, childVars
<1>6. StartedInv'
  BY <1>1, <1>2 DEF StartedInv, NotStarted, Starting, sinkVars
<1>7. EndInv'
  BY <1>1, <1>2 DEF EndInv, childVars, sinkVars
<1>8. ExitInv'
  BY <1>1 DEF ExitInv
<1> QED
  BY <1>2, <1>3, <1>4, <1>5, <1>6, <1>7, <1>8

\* One round of the select: with a target, only its end leaves the loop.
LEMMA SelectInv == IndInv /\ Select => IndInv'
<1> SUFFICES ASSUME IndInv, Select PROVE IndInv'
  OBVIOUS
<1> USE DEF IndInv
<1>1. UNCHANGED <<inspector, appPort, childVars, killed, server, busy, sinkVars, startupErr, exitCode>>
  BY DEF Select
<1>2. /\ main = "select" /\ main' \in {"select", "drain"}
      /\ main' = "drain" /\ inspector => child = "done"
  BY DEF Select, NormalEvent, ServerErrorEvent, SignalEvent, ChildEvent
<1>3. shutdown' = shutdown \/ (shutdown = "none" /\ shutdown' = "running")
  BY DEF Select, NormalEvent, ServerErrorEvent, SignalEvent, ChildEvent, initiateShutdown
<1>4. serverErrors' \in {serverErrors, <<>>}
  <2>1. serverErrors' = serverErrors \/ (serverErrors # <<>> /\ serverErrors' = Tail(serverErrors))
    BY DEF Select, NormalEvent, ServerErrorEvent, SignalEvent, ChildEvent
  <2>2. serverErrors # <<>> => Tail(serverErrors) = <<>>
    <3>1. ASSUME NEW x, serverErrors = <<x>> PROVE Tail(serverErrors) = <<>>
      <4>1. serverErrors \in Seq({x}) /\ Len(serverErrors) = 1
        BY <3>1
      <4>2. serverErrors # <<>>
        BY <4>1, EmptySeq
      <4>3. Tail(serverErrors) \in Seq({x}) /\ Len(Tail(serverErrors)) = 0
        BY <4>1, <4>2, HeadTailProperties
      <4> QED
        BY <4>3, EmptySeq
    <3>2. serverErrors # <<>> => serverErrors = <<"closed">> \/ serverErrors = <<"failed">>
      BY Zenon DEF OtherTypes
    <3> QED
      BY <3>1, <3>2
  <2> QED
    BY <2>1, <2>2
<1>5. signals' \in 0 .. 2
  <2>1. signals' = signals \/ (signals > 0 /\ signals' = signals - 1)
    BY DEF Select, NormalEvent, ServerErrorEvent, SignalEvent, ChildEvent
  <2> QED
    BY <2>1 DEF OtherTypes
<1>6. FlagTypes'
  <2>1. told' \in BOOLEAN /\ runErr' \in BOOLEAN
    BY Zenon DEF Select, NormalEvent, ServerErrorEvent, SignalEvent, ChildEvent, ForwardSignal, FlagTypes
  <2> QED
    BY <1>1, <2>1, Zenon DEF FlagTypes, childVars
<1>7. OtherTypes'
  <2>1. serverErrors' \in {<<>>, <<"closed">>, <<"failed">>}
    BY <1>4 DEF OtherTypes
  <2>2. shutdown' \in {"none", "running", "nil", "deadline"}
    BY <1>3 DEF OtherTypes
  <2> QED
    BY <1>1, <1>2, <1>5, <2>1, <2>2 DEF OtherTypes, childVars, sinkVars
<1>8. ChildInv' /\ FailedInv'
  BY <1>1, <1>2 DEF ChildInv, FailedInv, childVars
<1>9. StartedInv'
  BY <1>1, <1>2, <1>3 DEF StartedInv, FailedInv, NotStarted, Starting, sinkVars
<1>10. ServerInv'
  BY <1>1, <1>3, <1>4 DEF ServerInv
<1>11. EndInv' /\ ExitInv'
  BY <1>1, <1>2 DEF EndInv, ExitInv, childVars, sinkVars
<1> QED
  BY <1>6, <1>7, <1>8, <1>9, <1>10, <1>11

\* The wait for the shutdown, the closing of the sinks and the return.
LEMMA EndingInv == IndInv /\ Ending => IndInv'
<1> SUFFICES ASSUME IndInv, Ending PROVE IndInv'
  OBVIOUS
<1> USE DEF IndInv
<1>1. UNCHANGED <<inspector, appPort, childVars, told, killed, signals, serverVars, shutdown, runErr,
                  startupErr>>
  BY DEF Ending
<1>2. Len(Closers) \in Nat
  BY LifecycleAssumption, LenProperties
<1>3. startupErr = "none" /\ server # "off"
  BY DEF Ending, Drain, CloseSink, Return, FailedInv, StartedInv, NotStarted, Starting
<1>4. FlagTypes' /\ ServerInv'
  <2>1. FlagTypes'
    BY <1>1, Zenon DEF FlagTypes, childVars, serverVars
  <2>2. ServerInv'
    BY <1>1 DEF ServerInv, serverVars
  <2> QED
    BY <2>1, <2>2
<1>5. CASE Drain
  <2>1. OtherTypes'
    BY <1>1, <1>5 DEF Drain, OtherTypes, childVars, serverVars, sinkVars
  <2>2. ChildInv' /\ FailedInv'
    BY <1>1, <1>3, <1>5 DEF Drain, ChildInv, FailedInv, childVars
  <2>3. StartedInv'
    BY <1>1, <1>3, <1>5 DEF Drain, StartedInv, NotStarted, Starting, serverVars, sinkVars
  <2>4. EndInv' /\ ExitInv'
    BY <1>1, <1>5 DEF Drain, EndInv, ExitInv, childVars, sinkVars
  <2> QED
    BY <1>4, <2>1, <2>2, <2>3, <2>4
<1>6. CASE CloseSink
  <2>1. main = "close" /\ main' = "close" /\ closing' = closing + 1 /\ UNCHANGED exitCode
    BY <1>6 DEF CloseSink
  <2>2. closing \in 1 .. Len(Closers) /\ closing' \in 1 .. Len(Closers) + 1
    BY <1>2, <1>6 DEF CloseSink, OtherTypes
  <2>3. PICK outcome \in {"closed", "unflushed"} :
            sink' = [sink EXCEPT ![Closers[closing]] = IF @ = "open" THEN outcome ELSE @]
    BY <1>6 DEF CloseSink
  <2>4. \A i \in 1 .. Len(Closers) : Closers[i] \in Sink
    BY LifecycleAssumption, LenProperties DEF Sink
  <2>5. sink' \in [Sink -> {"absent", "open", "closed", "unflushed"}]
    BY <2>2, <2>3, <2>4 DEF OtherTypes
  <2>6. \A i \in 1 .. closing' - 1 : sink'[Closers[i]] # "open"
    <3> SUFFICES ASSUME NEW i \in 1 .. closing PROVE sink'[Closers[i]] # "open"
      BY <2>1, <2>2
    <3>1. i \in 1 .. Len(Closers) /\ Closers[i] \in Sink /\ Closers[closing] \in Sink
      BY <1>2, <2>2, <2>4
    <3>2. CASE Closers[i] = Closers[closing]
      BY <2>3, <3>1, <3>2 DEF OtherTypes
    <3>3. CASE Closers[i] # Closers[closing]
      <4>1. i \in 1 .. closing - 1
        BY <2>2, <3>3
      <4>2. sink[Closers[i]] # "open"
        BY <2>1, <4>1 DEF EndInv
      <4>3. sink'[Closers[i]] = sink[Closers[i]]
        BY <2>3, <3>1, <3>3 DEF OtherTypes
      <4> QED
        BY <4>2, <4>3
    <3> QED
      BY <3>2, <3>3
  <2>7. OtherTypes'
    BY <1>1, <2>1, <2>2, <2>5 DEF OtherTypes, childVars, serverVars
  <2>8. ChildInv' /\ FailedInv'
    BY <1>1, <1>3, <2>1 DEF ChildInv, FailedInv, childVars
  <2>9. StartedInv'
    BY <1>1, <1>3, <2>1 DEF StartedInv, NotStarted, Starting, serverVars
  <2>10. EndInv' /\ ExitInv'
    BY <1>1, <2>1, <2>6 DEF EndInv, ExitInv, childVars
  <2> QED
    BY <1>4, <2>7, <2>8, <2>9, <2>10
<1>7. CASE Return
  <2>1. /\ main = "close" /\ main' = "exited" /\ closing > Len(Closers)
        /\ exitCode' = IF inspector THEN childExitError(code) ELSE NormalExitCode
        /\ UNCHANGED sinkVars
    BY <1>7 DEF Return, Exit
  <2>2. exitCode' \in 0 .. 255
    BY <2>1, CodeFacts DEF NormalExitCode
  <2>3. OtherTypes'
    BY <1>1, <2>1, <2>2 DEF OtherTypes, childVars, serverVars, sinkVars
  <2>4. ChildInv' /\ FailedInv'
    BY <1>1, <1>3, <2>1 DEF ChildInv, FailedInv, childVars
  <2>5. StartedInv'
    BY <1>1, <1>3, <2>1 DEF StartedInv, NotStarted, Starting, serverVars
  <2>6. EndInv'
    BY <2>1 DEF EndInv
  <2>7. \A s \in Sink : sink'[s] # "open"
    <3> SUFFICES ASSUME NEW s \in Sink PROVE sink[s] # "open"
      BY <2>1 DEF sinkVars
    <3>1. PICK i \in 1 .. Len(Closers) : s = Closers[i]
      BY LifecycleAssumption, LenProperties DEF Sink
    <3>2. i \in 1 .. closing - 1
      BY <1>2, <2>1 DEF OtherTypes
    <3> QED
      BY <2>1, <3>1, <3>2 DEF EndInv
  <2>8. child' # "running"
    BY <1>1, <2>1 DEF EndInv, ChildInv, childVars
  <2>9. /\ shutdown' \in {"nil", "deadline"}
        /\ inspector' => child' = "done" /\ exitCode' = childExitError(code')
    BY <1>1, <2>1 DEF EndInv, childVars
  <2>10. ~inspector' => exitCode' = NormalExitCode'
    <3>1. NormalExitCode' = NormalExitCode
      BY <1>1, <2>1 DEF NormalExitCode, sinkVars
    <3> QED
      BY <1>1, <2>1, <3>1
  <2>11. ExitInv'
    BY <2>7, <2>8, <2>9, <2>10 DEF ExitInv
  <2> QED
    BY <1>4, <2>3, <2>4, <2>5, <2>6, <2>11
<1> QED
  BY <1>5, <1>6, <1>7 DEF Ending

\* A signal is only counted.
LEMMA SignalInv == IndInv /\ (Signal \/ UNCHANGED vars) => IndInv'
<1> SUFFICES ASSUME IndInv, Signal \/ UNCHANGED vars PROVE IndInv'
  OBVIOUS
<1> USE DEF IndInv
<1>1. UNCHANGED <<inspector, appPort, main, childVars, told, killed, serverVars, shutdown, runErr,
                  sinkVars, startupErr, exitCode>>
  BY DEF Signal, vars
<1>2. signals' \in 0 .. 2
  BY DEF Signal, vars, OtherTypes
<1>3. FlagTypes'
  BY <1>1, Zenon DEF FlagTypes, childVars, serverVars
<1>4. OtherTypes'
  BY <1>1, <1>2 DEF OtherTypes, childVars, serverVars, sinkVars
<1>5. ChildInv' /\ FailedInv'
  BY <1>1 DEF ChildInv, FailedInv, childVars
<1>6. StartedInv'
  BY <1>1 DEF StartedInv, NotStarted, Starting, serverVars, sinkVars
<1>7. ServerInv' /\ EndInv'
  BY <1>1 DEF ServerInv, EndInv, childVars, serverVars, sinkVars
<1>8. ExitInv'
  <2>1. NormalExitCode' = NormalExitCode
    BY <1>1 DEF NormalExitCode, sinkVars
  <2> QED
    BY <1>1, <2>1 DEF ExitInv, childVars, sinkVars
<1> QED
  BY <1>3, <1>4, <1>5, <1>6, <1>7, <1>8

LEMMA Inductive == Spec => []IndInv
<1>1. IndInv /\ [Next]_vars => IndInv'
  BY TargetInv, StartTargetInv, StartupInv, CleanupInv, OpenSinksInv, ServerStepInv, SelectInv,
     EndingInv, SignalInv
  DEF Next, Main, Gone
<1> QED
  BY <1>1, InitInv, PTL DEF Spec

----------------------------------------------------------------------------
(* The theorems. *)

\* main.go and cleanupInspectorStartupFailure: when cwproxy exits, the target is
\* gone or was sent SIGKILL.
THEOREM Orphans == Spec => []NoOrphan
<1>1. IndInv => NoOrphan
  BY DEF IndInv, ExitInv, NoOrphan
<1> QED
  BY <1>1, Inductive, PTL

LEMMA TypeParts == TypeOK <=> FlagTypes /\ OtherTypes
  BY Zenon DEF TypeOK, FlagTypes, OtherTypes

\* childExitError: inspector mode ends after the target and with its exit code,
\* and no channel ever holds more than its buffer.
THEOREM ChildsExitCode == Spec => []ExitCodeIsChilds
<1>1. IndInv => ExitCodeIsChilds
  <2> SUFFICES ASSUME IndInv PROVE ExitCodeIsChilds
    OBVIOUS
  <2>1. TypeOK
    BY TypeParts DEF IndInv
  <2>2. main = "exited" /\ inspector /\ startupErr = "none" =>
            child = "done" /\ exitCode = (IF code = -1 THEN 1 ELSE code)
    BY CodeFacts DEF IndInv, ExitInv
  <2> QED
    BY <2>1, <2>2 DEF ExitCodeIsChilds
<1> QED
  BY <1>1, Inductive, PTL

\* run() in normal mode: exit code 0 means that nothing failed and nothing was
\* left behind.
THEOREM CleanExit == Spec => []CleanExitIsFlushed
<1>1. IndInv => CleanExitIsFlushed
  <2> SUFFICES ASSUME IndInv, main = "exited", ~inspector, exitCode = 0
               PROVE  /\ server # "off" /\ ~runErr /\ ~busy
                      /\ \A s \in Sink : sink[s] \in {"absent", "closed"}
    BY DEF CleanExitIsFlushed
  <2>1. startupErr = "none"
    BY DEF IndInv, FailedInv
  <2>2. NormalExitCode = 0 /\ shutdown \in {"nil", "deadline"} /\ \A s \in Sink : sink[s] # "open"
    BY <2>1 DEF IndInv, ExitInv
  <2>3. shutdown = "nil" /\ ~runErr /\ \A s \in Sink : sink[s] # "unflushed"
    BY <2>2 DEF NormalExitCode
  <2>4. server # "off"
    BY <2>1 DEF IndInv, StartedInv, NotStarted, Starting
  <2>5. ~busy
    BY <2>3 DEF IndInv, ServerInv
  <2>6. \A s \in Sink : sink[s] \in {"absent", "closed"}
    BY <2>2, <2>3 DEF IndInv, OtherTypes
  <2> QED
    BY <2>3, <2>4, <2>5, <2>6
<1> QED
  BY <1>1, Inductive, PTL

\* closeAll after server.Shutdown: a connection meets a closed sink only if the
\* shutdown ran out of time, and every sink is closed in the end.
THEOREM SinksLast == Spec => []SinksOutliveTraffic
<1>1. IndInv => SinksOutliveTraffic
  <2> SUFFICES ASSUME IndInv PROVE SinksOutliveTraffic
    OBVIOUS
  <2>1. ASSUME busy, NEW s \in Sink, sink[s] \in {"closed", "unflushed"} PROVE shutdown = "deadline"
    <3>1. startupErr = "none"
      BY <2>1 DEF IndInv, StartedInv, NotStarted
    <3>2. main \in {"close", "exited"}
      BY <2>1 DEF IndInv, EndInv
    <3>3. shutdown \in {"nil", "deadline"}
      BY <3>1, <3>2 DEF IndInv, EndInv, ExitInv
    <3> QED
      BY <2>1, <3>3 DEF IndInv, ServerInv
  <2>2. main = "exited" => \A s \in Sink : sink[s] # "open"
    BY DEF IndInv, ExitInv, StartedInv, NotStarted
  <2> QED
    BY <2>1, <2>2 DEF SinksOutliveTraffic
<1> QED
  BY <1>1, Inductive, PTL
=============================================================================
