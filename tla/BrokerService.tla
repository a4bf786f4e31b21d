----------------------------- MODULE BrokerService -----------------------------
(***************************************************************************)
(* dhan_lean/providers/zerodha/broker_service.py: run_broker_service in    *)
(* the main thread, called by main or by a program of its own, with the    *)
(* signals and the shutdown event it may get at any time; and beside it    *)
(* the threads of its server and their clients, which are those of         *)
(* UnixServer: so are start(), start_in_thread() and stop().               *)
(***************************************************************************)
EXTENDS UnixServer, Sequences, SequencesExt

Signals == {"SIGINT", "SIGTERM"}

VARIABLES pc,         \* where run_broker_service is
          then,       \* where it goes when the handlers are back
          handlers,   \* handlers[s]: who gets signal s: the previous handler or the event,
                      \* which is "kept" where the previous one could not be set again
          requested,  \* the shutdown event
          ready, shutdownRequested, runtimeFailure,  \* the locals of that name
          events,     \* what the callback was told
          result      \* exit_status of the BrokerServiceResult
locals == <<ready, shutdownRequested, runtimeFailure>>
service == <<pc, then, handlers, requested, locals, events, result>>
serviceVars == <<service, vars>>

Terminal == {"stopped", "configuration_failed", "startup_failed", "runtime_failed"}

ServiceInit ==
  /\ pc \in {"parse", "check"} /\ then = "returned"
  /\ handlers = [s \in Signals |-> "previous"]
  /\ requested \in BOOLEAN
  /\ Init
  /\ ready = FALSE /\ shutdownRequested = FALSE /\ runtimeFailure = FALSE
  /\ events = <<>>
  /\ result = "none"
-----------------------------------------------------------------------------
Emit(event) == events' = Append(events, event)

\* __exit__ of _SignalHandlers, and then `label'.
LeaveHandlers(label) == pc' = "restoreInt" /\ then' = label

\* The service ends before it has started anything.
Refuse(event, status) == Emit(event) /\ result' = status /\ pc' = "returned"

\* main: the arguments make a BrokerServiceConfig with fake_upstream, or are refused; the
\* fake broker may fail; --help ends with the status of a clean shutdown and no event.
Parse ==
  /\ pc = "parse"
  /\ \/ pc' = "check" /\ UNCHANGED <<events, result>>
     \/ Refuse("configuration_failed", "INVALID_CONFIGURATION")
     \/ Refuse("startup_failed", "STARTUP_FAILURE")
     \/ pc' = "helped" /\ result' = "CLEAN_SHUTDOWN" /\ UNCHANGED events
  /\ UNCHANGED <<then, handlers, requested, vars, locals>>

\* The guards before anything is started, and the server's constructor.
Check ==
  /\ pc = "check"
  /\ \/ pc' = "installInt" /\ UNCHANGED <<events, result>>
     \/ Refuse("configuration_failed", "INVALID_CONFIGURATION")
     \/ Refuse("startup_failed", "UNSUPPORTED_PLATFORM")
     \/ Refuse("startup_failed", "STARTUP_FAILURE")
  /\ UNCHANGED <<then, handlers, requested, vars, locals>>

\* signal.signal(): a failure restores what was installed and leaves the with statement.
Install(signal, label, next) ==
  /\ pc = label
  /\ \/ /\ handlers' = [handlers EXCEPT ![signal] = "event"]
        /\ pc' = next /\ UNCHANGED then
     \/ /\ LeaveHandlers("abort") /\ UNCHANGED handlers
  /\ UNCHANGED <<requested, vars, locals, events, result>>

\* server.start()
StartServer ==
  /\ pc = "start"
  /\ \/ /\ Start /\ pc' = "readiness"
        /\ Emit("starting")
        /\ UNCHANGED <<then, result>>
     \/ /\ events' = Append(Append(events, "starting"), "startup_failed")
        /\ result' = "STARTUP_FAILURE"
        /\ LeaveHandlers("returned") /\ UNCHANGED vars
  /\ UNCHANGED <<handlers, requested, locals>>

\* The mandatory readiness message.
Readiness ==
  /\ pc = "readiness"
  /\ \/ Emit("ready") /\ ready' = TRUE /\ pc' = "thread"
     \/ pc' = "unreadyStop" /\ UNCHANGED <<ready, events>>
  /\ UNCHANGED <<then, handlers, requested, vars, shutdownRequested, runtimeFailure, result>>

\* stop() is called where pc is `label', and its end is awaited at `next'.
CallStop(label, next) ==
  /\ pc = label
  /\ StopBegins
  /\ pc' = next
  /\ UNCHANGED <<then, handlers, requested, locals, events, result>>

Stopped == stop \in {"returned", "raised"}

\* stop() after a failed readiness message; what it raises goes to the outer handler.
Unready ==
  /\ pc = "unready" /\ Stopped
  /\ IF stop = "raised"
     THEN LeaveHandlers("abort") /\ UNCHANGED <<events, result>>
     ELSE /\ Emit("startup_failed") /\ result' = "STARTUP_FAILURE"
          /\ LeaveHandlers("returned")
  /\ UNCHANGED <<handlers, requested, locals, vars>>

\* server.start_in_thread(), after the ready message.
StartThread ==
  /\ pc = "thread"
  /\ \/ StartServing /\ pc' = "poll" /\ UNCHANGED <<then, runtimeFailure>>
     \/ /\ runtimeFailure' = TRUE
        /\ LeaveHandlers("stopping") /\ UNCHANGED vars
  /\ UNCHANGED <<handlers, requested, ready, shutdownRequested, events, result>>

\* requested.wait(poll_interval), however it was woken.
Poll ==
  /\ pc = "poll"
  /\ pc' = IF requested THEN "read" ELSE "alive"
  /\ UNCHANGED <<then, handlers, requested, vars, locals, events, result>>

ThreadAlive ==
  /\ pc = "alive"
  /\ IF serve = "ended"
     THEN runtimeFailure' = TRUE /\ pc' = "read"
     ELSE pc' = "poll" /\ UNCHANGED runtimeFailure
  /\ UNCHANGED <<then, handlers, requested, vars, ready, shutdownRequested, events, result>>

ReadRequest ==
  /\ pc = "read"
  /\ shutdownRequested' = requested
  /\ IF requested THEN Emit("shutdown_requested") ELSE UNCHANGED events
  /\ LeaveHandlers("stopping")
  /\ UNCHANGED <<handlers, requested, vars, ready, runtimeFailure, result>>

\* Only the first handler is given back.
RestoreOne(signal, label, next) ==
  /\ pc = label
  /\ handlers' = [handlers EXCEPT !["SIGINT"] = "previous"]
  /\ pc' = next
  /\ UNCHANGED <<then, requested, vars, locals, events, result>>

\* signal.signal() again; a failure is swallowed.
Restore(signal, label, next) ==
  /\ pc = label
  /\ \E h \in {"previous", IF handlers[signal] = "event" THEN "kept" ELSE "previous"} :
       handlers' = [handlers EXCEPT ![signal] = h]
  /\ pc' = next
  /\ UNCHANGED <<then, requested, vars, locals, events, result>>

\* except Exception, before the service was ready: stop(), whose outcome is ignored.
Abort ==
  /\ pc = "aborting" /\ Stopped
  /\ Emit("startup_failed")
  /\ result' = "STARTUP_FAILURE"
  /\ pc' = "returned"
  /\ UNCHANGED <<then, handlers, requested, locals, vars>>

Stopping ==
  /\ pc = "stopping"
  /\ Emit("stopping")
  /\ pc' = "stop"
  /\ UNCHANGED <<then, handlers, requested, locals, result, vars>>

\* What stop() answers is not looked at.
StopIgnored ==
  /\ pc = "drain" /\ Stopped
  /\ IF runtimeFailure
     THEN Emit("runtime_failed") /\ result' = "RUNTIME_FAILURE"
     ELSE Emit("stopped") /\ result' = "CLEAN_SHUTDOWN"
  /\ pc' = "returned"
  /\ UNCHANGED <<then, handlers, requested, locals, vars>>

Stop ==
  /\ pc = "drain" /\ Stopped
  /\ IF runtimeFailure \/ stop = "raised" \/ ~answer
     THEN Emit("runtime_failed") /\ result' = "RUNTIME_FAILURE"
     ELSE Emit("stopped") /\ result' = "CLEAN_SHUTDOWN"
  /\ pc' = "returned"
  /\ UNCHANGED <<then, handlers, requested, locals, vars>>
-----------------------------------------------------------------------------
Running == pc \notin {"returned", "helped", "killed"}

\* The caller's shutdown event.
Request ==
  /\ Running /\ ~requested
  /\ requested' = TRUE
  /\ UNCHANGED <<pc, then, handlers, vars, locals, events, result>>

\* A signal sets the event, or ends the process if the previous handler is in place.
Signal(s) ==
  /\ Running
  /\ IF handlers[s] \in {"event", "kept"}
     THEN requested' = TRUE /\ UNCHANGED pc
     ELSE pc' = "killed" /\ UNCHANGED requested
  /\ UNCHANGED <<then, handlers, vars, locals, events, result>>

\* A step of the server's threads or of a client, until a signal ends the process.
Beside(step) == pc # "killed" /\ step /\ UNCHANGED service

Threads == \/ Beside(ServeStep) \/ Beside(StopStep) \/ Beside(DeadlinePasses)
           \/ \E c \in Clients : \/ Beside(ClientStep(c)) \/ Beside(WorkerStep(c))
                                \/ Beside(Broker(c))

Service == \/ Parse \/ Check
           \/ Install("SIGINT", "installInt", "installTerm") \/ Install("SIGTERM", "installTerm", "start")
           \/ StartServer \/ Readiness \/ StartThread \/ Poll \/ ThreadAlive \/ ReadRequest
           \/ Restore("SIGINT", "restoreInt", "restoreTerm") \/ Restore("SIGTERM", "restoreTerm", then)
           \/ CallStop("unreadyStop", "unready") \/ Unready
           \/ CallStop("abort", "aborting") \/ Abort
           \/ Stopping \/ CallStop("stop", "drain") \/ Stop

ServiceNext == Service \/ Request \/ (\E s \in Signals : Signal(s)) \/ Threads

ServiceSpec == ServiceInit /\ [][ServiceNext]_serviceVars

\* The main thread, the serve thread and stop() run, and time passes.
FairServiceSpec ==
  /\ ServiceSpec
  /\ WF_serviceVars(Service)
  /\ WF_serviceVars(Beside(ServeStep)) /\ WF_serviceVars(Beside(StopStep))
  /\ WF_serviceVars(Beside(DeadlinePasses))
-----------------------------------------------------------------------------
\* The event that goes with each status.
TerminalEvent == [CLEAN_SHUTDOWN |-> "stopped", RUNTIME_FAILURE |-> "runtime_failed",
                  INVALID_CONFIGURATION |-> "configuration_failed",
                  UNSUPPORTED_PLATFORM |-> "startup_failed", STARTUP_FAILURE |-> "startup_failed"]

\* However the service returns, what it reports is one story, and the server's threads agree
\* with it.  It has said "ready" exactly when its status says that it got that far, its one
\* terminal event is the last and the one of its status, and CLEAN_SHUTDOWN means that
\* somebody asked for the end and that the server is drained, as far as stop() tells:
\* "an incomplete drain is a sanitized runtime failure rather than a clean stopped event"
\* (AGENT_HANDOFF.md:40).
ReportIsTrue ==
  pc = "returned" =>
    /\ Contains(events, "ready") <=> result \in {"CLEAN_SHUTDOWN", "RUNTIME_FAILURE"}
    /\ \A i \in DOMAIN events : events[i] \in Terminal <=> i = Len(events)
    /\ Last(events) = TerminalEvent[result]
    /\ result = "CLEAN_SHUTDOWN" => shutdownRequested /\ Drained

\* Whatever way it returns, the caller's signal handlers are back, but for those that
\* signal.signal() refused, and the server, if it had come up, has been told to stop and
\* takes no more connections.
NothingLeft ==
  pc = "returned" =>
    /\ \A s \in Signals : handlers[s] # "event"
    /\ ~listening /\ (serve # "none" => stopping)

\* A request and the death of the serve thread both end the service, even if a worker is
\* held by a broker call that never returns.
ServiceEnds == requested \/ (serve = "ended" /\ ~stopping) ~> ~Running
================================================================================
