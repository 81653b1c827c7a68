----------------------------- MODULE RestGateway -----------------------------
(***************************************************************************)
(* The start-up and shutdown of the REST gateway (internal/rest/          *)
(* restgateway.go, Gateway.Start and Gateway.Shutdown).  Start runs three *)
(* goroutines that meet on unbuffered channels:                           *)
(*   - main:  waits in a polling loop until the async dispatcher says it  *)
(*            is initialised, hands readyToListen to the server goroutine,*)
(*            registers for signals, and selects on gwDone, svrDone and   *)
(*            the signal channel; then it shuts everything down and       *)
(*            returns;                                                    *)
(*   - srv:   waits for readyToListen, runs ListenAndServe, and sends its *)
(*            error on svrDone;                                           *)
(*   - disp:  runs the async dispatcher's Run and sends its error on      *)
(*            gwDone.                                                     *)
(* A send on an unbuffered channel is a joint step of sender and          *)
(* receiver.  The async dispatcher (Run, IsInitialized, Close) is not     *)
(* under src/ and is modelled from its contract: Run marks itself         *)
(* initialised and runs until Close, or returns an error; it may fail     *)
(* before it is initialised only when EarlyRunFailure is TRUE.            *)
(***************************************************************************)
CONSTANT EarlyRunFailure

ASSUME EarlyRunFailureAssumption == EarlyRunFailure \in BOOLEAN

VARIABLES
    sm,          \* g.sm: "nil", or the subscription manager "open"/"closed"
    main,        \* where Start's own goroutine is
    srv,         \* where the HTTP server goroutine is
    disp,        \* where the dispatcher goroutine is
    initialized, \* asyncDispatcher.IsInitialized()
    dispClosed,  \* asyncDispatcher.Close() was called
    srvClosed,   \* srv.Shutdown() was called
    sigPending,  \* a signal sits in the buffered signals channel
    dispErr,     \* the error Run returned
    err          \* Start's err variable, its return value

vars == <<sm, main, srv, disp, initialized, dispClosed, srvClosed, sigPending,
          dispErr, err>>

Errs == {"nil", "err"}

Init ==
    /\ sm = "nil"
    /\ main = "init"
    /\ srv = "none"
    /\ disp = "none"
    /\ initialized = FALSE
    /\ dispClosed = FALSE
    /\ srvClosed = FALSE
    /\ sigPending = FALSE
    /\ dispErr = "nil"
    /\ err = "nil"

(* --- Init and the start of Start ---------------------------------- *)

\* Gateway.Init: ValidateConf, RPCConnect, receiptStore.Init and sm.Init
\* each return their error, after which the process exits before Start;
\* on success g.sm is set only when a LevelDB path is configured.
GatewayInit ==
    /\ main = "init"
    /\ \/ /\ main' = "done"
          /\ err' = "err"
          /\ UNCHANGED sm
       \/ /\ main' = "start"
          /\ sm' \in {"nil", "open"}
          /\ UNCHANGED err
    /\ UNCHANGED <<srv, disp, initialized, dispClosed, srvClosed, sigPending,
                   dispErr>>

\* Start: CreateTLSConfiguration may fail and return before any goroutine
\* is started; otherwise the server and dispatcher goroutines are started
\* and main enters the IsInitialized loop.
StartGoroutines ==
    /\ main = "start"
    /\ \/ /\ main' = "done"
          /\ err' = "err"
          /\ UNCHANGED <<srv, disp>>
       \/ /\ main' = "poll"
          /\ srv' = "wait"
          /\ disp' = "run"
          /\ UNCHANGED err
    /\ UNCHANGED <<sm, initialized, dispClosed, srvClosed, sigPending,
                   dispErr>>

(* --- the async dispatcher's Run, modelled from its contract ---------- *)

RunInitialised ==
    /\ disp = "run"
    /\ ~initialized
    /\ initialized' = TRUE
    /\ UNCHANGED <<sm, main, srv, disp, dispClosed, srvClosed, sigPending,
                   dispErr, err>>

\* Run returns nil once Close was called, or an error at any time (before
\* it is initialised only if EarlyRunFailure); goroutine 2 logs the error.
RunReturns ==
    /\ disp = "run"
    /\ initialized \/ EarlyRunFailure
    /\ \/ dispClosed /\ dispErr' = "nil"
       \/ dispErr' = "err"
    /\ disp' = "send"
    /\ UNCHANGED <<sm, main, srv, initialized, dispClosed, srvClosed, sigPending,
                   err>>

(* --- Start ------------------------------------------------------------ *)

\* The polling loop ends once IsInitialized() holds; each round in which
\* it does not is a sleep that changes nothing, so it is a stutter step.
PollNoWait ==
    /\ main = "poll"
    /\ main' = "ready"
    /\ UNCHANGED <<sm, srv, disp, initialized, dispClosed, srvClosed, sigPending,
                   dispErr, err>>

PollInitialized ==
    /\ main = "poll"
    /\ initialized
    /\ main' = "ready"
    /\ UNCHANGED <<sm, srv, disp, initialized, dispClosed, srvClosed, sigPending,
                   dispErr, err>>

\* readyToListen <- true meets <-readyToListen; main then registers for
\* signals and enters its select, the server goroutine enters
\* ListenAndServe.
ReadyToListen ==
    /\ main = "ready"
    /\ srv = "wait"
    /\ main' = "select"
    /\ srv' = "serving"
    /\ UNCHANGED <<sm, disp, initialized, dispClosed, srvClosed, sigPending,
                   dispErr, err>>

\* ListenAndServe returns ErrServerClosed after srv.Shutdown, or a fatal
\* listener error at any time; both are non-nil errors.
ListenReturns ==
    /\ srv = "serving"
    /\ srv' = "send"
    /\ UNCHANGED <<sm, main, disp, initialized, dispClosed, srvClosed, sigPending,
                   dispErr, err>>

\* A signal is delivered into the channel of capacity one once
\* signal.Notify has registered it (before that the runtime's default
\* action ends the process, outside Start); a second one is dropped.
Signal ==
    /\ main \in {"select", "shutdown"}
    /\ ~sigPending
    /\ sigPending' = TRUE
    /\ UNCHANGED <<sm, main, srv, disp, initialized, dispClosed, srvClosed,
                   dispErr, err>>

\* The three cases of the select; gwDone and svrDone are unbuffered, so
\* each case is a joint step with the sending goroutine.
SelectGwDone ==
    /\ main = "select"
    /\ disp = "send"
    /\ main' = "shutdown"
    /\ disp' = "done"
    /\ err' = dispErr
    /\ UNCHANGED <<sm, srv, initialized, dispClosed, srvClosed, sigPending,
                   dispErr>>

SelectSvrDone ==
    /\ main = "select"
    /\ srv = "send"
    /\ main' = "shutdown"
    /\ srv' = "done"
    /\ err' = "err"
    /\ UNCHANGED <<sm, disp, initialized, dispClosed, srvClosed, sigPending,
                   dispErr>>

SelectSignalIgnored ==
    /\ FALSE
    /\ UNCHANGED vars

SelectSignal ==
    /\ main = "select"
    /\ sigPending
    /\ main' = "shutdown"
    /\ sigPending' = FALSE
    /\ UNCHANGED <<sm, srv, disp, initialized, dispClosed, srvClosed, dispErr,
                   err>>

\* g.Shutdown() (sm.Close if g.sm is set, asyncDispatcher, rpc and ws
\* Close), then srv.Shutdown(ctx), then return err.  rpc and ws Close end
\* no goroutine of Start and are left out.
ShutdownKeepsDispatcher ==
    /\ main = "shutdown"
    /\ main' = "done"
    /\ srvClosed' = TRUE
    /\ sm' = IF sm = "open" THEN "closed" ELSE sm
    /\ UNCHANGED <<srv, disp, initialized, dispClosed, sigPending, dispErr, err>>

Shutdown ==
    /\ main = "shutdown"
    /\ main' = "done"
    /\ dispClosed' = TRUE
    /\ srvClosed' = TRUE
    /\ sm' = IF sm = "open" THEN "closed" ELSE sm
    /\ UNCHANGED <<srv, disp, initialized, sigPending, dispErr, err>>

MainStep == GatewayInit \/ StartGoroutines \/ PollInitialized
            \/ ReadyToListen \/ SelectGwDone
            \/ SelectSvrDone \/ SelectSignal \/ Shutdown

Next ==
    \/ RunInitialised \/ RunReturns
    \/ MainStep
    \/ ListenReturns
    \/ Signal

\* Go schedules every runnable goroutine, so main's steps are weakly fair.
\* The dispatcher is assumed to finish initialising, and Run and
\* ListenAndServe to return once closed; neither has to fail, and no
\* signal has to come.
Spec ==
    /\ Init /\ [][Next]_vars
    /\ WF_vars(MainStep)
    /\ WF_vars(RunInitialised)
    /\ WF_vars(RunReturns /\ dispClosed)
    /\ WF_vars(ListenReturns /\ srvClosed)

-----------------------------------------------------------------------------
(* Properties *)

TypeOK ==
    /\ sm \in {"nil", "open", "closed"}
    /\ main \in {"init", "start", "poll", "ready", "select", "shutdown", "done"}
    /\ srv \in {"none", "wait", "serving", "send", "done"}
    /\ disp \in {"none", "run", "send", "done"}
    /\ initialized \in BOOLEAN
    /\ dispClosed \in BOOLEAN
    /\ srvClosed \in BOOLEAN
    /\ sigPending \in BOOLEAN
    /\ dispErr \in Errs
    /\ err \in Errs

\* The HTTP listener is started only once the async dispatcher is
\* initialised, so no request reaches a dispatcher that cannot take it
\* (the IsInitialized loop before readyToListen in Start).
ListenAfterInit == srv \in {"serving", "send", "done"} => initialized

\* Start returns (and the process exits with its error) whenever a signal
\* arrives, the listener ends, or the dispatcher's Run ends: the select
\* "completes the main routine if any child ends, or SIGINT".
StartReturns ==
    (sigPending \/ srv = "send" \/ disp = "send") ~> main = "done"

-----------------------------------------------------------------------------
(* Seen from outside, Start is the gateway lifecycle of the spec          *)
(* (GatewayLifecycle): the listener starts only on an initialised         *)
(* dispatcher, and Start returns either before it ever started the        *)
(* listener or after shutting down both the dispatcher and the server.    *)
(* The goroutines, the channels and the signal are hidden.                *)
GL == INSTANCE GatewayLifecycle
          WITH ready <- initialized,
               listening <- srv \in {"serving", "send", "done"},
               closed <- dispClosed /\ srvClosed,
               returned <- main = "done"

LifecycleSpec == GL!Spec

=============================================================================
