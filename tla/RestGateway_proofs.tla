------------------------- MODULE RestGateway_proofs -------------------------
(***************************************************************************)
(* Proof that Start never lets the HTTP listener run before the async    *)
(* dispatcher is initialised, whether or not Run may fail early.          *)
(*                                                                         *)
(* ListenAfterInit is not inductive by itself: ReadyToListen moves the    *)
(* server into ListenAndServe without looking at IsInitialized.  What     *)
(* makes it hold is that main is at readyToListen only after the polling *)
(* loop saw IsInitialized, and that nothing clears initialized again.     *)
(***************************************************************************)
EXTENDS RestGateway, TLAPS

ReadyAfterInit == main = "ready" => initialized

IInv == TypeOK /\ ListenAfterInit /\ ReadyAfterInit

LEMMA IInvInit == Init => IInv
  BY Zenon DEF Init, IInv, TypeOK, ListenAfterInit, ReadyAfterInit, Errs

LEMMA IInvNext == IInv /\ [Next]_vars => IInv'
<1> SUFFICES ASSUME IInv, [Next]_vars PROVE IInv'
  OBVIOUS
<1> USE DEF IInv, TypeOK, ListenAfterInit, ReadyAfterInit, Errs
<1>1. CASE GatewayInit
  BY <1>1 DEF GatewayInit
<1>2. CASE StartGoroutines
  BY <1>2 DEF StartGoroutines
<1>3. CASE RunInitialised
  BY <1>3 DEF RunInitialised
<1>4. CASE RunReturns
  BY <1>4 DEF RunReturns
<1>5. CASE PollInitialized
  BY <1>5 DEF PollInitialized
<1>6. CASE ReadyToListen
  BY <1>6 DEF ReadyToListen
<1>7. CASE SelectGwDone \/ SelectSvrDone \/ SelectSignal
  BY <1>7, Zenon DEF SelectGwDone, SelectSvrDone, SelectSignal
<1>8. CASE Shutdown
  BY <1>8 DEF Shutdown
<1>9. CASE ListenReturns \/ Signal
  BY <1>9, Zenon DEF ListenReturns, Signal
<1>10. CASE UNCHANGED vars
  BY <1>10 DEF vars
<1>11. QED
  BY <1>1, <1>2, <1>3, <1>4, <1>5, <1>6, <1>7, <1>8, <1>9, <1>10
     DEF Next, MainStep

(* The variables of Start's goroutines stay in their ranges. *)
THEOREM TypeCorrect == Spec => []TypeOK
<1>1. IInv => TypeOK
  BY DEF IInv
<1>2. QED
  BY <1>1, IInvInit, IInvNext, PTL DEF Spec

(* In every run of Start, for either behaviour of the dispatcher, the     *)
(* server goroutine is past readyToListen only when IsInitialized holds.  *)
THEOREM ListenAfterInitHolds == Spec => []ListenAfterInit
<1>1. IInv => ListenAfterInit
  BY DEF IInv
<1>2. QED
  BY <1>1, IInvInit, IInvNext, PTL DEF Spec

-----------------------------------------------------------------------------
(* The refinement of GatewayLifecycle.  Two more facts are needed: before *)
(* StartGoroutines the server goroutine does not exist, so a failure of  *)
(* Init or of CreateTLSConfiguration is an abstract Abandon; and only     *)
(* Shutdown closes the dispatcher or the server, and it ends Start, so a  *)
(* gateway that still runs has closed nothing.                            *)

NoServerYet == main \in {"init", "start"} => srv = "none"
ClosedOnReturn == (dispClosed \/ srvClosed) => main = "done"

RInv == IInv /\ NoServerYet /\ ClosedOnReturn

LEMMA RInvInit == Init => RInv
  BY IInvInit DEF Init, RInv, NoServerYet, ClosedOnReturn

LEMMA RInvNext == RInv /\ [Next]_vars => RInv'
<1> SUFFICES ASSUME RInv, [Next]_vars PROVE NoServerYet' /\ ClosedOnReturn'
  BY IInvNext DEF RInv
<1> USE DEF RInv, IInv, TypeOK, NoServerYet, ClosedOnReturn
<1>1. CASE GatewayInit \/ StartGoroutines
  BY <1>1 DEF GatewayInit, StartGoroutines
<1>2. CASE RunInitialised \/ RunReturns \/ ListenReturns \/ Signal
  BY <1>2 DEF RunInitialised, RunReturns, ListenReturns, Signal
<1>3. CASE PollInitialized \/ ReadyToListen
  BY <1>3 DEF PollInitialized, ReadyToListen
<1>4. CASE SelectGwDone \/ SelectSvrDone \/ SelectSignal
  BY <1>4 DEF SelectGwDone, SelectSvrDone, SelectSignal
<1>5. CASE Shutdown
  BY <1>5 DEF Shutdown
<1>6. CASE UNCHANGED vars
  BY <1>6 DEF vars
<1>7. QED
  BY <1>1, <1>2, <1>3, <1>4, <1>5, <1>6 DEF Next, MainStep

LEMMA RefInit == Init => GL!Init
  BY DEF Init, GL!Init

LEMMA RefNext == RInv /\ [Next]_vars => [GL!Next]_GL!glvars
<1> SUFFICES ASSUME RInv, [Next]_vars PROVE [GL!Next]_GL!glvars
  OBVIOUS
<1> USE DEF RInv, IInv, TypeOK, NoServerYet, ClosedOnReturn, ReadyAfterInit
<1>1. CASE GatewayInit \/ StartGoroutines
  <2>1. CASE main' = "done"
    <3>1. GL!Abandon
      BY <1>1, <2>1 DEF GatewayInit, StartGoroutines, GL!Abandon
    <3> QED
      BY <3>1 DEF GL!Next
  <2>2. CASE main' # "done"
    BY <1>1, <2>2 DEF GatewayInit, StartGoroutines, GL!glvars
  <2> QED
    BY <2>1, <2>2
<1>2. CASE RunInitialised
  <2>1. GL!Initialise
    BY <1>2 DEF RunInitialised, GL!Initialise
  <2> QED
    BY <2>1 DEF GL!Next
<1>3. CASE ReadyToListen
  <2>1. GL!Listen
    BY <1>3 DEF ReadyToListen, GL!Listen
  <2> QED
    BY <2>1 DEF GL!Next
<1>4. CASE Shutdown
  <2>1. GL!StopAll
    BY <1>4 DEF Shutdown, GL!StopAll
  <2> QED
    BY <2>1 DEF GL!Next
<1>5. CASE RunReturns \/ PollInitialized \/ ListenReturns \/ Signal
  BY <1>5 DEF RunReturns, PollInitialized, ListenReturns, Signal, GL!glvars
<1>6. CASE SelectGwDone \/ SelectSvrDone \/ SelectSignal
  BY <1>6 DEF SelectGwDone, SelectSvrDone, SelectSignal, GL!glvars
<1>7. CASE UNCHANGED vars
  BY <1>7 DEF vars, GL!glvars
<1>8. QED
  BY <1>1, <1>2, <1>3, <1>4, <1>5, <1>6, <1>7 DEF Next, MainStep

(* For either behaviour of the dispatcher, Start is the spec's gateway    *)
(* lifecycle: the HTTP listener starts only on an initialised dispatcher  *)
(* and a running gateway, and Start returns either before the listener   *)
(* was started or after g.Shutdown and srv.Shutdown closed the dispatcher *)
(* and the server.                                                         *)
THEOREM Implementation == Spec => LifecycleSpec
<1>1. Init => RInv /\ GL!Init
  BY RInvInit, RefInit
<1>2. RInv /\ [Next]_vars => RInv'
  BY RInvNext
<1>3. RInv /\ [Next]_vars => [GL!Next]_GL!glvars
  BY RefNext
<1>4. QED
  BY <1>1, <1>2, <1>3, PTL DEF Spec, LifecycleSpec, GL!Spec

=============================================================================
