-------------------------- MODULE GatewayLifecycle --------------------------
(***************************************************************************)
(* What the REST gateway's start-up and shutdown promise (spec: the       *)
(* gateway serves requests once its dispatcher is up, and a stop or a     *)
(* failure of a part shuts the gateway down), with no goroutine or        *)
(* channel in sight.                                                       *)
(*                                                                         *)
(* ready: the async dispatcher is initialised; listening: the HTTP        *)
(* listener was started; closed: the dispatcher and the server were shut  *)
(* down; returned: Start has returned.                                    *)
(***************************************************************************)
VARIABLES ready, listening, closed, returned

glvars == <<ready, listening, closed, returned>>

Init ==
    /\ ready = FALSE
    /\ listening = FALSE
    /\ closed = FALSE
    /\ returned = FALSE

(* The dispatcher finishes initialising. *)
Initialise ==
    /\ ~ready
    /\ ready' = TRUE
    /\ UNCHANGED <<listening, closed, returned>>

(* The listener starts, only on a ready dispatcher and a running gateway. *)
Listen ==
    /\ ready
    /\ ~listening
    /\ ~closed
    /\ ~returned
    /\ listening' = TRUE
    /\ UNCHANGED <<ready, closed, returned>>

(* Start gives up before it ever listened: there is nothing to close.     *)
Abandon ==
    /\ ~listening
    /\ ~returned
    /\ returned' = TRUE
    /\ UNCHANGED <<ready, listening, closed>>

(* Start shuts the dispatcher and the server down and returns.           *)
StopAll ==
    /\ ~closed
    /\ ~returned
    /\ closed' = TRUE
    /\ returned' = TRUE
    /\ UNCHANGED <<ready, listening>>

Next == Initialise \/ Listen \/ Abandon \/ StopAll

Spec == Init /\ [][Next]_glvars

=============================================================================
