---------------------------- MODULE SignerCache ----------------------------
(***************************************************************************)
(* What the spec asks of the per-signer client caches ("re-enrolment      *)
(* purges the signer's cached connection objects"), with no mutex, map or *)
(* goroutine in sight.                                                     *)
(*                                                                         *)
(* store[s] is the version of the signer's certificate in the user store  *)
(* (0: not enrolled), notifying[s] the enrolments whose listeners have not *)
(* yet been told, and cache[s] the set of certificate versions the cached *)
(* connection objects of s were built with.  An enrolment writes a new    *)
(* certificate; its notification empties the signer's cache; a cache      *)
(* miss builds an object from the certificate now in the store.           *)
(***************************************************************************)
EXTENDS Naturals

CONSTANTS Signers, MaxEnroll

VARIABLES store, notifying, cache

scvars == <<store, notifying, cache>>

Init ==
    /\ store = [s \in Signers |-> 0]
    /\ notifying = [s \in Signers |-> 0]
    /\ cache = [s \in Signers |-> {}]

(* The CA issues a new certificate for s; its listeners are still to run. *)
Enrol(s) ==
    /\ store[s] < MaxEnroll
    /\ store' = [store EXCEPT ![s] = @ + 1]
    /\ notifying' = [notifying EXCEPT ![s] = @ + 1]
    /\ UNCHANGED cache

(* A listener is told of an enrolment of s and purges its cache.          *)
Notify(s) ==
    /\ notifying[s] > 0
    /\ notifying' = [notifying EXCEPT ![s] = @ - 1]
    /\ cache' = [cache EXCEPT ![s] = {}]
    /\ UNCHANGED store

(* A miss builds an object for an enrolled signer from its current        *)
(* certificate.                                                            *)
Fill(s) ==
    /\ store[s] # 0
    /\ cache' = [cache EXCEPT ![s] = @ \cup {store[s]}]
    /\ UNCHANGED <<store, notifying>>

Next == \E s \in Signers : Enrol(s) \/ Notify(s) \/ Fill(s)

Spec == Init /\ [][Next]_scvars

=============================================================================
