----------------------- MODULE GatewayClients_proofs -----------------------
(***************************************************************************)
(* Proofs about GatewayClients for every set of signers, channels and     *)
(* goroutines and every bound on enrolments.                              *)
(*                                                                         *)
(* The invariant is split per signer.  Fresh(s, v) says a cached object   *)
(* of s is current once no enrolment of s is between its CA call and its  *)
(* notification.  GwOK(s) is that fact for the gateway and its networks,  *)
(* with NetworksOnGateway; ChOK(s) for the channel clients.  An action on *)
(* signer s leaves every other signer's entries alone (CacheOKLocal), so  *)
(* each case reduces to the signer it touches.  The one fact beyond the   *)
(* properties is notifying[s] <= store[s], which bounds notifying.        *)
(***************************************************************************)
EXTENDS GatewayClients, TLAPS

Fresh(s, v) == notifying[s] = 0 => v \in {Nil, store[s]}

GwOK(s) ==
    /\ Fresh(s, gwClients[s])
    /\ \A c \in Channels : Fresh(s, gwNets[s][c])
    /\ gwMade[s] => gwClients[s] # Nil
    /\ \A c \in Channels : gwNets[s][c] # Nil => gwNets[s][c] = gwClients[s]

ChOK(s) == \A c \in Channels : Fresh(s, chClients[s][c])

IInv ==
    /\ TypeOK
    /\ \A s \in Signers : notifying[s] <= store[s] /\ GwOK(s) /\ ChOK(s)

USE ClientsAssumption

-----------------------------------------------------------------------------
(* An action that leaves signer u's entries, store and count alone keeps  *)
(* u's part of the invariant.                                              *)
LEMMA CacheOKLocal ==
  ASSUME NEW u \in Signers,
         gwClients'[u] = gwClients[u], gwMade'[u] = gwMade[u],
         gwNets'[u] = gwNets[u], chClients'[u] = chClients[u],
         store'[u] = store[u], notifying'[u] = notifying[u],
         notifying[u] <= store[u], GwOK(u), ChOK(u)
  PROVE  notifying'[u] <= store'[u] /\ GwOK(u)' /\ ChOK(u)'
  BY DEF GwOK, ChOK, Fresh

(* getGatewayClient, under the mutex: its result is a version or Nil, it  *)
(* touches only the signer's own entries, and it keeps GwOK: whatever it  *)
(* creates is built from the store's current certificate or from the    *)
(* signer's cached gateway.                                                *)
LEMMA GatewayStep ==
  ASSUME TypeOK, NEW s \in Signers, NEW c \in Channels, NEW out,
         GetGatewayClient(s, c, out), GwOK(s),
         store' = store, notifying' = notifying
  PROVE  /\ out \in {Nil} \cup Versions
         /\ gwClients' \in [Signers -> {Nil} \cup Versions]
         /\ gwMade' \in [Signers -> BOOLEAN]
         /\ gwNets' \in [Signers -> [Channels -> {Nil} \cup Versions]]
         /\ \A u \in Signers \ {s} :
               gwClients'[u] = gwClients[u] /\ gwMade'[u] = gwMade[u]
               /\ gwNets'[u] = gwNets[u]
         /\ GwOK(s)'
<1> USE DEF TypeOK, Versions, Nil
<1>1. CASE gwMade[s] /\ NetworkLookup(s, c, gwClients[s], gwNets[s], out)
           /\ UNCHANGED <<gwClients, gwMade>>
  <2>1. gwClients[s] # Nil
    BY <1>1 DEF GwOK
  <2>2. CASE gwNets[s][c] # Nil /\ out = gwNets[s][c]
             /\ gwNets' = [gwNets EXCEPT ![s] = gwNets[s]]
    BY <1>1, <2>2 DEF GwOK, Fresh
  <2>3. CASE gwNets[s][c] = Nil /\ out = Nil
             /\ gwNets' = [gwNets EXCEPT ![s] = gwNets[s]]
    BY <1>1, <2>3 DEF GwOK, Fresh
  <2>4. CASE gwNets[s][c] = Nil /\ out = gwClients[s]
             /\ gwNets' = [gwNets EXCEPT ![s] = [gwNets[s] EXCEPT ![c] = gwClients[s]]]
    BY <1>1, <2>1, <2>4 DEF GwOK, Fresh
  <2> QED
    BY <1>1, <2>2, <2>3, <2>4 DEF NetworkLookup
<1>2. CASE ~gwMade[s] /\ out = Nil /\ UNCHANGED <<gwClients, gwMade, gwNets>>
  BY <1>2 DEF GwOK, Fresh
<1>3. CASE ~gwMade[s]
           /\ \E g \in Created(s) :
                /\ gwClients' = [gwClients EXCEPT ![s] = g]
                /\ gwMade' = [gwMade EXCEPT ![s] = TRUE]
                /\ NetworkLookup(s, c, g, NoClients, out)
  <2>1. PICK g \in Created(s) :
                /\ gwClients' = [gwClients EXCEPT ![s] = g]
                /\ gwMade' = [gwMade EXCEPT ![s] = TRUE]
                /\ NetworkLookup(s, c, g, NoClients, out)
    BY ZenonT(30), <1>3
  <2>2. g = store[s] /\ g \in Versions
    BY <2>1 DEF Created
  <2>3. gwClients'[s] = g /\ gwMade'[s]
        /\ gwClients' \in [Signers -> {Nil} \cup Versions]
        /\ gwMade' \in [Signers -> BOOLEAN]
        /\ \A u \in Signers \ {s} :
              gwClients'[u] = gwClients[u] /\ gwMade'[u] = gwMade[u]
    BY <2>1, <2>2
  <2>4. CASE gwNets' = [gwNets EXCEPT ![s] = NoClients] /\ out = Nil
    <3>1. gwNets'[s] = NoClients
      BY <2>4
    <3> QED
      BY <2>2, <2>3, <2>4, <3>1 DEF GwOK, Fresh, NoClients
  <2>5. CASE gwNets' = [gwNets EXCEPT ![s] = [NoClients EXCEPT ![c] = g]]
             /\ out = g
    <3>1. gwNets'[s] = [NoClients EXCEPT ![c] = g]
      BY <2>5
    <3>2. \A d \in Channels : gwNets'[s][d] \in {Nil, g}
      BY <3>1 DEF NoClients
    <3> QED
      BY <2>2, <2>3, <2>5, <3>2 DEF GwOK, Fresh, NoClients
  <2> QED
    BY <2>1, <2>4, <2>5 DEF NetworkLookup, NoClients
<1> QED
  BY <1>1, <1>2, <1>3 DEF GetGatewayClient

(* getChannelClient, under the mutex: the same for the channel clients.   *)
LEMMA ChannelStep ==
  ASSUME TypeOK, NEW s \in Signers, NEW c \in Channels, NEW out,
         GetChannelClient(s, c, out), ChOK(s),
         store' = store, notifying' = notifying
  PROVE  /\ out \in {Nil} \cup Versions
         /\ chClients' \in [Signers -> [Channels -> {Nil} \cup Versions]]
         /\ \A u \in Signers \ {s} : chClients'[u] = chClients[u]
         /\ ChOK(s)'
<1> USE DEF TypeOK, Versions, Nil
<1>1. CASE UNCHANGED chClients /\ out \in {chClients[s][c], Nil}
  BY <1>1 DEF ChOK, Fresh
<1>2. CASE out \in Created(s) /\ chClients' = [chClients EXCEPT ![s][c] = out]
  <2>1. out = store[s] /\ out \in Versions
    BY <1>2 DEF Created
  <2>2. chClients'[s] = [chClients[s] EXCEPT ![c] = out]
    BY <1>2
  <2>3. \A d \in Channels : chClients'[s][d] \in {chClients[s][d], out}
    BY <2>2
  <2> QED
    BY <1>2, <2>1, <2>3 DEF ChOK, Fresh
<1> QED
  BY <1>1, <1>2 DEF GetChannelClient

(* SignerUpdated leaves the signer with no cached object at all.          *)
LEMMA UpdatedStep ==
  ASSUME TypeOK, NEW s \in Signers, SignerUpdated(s)
  PROVE  /\ gwClients' \in [Signers -> {Nil} \cup Versions]
         /\ gwMade' \in [Signers -> BOOLEAN]
         /\ gwNets' \in [Signers -> [Channels -> {Nil} \cup Versions]]
         /\ chClients' \in [Signers -> [Channels -> {Nil} \cup Versions]]
         /\ \A u \in Signers \ {s} :
               gwClients'[u] = gwClients[u] /\ gwMade'[u] = gwMade[u]
               /\ gwNets'[u] = gwNets[u] /\ chClients'[u] = chClients[u]
         /\ GwOK(s)' /\ ChOK(s)'
  BY DEF SignerUpdated, TypeOK, GwOK, ChOK, Fresh, NoClients, Versions, Nil


(* Assembling IInv' from the signer an action touches.                    *)
LEMMA OneSigner ==
  ASSUME IInv, TypeOK', NEW s \in Signers,
         \A u \in Signers \ {s} :
            /\ gwClients'[u] = gwClients[u] /\ gwMade'[u] = gwMade[u]
            /\ gwNets'[u] = gwNets[u] /\ chClients'[u] = chClients[u]
            /\ store'[u] = store[u] /\ notifying'[u] = notifying[u],
         notifying'[s] <= store'[s], GwOK(s)', ChOK(s)'
  PROVE  IInv'
<1>1. ASSUME NEW u \in Signers \ {s}
      PROVE  notifying'[u] <= store'[u] /\ GwOK(u)' /\ ChOK(u)'
  BY CacheOKLocal DEF IInv
<1> QED
  BY <1>1 DEF IInv

(* A step that touches no cache, store or enrolment count.                *)
LEMMA CachesIdle ==
  ASSUME IInv, TypeOK',
         UNCHANGED <<gwClients, gwMade, gwNets, chClients, store, notifying>>
  PROVE  IInv'
<1>1. ASSUME NEW u \in Signers
      PROVE  notifying'[u] <= store'[u] /\ GwOK(u)' /\ ChOK(u)'
  BY CacheOKLocal DEF IInv
<1> QED
  BY <1>1 DEF IInv

-----------------------------------------------------------------------------
LEMMA IInvInit == Init => IInv
<1> SUFFICES ASSUME Init PROVE IInv
  OBVIOUS
<1>1. (CHOOSE s \in Signers : TRUE) \in Signers
      /\ (CHOOSE c \in Channels : TRUE) \in Channels
  OBVIOUS
<1>2. TypeOK
  <2>1. gwMade \in [Signers -> BOOLEAN]
    BY Zenon DEF Init
  <2>2. store \in [Signers -> 0..MaxEnroll] /\ notifying \in [Signers -> 0..MaxEnroll]
    BY DEF Init
  <2> QED
    BY ZenonT(30), <1>1, <2>1, <2>2 DEF Init, TypeOK, NoClients, Versions, Nil
<1>3. ASSUME NEW s \in Signers
      PROVE  notifying[s] <= store[s] /\ GwOK(s) /\ ChOK(s)
  <2>1. ~gwMade[s]
    BY Zenon DEF Init
  <2>2. /\ notifying[s] = 0 /\ store[s] = 0 /\ gwClients[s] = Nil
        /\ \A c \in Channels : gwNets[s][c] = Nil /\ chClients[s][c] = Nil
    BY DEF Init, NoClients, Nil
  <2> QED
    BY <2>1, <2>2 DEF GwOK, ChOK, Fresh
<1> QED
  BY <1>2, <1>3 DEF IInv

LEMMA IInvNext == IInv /\ [Next]_vars => IInv'
<1> SUFFICES ASSUME IInv, [Next]_vars PROVE IInv'
  OBVIOUS
<1>0. TypeOK
  BY DEF IInv
<1>1. ASSUME NEW r \in Requests, Prepare(r) PROVE IInv'
  <2>1. PICK out \in {Nil} \cup Versions :
          /\ GetGatewayClient(rsig[r], rchan[r], out)
          /\ rver' = [rver EXCEPT ![r] = out]
          /\ \/ pc' = [pc EXCEPT ![r] = "submit"] /\ UNCHANGED res
             \/ /\ pc' = [pc EXCEPT ![r] = "idle"]
                /\ res' = [res EXCEPT ![r] = "failed"]
    BY ZenonT(30), <1>1 DEF Prepare
  <2>2. UNCHANGED <<chClients, store, notifying, idCache, rsig, rchan, tx>>
    BY <1>1 DEF Prepare
  <2> DEFINE s == rsig[r]
  <2>3. s \in Signers /\ rchan[r] \in Channels /\ GwOK(s) /\ ChOK(s)
        /\ notifying[s] <= store[s]
    BY <1>0 DEF IInv, TypeOK
  <2>4. /\ gwClients' \in [Signers -> {Nil} \cup Versions]
        /\ gwMade' \in [Signers -> BOOLEAN]
        /\ gwNets' \in [Signers -> [Channels -> {Nil} \cup Versions]]
        /\ \A u \in Signers \ {s} :
              gwClients'[u] = gwClients[u] /\ gwMade'[u] = gwMade[u]
              /\ gwNets'[u] = gwNets[u]
        /\ GwOK(s)'
    BY <1>0, <2>1, <2>2, <2>3, GatewayStep
  <2>5. TypeOK'
    BY ZenonT(30), <1>0, <1>1, <2>1, <2>2, <2>4 DEF TypeOK, Prepare
  <2>6. ChOK(s)'
    BY <2>2, <2>3 DEF ChOK, Fresh
  <2> QED
    BY <2>2, <2>3, <2>4, <2>5, <2>6, OneSigner
<1>2. ASSUME NEW r \in Requests,
             Submit(r) \/ Notified(r) \/ TimedOut(r) \/ Commit(r)
      PROVE  IInv'
  <2>1. UNCHANGED <<gwClients, gwMade, gwNets, chClients, store, notifying>>
    BY <1>2 DEF Submit, Notified, TimedOut, Commit, cacheVars
  <2>2. TypeOK'
    <3>1. CASE Submit(r)
      BY ZenonT(30), <1>0, <3>1 DEF TypeOK, Submit, cacheVars
    <3>2. CASE Notified(r)
      <4>1. rsig[r] \in Signers
        BY <1>0 DEF TypeOK
      <4>2. store[rsig[r]] \in {Nil} \cup Versions
        BY <1>0, <4>1 DEF TypeOK, Versions, Nil
      <4> QED
        BY <1>0, <3>2, <4>1, <4>2 DEF TypeOK, Notified, GetSigningIdentity,
                                       cacheVars, Nil
    <3>3. CASE TimedOut(r)
      BY <1>0, <3>3 DEF TypeOK, TimedOut, cacheVars
    <3>4. CASE Commit(r)
      BY <1>0, <3>4 DEF TypeOK, Commit, cacheVars
    <3> QED
      BY <1>2, <3>1, <3>2, <3>3, <3>4
  <2> QED
    BY <2>1, <2>2, CachesIdle
<1>3. ASSUME NEW r \in Requests, NEW s \in Signers, NEW c \in Channels,
             CallInvoke(r, s, c)
      PROVE  IInv'
  BY <1>0, <1>3, CachesIdle DEF CallInvoke, TypeOK, cacheVars
<1>4. ASSUME NEW s \in Signers, EnrollCA(s) \/ ReenrollCA(s) PROVE IInv'
  <2>0. EnrollCA(s)
    BY <1>4 DEF ReenrollCA
  <2>1. UNCHANGED <<gwClients, gwMade, gwNets, chClients>>
        /\ store' = [store EXCEPT ![s] = @ + 1]
        /\ notifying' = [notifying EXCEPT ![s] = @ + 1]
    BY <2>0 DEF EnrollCA
  <2>2. notifying[s] <= store[s] /\ store[s] < MaxEnroll
    BY <2>0 DEF IInv, EnrollCA
  <2>3. TypeOK'
    BY <1>0, <2>0, <2>1, <2>2 DEF TypeOK, EnrollCA, reqVars
  <2>4. notifying'[s] <= store'[s] /\ notifying'[s] # 0
    BY <1>0, <2>1, <2>2 DEF TypeOK
  <2>5. GwOK(s)' /\ ChOK(s)'
    BY <1>0, <2>1, <2>4 DEF IInv, GwOK, ChOK, Fresh
  <2> QED
    BY <1>0, <2>1, <2>3, <2>4, <2>5, OneSigner DEF TypeOK
<1>5. ASSUME NEW s \in Signers, EnrollNotify(s) PROVE IInv'
  <2>1. SignerUpdated(s) /\ UNCHANGED store
        /\ notifying[s] > 0
        /\ notifying' = [notifying EXCEPT ![s] = @ - 1]
    BY <1>5 DEF EnrollNotify
  <2>2. notifying[s] <= store[s]
    BY DEF IInv
  <2>3. /\ gwClients' \in [Signers -> {Nil} \cup Versions]
        /\ gwMade' \in [Signers -> BOOLEAN]
        /\ gwNets' \in [Signers -> [Channels -> {Nil} \cup Versions]]
        /\ chClients' \in [Signers -> [Channels -> {Nil} \cup Versions]]
        /\ \A u \in Signers \ {s} :
              gwClients'[u] = gwClients[u] /\ gwMade'[u] = gwMade[u]
              /\ gwNets'[u] = gwNets[u] /\ chClients'[u] = chClients[u]
        /\ GwOK(s)' /\ ChOK(s)'
    BY <1>0, <2>1, UpdatedStep
  <2>4. TypeOK'
    <3>1. UNCHANGED <<idCache, pc, rsig, rchan, rver, tx, res>>
      BY <1>5 DEF EnrollNotify, reqVars
    <3>2. notifying' \in [Signers -> 0..MaxEnroll]
      BY <1>0, <2>1, <2>2 DEF TypeOK
    <3> QED
      BY <1>0, <2>1, <2>3, <3>1, <3>2 DEF TypeOK
  <2>5. notifying'[s] <= store'[s]
    BY <1>0, <2>1, <2>2 DEF TypeOK
  <2> QED
    BY <1>0, <2>1, <2>3, <2>4, <2>5, OneSigner DEF TypeOK
<1>6. ASSUME NEW s \in Signers, NEW c \in Channels, NEW strong \in BOOLEAN,
             Query(s, c, strong)
      PROVE  IInv'
  <2>1. PICK o1 \in {Nil} \cup Versions :
          /\ GetChannelClient(s, c, o1)
          /\ IF o1 # Nil /\ strong
               THEN \E o2 \in {Nil} \cup Versions : GetGatewayClient(s, c, o2)
               ELSE UNCHANGED <<gwClients, gwMade, gwNets>>
    BY <1>6 DEF Query
  <2>2. UNCHANGED <<store, notifying, idCache>> /\ UNCHANGED reqVars
    BY <1>6 DEF Query
  <2>3. GwOK(s) /\ ChOK(s) /\ notifying[s] <= store[s]
    BY DEF IInv
  <2>4. /\ chClients' \in [Signers -> [Channels -> {Nil} \cup Versions]]
        /\ \A u \in Signers \ {s} : chClients'[u] = chClients[u]
        /\ ChOK(s)'
    BY <1>0, <2>1, <2>2, <2>3, ChannelStep
  <2>5. /\ gwClients' \in [Signers -> {Nil} \cup Versions]
        /\ gwMade' \in [Signers -> BOOLEAN]
        /\ gwNets' \in [Signers -> [Channels -> {Nil} \cup Versions]]
        /\ \A u \in Signers \ {s} :
              gwClients'[u] = gwClients[u] /\ gwMade'[u] = gwMade[u]
              /\ gwNets'[u] = gwNets[u]
        /\ GwOK(s)'
    <3>1. CASE o1 # Nil /\ strong
      <4>1. PICK o2 \in {Nil} \cup Versions : GetGatewayClient(s, c, o2)
        BY <2>1, <3>1
      <4> QED
        BY <1>0, <2>2, <2>3, <4>1, GatewayStep
    <3>2. CASE ~(o1 # Nil /\ strong)
      <4>1. UNCHANGED <<gwClients, gwMade, gwNets>>
        BY <2>1, <3>2
      <4> QED
        BY <1>0, <2>2, <2>3, <4>1 DEF TypeOK, GwOK, Fresh
    <3> QED
      BY <3>1, <3>2
  <2>6. TypeOK'
    BY <1>0, <2>2, <2>4, <2>5 DEF TypeOK, reqVars
  <2> QED
    BY <2>2, <2>3, <2>4, <2>5, <2>6, OneSigner
<1>7. CASE UNCHANGED vars
  BY <1>0, <1>7, CachesIdle DEF vars, TypeOK
<1> QED
  BY <1>1, <1>2, <1>3, <1>4, <1>5, <1>6, <1>7 DEF Next, InvokeStep

-----------------------------------------------------------------------------
(* Spec, per-signer client caches: once every Enroll/Reenroll of a signer *)
(* has notified the RPC wrapper, each gateway, network and channel client *)
(* cached for it carries the certificate now in the store, for every set  *)
(* of signers, channels and goroutines.                                    *)
THEOREM CacheFreshHolds == Spec => []CacheFresh
<1>1. IInv => CacheFresh
  <2> SUFFICES ASSUME IInv, NEW s \in Signers, notifying[s] = 0
               PROVE  Cached(s) \subseteq {store[s]}
    BY DEF CacheFresh
  <2>1. GwOK(s) /\ ChOK(s)
    BY DEF IInv
  <2> QED
    BY <2>1 DEF Cached, GwCached, ChCached, GwOK, ChOK, Fresh
<1> QED
  BY <1>1, IInvInit, IInvNext, PTL DEF Spec

(* getGatewayClient never hands networkCreator a nil gateway, and every   *)
(* cached network was built on the signer's cached gateway.               *)
THEOREM NetworksOnGatewayHolds == Spec => []NetworksOnGateway
<1>1. IInv => NetworksOnGateway
  BY ZenonT(30) DEF IInv, GwOK, NetworksOnGateway
<1> QED
  BY <1>1, IInvInit, IInvNext, PTL DEF Spec

(* The wrapper's maps, the store, the identity cache and every Invoke    *)
(* goroutine keep their types: in particular the count of enrolments   *)
(* waiting to notify stays within the bound on enrolments.                *)
THEOREM TypeCorrect == Spec => []TypeOK
<1>1. IInv => TypeOK
  BY DEF IInv
<1> QED
  BY <1>1, IInvInit, IInvNext, PTL DEF Spec

-----------------------------------------------------------------------------
(* The refinement of SignerCache.  One more fact is needed: a signer with *)
(* no network map has no gateway and no network either (SignerUpdated     *)
(* clears all three, and only getGatewayClient sets them, together).      *)
(* Without it, the gateway getGatewayClient creates could replace an      *)
(* older one, and the abstract cache would lose a version no notification *)
(* purged.                                                                 *)

NotMade(s) == ~gwMade[s] => gwClients[s] = Nil /\ gwNets[s] = NoClients

RInv == IInv /\ \A s \in Signers : NotMade(s)

(* A step on signer s leaves its cached versions alone or adds the one in *)
(* the store.                                                              *)
Grown(s) ==
    \/ Cached(s)' = Cached(s)
    \/ store[s] # Nil /\ Cached(s)' = Cached(s) \cup {store[s]}

LEMMA GatewayNotMade ==
  ASSUME TypeOK, NEW s \in Signers, NEW c \in Channels, NEW out,
         GetGatewayClient(s, c, out), NotMade(s)
  PROVE  NotMade(s)'
<1>0. \/ gwMade[s] /\ UNCHANGED <<gwClients, gwMade>>
      \/ ~gwMade[s] /\ UNCHANGED <<gwClients, gwMade, gwNets>>
      \/ gwMade' = [gwMade EXCEPT ![s] = TRUE]
  BY ZenonT(30) DEF GetGatewayClient
<1>1. CASE gwMade[s] /\ UNCHANGED <<gwClients, gwMade>>
  BY <1>1 DEF NotMade
<1>2. CASE ~gwMade[s] /\ UNCHANGED <<gwClients, gwMade, gwNets>>
  BY <1>2 DEF NotMade
<1>3. CASE gwMade' = [gwMade EXCEPT ![s] = TRUE]
  BY <1>3 DEF NotMade, TypeOK
<1> QED
  BY <1>0, <1>1, <1>2, <1>3

(* getGatewayClient adds at most the store's version to the signer's      *)
(* gateway and networks: a network built on the cached gateway adds none, *)
(* and a new gateway is built only when the signer has none.              *)
LEMMA GatewayCached ==
  ASSUME TypeOK, NEW s \in Signers, NEW c \in Channels, NEW out,
         GetGatewayClient(s, c, out), GwOK(s), NotMade(s)
  PROVE  \/ GwCached(s)' = GwCached(s)
         \/ store[s] # Nil /\ GwCached(s)' = GwCached(s) \cup {store[s]}
<1>1. CASE gwMade[s] /\ NetworkLookup(s, c, gwClients[s], gwNets[s], out)
           /\ UNCHANGED <<gwClients, gwMade>>
  <2>1. CASE gwNets'[s] = gwNets[s]
    BY <1>1, <2>1 DEF GwCached
  <2>2. CASE gwNets'[s] = [gwNets[s] EXCEPT ![c] = gwClients[s]]
    <3>1. \A d \in Channels : gwNets'[s][d] \in {gwNets[s][d], gwClients[s]}
      BY <2>2 DEF TypeOK
    <3>2. \A d \in Channels : gwNets[s][d] \in {gwNets'[s][d], Nil}
      BY <1>1, <2>2 DEF TypeOK, NetworkLookup
    <3> QED
      BY <1>1, <3>1, <3>2 DEF GwCached
  <2> QED
    BY ZenonT(30), <1>1, <2>1, <2>2 DEF NetworkLookup, TypeOK
<1>2. CASE ~gwMade[s] /\ UNCHANGED <<gwClients, gwMade, gwNets>>
  BY <1>2 DEF GwCached
<1>3. CASE ~gwMade[s]
           /\ \E g \in Created(s) :
                /\ gwClients' = [gwClients EXCEPT ![s] = g]
                /\ NetworkLookup(s, c, g, NoClients, out)
  <2>1. PICK g \in Created(s) :
                /\ gwClients' = [gwClients EXCEPT ![s] = g]
                /\ NetworkLookup(s, c, g, NoClients, out)
    BY ZenonT(30), <1>3
  <2>2. g = store[s] /\ g # Nil
    BY <2>1 DEF Created
  <2>3. GwCached(s) = {}
    BY <1>3 DEF NotMade, GwCached, NoClients
  <2>4. gwClients'[s] = g
    BY <2>1 DEF TypeOK
  <2>5. \A d \in Channels : gwNets'[s][d] \in {Nil, g}
    BY <2>1 DEF NetworkLookup, NoClients, TypeOK
  <2> QED
    BY <2>2, <2>3, <2>4, <2>5 DEF GwCached
<1> QED
  BY ZenonT(30), <1>1, <1>2, <1>3 DEF GetGatewayClient

(* getChannelClient adds at most the store's version.                     *)
LEMMA ChannelCached ==
  ASSUME TypeOK, NEW s \in Signers, NEW c \in Channels, NEW out,
         GetChannelClient(s, c, out)
  PROVE  \/ ChCached(s)' = ChCached(s)
         \/ store[s] # Nil /\ ChCached(s)' = ChCached(s) \cup {store[s]}
<1>1. CASE UNCHANGED chClients
  BY <1>1 DEF ChCached
<1>2. CASE chClients[s][c] = Nil /\ out \in Created(s)
           /\ chClients' = [chClients EXCEPT ![s][c] = out]
  <2>1. out = store[s] /\ out # Nil
    BY <1>2 DEF Created
  <2>2. \A d \in Channels : chClients'[s][d] = IF d = c THEN out ELSE chClients[s][d]
    BY <1>2 DEF TypeOK
  <2> QED
    BY <1>2, <2>1, <2>2 DEF ChCached
<1> QED
  BY <1>1, <1>2 DEF GetChannelClient

(* A step that changes the caches of s alone, by Grown, is an abstract    *)
(* Fill of s or a stutter.                                                 *)
LEMMA GrownStep ==
  ASSUME NEW s \in Signers, store' = store, notifying' = notifying,
         \A u \in Signers \ {s} : Cached(u)' = Cached(u), Grown(s)
  PROVE  [SC!Next]_SC!scvars
<1>1. CASE Cached(s)' = Cached(s)
  <2>1. [u \in Signers |-> Cached(u)]' = [u \in Signers |-> Cached(u)]
    BY <1>1
  <2> QED
    BY <2>1 DEF SC!scvars
<1>2. CASE store[s] # Nil /\ Cached(s)' = Cached(s) \cup {store[s]}
  <2>1. SC!Fill(s)
    BY ZenonT(30), <1>2 DEF SC!Fill, Nil
  <2> QED
    BY <2>1 DEF SC!Next
<1> QED
  BY <1>1, <1>2 DEF Grown

(* A step that touches no cache, store or count is a stutter.             *)
LEMMA IdleStep ==
  ASSUME UNCHANGED <<gwClients, gwNets, chClients, store, notifying>>
  PROVE  UNCHANGED SC!scvars
BY DEF SC!scvars, Cached, GwCached, ChCached

(* The gateway part and the channel part each grow by at most the store's *)
(* version, so the whole cache does.                                       *)
LEMMA CombineGrown ==
  ASSUME NEW s \in Signers,
         \/ GwCached(s)' = GwCached(s)
         \/ store[s] # Nil /\ GwCached(s)' = GwCached(s) \cup {store[s]},
         \/ ChCached(s)' = ChCached(s)
         \/ store[s] # Nil /\ ChCached(s)' = ChCached(s) \cup {store[s]}
  PROVE  Grown(s)
BY DEF Grown, Cached

(* getGatewayClient keeps NotMade for every signer.                        *)
LEMMA GatewayNotMadeAll ==
  ASSUME TypeOK, NEW s \in Signers, NEW c \in Channels, NEW out,
         GetGatewayClient(s, c, out), GwOK(s),
         store' = store, notifying' = notifying,
         \A u \in Signers : NotMade(u)
  PROVE  \A u \in Signers : NotMade(u)'
<1>1. NotMade(s)'
  BY GatewayNotMade
<1>2. \A u \in Signers \ {s} :
         gwClients'[u] = gwClients[u] /\ gwMade'[u] = gwMade[u]
         /\ gwNets'[u] = gwNets[u]
  BY GatewayStep
<1> QED
  BY <1>1, <1>2 DEF NotMade

LEMMA RInvInit == Init => RInv
<1> SUFFICES ASSUME Init PROVE RInv
  OBVIOUS
<1>1. IInv
  BY IInvInit
<1>2. \A s \in Signers : NotMade(s)
  BY DEF Init, NotMade
<1> QED
  BY <1>1, <1>2 DEF RInv

LEMMA RInvNext == RInv /\ [Next]_vars => RInv'
<1> SUFFICES ASSUME RInv, [Next]_vars PROVE \A s \in Signers : NotMade(s)'
  BY IInvNext DEF RInv
<1>0. TypeOK /\ \A s \in Signers : NotMade(s) /\ GwOK(s)
  BY DEF RInv, IInv
<1>1. ASSUME NEW r \in Requests, Prepare(r) PROVE \A s \in Signers : NotMade(s)'
  <2>1. PICK out \in {Nil} \cup Versions : GetGatewayClient(rsig[r], rchan[r], out)
    BY ZenonT(30), <1>1 DEF Prepare
  <2>2. UNCHANGED <<store, notifying>> /\ rsig[r] \in Signers /\ rchan[r] \in Channels
    BY <1>0, <1>1 DEF Prepare, TypeOK
  <2> QED
    BY <1>0, <2>1, <2>2, GatewayNotMadeAll
<1>2. ASSUME NEW s \in Signers, EnrollNotify(s) PROVE \A u \in Signers : NotMade(u)'
  BY <1>0, <1>2 DEF EnrollNotify, SignerUpdated, NotMade, TypeOK
<1>3. ASSUME NEW s \in Signers, NEW c \in Channels, NEW strong \in BOOLEAN,
             Query(s, c, strong)
      PROVE  \A u \in Signers : NotMade(u)'
  <2>1. PICK o1 \in {Nil} \cup Versions :
          IF o1 # Nil /\ strong
            THEN \E o2 \in {Nil} \cup Versions : GetGatewayClient(s, c, o2)
            ELSE UNCHANGED <<gwClients, gwMade, gwNets>>
    BY <1>3 DEF Query
  <2>2. UNCHANGED <<store, notifying>>
    BY <1>3 DEF Query
  <2>3. CASE o1 # Nil /\ strong
    <3>1. PICK o2 \in {Nil} \cup Versions : GetGatewayClient(s, c, o2)
      BY <2>1, <2>3
    <3> QED
      BY <1>0, <2>2, <3>1, GatewayNotMadeAll
  <2>4. CASE ~(o1 # Nil /\ strong)
    BY <1>0, <2>1, <2>4 DEF NotMade
  <2> QED
    BY <2>3, <2>4
<1>4. ASSUME UNCHANGED <<gwClients, gwMade, gwNets>>
      PROVE  \A s \in Signers : NotMade(s)'
  BY <1>0, <1>4 DEF NotMade
<1>5. CASE \E r \in Requests : Submit(r) \/ Notified(r) \/ TimedOut(r) \/ Commit(r)
  BY <1>5, <1>4 DEF Submit, Notified, TimedOut, Commit, cacheVars
<1>6. CASE \E r \in Requests, s \in Signers, c \in Channels : CallInvoke(r, s, c)
  BY <1>6, <1>4 DEF CallInvoke, cacheVars
<1>7. CASE \E s \in Signers : EnrollCA(s) \/ ReenrollCA(s)
  BY <1>7, <1>4 DEF EnrollCA, ReenrollCA
<1>8. CASE UNCHANGED vars
  BY <1>8, <1>4 DEF vars
<1> QED
  BY <1>1, <1>2, <1>3, <1>5, <1>6, <1>7, <1>8 DEF Next, InvokeStep

LEMMA RefInit == Init => SC!Init
BY DEF Init, SC!Init, Cached, GwCached, ChCached, NoClients, Nil

LEMMA RefNext == RInv /\ [Next]_vars => [SC!Next]_SC!scvars
<1> SUFFICES ASSUME RInv, [Next]_vars PROVE [SC!Next]_SC!scvars
  OBVIOUS
<1>0. TypeOK /\ \A s \in Signers : NotMade(s) /\ GwOK(s) /\ ChOK(s)
  BY DEF RInv, IInv
<1>1. ASSUME NEW r \in Requests, Prepare(r) PROVE [SC!Next]_SC!scvars
  <2>1. PICK out \in {Nil} \cup Versions : GetGatewayClient(rsig[r], rchan[r], out)
    BY ZenonT(30), <1>1 DEF Prepare
  <2>0. PICK s \in Signers : s = rsig[r]
    BY <1>0 DEF TypeOK
  <2>2. UNCHANGED <<store, notifying, chClients>> /\ rchan[r] \in Channels
    BY <1>0, <1>1 DEF Prepare, TypeOK
  <2>3. \/ GwCached(s)' = GwCached(s)
        \/ store[s] # Nil /\ GwCached(s)' = GwCached(s) \cup {store[s]}
    BY <1>0, <2>0, <2>1, <2>2, GatewayCached
  <2>4. Grown(s)
    BY <2>2, <2>3, CombineGrown DEF ChCached
  <2>5. \A u \in Signers \ {s} :
           gwClients'[u] = gwClients[u] /\ gwMade'[u] = gwMade[u]
           /\ gwNets'[u] = gwNets[u]
    BY <1>0, <2>0, <2>1, <2>2, GatewayStep
  <2>6. \A u \in Signers \ {s} : Cached(u)' = Cached(u)
    BY <2>2, <2>5 DEF Cached, GwCached, ChCached
  <2> QED
    BY <2>2, <2>4, <2>6, GrownStep
<1>2. ASSUME NEW s \in Signers, EnrollNotify(s) PROVE [SC!Next]_SC!scvars
  <2>1. SignerUpdated(s) /\ UNCHANGED store /\ notifying[s] > 0
        /\ notifying' = [notifying EXCEPT ![s] = @ - 1]
    BY <1>2 DEF EnrollNotify
  <2>2. \A u \in Signers \ {s} :
           gwClients'[u] = gwClients[u] /\ gwNets'[u] = gwNets[u]
           /\ chClients'[u] = chClients[u]
    BY <1>0, <2>1, UpdatedStep
  <2>3. Cached(s)' = {}
    BY <1>0, <2>1 DEF SignerUpdated, Cached, GwCached, ChCached, NoClients, TypeOK
  <2>4. \A u \in Signers \ {s} : Cached(u)' = Cached(u)
    BY <2>2 DEF Cached, GwCached, ChCached
  <2>6. [u \in Signers |-> Cached(u)]' = [[u \in Signers |-> Cached(u)] EXCEPT ![s] = {}]
    BY ZenonT(30), <2>3, <2>4
  <2>5. SC!Notify(s)
    BY <2>1, <2>6 DEF SC!Notify
  <2> QED
    BY <2>5 DEF SC!Next
<1>3. ASSUME NEW s \in Signers, NEW c \in Channels, NEW strong \in BOOLEAN,
             Query(s, c, strong)
      PROVE  [SC!Next]_SC!scvars
  <2>1. PICK o1 \in {Nil} \cup Versions :
          /\ GetChannelClient(s, c, o1)
          /\ IF o1 # Nil /\ strong
               THEN \E o2 \in {Nil} \cup Versions : GetGatewayClient(s, c, o2)
               ELSE UNCHANGED <<gwClients, gwMade, gwNets>>
    BY <1>3 DEF Query
  <2>2. UNCHANGED <<store, notifying>>
    BY <1>3 DEF Query
  <2>3. /\ \/ ChCached(s)' = ChCached(s)
           \/ store[s] # Nil /\ ChCached(s)' = ChCached(s) \cup {store[s]}
        /\ \A u \in Signers \ {s} : chClients'[u] = chClients[u]
    BY <1>0, <2>1, <2>2, ChannelCached, ChannelStep
  <2>4. /\ \/ GwCached(s)' = GwCached(s)
           \/ store[s] # Nil /\ GwCached(s)' = GwCached(s) \cup {store[s]}
        /\ \A u \in Signers \ {s} :
              gwClients'[u] = gwClients[u] /\ gwNets'[u] = gwNets[u]
    <3>1. CASE o1 # Nil /\ strong
      <4>1. PICK o2 \in {Nil} \cup Versions : GetGatewayClient(s, c, o2)
        BY <2>1, <3>1
      <4> QED
        BY <1>0, <2>2, <4>1, GatewayCached, GatewayStep
    <3>2. CASE ~(o1 # Nil /\ strong)
      BY <2>1, <3>2 DEF GwCached
    <3> QED
      BY <3>1, <3>2
  <2>5. \A u \in Signers \ {s} : Cached(u)' = Cached(u)
    BY <2>3, <2>4 DEF Cached, GwCached, ChCached
  <2> QED
    BY <2>2, <2>3, <2>4, <2>5, CombineGrown, GrownStep
<1>4. CASE \E s \in Signers : EnrollCA(s) \/ ReenrollCA(s)
  <2>1. PICK s \in Signers : EnrollCA(s)
    BY <1>4 DEF ReenrollCA
  <2>2. UNCHANGED <<gwClients, gwNets, chClients>>
    BY <2>1 DEF EnrollCA
  <2>3. [u \in Signers |-> Cached(u)]' = [u \in Signers |-> Cached(u)]
    BY <2>2 DEF Cached, GwCached, ChCached
  <2>4. SC!Enrol(s)
    BY <2>1, <2>3 DEF EnrollCA, SC!Enrol
  <2> QED
    BY <2>4 DEF SC!Next
<1>5. ASSUME UNCHANGED <<gwClients, gwNets, chClients, store, notifying>>
      PROVE  [SC!Next]_SC!scvars
  BY <1>5, IdleStep
<1>6. CASE \E r \in Requests : Submit(r) \/ Notified(r) \/ TimedOut(r) \/ Commit(r)
  BY <1>6, <1>5 DEF Submit, Notified, TimedOut, Commit, cacheVars
<1>7. CASE \E r \in Requests, s \in Signers, c \in Channels : CallInvoke(r, s, c)
  BY <1>7, <1>5 DEF CallInvoke, cacheVars
<1>8. CASE UNCHANGED vars
  BY <1>8, <1>5 DEF vars
<1> QED
  BY <1>1, <1>2, <1>3, <1>4, <1>6, <1>7, <1>8 DEF Next, InvokeStep

(* Spec, per-signer client caches, as an abstract cache: for every set of *)
(* signers, channels and goroutines and every bound on enrolments, the    *)
(* versions the wrapper holds for a signer (its gateway, networks and     *)
(* channel clients) evolve as SignerCache allows: an Enroll or Reenroll   *)
(* leaves them alone, its notification (SignerUpdated) empties them, and  *)
(* getGatewayClient and getChannelClient add nothing but the certificate  *)
(* now in the store.                                                       *)
THEOREM Implementation == Spec => SignerCacheSpec
<1>1. Init => RInv /\ SC!Init
  BY RInvInit, RefInit
<1>2. RInv /\ [Next]_vars => RInv'
  BY RInvNext
<1>3. RInv /\ [Next]_vars => [SC!Next]_SC!scvars
  BY RefNext
<1> QED
  BY <1>1, <1>2, <1>3, PTL DEF Spec, SignerCacheSpec, SC!Spec

=============================================================================
