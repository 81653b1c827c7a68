--------------------------- MODULE GatewayClients ---------------------------
(***************************************************************************)
(* The client-side gateway RPC wrapper of fabconnect (gwRPCWrapper in     *)
(* client_gateway_clientside.go) and the part of the identity client      *)
(* (idClientWrapper in identity.go) that talks to it.                     *)
(*                                                                         *)
(* The wrapper caches, per signer, one gateway, one gateway network per   *)
(* channel and one channel client per channel, all under one mutex.  An   *)
(* Enroll or Reenroll request first has the CA write a new certificate    *)
(* into the user store, then tells every signer-update listener, and the  *)
(* wrapper drops the signer's entries (SignerUpdated).  A cached object   *)
(* is represented by the version of the certificate it was built with;    *)
(* the store's version of a signer counts its successful enrolments.      *)
(*                                                                         *)
(* Invoke runs on a REST or dispatcher goroutine: getGatewayClient and    *)
(* CreateTransaction, Submit, then a select between the commit event and  *)
(* a timer, then GetSigningIdentity for the receipt.  Query takes the     *)
(* channel-client cache, and with strongread also the gateway cache.      *)
(***************************************************************************)
EXTENDS Integers

CONSTANTS
    Signers,      \* signer names
    Channels,     \* channel ids
    Requests,     \* goroutines calling Invoke concurrently
    MaxEnroll     \* bound on the enrolments of one signer

ASSUME ClientsAssumption ==
    /\ Signers # {} /\ Channels # {} /\ Requests # {}
    /\ MaxEnroll \in Nat \ {0}

VARIABLES
    store,       \* [Signers -> 0..MaxEnroll]: certificate version in the user store
    notifying,   \* [Signers -> Nat]: enrol handlers past the CA, before notifySignerUpdate
    gwClients,   \* w.gwClients: the gateway per signer (Nil: none)
    gwMade,      \* w.gwGatewayClients[signer] is a non-nil map
    gwNets,      \* w.gwGatewayClients: [Signers -> [Channels -> version or Nil]]
    chClients,   \* w.gwChannelClients: [Signers -> [Channels -> version or Nil]]
    idCache,     \* idClientWrapper.cache (LRU of signing identities)
    pc,          \* [Requests -> program counter of an Invoke call]
    rsig, rchan, \* the signer and channel of a request
    rver,        \* the certificate version of the network the request uses
    tx,          \* "none", "pending" (sent to the orderer) or "committed"
    res          \* what Invoke returned: "none", "ok" or "failed"

vars == <<store, notifying, gwClients, gwMade, gwNets, chClients, idCache,
          pc, rsig, rchan, rver, tx, res>>
cacheVars == <<gwClients, gwMade, gwNets, chClients>>
reqVars == <<pc, rsig, rchan, rver, tx, res>>

Nil == 0                       \* version 0 is "no certificate", so "no object"
Versions == 1..MaxEnroll
NoClients == [c \in Channels |-> Nil]

Init ==
    /\ store = [s \in Signers |-> 0]
    /\ notifying = [s \in Signers |-> 0]
    /\ gwClients = [s \in Signers |-> Nil]
    /\ gwMade = [s \in Signers |-> FALSE]
    /\ gwNets = [s \in Signers |-> NoClients]
    /\ chClients = [s \in Signers |-> NoClients]
    /\ idCache = [s \in Signers |-> Nil]
    /\ pc = [r \in Requests |-> "idle"]
    /\ rsig = [r \in Requests |-> CHOOSE s \in Signers : TRUE]
    /\ rchan = [r \in Requests |-> CHOOSE c \in Channels : TRUE]
    /\ rver = [r \in Requests |-> Nil]
    /\ tx = [r \in Requests |-> "none"]
    /\ res = [r \in Requests |-> "none"]

-----------------------------------------------------------------------------
(* A creator (gateway.Connect, GetNetwork, channel.New) loads the signer's *)
(* identity from the store: it fails when the signer is not enrolled, and *)
(* may fail for other reasons (peers unreachable).                        *)
Created(s) == {store[s]} \ {Nil}

(* Look up or create the network of channel c in the signer's map m,     *)
(* built on gateway g; out is what is returned (Nil: an error).           *)
NetworkLookup(s, c, g, m, out) ==
    \/ /\ m[c] # Nil
       /\ out = m[c]
       /\ gwNets' = [gwNets EXCEPT ![s] = m]
    \/ /\ m[c] = Nil
       /\ out = Nil
       /\ gwNets' = [gwNets EXCEPT ![s] = m]
    \/ /\ m[c] = Nil
       /\ out = g
       /\ gwNets' = [gwNets EXCEPT ![s] = [m EXCEPT ![c] = g]]

(* getGatewayClient(channelID, signer), under w.mu.  With no map for the  *)
(* signer, a gateway is connected first (an error returns at once).       *)
GetGatewayClient(s, c, out) ==
    \/ /\ gwMade[s]
       /\ NetworkLookup(s, c, gwClients[s], gwNets[s], out)
       /\ UNCHANGED <<gwClients, gwMade>>
    \/ /\ ~gwMade[s]
       /\ out = Nil
       /\ UNCHANGED <<gwClients, gwMade, gwNets>>
    \/ /\ ~gwMade[s]
       /\ \E g \in Created(s) :
            /\ gwClients' = [gwClients EXCEPT ![s] = g]
            /\ gwMade' = [gwMade EXCEPT ![s] = TRUE]
            /\ NetworkLookup(s, c, g, NoClients, out)

(* getChannelClient(channelID, signer), under w.mu.                       *)
GetChannelClient(s, c, out) ==
    \/ /\ chClients[s][c] # Nil
       /\ out = chClients[s][c]
       /\ UNCHANGED chClients
    \/ /\ chClients[s][c] = Nil
       /\ out = Nil
       /\ UNCHANGED chClients
    \/ /\ chClients[s][c] = Nil
       /\ out \in Created(s)
       /\ chClients' = [chClients EXCEPT ![s][c] = out]

(* SignerUpdated(signer), under w.mu: the signer's three entries are set  *)
(* to nil.                                                                 *)
SignerUpdatedKeepsMap(s) ==
    /\ gwClients' = [gwClients EXCEPT ![s] = Nil]
    /\ gwNets' = [gwNets EXCEPT ![s] = NoClients]
    /\ chClients' = [chClients EXCEPT ![s] = NoClients]
    /\ UNCHANGED gwMade

SignerUpdatedKeepsChannels(s) ==
    /\ gwClients' = [gwClients EXCEPT ![s] = Nil]
    /\ gwMade' = [gwMade EXCEPT ![s] = FALSE]
    /\ gwNets' = [gwNets EXCEPT ![s] = NoClients]
    /\ UNCHANGED chClients

SignerUpdated(s) ==
    /\ gwClients' = [gwClients EXCEPT ![s] = Nil]
    /\ gwMade' = [gwMade EXCEPT ![s] = FALSE]
    /\ gwNets' = [gwNets EXCEPT ![s] = NoClients]
    /\ chClients' = [chClients EXCEPT ![s] = NoClients]

-----------------------------------------------------------------------------
(* The identity client's Enroll and Reenroll handlers: the CA call        *)
(* succeeds and the new certificate is in the store (a failed CA call     *)
(* returns and changes nothing) ...                                        *)
EnrollCA(s) ==
    /\ store[s] < MaxEnroll
    /\ store' = [store EXCEPT ![s] = @ + 1]
    /\ notifying' = [notifying EXCEPT ![s] = @ + 1]
    /\ UNCHANGED <<gwClients, gwMade, gwNets, chClients, idCache>>
    /\ UNCHANGED reqVars

(* Reenroll does the same with a reenrolment request.                   *)
ReenrollCA(s) == EnrollCA(s)

(* ... then notifySignerUpdate calls the one listener, the RPC wrapper.   *)
(* The LRU cache of signing identities is not purged.                     *)
EnrollNotify(s) ==
    /\ notifying[s] > 0
    /\ notifying' = [notifying EXCEPT ![s] = @ - 1]
    /\ SignerUpdated(s)
    /\ UNCHANGED <<store, idCache>>
    /\ UNCHANGED reqVars

(* Query(channelID, signer, ..., strongread): getChannelClient, then with *)
(* strongread getGatewayClient.  Each takes the mutex on its own; the     *)
(* query itself changes nothing the model keeps.                           *)
Query(s, c, strong) ==
    /\ \E o1 \in {Nil} \cup Versions :
         /\ GetChannelClient(s, c, o1)
         /\ IF o1 # Nil /\ strong
              THEN \E o2 \in {Nil} \cup Versions : GetGatewayClient(s, c, o2)
              ELSE UNCHANGED <<gwClients, gwMade, gwNets>>
    /\ UNCHANGED <<store, notifying, idCache>>
    /\ UNCHANGED reqVars

-----------------------------------------------------------------------------
(* Invoke(channelID, signer, ...) is called on goroutine r.               *)
CallInvoke(r, s, c) ==
    /\ pc[r] = "idle"
    /\ pc' = [pc EXCEPT ![r] = "prepare"]
    /\ rsig' = [rsig EXCEPT ![r] = s]
    /\ rchan' = [rchan EXCEPT ![r] = c]
    /\ rver' = [rver EXCEPT ![r] = Nil]
    /\ tx' = [tx EXCEPT ![r] = "none"]
    /\ res' = [res EXCEPT ![r] = "none"]
    /\ UNCHANGED <<store, notifying, idCache>>
    /\ UNCHANGED cacheVars

(* sendTransaction, txPreparer: getGatewayClient, then CreateTransaction  *)
(* and RegisterCommitEvent.  Either error ends Invoke.                     *)
Prepare(r) ==
    /\ pc[r] = "prepare"
    /\ \E out \in {Nil} \cup Versions :
         /\ GetGatewayClient(rsig[r], rchan[r], out)
         /\ rver' = [rver EXCEPT ![r] = out]
         /\ \/ /\ out # Nil
               /\ pc' = [pc EXCEPT ![r] = "submit"]
               /\ UNCHANGED res
            \/ /\ pc' = [pc EXCEPT ![r] = "idle"]
               /\ res' = [res EXCEPT ![r] = "failed"]
    /\ UNCHANGED <<chClients, store, notifying, idCache, rsig, rchan, tx>>

(* txSubmitter: Submit endorses, signs with the network's identity and    *)
(* sends to the orderer.  An error ends Invoke; it may come after the     *)
(* transaction reached the orderer.                                        *)
Submit(r) ==
    /\ pc[r] = "submit"
    /\ \/ /\ tx' = [tx EXCEPT ![r] = "pending"]
          /\ pc' = [pc EXCEPT ![r] = "wait"]
          /\ UNCHANGED res
       \/ /\ tx' \in {tx, [tx EXCEPT ![r] = "pending"]}
          /\ pc' = [pc EXCEPT ![r] = "idle"]
          /\ res' = [res EXCEPT ![r] = "failed"]
    /\ UNCHANGED <<store, notifying, idCache, rsig, rchan, rver>>
    /\ UNCHANGED cacheVars

(* idClientWrapper.GetSigningIdentity: the LRU cache first, else the     *)
(* identity manager reads the store and the identity is added to the      *)
(* cache.  Its error (signer not in the store) cannot happen here: the    *)
(* transaction's gateway was built from the stored certificate, and the  *)
(* store never loses a user, so Invoke's error return after it is left out. *)
GetSigningIdentity(s) ==
    \/ /\ idCache[s] # Nil
       /\ UNCHANGED idCache
    \/ /\ idCache[s] = Nil
       /\ idCache' = [idCache EXCEPT ![s] = store[s]]

(* The select receives the commit event; Invoke then asks the identity    *)
(* client for the signer's signing identity to write the receipt.         *)
Notified(r) ==
    /\ pc[r] = "wait"
    /\ tx[r] = "committed"
    /\ GetSigningIdentity(rsig[r])
    /\ res' = [res EXCEPT ![r] = "ok"]
    /\ pc' = [pc EXCEPT ![r] = "idle"]
    /\ UNCHANGED <<store, notifying, rsig, rchan, rver, tx>>
    /\ UNCHANGED cacheVars

(* The select's other case: the context's deadline (txTimeout) passes.    *)
SelectNoTimeout(r) == FALSE

TimedOut(r) ==
    /\ pc[r] = "wait"
    /\ pc' = [pc EXCEPT ![r] = "idle"]
    /\ res' = [res EXCEPT ![r] = "failed"]
    /\ UNCHANGED <<store, notifying, idCache, rsig, rchan, rver, tx>>
    /\ UNCHANGED cacheVars

(* The ordering service and the peers (not under src/): a transaction    *)
(* that reached the orderer may commit, whatever its sender does.          *)
Commit(r) ==
    /\ tx[r] = "pending"
    /\ tx' = [tx EXCEPT ![r] = "committed"]
    /\ UNCHANGED <<store, notifying, idCache, pc, rsig, rchan, rver, res>>
    /\ UNCHANGED cacheVars

-----------------------------------------------------------------------------
(* The steps of an Invoke goroutine; the Go scheduler runs each one that  *)
(* stays enabled, and the timer of context.WithTimeout always fires.      *)
InvokeStep(r) == Prepare(r) \/ Submit(r) \/ Notified(r) \/ TimedOut(r)

Next ==
    \/ \E r \in Requests : InvokeStep(r) \/ Commit(r)
    \/ \E r \in Requests, s \in Signers, c \in Channels : CallInvoke(r, s, c)
    \/ \E s \in Signers : EnrollCA(s) \/ ReenrollCA(s) \/ EnrollNotify(s)
    \/ \E s \in Signers, c \in Channels, strong \in BOOLEAN : Query(s, c, strong)

Spec == Init /\ [][Next]_vars /\ \A r \in Requests : WF_vars(InvokeStep(r))

-----------------------------------------------------------------------------
TypeOK ==
    /\ store \in [Signers -> 0..MaxEnroll]
    /\ notifying \in [Signers -> 0..MaxEnroll]
    /\ gwClients \in [Signers -> {Nil} \cup Versions]
    /\ gwMade \in [Signers -> BOOLEAN]
    /\ gwNets \in [Signers -> [Channels -> {Nil} \cup Versions]]
    /\ chClients \in [Signers -> [Channels -> {Nil} \cup Versions]]
    /\ idCache \in [Signers -> {Nil} \cup Versions]
    /\ pc \in [Requests -> {"idle", "prepare", "submit", "wait"}]
    /\ rsig \in [Requests -> Signers] /\ rchan \in [Requests -> Channels]
    /\ rver \in [Requests -> {Nil} \cup Versions]
    /\ tx \in [Requests -> {"none", "pending", "committed"}]
    /\ res \in [Requests -> {"none", "ok", "failed"}]

(* The connection objects the wrapper holds for a signer: its gateway and *)
(* networks (getGatewayClient's maps) and its channel clients.            *)
GwCached(s) == ({gwClients[s]} \cup {gwNets[s][c] : c \in Channels}) \ {Nil}
ChCached(s) == {chClients[s][c] : c \in Channels} \ {Nil}
Cached(s) == GwCached(s) \cup ChCached(s)

(* Spec, per-signer client caches: re-enrolment purges the signer's      *)
(* cached connection objects.  Once every Enroll/Reenroll of a signer has *)
(* called notifySignerUpdate, each gateway, network and channel client   *)
(* the wrapper holds for it was built with the certificate now in the    *)
(* store, however getGatewayClient, getChannelClient and the handlers   *)
(* interleaved.                                                            *)
CacheFresh ==
    \A s \in Signers : notifying[s] = 0 => Cached(s) \subseteq {store[s]}

(* getGatewayClient hands networkCreator the signer's cached gateway     *)
(* whenever the signer has a network map: that gateway is never nil (it  *)
(* would be dereferenced), and every cached network was built on it.      *)
NetworksOnGateway ==
    \A s \in Signers :
        /\ gwMade[s] => gwClients[s] # Nil
        /\ \A c \in Channels : gwNets[s][c] # Nil => gwNets[s][c] = gwClients[s]

(* Spec, cancellation: in-flight RPC calls respect the per-request       *)
(* timeout.  Every Invoke returns, whether or not the commit event of    *)
(* its transaction ever arrives.                                          *)
InvokeReturns == \A r \in Requests : pc[r] # "idle" ~> pc[r] = "idle"

-----------------------------------------------------------------------------
(* Seen as a cache of certificate versions per signer, the wrapper is the *)
(* spec's per-signer cache (SignerCache): an enrolment notification       *)
(* empties the signer's cache, and whatever getGatewayClient or           *)
(* getChannelClient adds was built from the certificate now in the store *)
(* (a network built on the cached gateway adds no new version).  The      *)
(* maps, the mutex and the Invoke goroutines are hidden.                   *)
SC == INSTANCE SignerCache
          WITH Signers <- Signers, MaxEnroll <- MaxEnroll,
               store <- store, notifying <- notifying,
               cache <- [s \in Signers |-> Cached(s)]

SignerCacheSpec == SC!Spec

=============================================================================
