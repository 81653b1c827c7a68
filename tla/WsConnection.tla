--------------------------- MODULE WsConnection ---------------------------
(***************************************************************************)
(* One WebSocket connection of the fabconnect WS server                   *)
(* (internal/ws/wsconn.go): its reader goroutine (listen), its sender     *)
(* goroutine (sender), close() called from both, together with the event *)
(* streams that publish one batch at a time on a topic and wait for the  *)
(* reply, and the client at the other end of the socket.                  *)
(*                                                                         *)
(* A goroutine's program counter is pc[g]; one action is one step of a    *)
(* goroutine between two suspension points (channel operations, the mux, *)
(* the socket).  Unbuffered channel operations are rendezvous: one action *)
(* moves both parties.                                                     *)
(***************************************************************************)
EXTENDS Naturals, Sequences

CONSTANTS Topics,      \* the topic names clients may listen on
          MaxBatches,  \* batches an event stream publishes per topic
          MaxFrames,   \* frames the client sends over the connection
          AnyReplies   \* TRUE: the client may send ack/error frames for
                       \* batches it does not hold (a stray or late reply)

ASSUME ConnAssumption ==
    /\ Topics # {}
    /\ MaxBatches \in Nat \ {0}
    /\ MaxFrames \in Nat
    /\ AnyReplies \in BOOLEAN

VARIABLES
    pc,       \* pc[g]: where goroutine g is
    ret,      \* ret[g]: where g goes when its close() returns
    iter,     \* iter[g]: topics close() of g still has to cycle
    closed,   \* c.closed, and c.closing is closed
    sockOpen, \* the socket c.conn is open
    topics,   \* the keys of c.topics
    cases,    \* the topic channels in the sender's select (buildCases)
    rtopic,   \* the topic of the frame the reader is handling
    rerr,     \* whether that frame is an "error" reply
    stream,   \* stream[t]: the event stream publishing on topic t
    sent,     \* sent[t]: batches stream t has published (the current id)
    inbox,    \* frames the client sent that the reader has not read
    nframes,  \* frames the client has sent
    recv,     \* recv[t]: batches the client holds and has not replied to
    rcvd,     \* rcvd[t]: batches of t ever written to the client's socket
    acked     \* acked[t]: batches stream t counted as acknowledged

vars == <<pc, ret, iter, closed, sockOpen, topics, cases, rtopic, rerr, stream, sent,
          inbox, nframes, recv, rcvd, acked>>

Goroutines == {"reader", "sender"}
Batches == 1..MaxBatches
Frames == [type : {"listen", "ack", "error"}, topic : Topics]

-----------------------------------------------------------------------------
(* newConnection starts listen() and sender(); the sender builds its      *)
(* select cases from the still empty topic map.                           *)
Init ==
    /\ pc = [g \in Goroutines |-> IF g = "reader" THEN "read" ELSE "select"]
    /\ ret = [g \in Goroutines |-> "done"]
    /\ iter = [g \in Goroutines |-> {}]
    /\ closed = FALSE
    /\ sockOpen = TRUE
    /\ topics = {}
    /\ cases = {}
    /\ rtopic = CHOOSE t \in Topics : TRUE
    /\ rerr = FALSE
    /\ stream = [t \in Topics |-> "idle"]
    /\ sent = [t \in Topics |-> 0]
    /\ inbox = <<>>
    /\ nframes = 0
    /\ recv = [t \in Topics |-> <<>>]
    /\ rcvd = [t \in Topics |-> {}]
    /\ acked = [t \in Topics |-> {}]

ClientVars == <<inbox, nframes, recv, rcvd>>
StreamVars == <<stream, sent, acked>>

-----------------------------------------------------------------------------
(* c.conn.Close() *)
CloseConnSkipped == UNCHANGED sockOpen
CloseConn == sockOpen' = FALSE

(* close(), first part: under c.mux, the first caller closes the socket   *)
(* and c.closing; every caller then iterates c.topics (without the mux).  *)
(* The iteration is a sequence of steps, one per topic.                    *)
CloseEnter(g, r) ==
    /\ closed' = TRUE
    /\ IF closed THEN UNCHANGED sockOpen ELSE CloseConn
    /\ iter' = [iter EXCEPT ![g] = topics]
    /\ pc' = [pc EXCEPT ![g] = "cycle"]
    /\ ret' = [ret EXCEPT ![g] = r]

(* The WS server's cycleTopic(t) (not under src/, from the spec): a       *)
(* stream waiting for the reply to its batch is told that the receive    *)
(* was interrupted, and counts the batch as failed.                       *)
CycleTopic(t) ==
    /\ stream' = [stream EXCEPT ![t] =
                    IF @ = "awaiting" THEN "idle" ELSE @]
    /\ UNCHANGED <<sent, acked>>

CycleOne(g) ==
    /\ pc[g] = "cycle"
    /\ \E t \in iter[g] :
         /\ CycleTopic(t)
         /\ iter' = [iter EXCEPT ![g] = @ \ {t}]
    /\ UNCHANGED <<pc, ret, closed, sockOpen, topics, cases, rtopic, rerr>>
    /\ UNCHANGED ClientVars

(* connectionClosed(c) (the server forgets the connection), then return. *)
CloseReturn(g) ==
    /\ pc[g] = "cycle"
    /\ iter[g] = {}
    /\ pc' = [pc EXCEPT ![g] = ret[g]]
    /\ UNCHANGED <<ret, iter, closed, sockOpen, topics, cases, rtopic, rerr>>
    /\ UNCHANGED StreamVars
    /\ UNCHANGED ClientVars

-----------------------------------------------------------------------------
(* The reader: listen() reads one frame and dispatches on its type.       *)
(* A "listen" frame runs listenTopic up to its select: under c.mux the     *)
(* topic is added to c.topics.  An "ack" or "error" frame enters          *)
(* handleAckOrError.  Frames buffered by the socket before close() are    *)
(* still returned after it.                                                *)
ReadFrame ==
    /\ pc["reader"] = "read"
    /\ inbox # <<>>
    /\ LET f == Head(inbox) IN
         /\ topics' = IF f.type = "listen" THEN topics \cup {f.topic}
                                          ELSE topics
         /\ pc' = [pc EXCEPT !["reader"] =
                     IF f.type = "listen" THEN "listen" ELSE "ack"]
         /\ rtopic' = f.topic
         /\ rerr' = (f.type = "error")
    /\ inbox' = Tail(inbox)
    /\ UNCHANGED <<ret, iter, closed, sockOpen, cases, nframes, recv, rcvd>>
    /\ UNCHANGED StreamVars

(* ReadJSON fails once the socket is closed and its buffer is drained:    *)
(* listen() returns and its deferred close() runs.                         *)
ReadClosed ==
    /\ pc["reader"] = "read"
    /\ ~sockOpen
    /\ CloseEnter("reader", "done")
    /\ UNCHANGED <<topics, cases, rtopic, rerr>>
    /\ UNCHANGED StreamVars
    /\ UNCHANGED ClientVars

(* ReadJSON fails on an open socket: the peer went away or the network    *)
(* failed.                                                                 *)
ReadFailContinue ==
    /\ pc["reader"] = "read"
    /\ sockOpen
    /\ CloseEnter("reader", "read")
    /\ UNCHANGED <<topics, cases, rtopic, rerr>>
    /\ UNCHANGED StreamVars
    /\ UNCHANGED ClientVars

ReadFail ==
    /\ pc["reader"] = "read"
    /\ sockOpen
    /\ CloseEnter("reader", "done")
    /\ UNCHANGED <<topics, cases, rtopic, rerr>>
    /\ UNCHANGED StreamVars
    /\ UNCHANGED ClientVars

(* listenTopic's select, first case: c.newTopic <- true meets the         *)
(* sender's select, which rebuilds its cases from c.topics under c.mux.   *)
NotifyNewTopic ==
    /\ pc["reader"] = "listen"
    /\ pc["sender"] = "select"
    /\ cases' = topics
    /\ pc' = [pc EXCEPT !["reader"] = "read"]
    /\ UNCHANGED <<ret, iter, closed, sockOpen, topics, rtopic, rerr>>
    /\ UNCHANGED StreamVars
    /\ UNCHANGED ClientVars

(* listenTopic's select, second case: c.closing is closed.                *)
ListenNoClosing == FALSE

ListenClosing ==
    /\ pc["reader"] = "listen"
    /\ closed
    /\ pc' = [pc EXCEPT !["reader"] = "read"]
    /\ UNCHANGED <<ret, iter, closed, sockOpen, topics, cases, rtopic, rerr>>
    /\ UNCHANGED StreamVars
    /\ UNCHANGED ClientVars

(* handleAckOrError: t.receiverChannel <- err meets the stream waiting    *)
(* for its reply; the stream counts its current batch as acknowledged or  *)
(* failed and is free to publish the next one.                            *)
AckDeliver ==
    /\ pc["reader"] = "ack"
    /\ stream[rtopic] = "awaiting"
    /\ stream' = [stream EXCEPT ![rtopic] = "idle"]
    /\ acked' = IF rerr THEN acked
                ELSE [acked EXCEPT ![rtopic] = @ \cup {sent[rtopic]}]
    /\ pc' = [pc EXCEPT !["reader"] = "read"]
    /\ UNCHANGED <<ret, iter, closed, sockOpen, topics, cases, rtopic, rerr, sent>>
    /\ UNCHANGED ClientVars

(* handleAckOrError: no stream receives within processingTimeout; the     *)
(* reader closes the connection and goes back to reading.                 *)
AckTimeout ==
    /\ pc["reader"] = "ack"
    /\ stream[rtopic] # "awaiting"
    /\ CloseEnter("reader", "read")
    /\ UNCHANGED <<topics, cases, rtopic, rerr>>
    /\ UNCHANGED StreamVars
    /\ UNCHANGED ClientVars

-----------------------------------------------------------------------------
(* The sender: reflect.Select over the topic channels of its cases,       *)
(* c.closing and c.newTopic.  A ready topic channel and a closed          *)
(* c.closing may both be ready; Go picks either.  A received batch is     *)
(* written with WriteJSON, whose error (closed socket) is only logged.    *)
SendBatch(t) ==
    /\ pc["sender"] = "select"
    /\ t \in cases
    /\ stream[t] = "sending"
    /\ stream' = [stream EXCEPT ![t] = "awaiting"]
    /\ recv' = IF sockOpen THEN [recv EXCEPT ![t] = Append(@, sent[t])]
               ELSE recv
    /\ rcvd' = IF sockOpen THEN [rcvd EXCEPT ![t] = @ \cup {sent[t]}]
               ELSE rcvd
    /\ UNCHANGED <<pc, ret, iter, closed, sockOpen, topics, cases, rtopic, rerr>>
    /\ UNCHANGED <<sent, acked, inbox, nframes>>

(* c.closing is closed: Select returns !ok, sender() returns and its      *)
(* deferred close() runs.                                                  *)
SelectClosingNoDefer ==
    /\ pc["sender"] = "select"
    /\ closed
    /\ pc' = [pc EXCEPT !["sender"] = "done"]
    /\ UNCHANGED <<ret, iter, closed, sockOpen, topics, cases, rtopic, rerr>>
    /\ UNCHANGED StreamVars
    /\ UNCHANGED ClientVars

SelectClosing ==
    /\ pc["sender"] = "select"
    /\ closed
    /\ CloseEnter("sender", "done")
    /\ UNCHANGED <<topics, cases, rtopic, rerr>>
    /\ UNCHANGED StreamVars
    /\ UNCHANGED ClientVars

-----------------------------------------------------------------------------
(* The event stream of topic t (from the spec): it publishes its next     *)
(* batch on the topic's send channel and blocks until a sender takes it.  *)
Publish(t) ==
    /\ stream[t] = "idle"
    /\ sent[t] < MaxBatches
    /\ stream' = [stream EXCEPT ![t] = "sending"]
    /\ sent' = [sent EXCEPT ![t] = @ + 1]
    /\ UNCHANGED <<pc, ret, iter, closed, sockOpen, topics, cases, rtopic, rerr, acked>>
    /\ UNCHANGED ClientVars

(* The client: it asks to listen on a topic, or replies to the oldest     *)
(* batch it holds on a topic (with AnyReplies, also when it holds none).  *)
ClientSend(f) ==
    /\ sockOpen
    /\ nframes < MaxFrames
    /\ inbox' = Append(inbox, f)
    /\ nframes' = nframes + 1

ClientListen(t) ==
    /\ ClientSend([type |-> "listen", topic |-> t])
    /\ UNCHANGED <<pc, ret, iter, closed, sockOpen, topics, cases, rtopic, rerr>>
    /\ UNCHANGED <<recv, rcvd>>
    /\ UNCHANGED StreamVars

ClientReply(t, ty) ==
    /\ recv[t] # <<>> \/ AnyReplies
    /\ ClientSend([type |-> ty, topic |-> t])
    /\ recv' = [recv EXCEPT ![t] = IF @ = <<>> THEN @ ELSE Tail(@)]
    /\ UNCHANGED <<pc, ret, iter, closed, sockOpen, topics, cases, rtopic, rerr>>
    /\ UNCHANGED rcvd
    /\ UNCHANGED StreamVars

-----------------------------------------------------------------------------
(* The steps the Go scheduler must eventually run when they stay enabled: *)
(* every step of the two goroutines except a network failure.             *)
ReaderStep ==
    \/ ReadFrame \/ ReadClosed \/ NotifyNewTopic \/ ListenClosing
    \/ AckDeliver \/ AckTimeout
    \/ CycleOne("reader") \/ CloseReturn("reader")

SenderStep ==
    \/ \E t \in Topics : SendBatch(t)
    \/ SelectClosing
    \/ CycleOne("sender") \/ CloseReturn("sender")

Environment ==
    \/ ReadFail
    \/ \E t \in Topics : Publish(t)
    \/ \E t \in Topics : ClientListen(t)
    \/ \E t \in Topics, ty \in {"ack", "error"} : ClientReply(t, ty)

Next == ReaderStep \/ SenderStep \/ Environment

Spec == Init /\ [][Next]_vars /\ WF_vars(ReaderStep) /\ WF_vars(SenderStep)

-----------------------------------------------------------------------------
TypeOK ==
    /\ pc \in [Goroutines -> {"read", "listen", "ack", "select", "cycle", "done"}]
    /\ ret \in [Goroutines -> {"read", "done"}]
    /\ iter \in [Goroutines -> SUBSET Topics]
    /\ closed \in BOOLEAN /\ sockOpen \in BOOLEAN
    /\ topics \subseteq Topics /\ cases \subseteq topics
    /\ rtopic \in Topics /\ rerr \in BOOLEAN
    /\ stream \in [Topics -> {"idle", "sending", "awaiting"}]
    /\ sent \in [Topics -> 0..MaxBatches]
    /\ inbox \in Seq(Frames) /\ nframes \in 0..MaxFrames
    /\ recv \in [Topics -> Seq(Batches)]
    /\ rcvd \in [Topics -> SUBSET Batches]
    /\ acked \in [Topics -> SUBSET Batches]

(* Spec, ordering guarantees: per topic at most one batch is in flight.   *)
(* The client never holds two batches of a topic it has not replied to:  *)
(* a stream publishes again only after the reply to its batch reached it *)
(* through the reader, or after close() interrupted it, and then the      *)
(* socket the next batch would be written to is closed.                   *)
ClientHoldsOneBatch == \A t \in Topics : Len(recv[t]) <= 1

(* Spec, at-least-once: a stream counts a batch as acknowledged only if   *)
(* that batch was written to the client's socket.  The reply is routed by *)
(* topic alone (handleAckOrError), so this fails if a reply reaches a     *)
(* stream waiting on a batch the client never got.                        *)
AckedWasReceived == \A t \in Topics : acked[t] \subseteq rcvd[t]

(* Go maps are not safe for a write concurrent with an iteration: the     *)
(* reader's listenTopic (wsconn.go:124) must never insert into c.topics  *)
(* while the sender's close() (wsconn.go:76) iterates it without c.mux.  *)
NoConcurrentMapWrite ==
    [][(pc["reader"] = "read" /\ pc'["reader"] = "listen")
          => pc["sender"] # "cycle"]_vars

(* Once the connection is closed, both goroutines end, and no stream is   *)
(* left waiting for a reply to a batch (close() from both goroutines      *)
(* cycles every topic).                                                    *)
ShutdownCompletes ==
    closed ~> (/\ \A g \in Goroutines : pc[g] = "done"
               /\ \A t \in Topics : stream[t] # "awaiting")

(* A reader blocked in listenTopic's select always gets past it.          *)
ListenCompletes == (pc["reader"] = "listen") ~> (pc["reader"] = "read")

=============================================================================
