------------------------ MODULE WsConnection_proofs ------------------------
(***************************************************************************)
(* Proofs about WsConnection for every set of topics and every bound.     *)
(*                                                                         *)
(* TypeCorrect needs one fact beyond TypeOK: a stream that is not idle    *)
(* has published at least one batch, so what the sender writes is a      *)
(* batch id.  The delivery theorem holds for a client that replies only   *)
(* to batches it holds (~AnyReplies).  Its inductive invariant says that, *)
(* while the socket is open, the reply to a topic's batch is in exactly   *)
(* one place (held by the client, queued in the socket, or held by the    *)
(* reader) exactly when the stream awaits it; and that once the socket    *)
(* is closed the reader has stopped for good, because with such a client *)
(* only a failed read can close the connection.                           *)
(***************************************************************************)
EXTENDS WsConnection, SequenceTheorems, TLAPS

StreamsOK == \A t \in Topics : stream[t] # "idle" => sent[t] \in Batches

TInv == TypeOK /\ StreamsOK

IsReply(f, t) == f.topic = t /\ f.type # "listen"
QueuedIn(s, t) == \E i \in 1..Len(s) : IsReply(s[i], t)
UniqueIn(s, t) == \A i, j \in 1..Len(s) : IsReply(s[i], t) /\ IsReply(s[j], t) => i = j
ReplyQueued(t) == QueuedIn(inbox, t)
Holding(t) == pc["reader"] = "ack" /\ rtopic = t
Outstanding(t) == recv[t] # <<>>

(* The reply to topic t's batch is in at most one place, and (socket      *)
(* open) somewhere exactly when stream t awaits it.                        *)
ReplyPlaced(t) ==
    /\ Len(recv[t]) <= 1
    /\ UniqueIn(inbox, t)
    /\ ~(Outstanding(t) /\ ReplyQueued(t))
    /\ ~(Outstanding(t) /\ Holding(t))
    /\ ~(ReplyQueued(t) /\ Holding(t))
    /\ ~closed => (stream[t] = "awaiting"
                     <=> Outstanding(t) \/ ReplyQueued(t) \/ Holding(t))

(* After close() the reader is closing or done, and never reads again.    *)
ClosedQuiet ==
    /\ closed = ~sockOpen
    /\ \A g \in Goroutines : pc[g] = "cycle" => closed
    /\ closed => pc["reader"] \in {"cycle", "done"} /\ ret["reader"] = "done"

DeliveredAwaited ==
    \A t \in Topics : ~closed /\ stream[t] = "awaiting" => sent[t] \in rcvd[t]

IInv ==
    /\ TInv
    /\ ClosedQuiet
    /\ \A t \in Topics : ReplyPlaced(t)
    /\ DeliveredAwaited
    /\ AckedWasReceived


-----------------------------------------------------------------------------
USE ConnAssumption

LEMMA TInvInit == Init => TInv
<1> SUFFICES ASSUME Init PROVE TInv
  OBVIOUS
<1>1. (CHOOSE t \in Topics : TRUE) \in Topics
  OBVIOUS
<1>2. pc \in [Goroutines -> {"read", "listen", "ack", "select", "cycle", "done"}]
  BY DEF Init, Goroutines
<1>3. /\ ret \in [Goroutines -> {"read", "done"}]
      /\ iter \in [Goroutines -> SUBSET Topics]
  BY DEF Init, Goroutines
<1>4. /\ inbox \in Seq(Frames)
      /\ recv \in [Topics -> Seq(Batches)]
  BY DEF Init
<1>5. /\ stream \in [Topics -> {"idle", "sending", "awaiting"}]
      /\ sent \in [Topics -> 0..MaxBatches]
      /\ rcvd \in [Topics -> SUBSET Batches]
      /\ acked \in [Topics -> SUBSET Batches]
  BY DEF Init
<1>6. StreamsOK
  BY DEF Init, StreamsOK
<1>7. rtopic \in Topics
  BY <1>1 DEF Init
<1>8. /\ closed \in BOOLEAN /\ sockOpen \in BOOLEAN /\ rerr \in BOOLEAN
      /\ topics \subseteq Topics /\ cases \subseteq topics
  BY Zenon DEF Init
<1>9. nframes \in 0..MaxFrames
  BY DEF Init
<1> QED
  BY <1>2, <1>3, <1>4, <1>5, <1>6, <1>7, <1>8, <1>9 DEF TInv, TypeOK

(* One step per goroutine step and environment step.                      *)
LEMMA TInvNext == TInv /\ [Next]_vars => TInv'
<1> SUFFICES ASSUME TInv, [Next]_vars PROVE TInv'
  OBVIOUS
<1> USE DEF TInv, TypeOK, StreamsOK, Goroutines, Batches, Frames,
             StreamVars, ClientVars
<1>1. CASE ReadFrame
  <2> DEFINE f == Head(inbox)
  <2>1. inbox # <<>> /\ inbox' = Tail(inbox)
    BY <1>1 DEF ReadFrame
  <2>2. f \in Frames /\ inbox' \in Seq(Frames)
    BY ZenonT(30), <2>1, HeadTailProperties
  <2>3. /\ topics' = IF f.type = "listen" THEN topics \cup {f.topic} ELSE topics
        /\ pc' = [pc EXCEPT !["reader"] =
                    IF f.type = "listen" THEN "listen" ELSE "ack"]
        /\ rtopic' = f.topic
        /\ rerr' = (f.type = "error")
    BY <1>1, Zenon DEF ReadFrame
  <2>4. UNCHANGED <<ret, iter, closed, sockOpen, cases, nframes, recv, rcvd,
                    stream, sent, acked>>
    BY <1>1 DEF ReadFrame
  <2> QED
    BY ZenonT(30), <2>2, <2>3, <2>4
<1>2. CASE ReadClosed
  BY ZenonT(30), <1>2 DEF ReadClosed, CloseEnter, CloseConn
<1>3. CASE ReadFail
  BY ZenonT(30), <1>3 DEF ReadFail, CloseEnter, CloseConn
<1>4. CASE NotifyNewTopic
  BY <1>4 DEF NotifyNewTopic
<1>5. CASE ListenClosing
  BY <1>5 DEF ListenClosing
<1>6. CASE AckDeliver
  BY <1>6 DEF AckDeliver
<1>7. CASE AckTimeout
  BY ZenonT(30), <1>7 DEF AckTimeout, CloseEnter, CloseConn
<1>8. CASE \E g \in Goroutines : CycleOne(g)
  BY <1>8 DEF CycleOne, CycleTopic
<1>9. CASE \E g \in Goroutines : CloseReturn(g)
  BY <1>9 DEF CloseReturn
<1>10. CASE \E t \in Topics : SendBatch(t)
  BY <1>10 DEF SendBatch
<1>11. CASE SelectClosing
  BY <1>11 DEF SelectClosing, CloseEnter, CloseConn
<1>12. CASE \E t \in Topics : Publish(t)
  BY <1>12 DEF Publish
<1>13. CASE \E t \in Topics : ClientListen(t)
  BY <1>13 DEF ClientListen, ClientSend
<1>14. CASE \E t \in Topics, ty \in {"ack", "error"} : ClientReply(t, ty)
  <2>1. PICK t \in Topics, ty \in {"ack", "error"} : ClientReply(t, ty)
    BY <1>14
  <2>2. recv' = [recv EXCEPT ![t] = IF recv[t] = <<>> THEN recv[t]
                                    ELSE Tail(recv[t])]
    BY <2>1 DEF ClientReply
  <2>3. recv' \in [Topics -> Seq(Batches)]
    <3>1. recv[t] # <<>> => Tail(recv[t]) \in Seq(Batches)
      BY HeadTailProperties
    <3> QED
      BY ZenonT(30), <2>2, <3>1
  <2>4. inbox' = Append(inbox, [type |-> ty, topic |-> t])
        /\ nframes' = nframes + 1 /\ nframes < MaxFrames
    BY <2>1 DEF ClientReply, ClientSend
  <2>5. UNCHANGED <<pc, ret, iter, closed, sockOpen, topics, cases, rtopic,
                    rerr, rcvd, stream, sent, acked>>
    BY <2>1 DEF ClientReply
  <2> QED
    BY <2>3, <2>4, <2>5
<1>15. CASE UNCHANGED vars
  BY <1>15 DEF vars
<1> QED
  BY ZenonT(30), <1>1, <1>2, <1>3, <1>4, <1>5, <1>6, <1>7, <1>8, <1>9, <1>10, <1>11,
     <1>12, <1>13, <1>14, <1>15
  DEF Next, ReaderStep, SenderStep, Environment

(* The state of the connection, the streams and the client always has    *)
(* its type: in particular the sender only ever writes batch ids.        *)
THEOREM TypeCorrect == Spec => []TypeOK
<1>1. Init => TInv
  BY TInvInit
<1>2. TInv /\ [Next]_vars => TInv'
  BY TInvNext
<1>3. TInv => TypeOK
  BY DEF TInv
<1> QED
  BY <1>1, <1>2, <1>3, PTL DEF Spec



-----------------------------------------------------------------------------
(* Replies queued in the socket: appending a frame, and reading the head. *)
LEMMA AppendQueued ==
  ASSUME NEW s \in Seq(Frames), NEW f \in Frames, NEW t
  PROVE  /\ QueuedIn(Append(s, f), t) <=> QueuedIn(s, t) \/ IsReply(f, t)
         /\ UniqueIn(s, t) /\ ~(QueuedIn(s, t) /\ IsReply(f, t))
              => UniqueIn(Append(s, f), t)
<1>1. /\ Len(Append(s, f)) = Len(s) + 1
      /\ \A i \in 1..Len(s) : Append(s, f)[i] = s[i]
      /\ Append(s, f)[Len(s) + 1] = f
  BY AppendProperties
<1>2. QueuedIn(Append(s, f), t) <=> QueuedIn(s, t) \/ IsReply(f, t)
  BY <1>1 DEF QueuedIn
<1>3. UniqueIn(s, t) /\ ~(QueuedIn(s, t) /\ IsReply(f, t))
        => UniqueIn(Append(s, f), t)
  BY <1>1 DEF QueuedIn, UniqueIn
<1> QED
  BY <1>2, <1>3

LEMMA TailQueued ==
  ASSUME NEW s \in Seq(Frames), s # <<>>, NEW t, UniqueIn(s, t)
  PROVE  /\ QueuedIn(Tail(s), t) <=> QueuedIn(s, t) /\ ~IsReply(Head(s), t)
         /\ UniqueIn(Tail(s), t)
         /\ IsReply(Head(s), t) => QueuedIn(s, t)
<1>1. /\ Len(Tail(s)) = Len(s) - 1
      /\ \A i \in 1..Len(Tail(s)) : Tail(s)[i] = s[i + 1]
      /\ Head(s) = s[1] /\ Len(s) \in Nat \ {0}
  BY HeadTailProperties
<1>2. QueuedIn(Tail(s), t) => QueuedIn(s, t) /\ ~IsReply(Head(s), t)
  BY <1>1 DEF QueuedIn, UniqueIn
<1>3. QueuedIn(s, t) /\ ~IsReply(Head(s), t) => QueuedIn(Tail(s), t)
  <2> SUFFICES ASSUME QueuedIn(s, t), ~IsReply(Head(s), t)
               PROVE  QueuedIn(Tail(s), t)
    OBVIOUS
  <2>1. PICK i \in 1..Len(s) : IsReply(s[i], t)
    BY DEF QueuedIn
  <2>2. i # 1 /\ i - 1 \in 1..Len(Tail(s))
    BY <1>1, <2>1
  <2> QED
    BY <1>1, <2>1, <2>2 DEF QueuedIn
<1>4. UniqueIn(Tail(s), t)
  BY <1>1 DEF UniqueIn
<1>5. IsReply(Head(s), t) => QueuedIn(s, t)
  BY <1>1 DEF QueuedIn
<1> QED
  BY <1>2, <1>3, <1>4, <1>5

-----------------------------------------------------------------------------
LEMMA IInvInit == Init => IInv
<1> SUFFICES ASSUME Init PROVE IInv
  OBVIOUS
<1>1. TInv
  BY TInvInit
<1>2. ClosedQuiet
  BY ZenonT(30) DEF Init, ClosedQuiet, Goroutines
<1>3. ASSUME NEW t \in Topics PROVE ReplyPlaced(t)
  <2>1. recv[t] = <<>> /\ inbox = <<>> /\ pc["reader"] = "read"
        /\ stream[t] = "idle"
    BY DEF Init, Goroutines
  <2>2. ~ReplyQueued(t) /\ UniqueIn(inbox, t)
    BY <2>1 DEF ReplyQueued, QueuedIn, UniqueIn
  <2> QED
    BY <2>1, <2>2 DEF ReplyPlaced, Outstanding, Holding
<1>4. DeliveredAwaited /\ AckedWasReceived
  BY DEF Init, DeliveredAwaited, AckedWasReceived
<1> QED
  BY <1>1, <1>2, <1>3, <1>4 DEF IInv

LEMMA IInvNext == ~AnyReplies /\ IInv /\ [Next]_vars => IInv'
<1> SUFFICES ASSUME ~AnyReplies, IInv, [Next]_vars PROVE IInv'
  OBVIOUS
<1>0. TInv'
  BY TInvNext DEF IInv
<1> USE DEF IInv, ClosedQuiet, DeliveredAwaited, AckedWasReceived,
            ReplyPlaced, ReplyQueued, Holding, Outstanding, IsReply,
            TInv, TypeOK, StreamsOK, Goroutines, Batches, Frames,
            StreamVars, ClientVars
<1>1. CASE ReadFrame
  <2> DEFINE f == Head(inbox)
  <2>1. inbox # <<>> /\ inbox' = Tail(inbox) /\ pc["reader"] = "read"
    BY <1>1 DEF ReadFrame
  <2>2. f \in Frames
    BY ZenonT(30), <2>1, HeadTailProperties
  <2>3. /\ pc' = [pc EXCEPT !["reader"] =
                    IF f.type = "listen" THEN "listen" ELSE "ack"]
        /\ rtopic' = f.topic
    BY <1>1, Zenon DEF ReadFrame
  <2>4. UNCHANGED <<ret, iter, closed, sockOpen, cases, nframes, recv, rcvd,
                    stream, sent, acked>>
    BY <1>1 DEF ReadFrame
  <2>5. ~closed
    BY <2>1
  <2>6. ClosedQuiet'
    BY <2>3, <2>4, <2>5
  <2>7. ASSUME NEW t \in Topics PROVE ReplyPlaced(t)'
    <3>1. /\ ReplyQueued(t)' <=> ReplyQueued(t) /\ ~IsReply(f, t)
          /\ UniqueIn(inbox', t)
          /\ IsReply(f, t) => ReplyQueued(t)
      BY ZenonT(30), <2>1, TailQueued DEF ReplyQueued
    <3>2. Holding(t)' <=> IsReply(f, t)
      BY <2>2, <2>3
    <3>3. ~Holding(t) /\ Outstanding(t)' = Outstanding(t)
      BY <2>1, <2>4
    <3> QED
      BY <3>1, <3>2, <3>3, <2>4, <2>5
  <2>8. DeliveredAwaited' /\ AckedWasReceived'
    BY <2>4
  <2> QED
    BY <1>0, <2>6, <2>7, <2>8
<1>2. CASE ReadClosed
  BY ZenonT(30), <1>0, <1>2 DEF ReadClosed, CloseEnter, CloseConn
<1>3. CASE ReadFail
  BY ZenonT(30), <1>0, <1>3 DEF ReadFail, CloseEnter, CloseConn
<1>4. CASE NotifyNewTopic
  BY <1>0, <1>4 DEF NotifyNewTopic
<1>5. CASE ListenClosing
  BY <1>0, <1>5 DEF ListenClosing
<1>6. CASE AckDeliver
  BY <1>0, <1>6 DEF AckDeliver
<1>7. CASE AckTimeout
  BY <1>0, <1>7 DEF AckTimeout, CloseEnter, CloseConn
<1>8. CASE \E g \in Goroutines : CycleOne(g)
  BY <1>0, <1>8 DEF CycleOne, CycleTopic
<1>9. CASE \E g \in Goroutines : CloseReturn(g)
  BY <1>0, <1>9 DEF CloseReturn
<1>10. CASE \E t \in Topics : SendBatch(t)
  <2>1. PICK u \in Topics : SendBatch(u)
    BY <1>10
  <2>2. /\ stream[u] = "sending"
        /\ stream' = [stream EXCEPT ![u] = "awaiting"]
        /\ recv' = IF sockOpen THEN [recv EXCEPT ![u] = Append(recv[u], sent[u])]
                   ELSE recv
        /\ rcvd' = IF sockOpen THEN [rcvd EXCEPT ![u] = rcvd[u] \cup {sent[u]}]
                   ELSE rcvd
    BY <2>1 DEF SendBatch
  <2>3. UNCHANGED <<pc, ret, iter, closed, sockOpen, topics, cases, rtopic,
                    rerr, sent, acked, inbox, nframes>>
    BY <2>1 DEF SendBatch
  <2>4. (~Outstanding(u) /\ ~ReplyQueued(u) /\ ~Holding(u)) \/ closed
    BY <2>2
  <2>5. ClosedQuiet'
    BY <2>3
  <2>6. ASSUME NEW t \in Topics PROVE ReplyPlaced(t)'
    <3>1. CASE t = u /\ sockOpen
      <4>1. recv[u] = <<>> /\ sent[u] \in Batches
        BY <2>2, <2>4, <3>1
      <4>2. recv'[u] = <<sent[u]>>
        BY <2>2, <3>1, <4>1
      <4> QED
        BY <2>2, <2>3, <2>4, <3>1, <4>2
    <3>2. CASE t # u \/ ~sockOpen
      BY ZenonT(30), <2>2, <2>3, <3>2
    <3> QED
      BY <3>1, <3>2
  <2>7. DeliveredAwaited' /\ AckedWasReceived'
    BY ZenonT(30), <2>2, <2>3
  <2> QED
    BY ZenonT(30), <1>0, <2>5, <2>6, <2>7
<1>11. CASE SelectClosing
  <2>1. closed /\ ~sockOpen
    BY <1>11 DEF SelectClosing
  <2>2. /\ closed' /\ ~sockOpen'
        /\ pc' = [pc EXCEPT !["sender"] = "cycle"]
        /\ ret' = [ret EXCEPT !["sender"] = "done"]
    BY <1>11, <2>1 DEF SelectClosing, CloseEnter
  <2>3. UNCHANGED <<topics, cases, rtopic, rerr, stream, sent, acked,
                    inbox, nframes, recv, rcvd>>
    BY <1>11 DEF SelectClosing
  <2>4. ClosedQuiet'
    BY ZenonT(30), <2>1, <2>2
  <2>5. ASSUME NEW t \in Topics PROVE ReplyPlaced(t)'
    BY <2>1, <2>2, <2>3
  <2>6. DeliveredAwaited' /\ AckedWasReceived'
    BY <2>2, <2>3
  <2> QED
    BY <1>0, <2>4, <2>5, <2>6
<1>12. CASE \E t \in Topics : Publish(t)
  BY <1>0, <1>12 DEF Publish
<1>13. CASE \E t \in Topics : ClientListen(t)
  <2>1. PICK u \in Topics : ClientListen(u)
    BY <1>13
  <2>2. inbox' = Append(inbox, [type |-> "listen", topic |-> u])
        /\ [type |-> "listen", topic |-> u] \in Frames
    BY <2>1 DEF ClientListen, ClientSend
  <2>3. UNCHANGED <<pc, ret, iter, closed, sockOpen, topics, cases, rtopic,
                    rerr, recv, rcvd, stream, sent, acked>>
    BY <2>1 DEF ClientListen
  <2>4. ASSUME NEW t \in Topics PROVE ReplyPlaced(t)'
    <3>1. ~IsReply([type |-> "listen", topic |-> u], t)
      OBVIOUS
    <3>2. (ReplyQueued(t)' <=> ReplyQueued(t)) /\ UniqueIn(inbox', t)
      <4> DEFINE F == [type |-> "listen", topic |-> u]
      <4>1. inbox \in Seq(Frames) /\ UniqueIn(inbox, t)
        BY DEF ReplyPlaced
      <4>2. /\ QueuedIn(Append(inbox, F), t) <=> QueuedIn(inbox, t) \/ IsReply(F, t)
            /\ UniqueIn(inbox, t) /\ ~(QueuedIn(inbox, t) /\ IsReply(F, t))
                 => UniqueIn(Append(inbox, F), t)
        BY ZenonT(30), <2>2, <4>1, AppendQueued
      <4> QED
        BY <2>2, <3>1, <4>1, <4>2 DEF ReplyQueued
    <3> QED
      BY <2>3, <3>2
  <2> QED
    BY <1>0, <2>3, <2>4
<1>14. CASE \E t \in Topics, ty \in {"ack", "error"} : ClientReply(t, ty)
  <2>1. PICK u \in Topics, ty \in {"ack", "error"} : ClientReply(u, ty)
    BY <1>14
  <2>2. /\ recv[u] # <<>>
        /\ inbox' = Append(inbox, [type |-> ty, topic |-> u])
        /\ [type |-> ty, topic |-> u] \in Frames
        /\ IsReply([type |-> ty, topic |-> u], u)
    BY <2>1 DEF ClientReply, ClientSend
  <2>3. recv' = [recv EXCEPT ![u] = Tail(recv[u])]
    BY <2>1, <2>2 DEF ClientReply
  <2>4. Len(recv[u]) = 1 /\ recv[u] \in Seq(Batches)
    <3>1. recv[u] \in Seq(Batches) /\ Len(recv[u]) <= 1
      BY DEF ReplyPlaced
    <3>2. Len(recv[u]) \in Nat \ {0}
      <4>1. \A sq \in Seq(Batches) : sq # <<>> => Len(sq) \in Nat \ {0}
        BY EmptySeq
      <4> QED
        BY <2>2, <3>1, <4>1
    <3>3. \A n \in Nat \ {0} : n <= 1 => n = 1
      OBVIOUS
    <3> QED
      BY ZenonT(30), <3>1, <3>2, <3>3
  <2>5. recv'[u] = <<>>
    <3>1. Tail(recv[u]) \in Seq(Batches) /\ Len(Tail(recv[u])) = 0
      BY <2>2, <2>4, HeadTailProperties
    <3>2. \A sq \in Seq(Batches) : sq # <<>> => Len(sq) \in Nat \ {0}
      BY EmptySeq
    <3>3. Tail(recv[u]) = <<>>
      BY <3>1, <3>2
    <3> QED
      BY <2>3, <3>3
  <2>6. UNCHANGED <<pc, ret, iter, closed, sockOpen, topics, cases, rtopic,
                    rerr, rcvd, stream, sent, acked>>
    BY <2>1 DEF ClientReply
  <2>7. ~ReplyQueued(u) /\ ~Holding(u)
    BY <2>2 DEF ReplyPlaced
  <2>8. ASSUME NEW t \in Topics PROVE ReplyPlaced(t)'
    <3>1. CASE t = u
      <4>1. ReplyQueued(t)' /\ UniqueIn(inbox', t)
        <5> DEFINE F == [type |-> ty, topic |-> u]
        <5>1. inbox \in Seq(Frames) /\ UniqueIn(inbox, u)
          BY DEF ReplyPlaced
        <5>2. /\ QueuedIn(Append(inbox, F), u) <=> QueuedIn(inbox, u) \/ IsReply(F, u)
              /\ UniqueIn(inbox, u) /\ ~(QueuedIn(inbox, u) /\ IsReply(F, u))
                   => UniqueIn(Append(inbox, F), u)
          BY ZenonT(30), <2>2, <5>1, AppendQueued
        <5> QED
          BY <2>2, <2>7, <3>1, <5>1, <5>2 DEF ReplyQueued
      <4>2. ~Outstanding(t)' /\ Len(recv'[t]) <= 1
        BY <2>5, <3>1
      <4>3. ~Holding(t)'
        BY <2>6, <2>7, <3>1
      <4>4. ~closed => stream[t] = "awaiting"
        BY <2>2, <3>1 DEF ReplyPlaced
      <4> QED
        BY <2>6, <4>1, <4>2, <4>3, <4>4
    <3>2. CASE t # u
      <4>1. (ReplyQueued(t)' <=> ReplyQueued(t)) /\ UniqueIn(inbox', t)
        <5> DEFINE F == [type |-> ty, topic |-> u]
        <5>1. inbox \in Seq(Frames) /\ ~IsReply(F, t) /\ UniqueIn(inbox, t)
          BY <3>2 DEF ReplyPlaced
        <5>2. /\ QueuedIn(Append(inbox, F), t) <=> QueuedIn(inbox, t) \/ IsReply(F, t)
              /\ UniqueIn(inbox, t) /\ ~(QueuedIn(inbox, t) /\ IsReply(F, t))
                   => UniqueIn(Append(inbox, F), t)
          BY ZenonT(30), <2>2, <5>1, AppendQueued
        <5> QED
          BY <2>2, <5>1, <5>2 DEF ReplyQueued
      <4>2. recv'[t] = recv[t]
        BY <2>3, <3>2
      <4> QED
        BY <2>6, <4>1, <4>2
    <3> QED
      BY <3>1, <3>2
  <2> QED
    BY <1>0, <2>6, <2>8
<1>15. CASE UNCHANGED vars
  BY <1>0, <1>15 DEF vars
<1> QED
  BY ZenonT(30), <1>1, <1>2, <1>3, <1>4, <1>5, <1>6, <1>7, <1>8, <1>9, <1>10, <1>11,
     <1>12, <1>13, <1>14, <1>15
  DEF Next, ReaderStep, SenderStep, Environment


(* With a client that replies only to batches it holds, the client never  *)
(* holds two unreplied batches of a topic: the sender writes a stream's   *)
(* next batch only after the reply to the previous one reached the        *)
(* stream through handleAckOrError, or after close() shut the socket.     *)
THEOREM OneBatchInFlight ==
  ASSUME ~AnyReplies PROVE Spec => []ClientHoldsOneBatch
<1>1. Init => IInv
  BY IInvInit
<1>2. IInv /\ [Next]_vars => IInv'
  BY IInvNext
<1>3. IInv => ClientHoldsOneBatch
  BY ZenonT(30) DEF IInv, ReplyPlaced, ClientHoldsOneBatch
<1> QED
  BY <1>1, <1>2, <1>3, PTL DEF Spec

(* With such a client, a stream counts a batch as acknowledged only if    *)
(* the sender wrote that batch to the open socket: the reader hands every *)
(* reply to the stream that awaits it: only a failed read closes the     *)
(* connection, and the reader never reads a buffered frame after it.      *)
THEOREM AckedOnlyReceived ==
  ASSUME ~AnyReplies PROVE Spec => []AckedWasReceived
<1>1. Init => IInv
  BY IInvInit
<1>2. IInv /\ [Next]_vars => IInv'
  BY IInvNext
<1>3. IInv => AckedWasReceived
  BY DEF IInv
<1> QED
  BY <1>1, <1>2, <1>3, PTL DEF Spec

=============================================================================
