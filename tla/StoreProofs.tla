----------------------------- MODULE StoreProofs -----------------------------
(***************************************************************************)
(* Proofs about Ingest.tla: its type invariant, the inductive invariant    *)
(* LogInv, and that the audio path implements AudioLog; then what is fed   *)
(* to the pipeline, that the audio files hold what the index and the acks  *)
(* say they hold, and that the client ends only once all is stored.        *)
(*                                                                         *)
(* LogInv is a typing: the state has its shape with cursors drawn from the *)
(* indexed seqs and frames drawn from the recorded ones.  Every action     *)
(* keeps the shape for the cursors V and frames F it finds; Record and     *)
(* CommitOk only make those sets larger.                                   *)
(***************************************************************************)
EXTENDS Ingest, FiniteSetTheorems, FunctionTheorems, TLAPS

-----------------------------------------------------------------------------
(* Sequences over a set *)

\* Adding an element of S, or a sequence over S, to a sequence over S.
LEMMA SeqGrows ==
  ASSUME NEW S, NEW s \in Seq(S), NEW x \in S, NEW t \in Seq(S)
  PROVE  Append(s, x) \in Seq(S) /\ s \o t \in Seq(S) /\ <<>> \in Seq(S) /\ <<x>> \in Seq(S)
OBVIOUS

\* Taking a prefix of a sequence, or a message off its front.
LEMMA SeqShrinks ==
  ASSUME NEW S, NEW s \in Seq(S)
  PROVE  /\ s # <<>> => Head(s) \in S /\ Tail(s) \in Seq(S)
         /\ \A n \in 0..Len(s) : SubSeq(s, 1, n) \in Seq(S)
OBVIOUS

\* A sequence over a set is one over every larger set.
LEMMA SeqMono ==
  ASSUME NEW S, NEW T, S \subseteq T, NEW s \in Seq(S)
  PROVE  s \in Seq(T)
OBVIOUS

-----------------------------------------------------------------------------
(* Cursors and frames *)

\* What the actions need of the sets of cursor values and frames.
Admissible(V, F) ==
  /\ V \in [Channels -> SUBSET Int] /\ F \subseteq Frames
  /\ \A c \in Channels : None \in V[c] /\ \A s \in V[c] : s >= None

\* The empty cursor is one.
LEMMA EmptyCursor ==
  ASSUME NEW V, NEW F, Admissible(V, F)
  PROVE  [c \in Channels |-> None] \in Cursors(V)
BY DEF Admissible, Cursors, None

\* A larger supply of cursor values and frames keeps the shape.
LEMMA ShapeMono ==
  ASSUME NEW V, NEW F, NEW W, NEW G, F \subseteq G,
         V \in [Channels -> SUBSET Int], W \in [Channels -> SUBSET Int],
         \A c \in Channels : V[c] \subseteq W[c]
  PROVE  /\ ClientShape(V) => ClientShape(W)
         /\ NetShape(V, F) => NetShape(W, G)
         /\ ServerShape(V, F) => ServerShape(W, G)
<1>1. Cursors(V) \subseteq Cursors(W)
  BY DEF Cursors
<1>2. UpMessages(F) \subseteq UpMessages(G)
  BY DEF UpMessages
<1>3. DownMessages(V) \subseteq DownMessages(W)
  BY <1>1 DEF DownMessages
<1>4. HandlerShape(F) \subseteq HandlerShape(G)
  BY DEF HandlerShape
<1>5. StoreShape(V) \subseteq StoreShape(W)
  BY <1>1 DEF StoreShape
<1>6. ClientShape(V) => ClientShape(W)
  BY <1>1 DEF ClientShape
<1>7. NetShape(V, F) => NetShape(W, G)
  <2> SUFFICES ASSUME NetShape(V, F) PROVE NetShape(W, G)
    OBVIOUS
  <2> DEFINE U == UpMessages(F)  U2 == UpMessages(G)  D == DownMessages(V)  D2 == DownMessages(W)
  <2>1. \A k \in Conns : up[k] \in Seq(U2) /\ down[k] \in Seq(D2)
    <3> TAKE k \in Conns
    <3>1. up[k] \in Seq(U) /\ down[k] \in Seq(D)
      BY DEF NetShape
    <3>2. U \subseteq U2 /\ D \subseteq D2
      BY <1>2, <1>3
    <3> HIDE DEF U, U2, D, D2
    <3> QED BY <3>1, <3>2, SeqMono
  <2>2. up \in [Conns -> Seq(U)] /\ down \in [Conns -> Seq(D)]
    BY DEF NetShape
  <2>3. up \in [Conns -> Seq(U2)] /\ down \in [Conns -> Seq(D2)]
    <3> HIDE DEF U, U2, D, D2
    <3> QED BY <2>1, <2>2
  <2> QED BY <2>3 DEF NetShape
<1>8. ServerShape(V, F) => ServerShape(W, G)
  BY <1>4, <1>5 DEF ServerShape
<1> QED BY <1>6, <1>7, <1>8

Shaped(V, F) ==
  ClientShape(V) /\ NetShape(V, F) /\ ServerShape(V, F) /\ DurableShape /\ ObserverShape

\* A handler past hello has its ingest, one in append its frame.
HandlersTyped ==
  \A k \in Conns :
    /\ handler[k].st \in {"open", "committing", "stored", "ending", "draining"}
         => handler[k].gen \in Gens
    /\ handler[k].st \in {"committing", "stored"} => handler[k].frame \in Frames

\* The messages of the two programs.
LEMMA MessageShapes ==
  ASSUME NEW V, NEW F, Admissible(V, F)
  PROVE  /\ Hello \in UpMessages(F) /\ End \in UpMessages(F) /\ Gone \in UpMessages(F)
         /\ \A f \in F : f \in UpMessages(F)
         /\ \A m \in UpMessages(F) : m.t = "frame" => m \in F
         /\ Error \in DownMessages(V)
         /\ \A b \in BOOLEAN : Close(b) \in DownMessages(V)
         /\ \A f \in Cursors(V) : HelloAck(f) \in DownMessages(V) /\ Acks(f) \in DownMessages(V)
         /\ \A m \in DownMessages(V) : m.t \in {"hello_ack", "acks"} => m.cursor \in Cursors(V)
BY DEF Admissible, UpMessages, DownMessages, Hello, End, Gone, Error, Close, HelloAck, Acks

\* The client lets go of connection k.
LEMMA LeaveShape ==
  ASSUME NEW V, NEW F, Admissible(V, F), Shaped(V, F), NEW k \in Conns,
         NEW kept \in 0..Len(up[k]),
         NEW to \in {"backoff", "ended", "stopped"}, Leave(k, kept, to)
  PROVE  /\ NetShape(V, F)'
         /\ next' \in [Channels -> Int] /\ client' = to /\ conn' = None /\ endSent' = FALSE
<1> DEFINE U == UpMessages(F)  D == DownMessages(V)
<1>1. up \in [Conns -> Seq(U)] /\ down \in [Conns -> Seq(D)] /\ Gone \in U
  BY MessageShapes DEF Shaped, NetShape
<1>2. /\ up' = [up EXCEPT ![k] = IF handler[k].st = "closed" THEN <<>>
                                 ELSE Append(SubSeq(up[k], 1, kept), Gone)]
      /\ down' = [down EXCEPT ![k] = <<>>]
  BY DEF Leave
<1> HIDE DEF U, D
<1>3. SubSeq(up[k], 1, kept) \in Seq(U)
  BY <1>1, SeqShrinks
<1>4. Append(SubSeq(up[k], 1, kept), Gone) \in Seq(U) /\ <<>> \in Seq(U) /\ <<>> \in Seq(D)
  BY <1>1, <1>3, SeqGrows
<1>5. up' \in [Conns -> Seq(U)] /\ down' \in [Conns -> Seq(D)]
  BY <1>1, <1>2, <1>4
<1>6. NetShape(V, F)'
  BY <1>5 DEF NetShape, U, D
<1> QED BY <1>6 DEF Leave

\* A message is taken off a queue, or one of the right kind is added to it.
LEMMA QueueShape ==
  ASSUME NEW V, NEW F, Admissible(V, F), Shaped(V, F), NEW k \in Conns
  PROVE  /\ up[k] # <<>> => [up EXCEPT ![k] = Tail(@)] \in [Conns -> Seq(UpMessages(F))]
         /\ down[k] # <<>> => [down EXCEPT ![k] = Tail(@)] \in [Conns -> Seq(DownMessages(V))]
         /\ \A m \in UpMessages(F) :
              [up EXCEPT ![k] = Append(@, m)] \in [Conns -> Seq(UpMessages(F))]
         /\ up[k] # <<>> => Head(up[k]) \in UpMessages(F)
         /\ down[k] # <<>> => Head(down[k]) \in DownMessages(V)
<1> DEFINE U == UpMessages(F)  D == DownMessages(V)
<1>1. up \in [Conns -> Seq(U)] /\ down \in [Conns -> Seq(D)]
  BY DEF Shaped, NetShape
<1> HIDE DEF U, D
<1>2. up[k] \in Seq(U) /\ down[k] \in Seq(D)
  BY <1>1
<1>3. /\ up[k] # <<>> => Head(up[k]) \in U /\ Tail(up[k]) \in Seq(U)
      /\ down[k] # <<>> => Head(down[k]) \in D /\ Tail(down[k]) \in Seq(D)
  BY <1>2, SeqShrinks
<1>4. \A m \in U : Append(up[k], m) \in Seq(U)
  BY <1>2, SeqGrows
<1>5. /\ up[k] # <<>> => [up EXCEPT ![k] = Tail(@)] \in [Conns -> Seq(U)]
      /\ down[k] # <<>> => [down EXCEPT ![k] = Tail(@)] \in [Conns -> Seq(D)]
      /\ \A m \in U : [up EXCEPT ![k] = Append(@, m)] \in [Conns -> Seq(U)]
  BY <1>1, <1>3, <1>4
<1> QED BY <1>3, <1>5 DEF U, D

\* Raising the acks by a cursor gives a cursor.
LEMMA RaisedCursor ==
  ASSUME NEW V, NEW F, Admissible(V, F), Shaped(V, F), NEW f \in Cursors(V)
  PROVE  RaiseAcked(f) \in Cursors(V)
BY DEF Admissible, Shaped, ClientShape, RaiseAcked, MaxOf, Cursors

-----------------------------------------------------------------------------
(* The actions of the client keep the shape *)

\* Recording, asking to end, fetching a ticket and resuming keep the shape.
LEMMA SmallClientActions ==
  ASSUME NEW V, NEW F, Admissible(V, F), Shaped(V, F),
         \/ \E c \in Channels : Record(c)
         \/ RequestEnd \/ GetTicket \/ Resume
  PROVE  Shaped(V, F)'
<1>1. ASSUME NEW c \in Channels, Record(c) PROVE Shaped(V, F)'
  BY <1>1 DEF Record, Shaped, ClientShape, NetShape, ServerShape, DurableShape, ObserverShape,
     serverVars, durableVars
<1>2. CASE RequestEnd
  BY <1>2 DEF RequestEnd, Shaped, ClientShape, NetShape, ServerShape, DurableShape, ObserverShape,
     serverVars, durableVars
<1>3. CASE GetTicket
  BY <1>3 DEF GetTicket, Shaped, ClientShape, NetShape, ServerShape, DurableShape, ObserverShape,
     serverVars, durableVars
<1>4. CASE Resume
  BY <1>4 DEF Resume, Shaped, ClientShape, NetShape, ServerShape, DurableShape, ObserverShape,
     serverVars, durableVars
<1> QED BY <1>1, <1>2, <1>3, <1>4

\* So does connecting, which starts a handler and its two queues.
LEMMA ConnectShape ==
  ASSUME NEW V, NEW F, Admissible(V, F), Shaped(V, F), NEW k \in Conns, Connect(k)
  PROVE  Shaped(V, F)'
<1> DEFINE U == UpMessages(F)  D == DownMessages(V)
<1>1. up \in [Conns -> Seq(U)] /\ down \in [Conns -> Seq(D)] /\ Hello \in U
  BY MessageShapes DEF Shaped, NetShape
<1>2. up' = [up EXCEPT ![k] = <<Hello>>] /\ down' = [down EXCEPT ![k] = <<>>]
  BY DEF Connect
<1>3. up' \in [Conns -> Seq(U)] /\ down' \in [Conns -> Seq(D)]
  <2> HIDE DEF U, D
  <2>1. <<Hello>> \in Seq(U) /\ <<>> \in Seq(D)
    BY <1>1, SeqGrows
  <2> QED BY <1>1, <1>2, <2>1
<1>4. NetShape(V, F)'
  BY <1>3 DEF NetShape
<1>5. ClientShape(V)'
  BY DEF Connect, Shaped, ClientShape
<1>6. [Closed EXCEPT !.st = "accepted", !.row = status] \in HandlerShape(F)
  BY DEF Closed, HandlerShape, Shaped, DurableShape, None
<1>7. ServerShape(V, F)'
  BY <1>6 DEF Connect, Shaped, ServerShape
<1>8. DurableShape' /\ ObserverShape'
  BY DEF Connect, Shaped, DurableShape, ObserverShape, durableVars
<1> QED BY <1>4, <1>5, <1>7, <1>8 DEF Shaped

\* So does every message the client receives.
LEMMA ReceiverShape ==
  ASSUME NEW V, NEW F, Admissible(V, F), Shaped(V, F), NEW k \in Conns, Receiver(k)
  PROVE  Shaped(V, F)'
<1>1. ASSUME RecvHelloAck(k) \/ RecvAcks(k) PROVE Shaped(V, F)'
  <2>1. down[k] # <<>> /\ Head(down[k]).t \in {"hello_ack", "acks"}
        /\ down' = [down EXCEPT ![k] = Tail(@)] /\ up' = up
        /\ acked' = RaiseAcked(Head(down[k]).cursor)
    BY <1>1 DEF RecvHelloAck, RecvAcks
  <2>2. Head(down[k]).cursor \in Cursors(V)
    BY <2>1, QueueShape, MessageShapes
  <2>3. acked' \in Cursors(V)
    BY <2>1, <2>2, RaisedCursor
  <2>4. NetShape(V, F)'
    BY <2>1, QueueShape DEF Shaped, NetShape
  <2>5. acked' \in [Channels -> Int]
    BY <2>3 DEF Cursors
  <2>6. ClientShape(V)'
    BY <1>1, <2>3, <2>5 DEF RecvHelloAck, RecvAcks, Shaped, ClientShape
  <2> QED BY <1>1, <2>4, <2>6 DEF RecvHelloAck, RecvAcks, Shaped, ServerShape, DurableShape,
          ObserverShape, serverVars, durableVars
<1>2. ASSUME RecvError(k) PROVE Shaped(V, F)'
  <2>1. Len(up[k]) \in 0..Len(up[k])
    BY DEF Shaped, NetShape
  <2>2. NetShape(V, F)' /\ ClientShape(V)'
    <3>1. CASE Leave(k, Len(up[k]), "backoff")
      BY <1>2, <2>1, <3>1, LeaveShape DEF RecvError, Shaped, ClientShape
    <3>2. CASE /\ client = "connected"
               /\ down' = [down EXCEPT ![k] = Tail(@)]
               /\ UNCHANGED <<next, client, conn, endSent, up>>
      BY <1>2, <3>2, QueueShape DEF RecvError, Shaped, ClientShape, NetShape
    <3> QED BY <1>2, <3>1, <3>2 DEF RecvError
  <2> QED BY <1>2, <2>2 DEF RecvError, Shaped, ServerShape, DurableShape, ObserverShape,
          serverVars, durableVars
<1>3. ASSUME RecvClose(k) PROVE Shaped(V, F)'
  <2>1. Len(up[k]) \in 0..Len(up[k])
    BY DEF Shaped, NetShape
  <2>2. NetShape(V, F)' /\ ClientShape(V)'
    BY <1>3, <2>1, LeaveShape DEF RecvClose, Shaped, ClientShape
  <2> QED BY <1>3, <2>2 DEF RecvClose, Shaped, ServerShape, DurableShape, ObserverShape,
          serverVars, durableVars
<1> QED BY <1>1, <1>2, <1>3 DEF Receiver

\* A message is sent, or lost on a closed socket.
LEMMA DeliverShape ==
  ASSUME NEW V, NEW F, Admissible(V, F), Shaped(V, F), NEW k \in Conns,
         NEW m \in UpMessages(F), Deliver(k, m), UNCHANGED down
  PROVE  NetShape(V, F)'
<1>1. CASE handler[k].st = "closed"
  <2>1. up' = up
    BY <1>1 DEF Deliver, Shaped, NetShape
  <2> QED BY <2>1 DEF Shaped, NetShape
<1>2. CASE handler[k].st # "closed"
  <2>1. up' = [up EXCEPT ![k] = Append(@, m)]
    BY <1>2 DEF Deliver
  <2> QED BY <2>1, QueueShape DEF Shaped, NetShape
<1> QED BY <1>1, <1>2

\* So does sending: only recorded frames are put on the wire.
LEMMA SenderShape ==
  ASSUME NEW V, NEW F, Admissible(V, F), Shaped(V, F), RecordedFrames \subseteq F,
         NEW k \in Conns, Sender(k)
  PROVE  Shaped(V, F)'
<1>1. ASSUME NEW c \in Channels, SendFrame(k, c) PROVE Shaped(V, F)'
  <2>1. acked[c] \in Int /\ acked[c] >= -1 /\ next[c] \in Int /\ recorded[c] \in Nat
    BY DEF Shaped, ClientShape, Cursors, Admissible, None
  <2>2. NextToSend(c) \in Nat /\ NextToSend(c) < recorded[c]
    BY <1>1, <2>1 DEF SendFrame, NextToSend, MaxOf
  <2>3. Frame(c, NextToSend(c)) \in RecordedFrames
    BY <2>2 DEF Frame, RecordedFrames, Frames
  <2>4. Frame(c, NextToSend(c)) \in UpMessages(F)
    BY <2>3, MessageShapes
  <2>5. NetShape(V, F)'
    BY <1>1, <2>4, DeliverShape DEF SendFrame
  <2>6. ClientShape(V)'
    BY <1>1, <2>2 DEF SendFrame, Shaped, ClientShape
  <2> QED BY <1>1, <2>5, <2>6 DEF SendFrame, Shaped, ServerShape, DurableShape, ObserverShape,
          serverVars, durableVars
<1>2. ASSUME SendEnd(k) PROVE Shaped(V, F)'
  <2>1. NetShape(V, F)'
    BY <1>2, MessageShapes, DeliverShape DEF SendEnd
  <2>2. ClientShape(V)'
    BY <1>2 DEF SendEnd, Shaped, ClientShape
  <2> QED BY <1>2, <2>1, <2>2 DEF SendEnd, Shaped, ServerShape, DurableShape, ObserverShape,
          serverVars, durableVars
<1>3. ASSUME Finish(k) PROVE Shaped(V, F)'
  <2>1. Len(up[k]) \in 0..Len(up[k])
    BY DEF Shaped, NetShape
  <2>2. NetShape(V, F)' /\ ClientShape(V)'
    BY <1>3, <2>1, LeaveShape DEF Finish, Shaped, ClientShape
  <2> QED BY <1>3, <2>2 DEF Finish, Shaped, ServerShape, DurableShape, ObserverShape,
          serverVars, durableVars
<1> QED BY <1>1, <1>2, <1>3 DEF Sender

\* Counting a fault.
LEMMA SpendShape ==
  ASSUME NEW f \in Faults, budget \in [Faults -> Nat], Spend(f)
  PROVE  budget' \in [Faults -> Nat]
BY DEF Spend

\* So does a dropped connection.
LEMMA DropShape ==
  ASSUME NEW V, NEW F, Admissible(V, F), Shaped(V, F), NEW k \in Conns, Drop(k)
  PROVE  Shaped(V, F)'
<1>1. NetShape(V, F)' /\ ClientShape(V)'
  BY LeaveShape DEF Drop, Shaped, ClientShape
<1>2. budget' \in [Faults -> Nat]
  BY SpendShape DEF Drop, Shaped, ObserverShape, Faults
<1> QED BY <1>1, <1>2 DEF Drop, Shaped, ServerShape, DurableShape, ObserverShape, serverVars,
        durableVars

\* So does stopping the client.
LEMMA StopShape ==
  ASSUME NEW V, NEW F, Admissible(V, F), Shaped(V, F), Stop
  PROVE  Shaped(V, F)'
<1>1. NetShape(V, F)' /\ ClientShape(V)'
  <2>1. CASE conn # None /\ \E kept \in 0..Len(up[conn]) : Leave(conn, kept, "stopped")
    <3>1. conn \in Conns
      BY <2>1 DEF Shaped, ClientShape
    <3> QED BY <2>1, <3>1, LeaveShape DEF Stop, Shaped, ClientShape
  <2>2. CASE conn = None /\ client' = "stopped" /\ UNCHANGED <<next, conn, endSent, up, down>>
    BY <2>2 DEF Stop, Shaped, ClientShape, NetShape
  <2> QED BY <2>1, <2>2 DEF Stop
<1>2. budget' \in [Faults -> Nat]
  BY SpendShape DEF Stop, Shaped, ObserverShape, Faults
<1> QED BY <1>1, <1>2 DEF Stop, Shaped, ServerShape, DurableShape, ObserverShape, serverVars,
        durableVars

-----------------------------------------------------------------------------
(* The actions of the server keep the shape *)

\* A finished handler has the shape of one.
LEMMA ClosedShape ==
  ASSUME NEW F
  PROVE  Closed \in HandlerShape(F)
BY DEF Closed, HandlerShape, None, NoFrame

\* The handler of k leaves, with messages and stores of the right shape.
LEMMA ExitShape ==
  ASSUME NEW V, NEW F, Admissible(V, F), Shaped(V, F), NEW k \in Conns,
         NEW msgs \in Seq(DownMessages(V)),
         NEW stores \in [Gens -> StoreShape(V)], Exit(k, msgs, stores)
  PROVE  /\ NetShape(V, F)'
         /\ handler' \in [Conns \cup {Rest} -> HandlerShape(F)]
         /\ store' \in [Gens -> StoreShape(V)]
<1> DEFINE U == UpMessages(F)  D == DownMessages(V)
<1>1. up \in [Conns -> Seq(U)] /\ down \in [Conns -> Seq(D)] /\ Close(TRUE) \in D /\ Gone \in U
  BY MessageShapes DEF Shaped, NetShape
<1>2. /\ up' = [up EXCEPT ![k] = <<>>]
      /\ down' = [down EXCEPT ![k] = IF conn = k THEN down[k] \o msgs \o <<Close(TRUE)>> ELSE <<>>]
  BY DEF Exit
<1>3. msgs \in Seq(D)
  OBVIOUS
<1>4. up' \in [Conns -> Seq(U)] /\ down' \in [Conns -> Seq(D)]
  <2> HIDE DEF U, D
  <2>1. <<>> \in Seq(D) /\ <<Close(TRUE)>> \in Seq(D)
    BY <1>1, <1>3, SeqGrows
  <2>2. (down[k] \o msgs) \in Seq(D)
    BY <1>1, <1>3, SeqGrows
  <2>3. down[k] \o msgs \o <<Close(TRUE)>> \in Seq(D)
    BY <1>1, <2>2, <2>1, SeqGrows
  <2>4. <<>> \in Seq(U)
    OBVIOUS
  <2> QED BY <1>1, <1>2, <2>1, <2>3, <2>4
<1>5. NetShape(V, F)'
  BY <1>4 DEF NetShape
<1>6. handler' \in [Conns \cup {Rest} -> HandlerShape(F)]
  BY ClosedShape DEF Exit, Shaped, ServerShape
<1>7. store' \in [Gens -> StoreShape(V)]
  <2>1. \A g \in Gens : [stores[g] EXCEPT !.producer = None] \in StoreShape(V)
    BY DEF StoreShape
  <2> QED BY <2>1 DEF Exit
<1> QED BY <1>5, <1>6, <1>7

\* Syncing everything that is in the files.
LEMMA FileLengths ==
  ASSUME NEW V, NEW F, Shaped(V, F)
  PROVE  [c \in Channels |-> Len(file[c])] \in [Channels -> Nat]
BY DEF Shaped, DurableShape

\* A handler that ends early keeps the shape.
LEMMA HandlerLeavesShape ==
  ASSUME NEW V, NEW F, Admissible(V, F), Shaped(V, F), NEW k \in Conns,
         HandlerGone(k) \/ HelloRejected(k) \/ HelloLoadFails(k) \/ FrameRejected(k)
  PROVE  Shaped(V, F)'
<1>1. store \in [Gens -> StoreShape(V)] /\ Error \in DownMessages(V)
  BY MessageShapes DEF Shaped, ServerShape
<1>2. <<>> \in Seq(DownMessages(V)) /\ <<Error>> \in Seq(DownMessages(V))
  <2> DEFINE D == DownMessages(V)
  <2>1. Error \in D
    BY <1>1
  <2> HIDE DEF D
  <2>2. <<>> \in Seq(D) /\ <<Error>> \in Seq(D)
    BY <2>1, SeqGrows
  <2> QED BY <2>2 DEF D
<1>3. PICK msgs \in Seq(DownMessages(V)) : Exit(k, msgs, store)
  BY <1>2 DEF HandlerGone, HelloRejected, HelloLoadFails, FrameRejected
<1>4. /\ NetShape(V, F)'
      /\ handler' \in [Conns \cup {Rest} -> HandlerShape(F)]
      /\ store' \in [Gens -> StoreShape(V)]
  BY <1>1, <1>3, ExitShape
<1>5. ClientShape(V)' /\ server' = server /\ hub' = hub /\ ObserverShape'
  BY DEF HandlerGone, HelloRejected, HelloLoadFails, FrameRejected, clientVars, durableVars,
     Shaped, ClientShape, ObserverShape
<1>6. ServerShape(V, F)'
  BY <1>4, <1>5 DEF Shaped, ServerShape
<1>7. synced' \in [Channels -> Nat]
  BY FileLengths DEF HandlerGone, HelloRejected, HelloLoadFails, FrameRejected, durableVars,
     Shaped, DurableShape
<1>8. DurableShape'
  BY <1>7 DEF HandlerGone, HelloRejected, HelloLoadFails, FrameRejected, durableVars, Shaped,
     DurableShape
<1> QED BY <1>4, <1>5, <1>6, <1>8 DEF Shaped

\* A channel with rows has a last one, with the highest seq.
LEMMA LastRowIs ==
  ASSUME recorded \in [Channels -> Nat], DurableShape, IndexContiguous,
         NEW c \in Channels, index[c] # {}
  PROVE  LastRow(c) \in index[c] /\ \A p \in index[c] : p.seq <= LastRow(c).seq
<1>1. PICK n \in 0..recorded[c] : Seqs(c) = 0..(n - 1)
  BY DEF IndexContiguous
<1>2. recorded[c] \in Nat /\ index[c] \subseteq [seq : Nat, offset : Nat]
  BY DEF DurableShape
<1>3. PICK q \in index[c] : TRUE
  OBVIOUS
<1>4. q.seq \in 0..(n - 1)
  BY <1>1, <1>3 DEF Seqs
<1>5. n - 1 \in Seqs(c)
  BY <1>1, <1>2, <1>4
<1>6. PICK r \in index[c] : r.seq = n - 1
  BY <1>5 DEF Seqs
<1>7. \A p \in index[c] : p.seq <= r.seq
  BY <1>1, <1>2, <1>6 DEF Seqs
<1> QED BY <1>6, <1>7 DEF LastRow

\* The cursor load() finds is one, and its end offset a length, when the index is contiguous.
LEMMA IndexedCursorShape ==
  ASSUME NEW V, NEW F, Admissible(V, F), Shaped(V, F), IndexContiguous,
         \A c \in Channels : Seqs(c) \subseteq V[c]
  PROVE  IndexedCursor \in Cursors(V) /\ \A c \in Channels : IndexedEnd(c) \in Nat
<1>1. \A c \in Channels : index[c] # {} => LastRow(c) \in index[c]
  BY LastRowIs DEF Shaped, ClientShape
<1>2. \A c \in Channels : index[c] # {} => LastRow(c).seq \in V[c] /\ LastRow(c).seq \in Int
                                          /\ LastRow(c).offset \in Nat
  BY <1>1 DEF Seqs, Shaped, DurableShape
<1>3. IndexedCursor \in Cursors(V)
  BY <1>2 DEF IndexedCursor, Cursors, Admissible, None
<1> QED BY <1>2, <1>3 DEF IndexedEnd

\* So does hello, whether the ingest is found or loaded.
LEMMA HelloAcceptedShape ==
  ASSUME NEW V, NEW F, Admissible(V, F), Shaped(V, F), IndexContiguous,
         hub = None => \A c \in Channels : Seqs(c) \subseteq V[c],
         NEW k \in Conns, NEW g \in Gens, HelloAccepted(k, g)
  PROVE  Shaped(V, F)'
<1>1. /\ store' \in [Gens -> StoreShape(V)]
      /\ file' \in [Channels -> Seq(Int)] /\ synced' \in [Channels -> Nat]
  <2>1. CASE hub = g /\ store' = [store EXCEPT ![g].producer = k] /\ UNCHANGED <<file, synced>>
    BY <2>1 DEF Shaped, ServerShape, DurableShape, StoreShape
  <2>2. CASE hub = None
    <3>1. /\ \A c \in Channels : Len(file[c]) >= IndexedEnd(c)
          /\ file' = [c \in Channels |-> SubSeq(file[c], 1, IndexedEnd(c))]
          /\ synced' = [c \in Channels |-> IF synced[c] <= IndexedEnd(c) THEN synced[c]
                                           ELSE IndexedEnd(c)]
          /\ store' = [store EXCEPT ![g] =
               [NewStore(IndexedCursor) EXCEPT !.producer = k,
                                               !.offset = [c \in Channels |-> IndexedEnd(c)]]]
      \/ /\ store' = [store EXCEPT ![g].producer = k]
         /\ UNCHANGED <<file, synced>>
      BY <2>2 DEF HelloAccepted
    <3>2. IndexedCursor \in Cursors(V) /\ \A c \in Channels : IndexedEnd(c) \in Nat
      BY <2>2, IndexedCursorShape
    <3>3. [NewStore(IndexedCursor) EXCEPT !.producer = k,
                                          !.offset = [c \in Channels |-> IndexedEnd(c)]]
            \in StoreShape(V)
      BY <3>2 DEF NewStore, StoreShape, None
    <3>4. ASSUME \A c \in Channels : Len(file[c]) >= IndexedEnd(c)
          PROVE  [c \in Channels |-> SubSeq(file[c], 1, IndexedEnd(c))] \in [Channels -> Seq(Int)]
      <4>1. \A c \in Channels : file[c] \in Seq(Int) /\ IndexedEnd(c) \in 0..Len(file[c])
        BY <3>2, <3>4 DEF Shaped, DurableShape
      <4>2. \A c \in Channels : SubSeq(file[c], 1, IndexedEnd(c)) \in Seq(Int)
        BY <4>1, SeqShrinks
      <4> QED BY <4>2
    <3>5. /\ store \in [Gens -> StoreShape(V)] /\ file \in [Channels -> Seq(Int)]
          /\ synced \in [Channels -> Nat]
      BY DEF Shaped, ServerShape, DurableShape
    <3>6. ASSUME NEW row \in StoreShape(V), store' = [store EXCEPT ![g] = row]
          PROVE  store' \in [Gens -> StoreShape(V)]
      BY ONLY <3>5, <3>6
    <3>7. CASE store' = [store EXCEPT ![g].producer = k] /\ UNCHANGED <<file, synced>>
      <4>1. PICK x : x = store[g]
        OBVIOUS
      <4>2. x \in StoreShape(V)
        BY <3>5, <4>1
      <4>3. [x EXCEPT !.producer = k] \in StoreShape(V)
        BY ONLY <4>2, k \in Conns DEF StoreShape
      <4>4. store' = [store EXCEPT ![g] = [x EXCEPT !.producer = k]]
        BY <3>7, <4>1
      <4> QED BY <3>5, <3>6, <3>7, <4>3, <4>4
    <3>8. ASSUME \A c \in Channels : Len(file[c]) >= IndexedEnd(c),
                 file' = [c \in Channels |-> SubSeq(file[c], 1, IndexedEnd(c))],
                 synced' = [c \in Channels |-> IF synced[c] <= IndexedEnd(c) THEN synced[c]
                                                ELSE IndexedEnd(c)],
                 store' = [store EXCEPT ![g] =
                    [NewStore(IndexedCursor) EXCEPT !.producer = k,
                                                    !.offset = [c \in Channels |-> IndexedEnd(c)]]]
          PROVE  /\ store' \in [Gens -> StoreShape(V)]
                 /\ file' \in [Channels -> Seq(Int)] /\ synced' \in [Channels -> Nat]
      <4>1. store' \in [Gens -> StoreShape(V)]
        BY <3>3, <3>6, <3>8
      <4>2. file' \in [Channels -> Seq(Int)]
        BY <3>4, <3>8
      <4>3. synced' \in [Channels -> Nat]
        BY <3>2, <3>5, <3>8
      <4> QED BY <4>1, <4>2, <4>3
    <3> QED BY <3>1, <3>7, <3>8
  <2> QED BY <2>1, <2>2 DEF HelloAccepted
<1>2. [handler EXCEPT ![k] = [@ EXCEPT !.st = "open", !.gen = g]]
        \in [Conns \cup {Rest} -> HandlerShape(F)]
  <2>1. handler \in [Conns \cup {Rest} -> HandlerShape(F)]
    BY DEF Shaped, ServerShape
  <2>2. PICK x : x = handler[k]
    OBVIOUS
  <2>3. x \in HandlerShape(F)
    BY <2>1, <2>2
  <2>4. [x EXCEPT !.st = "open", !.gen = g] \in HandlerShape(F)
    BY ONLY <2>3, g \in Gens DEF HandlerShape
  <2> QED BY <2>1, <2>2, <2>4
<1>3. ServerShape(V, F)'
  BY <1>1, <1>2 DEF HelloAccepted, Shaped, ServerShape, clientVars
<1>4. up' \in [Conns -> Seq(UpMessages(F))]
  BY QueueShape DEF HelloAccepted, Receives
<1>5. down' \in [Conns -> Seq(DownMessages(V))]
  <2> DEFINE D == DownMessages(V)
  <2>1. store'[g].last \in Cursors(V)
    BY <1>1 DEF StoreShape
  <2>2. HelloAck(store'[g].last) \in D
    BY <2>1, MessageShapes
  <2>3. down \in [Conns -> Seq(D)]
    BY DEF Shaped, NetShape
  <2>4. down' = [down EXCEPT ![k] = IF conn = k THEN Append(down[k], HelloAck(store'[g].last))
                                    ELSE down[k]]
    BY DEF HelloAccepted
  <2> HIDE DEF D
  <2>5. Append(down[k], HelloAck(store'[g].last)) \in Seq(D)
    BY <2>2, <2>3, SeqGrows
  <2>6. down' \in [Conns -> Seq(D)]
    BY <2>3, <2>4, <2>5
  <2> QED BY <2>6 DEF D
<1>6. ClientShape(V)' /\ ObserverShape'
  BY DEF HelloAccepted, Shaped, ClientShape, ObserverShape, clientVars
<1>7. DurableShape'
  BY <1>1 DEF HelloAccepted, Shaped, DurableShape
<1> QED BY <1>3, <1>4, <1>5, <1>6, <1>7 DEF Shaped, NetShape

\* So does append() up to its write, a duplicate, and the feed after it.
LEMMA FrameShapes ==
  ASSUME NEW V, NEW F, Admissible(V, F), Shaped(V, F), HandlersTyped, NEW k \in Conns,
         FrameDuplicate(k) \/ FrameWritten(k) \/ Feed(k)
  PROVE  Shaped(V, F)'
<1>1. CASE FrameDuplicate(k)
  <2>1. Head(up[k]) \in F /\ up' = [up EXCEPT ![k] = Tail(@)] /\ up[k] # <<>>
    BY <1>1, QueueShape, MessageShapes DEF FrameDuplicate, Receives
  <2>2. NetShape(V, F)'
    BY <1>1, <2>1, QueueShape DEF FrameDuplicate, Shaped, NetShape
  <2>3. Head(up[k]).c \in Channels
    BY <2>1 DEF Admissible, Frames
  <2>4. handler' = [handler EXCEPT ![k].dirty = @ \cup {Head(up[k]).c}]
    BY <1>1 DEF FrameDuplicate
  <2>5. handler' \in [Conns \cup {Rest} -> HandlerShape(F)]
    BY <2>3, <2>4 DEF Shaped, ServerShape, HandlerShape
  <2> QED BY <1>1, <2>2, <2>5 DEF FrameDuplicate, Shaped, ClientShape, ServerShape, DurableShape,
          ObserverShape, clientVars, durableVars
<1>2. CASE FrameWritten(k)
  <2>1. Head(up[k]) \in F /\ up' = [up EXCEPT ![k] = Tail(@)] /\ up[k] # <<>>
    BY <1>2, QueueShape, MessageShapes DEF FrameWritten, Receives
  <2>2. NetShape(V, F)'
    <3>1. down' = down
      BY <1>2 DEF FrameWritten
    <3>2. up' \in [Conns -> Seq(UpMessages(F))]
      BY <2>1, QueueShape
    <3>3. down \in [Conns -> Seq(DownMessages(V))]
      BY DEF Shaped, NetShape
    <3> QED BY <3>1, <3>2, <3>3 DEF NetShape
  <2>3. Head(up[k]).c \in Channels /\ Head(up[k]).s \in Nat
    BY <2>1 DEF Admissible, Frames
  <2>4. /\ handler' = [handler EXCEPT ![k] = [@ EXCEPT !.st = "committing", !.frame = Head(up[k])]]
        /\ store' = [store EXCEPT ![handler[k].gen].lock = k]
        /\ file' = [file EXCEPT ![Head(up[k]).c] = Append(@, Head(up[k]).s)]
    BY <1>2 DEF FrameWritten
  <2>5. handler' \in [Conns \cup {Rest} -> HandlerShape(F)]
    <3>1. handler \in [Conns \cup {Rest} -> HandlerShape(F)]
      BY DEF Shaped, ServerShape
    <3>2. PICK x, m : x = handler[k] /\ m = Head(up[k])
      OBVIOUS
    <3>3. x \in HandlerShape(F) /\ m \in F
      BY <2>1, <3>1, <3>2
    <3>4. [x EXCEPT !.st = "committing", !.frame = m] \in HandlerShape(F)
      BY ONLY <3>3 DEF HandlerShape
    <3>5. handler' = [handler EXCEPT ![k] = [x EXCEPT !.st = "committing", !.frame = m]]
      BY <2>4, <3>2
    <3> QED BY <3>1, <3>4, <3>5
  <2>6. store' \in [Gens -> StoreShape(V)]
    BY <2>4 DEF Shaped, ServerShape, StoreShape
  <2>7. file' \in [Channels -> Seq(Int)]
    BY <2>3, <2>4 DEF Shaped, DurableShape
  <2> QED BY <1>2, <2>2, <2>5, <2>6, <2>7 DEF FrameWritten, Shaped, ClientShape, ServerShape,
          DurableShape, ObserverShape, clientVars
<1>3. CASE Feed(k)
  <2>1. handler[k].frame \in Frames
    BY <1>3 DEF Feed, Serving, HandlersTyped
  <2>2. handler[k].frame.c \in Channels /\ handler[k].frame.s \in Nat
    BY <2>1 DEF Frames
  <2>3. handler' \in [Conns \cup {Rest} -> HandlerShape(F)]
    <3> DEFINE h == handler[k]
               c == h.frame.c
    <3>1. handler' = [handler EXCEPT ![k] = [@ EXCEPT !.st = "open", !.frame = NoFrame,
                                                      !.dirty = h.dirty \cup {c}]]
      BY <1>3 DEF Feed
    <3>2. h \in HandlerShape(F) /\ c \in Channels
      BY <2>2 DEF Shaped, ServerShape
    <3> HIDE DEF c
    <3>3. [h EXCEPT !.st = "open", !.frame = NoFrame, !.dirty = h.dirty \cup {c}] \in HandlerShape(F)
      BY <3>2 DEF HandlerShape
    <3> DEFINE h2 == [h EXCEPT !.st = "open", !.frame = NoFrame, !.dirty = h.dirty \cup {c}]
    <3>4. handler' = [handler EXCEPT ![k] = h2]
      BY <3>1
    <3> HIDE DEF h2
    <3>5. h2 \in HandlerShape(F)
      BY <3>3 DEF h2
    <3> QED BY <3>4, <3>5 DEF Shaped, ServerShape
  <2>4. fed' \in [Channels -> Seq(Nat)]
    BY <1>3, <2>2 DEF Feed, Shaped, ObserverShape
  <2> QED BY <1>3, <2>3, <2>4 DEF Feed, Shaped, ClientShape, NetShape, ServerShape, DurableShape,
          ObserverShape, clientVars, durableVars
<1> QED BY <1>1, <1>2, <1>3

\* Cutting a file, or extending it with zeros, leaves a file.
LEMMA TruncateShape ==
  ASSUME NEW s \in Seq(Int), NEW n \in Nat
  PROVE  Truncate(s, n) \in Seq(Int)
<1>1. CASE Len(s) <= n
  <2>1. [i \in 1..(n - Len(s)) |-> None] \in Seq(Int)
    <3>1. n - Len(s) \in Nat
      BY <1>1
    <3> QED BY <3>1 DEF None
  <2>2. s \o [i \in 1..(n - Len(s)) |-> None] \in Seq(Int)
    BY <2>1, SeqGrows DEF None
  <2> QED BY <1>1, <2>2 DEF Truncate
<1>2. CASE ~(Len(s) <= n)
  <2>1. n \in 0..Len(s)
    BY <1>2
  <2>2. SubSeq(s, 1, n) \in Seq(Int)
    BY <2>1, SeqShrinks
  <2> QED BY <1>2, <2>2 DEF Truncate
<1> QED BY <1>1, <1>2

\* A commit: the shape is kept for the cursor values that the new row adds.
LEMMA CommitShape ==
  ASSUME NEW V, NEW F, Admissible(V, F), Shaped(V, F), HandlersTyped, NEW k \in Conns,
         handler[k].frame.s \in V[handler[k].frame.c], CommitOk(k)
  PROVE  Shaped(V, F)'
<1>1. handler[k].frame \in Frames /\ handler[k].gen \in Gens
  BY DEF CommitOk, Serving, HandlersTyped
<1>2. PICK c \in Channels, n \in Nat, g \in Gens :
        c = handler[k].frame.c /\ n = handler[k].frame.s /\ g = handler[k].gen
  BY <1>1 DEF Frames
<1>3. /\ index' = [index EXCEPT ![c] = @ \cup {[seq |-> n, offset |-> store[g].offset[c]]}]
      /\ store' = [store EXCEPT ![g] =
           [@ EXCEPT !.lock = None, !.last[c] = n, !.offset[c] = store[g].offset[c] + 1]]
      /\ handler' = [handler EXCEPT ![k].st = "stored"]
  BY <1>2 DEF CommitOk
<1>4. store[g] \in StoreShape(V) /\ n \in V[c]
  BY <1>2 DEF Shaped, ServerShape
<1>5. [store[g] EXCEPT !.lock = None, !.last[c] = n, !.offset[c] = store[g].offset[c] + 1] \in StoreShape(V)
  <2>1. store[g].last \in Cursors(V) /\ store[g].offset \in [Channels -> Nat]
    BY <1>4 DEF StoreShape
  <2>2. [store[g].last EXCEPT ![c] = n] \in Cursors(V)
    BY <2>1, <1>4 DEF Cursors
  <2>3. [store[g].offset EXCEPT ![c] = store[g].offset[c] + 1] \in [Channels -> Nat]
    BY <2>1
  <2> QED BY <1>4, <2>2, <2>3 DEF StoreShape
<1>6. store' \in [Gens -> StoreShape(V)]
  BY <1>3, <1>5 DEF Shaped, ServerShape
<1>7. handler' \in [Conns \cup {Rest} -> HandlerShape(F)]
  BY <1>3 DEF Shaped, ServerShape, HandlerShape
<1>8. store[g].offset[c] \in Nat
  BY <1>4 DEF StoreShape
<1>9. index' \in [Channels -> SUBSET [seq : Nat, offset : Nat]]
  BY <1>3, <1>8 DEF Shaped, DurableShape
<1> QED BY <1>6, <1>7, <1>9 DEF CommitOk, Shaped, ClientShape, NetShape, ServerShape,
        DurableShape, ObserverShape, clientVars

\* A failed commit keeps the shape.
LEMMA CommitFailsShape ==
  ASSUME NEW V, NEW F, Admissible(V, F), Shaped(V, F), HandlersTyped, NEW k \in Conns,
         CommitFails(k)
  PROVE  Shaped(V, F)'
<1>1. handler[k].frame \in Frames /\ handler[k].gen \in Gens
  BY DEF CommitFails, Serving, HandlersTyped
<1>2. PICK c \in Channels, n \in Nat, g \in Gens :
        c = handler[k].frame.c /\ n = handler[k].frame.s /\ g = handler[k].gen
  BY <1>1 DEF Frames
<1> DEFINE row == [seq |-> n, offset |-> store[g].offset[c]]
           released == [store EXCEPT ![g].lock = None]
<1>3. /\ \/ UNCHANGED <<index, budget>>
         \/ Spend("db") /\ UNCHANGED index
         \/ Spend("ambiguous") /\ index' = [index EXCEPT ![c] = index[c] \cup {row}]
      /\ file' = [file EXCEPT ![c] = Truncate(file[c], store[g].offset[c])]
      /\ Exit(k, <<>>, released)
  BY <1>2 DEF CommitFails
<1>4. store[g] \in StoreShape(V) /\ store[g].offset[c] \in Nat
  BY DEF Shaped, ServerShape, StoreShape
<1>5. released \in [Gens -> StoreShape(V)]
  BY DEF Shaped, ServerShape, StoreShape
<1>6. <<>> \in Seq(DownMessages(V))
  OBVIOUS
<1>7. /\ NetShape(V, F)'
      /\ handler' \in [Conns \cup {Rest} -> HandlerShape(F)]
      /\ store' \in [Gens -> StoreShape(V)]
  BY <1>3, <1>5, <1>6, ExitShape
<1>8. file' \in [Channels -> Seq(Int)]
  <2>1. Truncate(file[c], store[g].offset[c]) \in Seq(Int)
    BY <1>4, TruncateShape DEF Shaped, DurableShape
  <2> QED BY <1>3, <2>1 DEF Shaped, DurableShape
<1>9. synced' \in [Channels -> Nat]
  <2>1. synced' = [d \in Channels |-> Len(file'[d])]
    BY DEF CommitFails
  <2>2. \A d \in Channels : Len(file'[d]) \in Nat
    BY <1>8
  <2> QED BY <2>1, <2>2
<1>10. index' \in [Channels -> SUBSET [seq : Nat, offset : Nat]]
  BY <1>3, <1>4 DEF Shaped, DurableShape
<1>11. budget' \in [Faults -> Nat]
  BY <1>3, SpendShape DEF Shaped, ObserverShape, Faults
<1> QED BY <1>7, <1>8, <1>9, <1>10, <1>11 DEF CommitFails, Shaped, ClientShape, ServerShape,
        DurableShape, ObserverShape, clientVars

\* What _flush_acks puts out.
LEMMA AcksShape ==
  ASSUME NEW V, NEW F, Admissible(V, F), Shaped(V, F), NEW k \in Conns, handler[k].gen \in Gens
  PROVE  AcksFor(k) \in Seq(DownMessages(V))
<1> DEFINE D == DownMessages(V)
           cursor == [c \in Channels |->
                        IF c \in handler[k].dirty THEN store[handler[k].gen].last[c] ELSE None]
<1>1. store[handler[k].gen].last \in Cursors(V)
  BY DEF Shaped, ServerShape, StoreShape
<1>2. cursor \in Cursors(V)
  BY <1>1 DEF Cursors, Admissible, None
<1>3. Acks(cursor) \in D
  BY <1>2, MessageShapes
<1>4. AcksFor(k) = <<>> \/ AcksFor(k) = <<Acks(cursor)>>
  BY DEF AcksFor
<1> HIDE DEF D, cursor
<1>5. AcksFor(k) \in Seq(D)
  <2>1. <<>> \in Seq(D)
    OBVIOUS
  <2>2. <<Acks(cursor)>> \in Seq(D)
    BY <1>3, <2>1, SeqGrows
  <2> QED BY <1>4, <2>1, <2>2
<1> QED BY <1>5 DEF D

\* So does a round of acks.
LEMMA FlushAcksShape ==
  ASSUME NEW V, NEW F, Admissible(V, F), Shaped(V, F), HandlersTyped, NEW k \in Conns,
         FlushAcks(k)
  PROVE  Shaped(V, F)'
<1> DEFINE D == DownMessages(V)
<1>1. handler[k].gen \in Gens
  BY DEF FlushAcks, Producing, HandlersTyped
<1>2. AcksFor(k) \in Seq(D) /\ down \in [Conns -> Seq(D)]
  BY <1>1, AcksShape DEF Shaped, NetShape
<1>3. down' = [down EXCEPT ![k] = IF conn = k THEN down[k] \o AcksFor(k) ELSE down[k]]
  BY DEF FlushAcks
<1>4. down' \in [Conns -> Seq(D)]
  <2> HIDE DEF D
  <2>1. down[k] \o AcksFor(k) \in Seq(D)
    BY <1>2
  <2> QED BY <1>2, <1>3, <2>1
<1>5. NetShape(V, F)'
  BY <1>4 DEF FlushAcks, Shaped, NetShape
<1>6. handler' \in [Conns \cup {Rest} -> HandlerShape(F)]
  BY DEF FlushAcks, Shaped, ServerShape, HandlerShape
<1> QED BY <1>5, <1>6 DEF FlushAcks, Shaped, ClientShape, ServerShape, DurableShape,
        ObserverShape, clientVars, durableVars

\* So does an fsync.
LEMMA FsyncShape ==
  ASSUME NEW V, NEW F, Admissible(V, F), Shaped(V, F), Fsync
  PROVE  Shaped(V, F)'
BY FileLengths DEF Fsync, Shaped, ClientShape, NetShape, ServerShape, DurableShape, ObserverShape,
   clientVars, serverVars

\* hub.end begins.
LEMMA EndMarkShape ==
  ASSUME NEW V, NEW F, Shaped(V, F), NEW e \in Conns \cup {Rest}, EndMark(e)
  PROVE  /\ status' \in {"live", "finalizing"} /\ hub' \in Gens \cup {None}
         /\ handler' \in [Conns \cup {Rest} -> HandlerShape(F)]
<1>1. [handler[e] EXCEPT !.st = "ending", !.took = hub] \in HandlerShape(F)
  <2>1. handler[e] \in HandlerShape(F) /\ hub \in Gens \cup {None}
    BY DEF Shaped, ServerShape
  <2> QED BY <2>1 DEF HandlerShape
<1> QED BY <1>1 DEF EndMark, Shaped, ServerShape

\* So does the start of hub.end, whoever calls it.
LEMMA EndBeginsShape ==
  ASSUME NEW V, NEW F, Admissible(V, F), Shaped(V, F),
         (\E k \in Conns : ProducerEnds(k)) \/ RestEnds \/ WatchdogEnds
  PROVE  Shaped(V, F)'
<1>1. ASSUME NEW k \in Conns, ProducerEnds(k) PROVE Shaped(V, F)'
  <2>1. /\ status' \in {"live", "finalizing"} /\ hub' \in Gens \cup {None}
        /\ handler' \in [Conns \cup {Rest} -> HandlerShape(F)]
    BY <1>1, EndMarkShape DEF ProducerEnds
  <2>2. NetShape(V, F)'
    BY <1>1, QueueShape DEF ProducerEnds, Receives, Shaped, NetShape
  <2> QED BY <1>1, <2>1, <2>2 DEF ProducerEnds, Shaped, ClientShape, ServerShape, DurableShape,
          ObserverShape, clientVars
<1>2. ASSUME RestEnds \/ WatchdogEnds PROVE Shaped(V, F)'
  <2>1. /\ status' \in {"live", "finalizing"} /\ hub' \in Gens \cup {None}
        /\ handler' \in [Conns \cup {Rest} -> HandlerShape(F)]
    BY <1>2, EndMarkShape DEF RestEnds, WatchdogEnds
  <2>2. budget' \in [Faults -> Nat]
    BY <1>2, SpendShape DEF RestEnds, WatchdogEnds, Shaped, ObserverShape, Faults
  <2> QED BY <1>2, <2>1, <2>2 DEF RestEnds, WatchdogEnds, Shaped, ClientShape, NetShape,
          ServerShape, DurableShape, ObserverShape, clientVars
<1> QED BY <1>1, <1>2

\* So does closing the store.
LEMMA EndCloseShape ==
  ASSUME NEW V, NEW F, Admissible(V, F), Shaped(V, F), NEW e \in Conns \cup {Rest}, EndClose(e)
  PROVE  Shaped(V, F)'
<1>1. handler' \in [Conns \cup {Rest} -> HandlerShape(F)]
  BY DEF EndClose, Shaped, ServerShape, HandlerShape
<1>2. store' \in [Gens -> StoreShape(V)]
  <2> DEFINE g == handler[e].took
  <2>1. store \in [Gens -> StoreShape(V)] /\ g \in Gens \cup {None}
    BY DEF Shaped, ServerShape, HandlerShape
  <2>2. UNCHANGED store \/ (g # None /\ store' = [store EXCEPT ![g].closed = TRUE])
    BY DEF EndClose
  <2> HIDE DEF g
  <2>3. CASE g # None /\ store' = [store EXCEPT ![g].closed = TRUE]
    <3>1. g \in Gens
      BY <2>1, <2>3
    <3>2. [store[g] EXCEPT !.closed = TRUE] \in StoreShape(V)
      BY <2>1, <3>1 DEF StoreShape
    <3> QED BY <2>1, <2>3, <3>1, <3>2
  <2> QED BY <2>1, <2>2, <2>3
<1>3. synced' \in [Channels -> Nat]
  BY FileLengths DEF EndClose, Shaped, DurableShape, ObserverShape
<1> QED BY <1>1, <1>2, <1>3 DEF EndClose, Shaped, ClientShape, NetShape, ServerShape,
        DurableShape, ObserverShape, clientVars

\* So does the return of hub.end.
LEMMA EndReturnShape ==
  ASSUME NEW V, NEW F, Admissible(V, F), Shaped(V, F), HandlersTyped,
         NEW e \in Conns \cup {Rest}, EndReturn(e)
  PROVE  Shaped(V, F)'
<1> DEFINE U == UpMessages(F)  D == DownMessages(V)
           g == handler[e].took
           other == IF g = None THEN None ELSE store[g].producer
           cut == [k \in Conns |-> IF k = other /\ k # e /\ conn = k
                                   THEN Append(down[k], Close(FALSE)) ELSE down[k]]
<1>1. up \in [Conns -> Seq(U)] /\ down \in [Conns -> Seq(D)]
      /\ Close(FALSE) \in D /\ Close(TRUE) \in D
  BY MessageShapes DEF Shaped, NetShape
<1>2. cut \in [Conns -> Seq(D)]
  <2> HIDE DEF D, other
  <2>1. \A k \in Conns : Append(down[k], Close(FALSE)) \in Seq(D)
    BY <1>1, SeqGrows
  <2> QED BY <1>1, <2>1
<1>3. /\ handler' = [handler EXCEPT ![e] = Closed]
      /\ store' = [s \in Gens |-> IF store[s].producer = e
                                  THEN [store[s] EXCEPT !.producer = None] ELSE store[s]]
      /\ e = Rest => down' = cut /\ UNCHANGED up
      /\ e # Rest => /\ down' = [cut EXCEPT ![e] = IF conn = e
                                    THEN cut[e] \o AcksFor(e) \o <<Close(TRUE)>> ELSE <<>>]
                     /\ up' = [up EXCEPT ![e] = <<>>]
  BY DEF EndReturn
<1>4. up' \in [Conns -> Seq(U)] /\ down' \in [Conns -> Seq(D)]
  <2>1. CASE e = Rest
    BY <1>1, <1>2, <1>3, <2>1
  <2>2. CASE e # Rest
    <3>1. handler[e].gen \in Gens
      BY <2>2 DEF EndReturn, Serving, HandlersTyped
    <3>2. AcksFor(e) \in Seq(D)
      BY <2>2, <3>1, AcksShape
    <3> HIDE DEF U, D, cut
    <3>3. cut[e] \o AcksFor(e) \in Seq(D)
      BY <1>1, <1>2, <2>2, <3>2, SeqGrows
    <3>4. <<Close(TRUE)>> \in Seq(D)
      BY <1>1, <3>2, SeqGrows
    <3>5. cut[e] \o AcksFor(e) \o <<Close(TRUE)>> \in Seq(D)
      BY <1>1, <3>3, <3>4, SeqGrows
    <3>6. <<>> \in Seq(U) /\ <<>> \in Seq(D)
      OBVIOUS
    <3>7. e \in Conns
      BY <2>2
    <3>8. up' \in [Conns -> Seq(U)]
      BY <1>1, <1>3, <2>2, <3>6
    <3>9. down' \in [Conns -> Seq(D)]
      BY <1>2, <1>3, <2>2, <3>5, <3>6, <3>7
    <3> QED BY <3>8, <3>9
  <2> QED BY <2>1, <2>2
<1>5. handler' \in [Conns \cup {Rest} -> HandlerShape(F)]
  BY <1>3, ClosedShape DEF Shaped, ServerShape
<1>6. store' \in [Gens -> StoreShape(V)]
  <2>1. store \in [Gens -> StoreShape(V)]
    BY DEF Shaped, ServerShape
  <2>2. \A s \in Gens : [store[s] EXCEPT !.producer = None] \in StoreShape(V)
    BY <2>1 DEF StoreShape
  <2> QED BY <1>3, <2>1, <2>2
<1>7. NetShape(V, F)'
  BY <1>4 DEF NetShape
<1> QED BY <1>5, <1>6, <1>7 DEF EndReturn, Shaped, ClientShape, ServerShape, DurableShape,
        ObserverShape, clientVars, durableVars

\* The server dies.
LEMMA DieShape ==
  ASSUME NEW V, NEW F, Admissible(V, F), Shaped(V, F), ServerCrash \/ PowerLoss
  PROVE  Shaped(V, F)'
<1>1. Die
  BY DEF ServerCrash, PowerLoss
<1>2. NewStore([c \in Channels |-> None]) \in StoreShape(V)
  BY EmptyCursor DEF NewStore, StoreShape, None
<1>3. ServerShape(V, F)'
  BY <1>1, <1>2, ClosedShape DEF Die, ServerShape
<1>4. NetShape(V, F)'
  BY <1>1 DEF Die, NetShape
<1>5. ClientShape(V)'
  <2>1. /\ recorded' = recorded /\ acked' = acked /\ endRequested' = endRequested
        /\ next' = [c \in Channels |-> 0] /\ conn' = None /\ endSent' = FALSE
        /\ client' = client \/ client' = "backoff"
    BY <1>1 DEF Die
  <2>2. next' \in [Channels -> Int]
    BY <2>1
  <2>3. ClientShape(V)
    BY DEF Shaped
  <2>4. endSent' \in BOOLEAN /\ endRequested' \in BOOLEAN /\ conn' \in Conns \cup {None}
    BY <2>1, <2>3 DEF ClientShape
  <2>5. client' \in {"backoff", "ticketed", "hello", "connected", "ended", "stopped"}
    BY <2>1, <2>3 DEF ClientShape
  <2>6. recorded' \in [Channels -> Nat] /\ acked' \in Cursors(V)
    BY <2>1, <2>3 DEF ClientShape
  <2> QED BY <2>2, <2>4, <2>5, <2>6 DEF ClientShape
<1>6. budget' \in [Faults -> Nat]
  BY SpendShape DEF ServerCrash, PowerLoss, Shaped, ObserverShape, Faults
<1>7. file' \in [Channels -> Seq(Int)] /\ synced' \in [Channels -> Nat]
  <2>1. CASE ServerCrash
    BY <2>1 DEF ServerCrash, Shaped, DurableShape
  <2>2. CASE PowerLoss
    <3>1. /\ DOMAIN file' = Channels /\ file' = [c \in Channels |-> file'[c]]
          /\ \A c \in Channels : \E n \in synced[c]..Len(file[c]) : file'[c] = SubSeq(file[c], 1, n)
          /\ synced' = [c \in Channels |-> Len(file'[c])]
      BY <2>2 DEF PowerLoss
    <3>2. \A c \in Channels : file[c] \in Seq(Int) /\ synced[c] \in Nat
      BY DEF Shaped, DurableShape
    <3>3. \A c \in Channels : file'[c] \in Seq(Int)
      <4> TAKE c \in Channels
      <4>1. PICK n \in synced[c]..Len(file[c]) : file'[c] = SubSeq(file[c], 1, n)
        BY <3>1
      <4>2. n \in 0..Len(file[c])
        BY <3>2, <4>1
      <4>3. SubSeq(file[c], 1, n) \in Seq(Int)
        BY <3>2, <4>2, SeqShrinks
      <4> QED BY <4>1, <4>3
    <3> QED BY <3>1, <3>3
  <2> QED BY <2>1, <2>2
<1> QED BY <1>1, <1>3, <1>4, <1>5, <1>6, <1>7 DEF Die, Shaped, DurableShape, ObserverShape

\* The server comes back.
LEMMA RestartShape ==
  ASSUME NEW V, NEW F, Admissible(V, F), Shaped(V, F), ServerRestart
  PROVE  Shaped(V, F)'
BY DEF ServerRestart, Shaped, ClientShape, NetShape, ServerShape, DurableShape, ObserverShape,
   clientVars, durableVars

-----------------------------------------------------------------------------
(* The index only grows, at its end *)

\* What a step may do to the index: nothing, or add the next seq of a channel.
IndexSame == index' = index /\ \A c \in Channels : recorded[c] <= recorded'[c]
IndexGrows(c, n) ==
  /\ recorded' = recorded /\ acked' = acked
  /\ n < recorded[c] /\ n \notin Seqs(c) /\ 0..(n - 1) \subseteq Seqs(c)
  /\ \E o \in Nat : index' = [index EXCEPT ![c] = @ \cup {[seq |-> n, offset |-> o]}]

\* A commit adds the frame's seq, right after the ones that are there.
LEMMA CommitIndexes ==
  ASSUME LogInv, NEW k \in Conns, CommitOk(k)
  PROVE  /\ handler[k].frame.c \in Channels /\ handler[k].frame.s \in Nat
         /\ IndexGrows(handler[k].frame.c, handler[k].frame.s)
<1>1. handler[k].frame \in Frames /\ handler[k].gen \in Gens
      /\ 0..(handler[k].frame.s - 1) \subseteq Seqs(handler[k].frame.c)
  BY DEF LogInv, HandlersPrepared, Prepared, CommitOk, Serving
<1>2. handler[k].frame.c \in Channels /\ handler[k].frame.s \in Nat
  BY <1>1 DEF Frames
<1>3. handler[k].frame \in RecordedFrames
  <2>1. handler[k] \in HandlerShape(RecordedFrames)
    BY DEF LogInv, ServerShape
  <2>2. handler[k].frame \in RecordedFrames \cup {NoFrame}
    BY <2>1 DEF HandlerShape
  <2>3. handler[k].frame # NoFrame
    BY <1>1 DEF Frames, NoFrame
  <2> QED BY <2>2, <2>3
<1>4. handler[k].frame.s < recorded[handler[k].frame.c]
  BY <1>3 DEF RecordedFrames
<1>5. store[handler[k].gen].offset[handler[k].frame.c] \in Nat
  BY <1>1, <1>2 DEF LogInv, ServerShape, StoreShape
<1> QED BY <1>1, <1>2, <1>4, <1>5 DEF CommitOk, IndexGrows, clientVars

\* So does a commit that raises and has taken effect all the same.
LEMMA FailedCommitIndexes ==
  ASSUME LogInv, NEW k \in Conns, CommitFails(k)
  PROVE  \/ IndexSame
         \/ /\ handler[k].frame.c \in Channels /\ handler[k].frame.s \in Nat
            /\ IndexGrows(handler[k].frame.c, handler[k].frame.s)
<1>1. handler[k].frame \in Frames /\ handler[k].gen \in Gens
      /\ 0..(handler[k].frame.s - 1) \subseteq Seqs(handler[k].frame.c)
  BY DEF LogInv, HandlersPrepared, Prepared, CommitFails, Serving
<1>2. handler[k].frame.c \in Channels /\ handler[k].frame.s \in Nat
  BY <1>1 DEF Frames
<1>3. handler[k].frame \in RecordedFrames
  <2>1. handler[k] \in HandlerShape(RecordedFrames)
    BY DEF LogInv, ServerShape
  <2>2. handler[k].frame \in RecordedFrames \cup {NoFrame}
    BY <2>1 DEF HandlerShape
  <2>3. handler[k].frame # NoFrame
    BY <1>1 DEF Frames, NoFrame
  <2> QED BY <2>2, <2>3
<1>4. handler[k].frame.s < recorded[handler[k].frame.c]
  BY <1>3 DEF RecordedFrames
<1>5. store[handler[k].gen].offset[handler[k].frame.c] \in Nat
  BY <1>1, <1>2 DEF LogInv, ServerShape, StoreShape
<1>6. recorded' = recorded /\ acked' = acked
  BY DEF CommitFails, clientVars
<1>7. CASE index' = index
  <2>1. recorded \in [Channels -> Nat]
    BY DEF LogInv, ClientShape
  <2> QED BY <1>6, <1>7, <2>1 DEF IndexSame
<1>8. CASE index' # index
  <2>1. /\ handler[k].frame.s \notin Seqs(handler[k].frame.c)
        /\ index' = [index EXCEPT ![handler[k].frame.c] = @ \cup
             {[seq |-> handler[k].frame.s,
               offset |-> store[handler[k].gen].offset[handler[k].frame.c]]}]
    BY <1>8 DEF CommitFails
  <2> QED BY <1>1, <1>2, <1>4, <1>5, <1>6, <2>1 DEF IndexGrows
<1> QED BY <1>7, <1>8

\* Every step leaves the index alone or adds the next seq of a channel.
LEMMA IndexStep ==
  ASSUME LogInv, Next
  PROVE  IndexSame \/ \E c \in Channels, n \in Nat : IndexGrows(c, n)
<1>1. ASSUME NEW k \in Conns, CommitOk(k) PROVE \E c \in Channels, n \in Nat : IndexGrows(c, n)
  BY <1>1, CommitIndexes
<1>2. ASSUME NEW k \in Conns, CommitFails(k)
      PROVE  IndexSame \/ \E c \in Channels, n \in Nat : IndexGrows(c, n)
  BY <1>2, FailedCommitIndexes
<1>3. recorded \in [Channels -> Nat]
  BY DEF LogInv, ClientShape
<1>4. ASSUME NEW c \in Channels, Record(c) PROVE IndexSame
  BY <1>3, <1>4 DEF Record, IndexSame, durableVars
<1>5. ASSUME index' = index, recorded' = recorded PROVE IndexSame
  BY <1>3, <1>5 DEF IndexSame
<1>6. CASE RequestEnd \/ Stop \/ Resume \/ Reconnect
  BY <1>5, <1>6 DEF RequestEnd, Stop, Resume, Reconnect, GetTicket, Connect, durableVars
<1>7. ASSUME NEW k \in Conns, Receiver(k) \/ Sender(k) \/ Drop(k) \/ FlushAcks(k) PROVE IndexSame
  BY <1>5, <1>7 DEF Receiver, RecvHelloAck, RecvAcks, RecvError, RecvClose, Sender, SendEnd,
     Finish, SendFrame, Drop, FlushAcks, durableVars, clientVars
<1>8. ASSUME NEW k \in Conns, Serve(k), ~CommitOk(k), ~CommitFails(k) PROVE IndexSame
  BY <1>5, <1>8 DEF Serve, HandlerGone, HelloRejected, HelloLoadFails, HelloAccepted,
     FrameRejected, FrameDuplicate, FrameWritten, Feed, ProducerEnds, durableVars, clientVars
<1>9. ASSUME NEW e \in Conns \cup {Rest}, Ending(e) PROVE IndexSame
  BY <1>5, <1>9 DEF Ending, EndClose, EndReturn, durableVars, clientVars
<1>10. CASE Fsync \/ RestEnds \/ WatchdogEnds \/ ServerRestart
  BY <1>5, <1>10 DEF Fsync, RestEnds, WatchdogEnds, ServerRestart, durableVars, clientVars
<1>11. CASE ServerCrash \/ PowerLoss
  BY <1>5, <1>11 DEF ServerCrash, PowerLoss, Die
<1> QED BY <1>1, <1>2, <1>4, <1>6, <1>7, <1>8, <1>9, <1>10, <1>11 DEF Next

\* Only Record touches the recording.
LEMMA UnlessRecorded ==
  ASSUME Next
  PROVE  (\E d \in Channels : Record(d)) \/ recorded' = recorded
<1>1. CASE RequestEnd \/ Stop \/ Resume \/ Reconnect
  BY <1>1 DEF RequestEnd, Stop, Resume, Reconnect, GetTicket, Connect
<1>2. ASSUME NEW k \in Conns, Receiver(k) \/ Sender(k) \/ Drop(k) \/ FlushAcks(k)
      PROVE  recorded' = recorded
  BY <1>2 DEF Receiver, RecvHelloAck, RecvAcks, RecvError, RecvClose, Sender, SendEnd,
     Finish, SendFrame, Drop, FlushAcks, clientVars
<1>3. ASSUME NEW k \in Conns, Serve(k) PROVE recorded' = recorded
  BY <1>3 DEF Serve, HandlerGone, HelloRejected, HelloLoadFails, HelloAccepted, CommitOk,
     CommitFails, FrameRejected, FrameDuplicate, FrameWritten, Feed, ProducerEnds, clientVars
<1>4. ASSUME NEW e \in Conns \cup {Rest}, Ending(e) PROVE recorded' = recorded
  BY <1>4 DEF Ending, EndClose, EndReturn, clientVars
<1>5. CASE Fsync \/ RestEnds \/ WatchdogEnds \/ ServerRestart
  BY <1>5 DEF Fsync, RestEnds, WatchdogEnds, ServerRestart, clientVars
<1>6. CASE ServerCrash \/ PowerLoss
  BY <1>6 DEF ServerCrash, PowerLoss, Die
<1> QED BY <1>1, <1>2, <1>3, <1>4, <1>5, <1>6 DEF Next

\* The recording only grows, one frame at a time.
LEMMA RecordedStep ==
  ASSUME LogInv, Next, NEW c \in Channels
  PROVE  recorded'[c] = recorded[c] \/ recorded'[c] = recorded[c] + 1
<1>1. recorded \in [Channels -> Nat]
  BY DEF LogInv, ClientShape
<1>2. ASSUME NEW d \in Channels, Record(d)
      PROVE  recorded'[c] = recorded[c] \/ recorded'[c] = recorded[c] + 1
  BY <1>1, <1>2 DEF Record
<1> QED BY <1>2, UnlessRecorded

\* It stays a function of the channels.
LEMMA RecordedFunction ==
  ASSUME LogInv, Next, \A c \in Channels : recorded'[c] \in Nat
  PROVE  recorded' \in [Channels -> Nat]
<1>1. recorded \in [Channels -> Nat]
  BY DEF LogInv, ClientShape
<1>2. ASSUME NEW d \in Channels, Record(d) PROVE recorded' \in [Channels -> Nat]
  BY <1>1, <1>2 DEF Record
<1>3. (\E d \in Channels : Record(d)) \/ recorded' = recorded
  BY UnlessRecorded
<1> QED BY <1>1, <1>2, <1>3

\* What that means for the seqs.
LEMMA SeqsStep ==
  ASSUME LogInv, Next
  PROVE  /\ \A c \in Channels : Seqs(c) \subseteq Seqs(c)'
         /\ \A c \in Channels : recorded[c] <= recorded'[c]
         /\ IndexContiguous'
         /\ index' = index => \A c \in Channels : Seqs(c)' = Seqs(c)
         /\ \A c \in Channels, n \in Nat :
              IndexGrows(c, n) => /\ Seqs(c) = 0..(n - 1) /\ Seqs(c)' = 0..n
                                  /\ \A d \in Channels \ {c} : Seqs(d)' = Seqs(d)
<1>1. recorded \in [Channels -> Nat] /\ index \in [Channels -> SUBSET [seq : Nat, offset : Nat]]
  BY DEF LogInv, ClientShape, DurableShape
<1>2. index' = index => \A c \in Channels : Seqs(c)' = Seqs(c)
  BY DEF Seqs
<1>3. ASSUME NEW c \in Channels, NEW n \in Nat, IndexGrows(c, n)
      PROVE  /\ Seqs(c) = 0..(n - 1) /\ Seqs(c)' = 0..n
             /\ \A d \in Channels \ {c} : Seqs(d)' = Seqs(d)
  <2>1. PICK o \in Nat : index' = [index EXCEPT ![c] = @ \cup {[seq |-> n, offset |-> o]}]
    BY <1>3 DEF IndexGrows
  <2>2. Seqs(c)' = Seqs(c) \cup {n}
    <3> DEFINE row == [seq |-> n, offset |-> o]
    <3>1. index'[c] = index[c] \cup {row} /\ row.seq = n
      BY <1>1, <2>1
    <3> HIDE DEF row
    <3> QED BY <3>1 DEF Seqs
  <2>3. \A d \in Channels \ {c} : Seqs(d)' = Seqs(d)
    BY <1>1, <2>1 DEF Seqs
  <2>4. PICK m \in 0..recorded[c] : Seqs(c) = 0..(m - 1)
    BY DEF LogInv, IndexContiguous
  <2>5. n = m
    <3>1. n \notin 0..(m - 1) /\ 0..(n - 1) \subseteq 0..(m - 1) /\ m \in Nat
      BY <1>1, <1>3, <2>4 DEF IndexGrows
    <3>2. n >= m
      BY <3>1
    <3>3. CASE n > m
      <4>1. m \in 0..(n - 1)
        BY <3>1, <3>3
      <4> QED BY <3>1, <4>1
    <3> QED BY <3>1, <3>2, <3>3
  <2> QED BY <2>2, <2>3, <2>4, <2>5
<1>4. CASE IndexSame
  <2>1. IndexContiguous'
    <3> SUFFICES ASSUME NEW c \in Channels
                 PROVE  \E n \in 0..recorded'[c] : Seqs(c)' = 0..(n - 1)
      BY DEF IndexContiguous
    <3>1. PICK n \in 0..recorded[c] : Seqs(c) = 0..(n - 1)
      BY DEF LogInv, IndexContiguous
    <3>2. recorded'[c] \in Int /\ recorded[c] <= recorded'[c]
      <4>1. recorded'[c] = recorded[c] \/ recorded'[c] = recorded[c] + 1
        BY <1>1, RecordedStep
      <4> QED BY <1>1, <4>1
    <3>3. n \in 0..recorded'[c]
      BY <1>1, <3>2
    <3> QED BY <1>2, <1>4, <3>1, <3>3 DEF IndexSame
  <2> QED BY <1>2, <1>3, <1>4, <2>1 DEF IndexSame
<1>5. ASSUME NEW c \in Channels, NEW n \in Nat, IndexGrows(c, n)
      PROVE  /\ \A d \in Channels : Seqs(d) \subseteq Seqs(d)'
             /\ \A d \in Channels : recorded[d] <= recorded'[d]
             /\ IndexContiguous'
  <2>1. \A d \in Channels : Seqs(d) \subseteq Seqs(d)'
    <3>1. 0..(n - 1) \subseteq 0..n
      OBVIOUS
    <3> QED BY <1>3, <1>5, <3>1
  <2>2. recorded' = recorded /\ n < recorded[c]
    BY <1>5 DEF IndexGrows
  <2>3. ASSUME NEW d \in Channels PROVE \E m \in 0..recorded'[d] : Seqs(d)' = 0..(m - 1)
    <3>1. CASE d = c
      <4>1. n + 1 \in 0..recorded'[c] /\ (n + 1) - 1 = n
        BY <1>1, <2>2
      <4> QED BY <1>3, <1>5, <3>1, <4>1
    <3>2. CASE d # c
      BY <1>3, <1>5, <2>2, <3>2 DEF LogInv, IndexContiguous
    <3> QED BY <3>1, <3>2
  <2> QED BY <1>1, <2>1, <2>2, <2>3 DEF IndexContiguous
<1> QED BY <1>2, <1>3, <1>4, <1>5, IndexStep

-----------------------------------------------------------------------------
(* The handlers stay prepared *)

\* A frame the store expects has everything before it indexed.
LEMMA ExpectedFrame ==
  ASSUME LogInv, NEW k \in Conns, FrameWritten(k)
  PROVE  /\ Head(up[k]) \in Frames
         /\ 0..(Head(up[k]).s - 1) \subseteq Seqs(Head(up[k]).c)
<1>1. Head(up[k]) \in UpMessages(RecordedFrames)
  <2> DEFINE U == UpMessages(RecordedFrames)
  <2>1. up[k] \in Seq(U) /\ up[k] # <<>>
    BY DEF LogInv, NetShape, FrameWritten, Receives
  <2> HIDE DEF U
  <2>2. Head(up[k]) \in U
    BY <2>1, SeqShrinks
  <2> QED BY <2>2 DEF U
<1>2. Head(up[k]).t = "frame" /\ handler[k].gen \in Gens
  BY DEF FrameWritten, Receives, Serving, LogInv, HandlersPrepared, Prepared
<1>3. Head(up[k]) \in Frames
  BY <1>1, <1>2 DEF UpMessages, RecordedFrames
<1>4. PICK c \in Channels, n \in Nat : c = Head(up[k]).c /\ n = Head(up[k]).s
  BY <1>3 DEF Frames
<1>5. store[handler[k].gen].last \in Cursors(Known)
  BY <1>2 DEF LogInv, ServerShape, StoreShape
<1>6. store[handler[k].gen].last[c] \in Seqs(c) \cup {None}
  BY <1>5 DEF Cursors, Known
<1>7. n = store[handler[k].gen].last[c] + 1
  BY <1>4 DEF FrameWritten
<1>8. PICK m \in 0..recorded[c] : Seqs(c) = 0..(m - 1)
  BY DEF LogInv, IndexContiguous
<1>9. 0..(n - 1) \subseteq Seqs(c)
  <2>1. CASE n = 0
    BY <2>1
  <2>2. CASE n # 0
    <3>1. n - 1 \in 0..(m - 1)
      BY <1>6, <1>7, <1>8, <2>2 DEF None
    <3> QED BY <1>8, <3>1
  <2> QED BY <2>1, <2>2
<1> QED BY <1>3, <1>4, <1>9

\* What a step leaves in a handler: where it commits, everything before its frame is indexed.
LEMMA HandlerStep ==
  ASSUME LogInv, Next, NEW k \in Conns
  PROVE  Prepared(handler'[k])
<1>1. Prepared(handler[k]) /\ handler \in [Conns \cup {Rest} -> HandlerShape(RecordedFrames)]
  BY DEF LogInv, HandlersPrepared, ServerShape
<1>2. ASSUME handler'[k].st \in {"closed", "accepted"} PROVE Prepared(handler'[k])
  BY <1>2 DEF Prepared
<1>3. ASSUME handler'[k] = handler[k] PROVE Prepared(handler'[k])
  BY <1>1, <1>3
<1>4. Closed.st = "closed"
  BY DEF Closed
<1>5. ASSUME NEW j \in Conns, handler' = [handler EXCEPT ![j] = Closed] PROVE Prepared(handler'[k])
  BY <1>1, <1>2, <1>3, <1>4, <1>5
<1>6. CASE (\E c \in Channels : Record(c)) \/ RequestEnd \/ Stop \/ Resume \/ GetTicket
  BY <1>3, <1>6 DEF Record, RequestEnd, Stop, Resume, GetTicket, serverVars
<1>7. ASSUME NEW j \in Conns, Connect(j) PROVE Prepared(handler'[k])
  <2>1. [Closed EXCEPT !.st = "accepted", !.row = status].st = "accepted"
    BY DEF Closed
  <2> QED BY <1>1, <1>2, <1>3, <1>7, <2>1 DEF Connect
<1>8. ASSUME NEW j \in Conns, Receiver(j) \/ Sender(j) \/ Drop(j) PROVE Prepared(handler'[k])
  BY <1>3, <1>8 DEF Receiver, RecvHelloAck, RecvAcks, RecvError, RecvClose, Sender, SendEnd,
     Finish, SendFrame, Drop, serverVars
<1>9. ASSUME NEW j \in Conns, FlushAcks(j) PROVE Prepared(handler'[k])
  <2>1. handler'[k].st = handler[k].st /\ handler'[k].gen = handler[k].gen
        /\ handler'[k].frame = handler[k].frame
    BY <1>1, <1>9 DEF FlushAcks, HandlerShape
  <2> QED BY <1>1, <2>1 DEF Prepared
<1>10. ASSUME NEW j \in Conns,
              HandlerGone(j) \/ HelloRejected(j) \/ HelloLoadFails(j) \/ FrameRejected(j)
              \/ CommitFails(j)
       PROVE  Prepared(handler'[k])
  BY <1>5, <1>10 DEF HandlerGone, HelloRejected, HelloLoadFails, FrameRejected, CommitFails, Exit
<1>11. ASSUME NEW j \in Conns, NEW g \in Gens, HelloAccepted(j, g) PROVE Prepared(handler'[k])
  <2>1. CASE j = k
    <3>1. handler'[k].st = "open" /\ handler'[k].gen = g
      BY <1>1, <1>11, <2>1 DEF HelloAccepted, HandlerShape
    <3> QED BY <3>1 DEF Prepared
  <2>2. CASE j # k
    BY <1>1, <1>3, <1>11, <2>2 DEF HelloAccepted
  <2> QED BY <2>1, <2>2
<1>12. ASSUME NEW j \in Conns, FrameDuplicate(j) PROVE Prepared(handler'[k])
  <2>1. handler'[k].st = handler[k].st /\ handler'[k].gen = handler[k].gen
        /\ handler'[k].frame = handler[k].frame
    BY <1>1, <1>12 DEF FrameDuplicate, HandlerShape
  <2> QED BY <1>1, <2>1 DEF Prepared
<1>13. ASSUME NEW j \in Conns, FrameWritten(j) PROVE Prepared(handler'[k])
  <2>1. CASE j = k
    <3>1. /\ handler'[k].st = "committing" /\ handler'[k].frame = Head(up[k])
          /\ handler'[k].gen = handler[k].gen
      <4>1. PICK x, m : x = handler[k] /\ m = Head(up[k])
        OBVIOUS
      <4>2. x \in HandlerShape(RecordedFrames)
        BY <1>1, <4>1
      <4>3. PICK y : y = [x EXCEPT !.st = "committing", !.frame = m]
        OBVIOUS
      <4>4. y.st = "committing" /\ y.frame = m /\ y.gen = x.gen
        BY ONLY <4>2, <4>3 DEF HandlerShape
      <4>5. handler'[k] = y
        BY <1>1, <1>13, <2>1, <4>1, <4>3 DEF FrameWritten
      <4> QED BY <4>1, <4>4, <4>5
    <3>2. handler[k].gen \in Gens
      BY <1>1, <1>13, <2>1 DEF FrameWritten, Serving, Prepared
    <3> QED BY <1>13, <2>1, <3>1, <3>2, ExpectedFrame DEF Prepared
  <2>2. CASE j # k
    BY <1>1, <1>3, <1>13, <2>2 DEF FrameWritten
  <2> QED BY <2>1, <2>2
<1>14. ASSUME NEW j \in Conns, CommitOk(j) PROVE Prepared(handler'[k])
  <2>1. CASE j = k
    <3>1. /\ handler'[k].st = "stored" /\ handler'[k].frame = handler[k].frame
          /\ handler'[k].gen = handler[k].gen /\ handler[k].st = "committing"
      BY <1>1, <1>14, <2>1 DEF CommitOk, Serving, HandlerShape
    <3> QED BY <1>1, <3>1 DEF Prepared
  <2>2. CASE j # k
    BY <1>1, <1>3, <1>14, <2>2 DEF CommitOk
  <2> QED BY <2>1, <2>2
<1>15. ASSUME NEW j \in Conns, Feed(j) PROVE Prepared(handler'[k])
  <2>1. CASE j = k
    <3>1. /\ handler'[k].st = "open"
          /\ handler'[k].gen = handler[k].gen /\ handler[k].st = "stored"
      BY <1>1, <1>15, <2>1 DEF Feed, Serving, HandlerShape
    <3> QED BY <1>1, <3>1 DEF Prepared
  <2>2. CASE j # k
    BY <1>1, <1>3, <1>15, <2>2 DEF Feed
  <2> QED BY <2>1, <2>2
<1>16. ASSUME NEW j \in Conns, ProducerEnds(j) PROVE Prepared(handler'[k])
  <2>1. CASE j = k
    <3>1. /\ handler'[k].st = "ending"
          /\ handler'[k].gen = handler[k].gen /\ handler[k].st = "open"
      BY <1>1, <1>16, <2>1 DEF ProducerEnds, EndMark, Serving, HandlerShape
    <3> QED BY <1>1, <3>1 DEF Prepared
  <2>2. CASE j # k
    BY <1>1, <1>3, <1>16, <2>2 DEF ProducerEnds, EndMark
  <2> QED BY <2>1, <2>2
<1>17. ASSUME NEW e \in Conns \cup {Rest}, EndClose(e) PROVE Prepared(handler'[k])
  <2>1. CASE e = k
    <3>1. /\ handler'[k].st = "draining"
          /\ handler'[k].gen = handler[k].gen /\ handler[k].st = "ending"
      BY <1>1, <1>17, <2>1 DEF EndClose, Serving, HandlerShape
    <3> QED BY <1>1, <3>1 DEF Prepared
  <2>2. CASE e # k
    BY <1>1, <1>3, <1>17, <2>2 DEF EndClose
  <2> QED BY <2>1, <2>2
<1>18. ASSUME NEW e \in Conns \cup {Rest}, EndReturn(e) PROVE Prepared(handler'[k])
  <2>1. handler' = [handler EXCEPT ![e] = Closed]
    BY <1>18 DEF EndReturn
  <2> QED BY <1>1, <1>2, <1>3, <1>4, <2>1
<1>19. CASE RestEnds \/ WatchdogEnds
  <2>1. handler'[k] = handler[k]
    BY <1>1, <1>19, DistinctIdentities DEF RestEnds, WatchdogEnds, EndMark
  <2> QED BY <1>3, <2>1
<1>20. CASE Fsync \/ ServerRestart
  BY <1>3, <1>20 DEF Fsync, ServerRestart, serverVars
<1>21. CASE ServerCrash \/ PowerLoss
  <2>1. handler'[k] = Closed
    BY <1>21 DEF ServerCrash, PowerLoss, Die
  <2> QED BY <1>2, <1>4, <2>1
<1> QED BY <1>6, <1>7, <1>8, <1>9, <1>10, <1>11, <1>12, <1>13, <1>14, <1>15, <1>16, <1>17, <1>18,
        <1>19, <1>20, <1>21 DEF Next, Reconnect, Serve, Ending

-----------------------------------------------------------------------------
(* The invariant and what follows from it *)

\* A step keeps the shape for the cursor values and frames it leaves behind.
LEMMA ShapeStep ==
  ASSUME NEW V, NEW F, Admissible(V, F), Shaped(V, F), HandlersTyped, IndexContiguous,
         RecordedFrames \subseteq F,
         (hub = None /\ hub' # None) => \A c \in Channels : Seqs(c) \subseteq V[c],
         \A k \in Conns : CommitOk(k) => handler[k].frame.s \in V[handler[k].frame.c],
         Next
  PROVE  Shaped(V, F)'
<1>1. CASE (\E c \in Channels : Record(c)) \/ RequestEnd \/ GetTicket \/ Resume
  BY <1>1, SmallClientActions
<1>2. CASE Stop
  BY <1>2, StopShape
<1>3. ASSUME NEW k \in Conns, Connect(k) PROVE Shaped(V, F)'
  BY <1>3, ConnectShape
<1>4. ASSUME NEW k \in Conns, Receiver(k) PROVE Shaped(V, F)'
  BY <1>4, ReceiverShape
<1>5. ASSUME NEW k \in Conns, Sender(k) PROVE Shaped(V, F)'
  BY <1>5, SenderShape
<1>6. ASSUME NEW k \in Conns, Drop(k) PROVE Shaped(V, F)'
  BY <1>6, DropShape
<1>7. ASSUME NEW k \in Conns, Serve(k) PROVE Shaped(V, F)'
  <2>1. CASE HandlerGone(k) \/ HelloRejected(k) \/ HelloLoadFails(k) \/ FrameRejected(k)
    BY <2>1, HandlerLeavesShape
  <2>2. ASSUME NEW g \in Gens, HelloAccepted(k, g) PROVE Shaped(V, F)'
    <3>1. hub = None => hub' # None
      BY <2>2, DistinctIdentities DEF HelloAccepted
    <3> QED BY <2>2, <3>1, HelloAcceptedShape
  <2>3. CASE FrameDuplicate(k) \/ FrameWritten(k) \/ Feed(k)
    BY <2>3, FrameShapes
  <2>4. CASE CommitOk(k)
    BY <2>4, CommitShape
  <2>5. CASE CommitFails(k)
    BY <2>5, CommitFailsShape
  <2>6. CASE ProducerEnds(k)
    BY <2>6, EndBeginsShape
  <2> QED BY <1>7, <2>1, <2>2, <2>3, <2>4, <2>5, <2>6 DEF Serve
<1>8. ASSUME NEW k \in Conns, FlushAcks(k) PROVE Shaped(V, F)'
  BY <1>8, FlushAcksShape
<1>9. ASSUME NEW e \in Conns \cup {Rest}, Ending(e) PROVE Shaped(V, F)'
  BY <1>9, EndCloseShape, EndReturnShape DEF Ending
<1>10. CASE Fsync
  BY <1>10, FsyncShape
<1>11. CASE RestEnds \/ WatchdogEnds
  BY <1>11, EndBeginsShape
<1>12. CASE ServerCrash \/ PowerLoss
  BY <1>12, DieShape
<1>13. CASE ServerRestart
  BY <1>13, RestartShape
<1> QED BY <1>1, <1>2, <1>3, <1>4, <1>5, <1>6, <1>7, <1>8, <1>9, <1>10, <1>11, <1>12, <1>13
        DEF Next, Reconnect

\* The cursor values and frames of LogInv are ones the actions can work with.
LEMMA KnownAdmissible ==
  ASSUME recorded \in [Channels -> Nat], IndexContiguous
  PROVE  Admissible(Known, RecordedFrames)
<1>1. \A c \in Channels : Seqs(c) \subseteq Nat
  BY DEF IndexContiguous
<1> QED BY <1>1 DEF Admissible, Known, RecordedFrames, None

\* LogInv holds initially.
LEMMA InitLogInv ==
  ASSUME Init
  PROVE  LogInv
<1>1. recorded \in [Channels -> Nat] /\ \A c \in Channels : Seqs(c) = {} /\ recorded[c] = 0
  BY DEF Init, Seqs
<1>2. IndexContiguous
  <2> SUFFICES ASSUME NEW c \in Channels PROVE \E n \in 0..recorded[c] : Seqs(c) = 0..(n - 1)
    BY DEF IndexContiguous
  <2>1. 0 \in 0..recorded[c] /\ Seqs(c) = 0..(0 - 1)
    BY <1>1
  <2> QED BY <2>1
<1>3. Admissible(Known, RecordedFrames)
  BY <1>1, <1>2, KnownAdmissible
<1>4. [c \in Channels |-> None] \in Cursors(Known)
  BY <1>3, EmptyCursor
<1>5. ClientShape(Known)
  <2>1. acked \in Cursors(Known)
    BY <1>4 DEF Init
  <2>2. next \in [Channels -> Int]
    BY DEF Init
  <2>3. client = "backoff" /\ conn = None /\ endRequested = FALSE /\ endSent = FALSE
    BY DEF Init
  <2> QED BY <1>1, <2>1, <2>2, <2>3 DEF ClientShape
<1>6. NetShape(Known, RecordedFrames)
  BY DEF Init, NetShape
<1>7. NewStore([c \in Channels |-> None]) \in StoreShape(Known)
  BY <1>4 DEF NewStore, StoreShape, None
<1>8. ServerShape(Known, RecordedFrames)
  BY <1>7, ClosedShape DEF Init, ServerShape
<1>9. DurableShape /\ ObserverShape
  <2>1. status = "live"
    BY DEF Init
  <2>2. file \in [Channels -> Seq(Int)] /\ synced \in [Channels -> Nat]
    BY DEF Init
  <2>3. index \in [Channels -> SUBSET [seq : Nat, offset : Nat]]
    BY DEF Init
  <2>4. fed \in [Channels -> Seq(Nat)] /\ budget \in [Faults -> Nat]
    BY DEF Init
  <2> QED BY <2>1, <2>2, <2>3, <2>4 DEF DurableShape, ObserverShape
<1>10. HandlersPrepared
  <2>1. \A k \in Conns : handler[k].st = "closed"
    BY DEF Init, Closed
  <2> QED BY <2>1 DEF HandlersPrepared, Prepared
<1> QED BY <1>2, <1>5, <1>6, <1>8, <1>9, <1>10 DEF LogInv

\* Every step keeps LogInv.
LEMMA NextLogInv ==
  ASSUME LogInv, Next
  PROVE  LogInv'
<1>1. /\ \A c \in Channels : Seqs(c) \subseteq Seqs(c)'
      /\ \A c \in Channels : recorded[c] <= recorded'[c]
      /\ IndexContiguous'
  BY SeqsStep
<1>2. PICK V, F : V = Known' /\ F = RecordedFrames'
  OBVIOUS
<1>3. recorded \in [Channels -> Nat] /\ recorded' \in [Channels -> Nat]
  <2>1. recorded \in [Channels -> Nat]
    BY DEF LogInv, ClientShape
  <2>2. \A c \in Channels : recorded'[c] \in Nat
    BY <2>1, RecordedStep
  <2>3. recorded' \in [Channels -> Nat]
    BY <2>1, <2>2, RecordedFunction
  <2> QED BY <2>1, <2>3
<1>4. Admissible(V, F)
  <2>1. \A c \in Channels : Seqs(c)' \subseteq Nat
    BY <1>1 DEF IndexContiguous
  <2>2. V = [c \in Channels |-> Seqs(c)' \cup {None}] /\ F \subseteq Frames
    BY <1>2 DEF Known, RecordedFrames, Frames
  <2> QED BY <2>1, <2>2 DEF Admissible, None
<1>5. Admissible(Known, RecordedFrames)
  BY <1>3, KnownAdmissible DEF LogInv
<1>6. RecordedFrames \subseteq F
  <2>1. \A f \in Frames : f.s < recorded[f.c] => f.s < recorded'[f.c]
    BY <1>1, <1>3 DEF Frames
  <2> QED BY <1>2, <2>1 DEF RecordedFrames
<1>7. \A c \in Channels : V[c] = Seqs(c)' \cup {None}
  BY <1>2 DEF Known
<1>8. \A c \in Channels : Known[c] \subseteq V[c] /\ Seqs(c) \subseteq V[c]
  BY <1>1, <1>7 DEF Known
<1>9. Shaped(V, F)
  <2>1. V \in [Channels -> SUBSET Int] /\ Known \in [Channels -> SUBSET Int]
    BY <1>4, <1>5 DEF Admissible
  <2> QED BY <1>6, <1>8, <2>1, ShapeMono DEF LogInv, Shaped
<1>10. HandlersTyped
  BY DEF LogInv, HandlersPrepared, Prepared, HandlersTyped
<1>11. ASSUME NEW k \in Conns, CommitOk(k) PROVE handler[k].frame.s \in V[handler[k].frame.c]
  <2>1. /\ handler[k].frame.c \in Channels /\ handler[k].frame.s \in Nat
        /\ IndexGrows(handler[k].frame.c, handler[k].frame.s)
    BY <1>11, CommitIndexes
  <2>2. PICK c \in Channels, n \in Nat : c = handler[k].frame.c /\ n = handler[k].frame.s
    BY <2>1
  <2>3. Seqs(c)' = 0..n
    BY <2>1, <2>2, SeqsStep
  <2>4. n \in V[c]
    BY <1>7, <2>3
  <2> QED BY <2>2, <2>4
<1>12. Shaped(V, F)'
  BY <1>4, <1>6, <1>8, <1>9, <1>10, <1>11, ShapeStep DEF LogInv
<1>13. /\ ClientShape(Known)' /\ NetShape(Known, RecordedFrames)'
       /\ ServerShape(Known, RecordedFrames)' /\ DurableShape' /\ ObserverShape'
  BY <1>2, <1>12 DEF Shaped, ClientShape, NetShape, ServerShape
<1>14. HandlersPrepared'
  <2> SUFFICES ASSUME NEW k \in Conns PROVE Prepared(handler[k])'
    BY DEF HandlersPrepared
  <2>1. Prepared(handler'[k])
    BY HandlerStep
  <2>2. handler'[k].st = "committing" => handler'[k].frame.c \in Channels
    BY <2>1 DEF Prepared, Frames
  <2> QED BY <1>1, <2>1, <2>2 DEF Prepared
<1> QED BY <1>1, <1>13, <1>14 DEF LogInv

\* LogInv holds throughout: whatever an ack, a cursor or the client's outbox says is stored is
\* indexed, the index has no gaps, and no append in progress can make one.
THEOREM LogInvariant == Spec => []LogInv
<1>1. Init => LogInv
  BY InitLogInv
<1>2. LogInv /\ [Next]_vars => LogInv'
  <2>1. CASE Next
    BY <2>1, NextLogInv
  <2>2. CASE UNCHANGED vars
    <3> SUFFICES ASSUME LogInv PROVE LogInv'
      OBVIOUS
    <3>1. IndexContiguous'
      BY <2>2 DEF LogInv, IndexContiguous, Seqs, vars
    <3>2. HandlersPrepared'
      BY <2>2 DEF LogInv, HandlersPrepared, Prepared, Seqs, vars
    <3>3. /\ recorded' = recorded /\ acked' = acked /\ next' = next /\ client' = client
          /\ conn' = conn /\ endRequested' = endRequested /\ endSent' = endSent
          /\ up' = up /\ down' = down /\ server' = server /\ handler' = handler /\ hub' = hub
          /\ store' = store /\ status' = status /\ file' = file /\ synced' = synced
          /\ index' = index /\ fed' = fed /\ budget' = budget
      BY <2>2 DEF vars
    <3>4. Known' = Known /\ RecordedFrames' = RecordedFrames
      BY <3>3 DEF Known, RecordedFrames, Seqs
    <3>5. /\ ClientShape(Known)' /\ NetShape(Known, RecordedFrames)'
          /\ ServerShape(Known, RecordedFrames)' /\ DurableShape' /\ ObserverShape'
      BY <3>3, <3>4 DEF LogInv, ClientShape, NetShape, ServerShape, DurableShape, ObserverShape
    <3> QED BY <3>1, <3>2, <3>5 DEF LogInv
  <2> QED BY <2>1, <2>2
<1> QED BY <1>1, <1>2, PTL DEF Spec

\* The state of the client, the network and the server keeps its types.
THEOREM IngestTypeCorrect == Spec => []TypeOK
<1>1. LogInv => TypeOK
  <2> SUFFICES ASSUME LogInv PROVE TypeOK
    OBVIOUS
  <2> DEFINE AnyCursor == [c \in Channels |-> Int]
  <2>1. Known \in [Channels -> SUBSET Int] /\ AnyCursor \in [Channels -> SUBSET Int]
    <3>1. Admissible(Known, RecordedFrames)
      BY KnownAdmissible DEF LogInv, ClientShape
    <3> QED BY <3>1 DEF Admissible
  <2>2. \A c \in Channels : Known[c] \subseteq AnyCursor[c]
    BY <2>1
  <2>3. RecordedFrames \subseteq Frames
    BY DEF RecordedFrames
  <2> HIDE DEF AnyCursor
  <2>4. ClientShape(AnyCursor) /\ NetShape(AnyCursor, Frames) /\ ServerShape(AnyCursor, Frames)
    BY <2>1, <2>2, <2>3, ShapeMono DEF LogInv
  <2> QED BY <2>4 DEF TypeOK, LogInv, AnyCursor
<1> QED BY <1>1, LogInvariant, PTL

\* What the client learns, it learns of indexed frames.
LEMMA LearnStep ==
  ASSUME LogInv, NEW k \in Conns, RecvHelloAck(k) \/ RecvAcks(k)
  PROVE  /\ acked' \in [Channels -> Int]
         /\ \A c \in Channels :
              acked'[c] = acked[c] \/ (acked'[c] > acked[c] /\ acked'[c] \in Seqs(c))
<1>1. acked' = RaiseAcked(Head(down[k]).cursor)
  BY DEF RecvHelloAck, RecvAcks
<1>2. Head(down[k]).cursor \in Cursors(Known)
  <2>1. Admissible(Known, RecordedFrames) /\ Shaped(Known, RecordedFrames)
    BY KnownAdmissible DEF LogInv, ClientShape, Shaped
  <2>2. down[k] # <<>> /\ Head(down[k]).t \in {"hello_ack", "acks"}
    BY DEF RecvHelloAck, RecvAcks
  <2> QED BY <2>1, <2>2, QueueShape, MessageShapes
<1>3. PICK f \in Cursors(Known) : f = Head(down[k]).cursor
  BY <1>2
<1>4. acked \in Cursors(Known)
  BY DEF LogInv, ClientShape
<1>5. \A c \in Channels : acked[c] \in Int /\ f[c] \in Int /\ f[c] \in Seqs(c) \cup {None}
                          /\ acked[c] \in Seqs(c) \cup {None}
  BY <1>3, <1>4 DEF Cursors, Known
<1>6. \A c \in Channels : acked[c] >= -1
  BY <1>5 DEF LogInv, IndexContiguous, None
<1>7. acked' = [c \in Channels |-> MaxOf(acked[c], f[c])]
  BY <1>1, <1>3 DEF RaiseAcked
<1> QED BY <1>5, <1>6, <1>7 DEF MaxOf, None

\* Nothing else touches the client's acks.
LEMMA AckedStep ==
  ASSUME Next, ~(\E k \in Conns : RecvHelloAck(k) \/ RecvAcks(k))
  PROVE  acked' = acked
<1>1. CASE (\E c \in Channels : Record(c)) \/ RequestEnd \/ Stop \/ Resume \/ Reconnect
  BY <1>1 DEF Record, RequestEnd, Stop, Resume, Reconnect, GetTicket, Connect
<1>2. ASSUME NEW k \in Conns, Receiver(k) \/ Sender(k) \/ Drop(k) \/ FlushAcks(k)
      PROVE  acked' = acked
  BY <1>2 DEF Receiver, RecvError, RecvClose, Sender, SendEnd, Finish, SendFrame, Drop,
     FlushAcks, clientVars
<1>3. ASSUME NEW k \in Conns, Serve(k) PROVE acked' = acked
  BY <1>3 DEF Serve, HandlerGone, HelloRejected, HelloLoadFails, HelloAccepted, CommitOk,
     CommitFails, FrameRejected, FrameDuplicate, FrameWritten, Feed, ProducerEnds, clientVars
<1>4. ASSUME NEW e \in Conns \cup {Rest}, Ending(e) PROVE acked' = acked
  BY <1>4 DEF Ending, EndClose, EndReturn, clientVars
<1>5. CASE Fsync \/ RestEnds \/ WatchdogEnds \/ ServerRestart
  BY <1>5 DEF Fsync, RestEnds, WatchdogEnds, ServerRestart, clientVars
<1>6. CASE ServerCrash \/ PowerLoss
  BY <1>6 DEF ServerCrash, PowerLoss, Die
<1> QED BY <1>1, <1>2, <1>3, <1>4, <1>5, <1>6 DEF Next

\* The audio path implements the log: each step records a frame, indexes the next frame of a
\* channel, tells the client of indexed frames, or changes nothing the log can see - for any
\* number of channels, connections and ingest objects, any window and any number of faults.
THEOREM IngestImplementsLog == Spec => ImplementsLog
<1> DEFINE stored == [c \in Channels |-> Seqs(c)]
<1>1. Init => Log!Init
  BY DEF Init, Log!Init, Seqs, None
<1>2. LogInv /\ [Next]_vars => [Log!Next]_(Log!logVars)
  <2> SUFFICES ASSUME LogInv, [Next]_vars PROVE Log!Next \/ UNCHANGED Log!logVars
    OBVIOUS
  <2>1. CASE UNCHANGED vars
    BY <2>1 DEF vars, Log!logVars, Seqs
  <2>2. ASSUME NEW c \in Channels, Record(c) PROVE Log!Next
    <3>1. stored' = stored
      BY <2>2 DEF Record, durableVars, Seqs
    <3> QED BY <2>2, <3>1 DEF Record, Log!Next, Log!Record
  <2>3. ASSUME Next, NEW c \in Channels, NEW n \in Nat, IndexGrows(c, n) PROVE Log!Next
    <3>1. /\ Seqs(c) = 0..(n - 1) /\ Seqs(c)' = 0..n
          /\ \A d \in Channels \ {c} : Seqs(d)' = Seqs(d)
      BY <2>3, SeqsStep
    <3>2. recorded' = recorded /\ acked' = acked /\ n \in 0..(recorded[c] - 1)
      BY <2>3 DEF IndexGrows, LogInv, ClientShape
    <3>3. stored' = [stored EXCEPT ![c] = 0..n] /\ stored[c] = 0..(n - 1)
      BY <3>1
    <3>4. Log!Store(c)
      BY <3>2, <3>3 DEF Log!Store
    <3> QED BY <3>4 DEF Log!Next
  <2>4. ASSUME NEW k \in Conns, RecvHelloAck(k) \/ RecvAcks(k) PROVE Log!Next
    <3>1. recorded' = recorded /\ index' = index
      BY <2>4 DEF RecvHelloAck, RecvAcks, durableVars
    <3>2. stored' = stored
      BY <3>1 DEF Seqs
    <3>3. Log!Learn
      BY <2>4, <3>1, <3>2, LearnStep DEF Log!Learn
    <3> QED BY <3>3 DEF Log!Next
  <2>5. ASSUME Next, IndexSame, ~(\E c \in Channels : Record(c)),
               ~(\E k \in Conns : RecvHelloAck(k) \/ RecvAcks(k))
        PROVE  UNCHANGED Log!logVars
    <3>1. recorded' = recorded
      BY <2>5, UnlessRecorded
    <3>2. acked' = acked
      BY <2>5, AckedStep
    <3>3. stored' = stored
      BY <2>5 DEF IndexSame, Seqs
    <3> QED BY <3>1, <3>2, <3>3 DEF Log!logVars
  <2> QED BY <2>1, <2>2, <2>3, <2>4, <2>5, IndexStep
<1>3. QED
  BY <1>1, <1>2, LogInvariant, PTL DEF Spec, ImplementsLog, Log!Spec

\* What the client has to keep: the frames recorded above its ack cursor.
LEMMA UnackedIs ==
  ASSUME LogInv, NEW c \in Channels
  PROVE  /\ acked[c] \in Int /\ acked[c] >= -1 /\ acked[c] < recorded[c] /\ recorded[c] \in Nat
         /\ Unacked(c) \in Seq([seq : Int, payload : Int]) /\ Len(Unacked(c)) = recorded[c] - acked[c] - 1
<1>1. recorded[c] \in Nat /\ acked[c] \in Seqs(c) \cup {None}
  BY DEF LogInv, ClientShape, Cursors, Known
<1>2. PICK m \in 0..recorded[c] : Seqs(c) = 0..(m - 1)
  BY DEF LogInv, IndexContiguous
<1>3. acked[c] \in Int /\ acked[c] >= -1 /\ acked[c] < recorded[c]
  BY <1>1, <1>2 DEF None
<1>4. PICK a \in Int, n \in Nat : a = acked[c] /\ n = recorded[c] - acked[c] - 1
  BY <1>1, <1>3
<1>5. PICK u : u = Unacked(c)
  OBVIOUS
<1>6. u = [i \in 1..n |-> [seq |-> a + i, payload |-> a + i]]
  BY <1>4, <1>5 DEF Unacked
<1>7. u \in [1..n -> [seq : Int, payload : Int]]
  BY <1>6
<1>8. u \in Seq([seq : Int, payload : Int]) /\ Len(u) = n
  <2> DEFINE Shape == [seq : Int, payload : Int]
  <2>1. u \in [1..n -> Shape]
    BY <1>7
  <2> HIDE DEF Shape
  <2>2. u \in Seq(Shape) /\ Len(u) = n
    BY <2>1
  <2> QED BY <2>2 DEF Shape
<1> QED BY <1>1, <1>3, <1>4, <1>5, <1>8

\* A frame recorded is the next one to keep.
LEMMA RecordKeeps ==
  ASSUME LogInv, NEW c \in Channels, Record(c)
  PROVE  /\ acked' = acked /\ \A d \in Channels \ {c} : Unacked(d)' = Unacked(d)
         /\ \E p \in 0..MaxFrames :
              Unacked(c)' = Append(Unacked(c), [seq |-> acked[c] + 1 + Len(Unacked(c)), payload |-> p])
<1>1. acked' = acked /\ recorded' = [recorded EXCEPT ![c] = @ + 1] /\ recorded[c] < MaxFrames
  BY DEF Record
<1>2. recorded \in [Channels -> Nat] /\ MaxFrames \in Nat
  BY IngestBounds DEF LogInv, ClientShape
<1>3. \A d \in Channels \ {c} : Unacked(d)' = Unacked(d)
  BY <1>1, <1>2 DEF Unacked
<1>4. PICK a, r, n, u : a = acked[c] /\ r = recorded[c] /\ n = r - a - 1 /\ u = Unacked(c)
  OBVIOUS
<1>5. a \in Int /\ a >= -1 /\ a < r /\ r \in Nat /\ n = r - a - 1
  BY <1>4, UnackedIs
<1>6. n \in Nat /\ r + 1 - a - 1 = n + 1 /\ a + 1 + n = r /\ a + (n + 1) = r
  BY ONLY <1>5
<1>7. u \in Seq([seq : Int, payload : Int]) /\ Len(u) = n
  BY <1>4, UnackedIs
<1>8. u = [i \in 1..n |-> [seq |-> a + i, payload |-> a + i]]
  BY <1>4 DEF Unacked
<1>9. Unacked(c)' = [i \in 1..(n + 1) |-> [seq |-> a + i, payload |-> a + i]]
  <2>1. PICK a1, r1 : a1 = acked'[c] /\ r1 = recorded'[c]
    OBVIOUS
  <2>2. Unacked(c)' = [i \in 1..(r1 - a1 - 1) |-> [seq |-> a1 + i, payload |-> a1 + i]]
    BY <2>1 DEF Unacked
  <2>3. a1 = a /\ r1 = r + 1
    BY <1>1, <1>2, <1>4, <2>1
  <2>4. r1 - a1 - 1 = n + 1
    BY ONLY <1>5, <1>6, <2>3
  <2> QED BY <2>2, <2>3, <2>4
<1>10. PICK f : f = [seq |-> r, payload |-> r]
  OBVIOUS
<1>11. f \in [seq : Int, payload : Int]
  BY <1>5, <1>10
<1>12. PICK s : s = Append(u, f)
  OBVIOUS
<1>13. /\ s = [i \in 1..(n + 1) |-> s[i]] /\ s[n + 1] = f /\ \A i \in 1..n : s[i] = u[i]
  <2> DEFINE Shape == [seq : Int, payload : Int]
  <2>1. u \in Seq(Shape) /\ f \in Shape
    BY <1>7, <1>11
  <2> HIDE DEF Shape
  <2>2. s \in Seq(Shape) /\ Len(s) = n + 1 /\ s[n + 1] = f /\ \A i \in 1..n : s[i] = u[i]
    BY <1>6, <1>7, <1>12, <2>1
  <2> QED BY <2>2
<1>14. ASSUME NEW i \in 1..(n + 1) PROVE s[i] = [seq |-> a + i, payload |-> a + i]
  <2>1. CASE i = n + 1
    BY <1>6, <1>10, <1>13, <2>1
  <2>2. CASE i # n + 1
    <3>1. i \in 1..n
      BY <1>6, <2>2
    <3> QED BY <1>8, <1>13, <3>1
  <2> QED BY <2>1, <2>2
<1>15. Unacked(c)' = s
  BY <1>9, <1>13, <1>14
<1>16. r \in 0..MaxFrames /\ f = [seq |-> acked[c] + 1 + Len(Unacked(c)), payload |-> r]
  BY <1>1, <1>2, <1>4, <1>5, <1>6, <1>7, <1>10
<1> QED BY <1>1, <1>3, <1>4, <1>12, <1>15, <1>16

\* Acks take frames away from the front only, and none that are not recorded.
LEMMA LearnKeeps ==
  ASSUME LogInv, NEW k \in Conns, RecvHelloAck(k) \/ RecvAcks(k), NEW c \in Channels
  PROVE  /\ acked'[c] \in Int /\ acked[c] <= acked'[c] /\ acked'[c] < recorded[c]
         /\ Unacked(c)' = SubSeq(Unacked(c), acked'[c] - acked[c] + 1, Len(Unacked(c)))
<1>1. recorded' = recorded
  BY DEF RecvHelloAck, RecvAcks
<1>2. PICK a, b, r, n, u : a = acked[c] /\ b = acked'[c] /\ r = recorded[c] /\ n = r - a - 1 /\ u = Unacked(c)
  OBVIOUS
<1>3. a \in Int /\ a >= -1 /\ a < r /\ r \in Nat /\ n = r - a - 1 /\ Len(u) = n
  BY <1>2, UnackedIs
<1>4. b \in Int /\ a <= b /\ b < r
  <2>1. b = a \/ (b > a /\ b \in Seqs(c))
    BY <1>2, LearnStep
  <2>2. PICK m \in 0..r : Seqs(c) = 0..(m - 1)
    BY <1>2 DEF LogInv, IndexContiguous
  <2> QED BY <1>3, <2>1, <2>2
<1>5. u = [i \in 1..n |-> [seq |-> a + i, payload |-> a + i]]
  BY <1>2 DEF Unacked
<1>6. Unacked(c)' = [i \in 1..(r - b - 1) |-> [seq |-> b + i, payload |-> b + i]]
  BY <1>1, <1>2 DEF Unacked
<1>7. SubSeq(u, b - a + 1, n) = [i \in 1..(r - b - 1) |-> u[i + (b - a + 1) - 1]]
  <2>1. 1 + n - (b - a + 1) = r - b - 1 /\ b - a + 1 \in Int /\ n \in Int
    BY ONLY <1>3, <1>4
  <2>2. SubSeq(u, b - a + 1, n) = [i \in 1..(1 + n - (b - a + 1)) |-> u[i + (b - a + 1) - 1]]
    BY <2>1
  <2> QED BY <2>1, <2>2
<1>8. ASSUME NEW i \in 1..(r - b - 1) PROVE u[i + (b - a + 1) - 1] = [seq |-> b + i, payload |-> b + i]
  <2>1. PICK j \in 1..n : j = i + (b - a + 1) - 1 /\ a + j = b + i
    <3>1. i \in Int /\ 1 <= i /\ i <= r - b - 1
      BY <1>3, <1>4
    <3>2. PICK j \in Int : j = i + (b - a + 1) - 1
      BY <1>3, <1>4, <3>1
    <3>3. 1 <= j /\ j <= n /\ a + j = b + i
      BY <1>3, <1>4, <3>1, <3>2
    <3>4. j \in 1..n
      BY <1>3, <3>3
    <3> QED BY <3>2, <3>3, <3>4
  <2> QED BY <1>5, <2>1
<1>9. Unacked(c)' = SubSeq(u, b - a + 1, n)
  BY <1>6, <1>7, <1>8
<1> QED BY <1>2, <1>3, <1>4, <1>9

\* The client keeps to the queue: it gives a frame away only when an ack that the store had a right
\* to send covers it, and never one that it has not recorded (_converse, _receive_loop, mark_acked).
THEOREM ClientKeepsQueue == Spec => KeepsQueue
<1> DEFINE FirstSeq == [c \in Channels |-> acked[c] + 1]
           Held == [c \in Channels |-> Unacked(c)]
<1>1. Init => Queue!Init
  <2> SUFFICES ASSUME Init PROVE Queue!Init
    OBVIOUS
  <2>1. \A c \in Channels : acked[c] = -1 /\ recorded[c] = 0
    BY DEF Init, None
  <2>2. \A c \in Channels : Unacked(c) = <<>>
    BY <2>1 DEF Unacked
  <2> QED BY <2>1, <2>2 DEF Queue!Init
<1>2. LogInv /\ [Next]_vars => [Queue!Next]_(Queue!queueVars)
  <2> SUFFICES ASSUME LogInv, [Next]_vars PROVE Queue!Next \/ UNCHANGED Queue!queueVars
    OBVIOUS
  <2>1. \A c \in Channels : /\ Held[c] = Unacked(c) /\ Held'[c] = Unacked(c)'
                            /\ FirstSeq[c] = acked[c] + 1 /\ FirstSeq'[c] = acked'[c] + 1
    OBVIOUS
  <2>2. /\ Held = [d \in Channels |-> Held[d]] /\ Held' = [d \in Channels |-> Held'[d]]
        /\ DOMAIN Held = Channels /\ DOMAIN Held' = Channels
    OBVIOUS
  <2>3. ASSUME NEW c \in Channels, Record(c) PROVE Queue!Next
    <3>1. PICK p \in 0..MaxFrames :
            Unacked(c)' = Append(Unacked(c), [seq |-> acked[c] + 1 + Len(Unacked(c)), payload |-> p])
      BY <2>3, RecordKeeps
    <3>2. acked' = acked /\ \A d \in Channels \ {c} : Unacked(d)' = Unacked(d)
      BY <2>3, RecordKeeps
    <3>3. FirstSeq' = FirstSeq
      BY <3>2
    <3>4. Held'[c] = Append(Held[c], [seq |-> FirstSeq[c] + Len(Held[c]), payload |-> p])
      BY <2>1, <3>1
    <3>5. \A d \in Channels \ {c} : Held'[d] = Held[d]
      BY <2>1, <3>2
    <3>6. Held' = [Held EXCEPT ![c] = Append(@, [seq |-> FirstSeq[c] + Len(@), payload |-> p])]
      <4> HIDE DEF Held, FirstSeq
      <4> QED BY <2>2, <3>4, <3>5
    <3>7. Queue!Record(c)
      BY <3>3, <3>6 DEF Queue!Record
    <3> QED BY <3>7 DEF Queue!Next
  <2>4. ASSUME NEW k \in Conns, RecvHelloAck(k) \/ RecvAcks(k) PROVE Queue!Next
    <3>1. ASSUME NEW c \in Channels
          PROVE  /\ FirstSeq'[c] \in Nat /\ FirstSeq[c] <= FirstSeq'[c] /\ FirstSeq'[c] <= FirstSeq[c] + Len(Held[c])
                 /\ Held'[c] = SubSeq(Held[c], FirstSeq'[c] - FirstSeq[c] + 1, Len(Held[c]))
      <4>1. PICK a, b, r, n : a = acked[c] /\ b = acked'[c] /\ r = recorded[c] /\ n = Len(Unacked(c))
        OBVIOUS
      <4>2. a \in Int /\ a >= -1 /\ r \in Nat /\ n = r - a - 1 /\ b \in Int /\ a <= b /\ b < r
        BY <2>4, <4>1, UnackedIs, LearnKeeps
      <4>3. b + 1 \in Nat /\ a + 1 <= b + 1 /\ b + 1 <= a + 1 + n /\ (b + 1) - (a + 1) = b - a
        BY ONLY <4>2
      <4>4. FirstSeq[c] = a + 1 /\ FirstSeq'[c] = b + 1 /\ Len(Held[c]) = n
        BY <2>1, <4>1
      <4>5. Unacked(c)' = SubSeq(Unacked(c), b - a + 1, n)
        BY <2>4, <4>1, LearnKeeps
      <4>6. Held'[c] = SubSeq(Held[c], (b + 1) - (a + 1) + 1, Len(Held[c]))
        BY <2>1, <4>1, <4>3, <4>5
      <4> HIDE DEF Held, FirstSeq
      <4> QED BY <4>3, <4>4, <4>6
    <3>2. FirstSeq' \in [Channels -> Nat]
      BY <3>1
    <3>3. Held' = [c \in Channels |-> SubSeq(Held[c], FirstSeq'[c] - FirstSeq[c] + 1, Len(Held[c]))]
      <4> HIDE DEF Held, FirstSeq
      <4> QED BY <2>2, <3>1
    <3>4. Queue!Acknowledge
      BY <3>1, <3>2, <3>3 DEF Queue!Acknowledge
    <3> QED BY <3>4 DEF Queue!Next
  <2>5. CASE UNCHANGED <<recorded, acked>>
    BY <2>5 DEF Queue!queueVars, Unacked
  <2>6. CASE Next
    BY <2>3, <2>4, <2>5, <2>6, UnlessRecorded, AckedStep
  <2>7. CASE UNCHANGED vars
    BY <2>5, <2>7 DEF vars
  <2> QED BY <2>6, <2>7
<1> QED BY <1>1, <1>2, LogInvariant, PTL DEF Spec, KeepsQueue, Queue!Spec

\* The path from the client's outbox to the server's index is a queue that runs into a log, whatever
\* connections, ends, crashes and failing commits interleave.
THEOREM PathImplementsBoth == Spec => PathImplements
  BY IngestImplementsLog, ClientKeepsQueue DEF PathImplements

-----------------------------------------------------------------------------
(* The pipeline is fed once *)

\* A frame between its commit and the pipeline is indexed and has not been fed, and no two
\* handlers carry the same one.
ToFeed(c, s) == s \in Seqs(c) /\ \A i \in 1..Len(fed[c]) : fed[c][i] # s
Carried ==
  /\ \A k \in Conns : handler[k].st = "stored" => ToFeed(handler[k].frame.c, handler[k].frame.s)
  /\ \A j, k \in Conns :
       j # k /\ handler[j].st = "stored" /\ handler[k].st = "stored"
         => handler[j].frame # handler[k].frame

\* Only a commit takes a handler to the point where it feeds the pipeline.
LEMMA StoredStep ==
  ASSUME LogInv, Next, NEW k \in Conns, handler'[k].st = "stored"
  PROVE  \/ CommitOk(k)
         \/ handler[k].st = "stored" /\ handler'[k].frame = handler[k].frame
<1> DEFINE Kept == handler[k].st = "stored" /\ handler'[k].frame = handler[k].frame
<1>1. handler \in [Conns \cup {Rest} -> HandlerShape(RecordedFrames)]
  BY DEF LogInv, ServerShape
<1>2. Closed.st = "closed"
  BY DEF Closed
<1>3. ASSUME NEW j \in Conns \cup {Rest}, handler' = [handler EXCEPT ![j] = Closed] PROVE Kept
  BY <1>1, <1>2, <1>3
<1>4. CASE (\E c \in Channels : Record(c)) \/ RequestEnd \/ Stop \/ Resume \/ GetTicket
           \/ Fsync \/ ServerRestart
  BY <1>4 DEF Record, RequestEnd, Stop, Resume, GetTicket, Fsync, ServerRestart, serverVars
<1>5. ASSUME NEW j \in Conns, Receiver(j) \/ Sender(j) \/ Drop(j) PROVE Kept
  BY <1>5 DEF Receiver, RecvHelloAck, RecvAcks, RecvError, RecvClose, Sender, SendEnd,
     Finish, SendFrame, Drop, serverVars
<1>6. ASSUME NEW j \in Conns, Connect(j) PROVE Kept
  <2>1. [Closed EXCEPT !.st = "accepted", !.row = status].st = "accepted"
    BY DEF Closed
  <2> QED BY <1>1, <1>6, <2>1 DEF Connect
<1>7. ASSUME NEW j \in Conns, FlushAcks(j) \/ FrameDuplicate(j) PROVE Kept
  BY <1>1, <1>7 DEF FlushAcks, FrameDuplicate, HandlerShape
<1>8. ASSUME NEW j \in Conns,
             HandlerGone(j) \/ HelloRejected(j) \/ HelloLoadFails(j) \/ FrameRejected(j)
             \/ CommitFails(j)
      PROVE  Kept
  BY <1>3, <1>8 DEF HandlerGone, HelloRejected, HelloLoadFails, FrameRejected, CommitFails, Exit
<1>9. ASSUME NEW j \in Conns, NEW g \in Gens, HelloAccepted(j, g) PROVE Kept
  BY <1>1, <1>9 DEF HelloAccepted, HandlerShape
<1>10. ASSUME NEW j \in Conns, FrameWritten(j) PROVE Kept
  <2>1. PICK x, m : x = handler[j] /\ m = Head(up[j])
    OBVIOUS
  <2>2. x \in HandlerShape(RecordedFrames)
    BY <1>1, <2>1
  <2>3. PICK y : y = [x EXCEPT !.st = "committing", !.frame = m]
    OBVIOUS
  <2>4. y.st = "committing"
    BY ONLY <2>2, <2>3 DEF HandlerShape
  <2>5. handler' = [handler EXCEPT ![j] = y]
    BY <1>10, <2>1, <2>3 DEF FrameWritten
  <2> QED BY <1>1, <2>4, <2>5
<1>11. ASSUME NEW j \in Conns, CommitOk(j) PROVE CommitOk(k) \/ Kept
  BY <1>1, <1>11 DEF CommitOk, HandlerShape
<1>12. ASSUME NEW j \in Conns, Feed(j) PROVE Kept
  BY <1>1, <1>12 DEF Feed, HandlerShape
<1>13. ASSUME NEW j \in Conns, ProducerEnds(j) PROVE Kept
  BY <1>1, <1>13 DEF ProducerEnds, EndMark, HandlerShape
<1>14. CASE RestEnds \/ WatchdogEnds
  <2>1. PICK x, h : x = handler[Rest] /\ h = hub
    OBVIOUS
  <2>2. x \in HandlerShape(RecordedFrames)
    BY <1>1, <2>1
  <2>3. PICK y : y = [x EXCEPT !.st = "ending", !.took = h]
    OBVIOUS
  <2>4. y.st = "ending"
    BY ONLY <2>2, <2>3 DEF HandlerShape
  <2>5. handler' = [handler EXCEPT ![Rest] = y]
    BY <1>14, <2>1, <2>3 DEF RestEnds, WatchdogEnds, EndMark
  <2> QED BY <1>1, <2>4, <2>5
<1>15. ASSUME NEW e \in Conns \cup {Rest}, EndClose(e) PROVE Kept
  BY <1>1, <1>15 DEF EndClose, HandlerShape
<1>16. ASSUME NEW e \in Conns \cup {Rest}, EndReturn(e) PROVE Kept
  BY <1>3, <1>16 DEF EndReturn
<1>17. CASE ServerCrash \/ PowerLoss
  <2>1. handler'[k] = Closed
    BY <1>17 DEF ServerCrash, PowerLoss, Die
  <2> QED BY <1>2, <2>1
<1> QED BY <1>4, <1>5, <1>6, <1>7, <1>8, <1>9, <1>10, <1>11, <1>12, <1>13, <1>14, <1>15, <1>16,
        <1>17 DEF Next, Reconnect, Serve, Ending

\* Only Feed feeds the pipeline.
LEMMA FedStep ==
  ASSUME Next, ~(\E k \in Conns : Feed(k))
  PROVE  fed' = fed
<1>1. CASE (\E c \in Channels : Record(c)) \/ RequestEnd \/ Stop \/ Resume \/ Reconnect
  BY <1>1 DEF Record, RequestEnd, Stop, Resume, Reconnect, GetTicket, Connect
<1>2. ASSUME NEW k \in Conns, Receiver(k) \/ Sender(k) \/ Drop(k) \/ FlushAcks(k)
      PROVE  fed' = fed
  BY <1>2 DEF Receiver, RecvHelloAck, RecvAcks, RecvError, RecvClose, Sender, SendEnd,
     Finish, SendFrame, Drop, FlushAcks
<1>3. ASSUME NEW k \in Conns, Serve(k) PROVE fed' = fed
  BY <1>3 DEF Serve, HandlerGone, HelloRejected, HelloLoadFails, HelloAccepted, CommitOk,
     CommitFails, FrameRejected, FrameDuplicate, FrameWritten, ProducerEnds
<1>4. ASSUME NEW e \in Conns \cup {Rest}, Ending(e) PROVE fed' = fed
  BY <1>4 DEF Ending, EndClose, EndReturn
<1>5. CASE Fsync \/ RestEnds \/ WatchdogEnds \/ ServerRestart
  BY <1>5 DEF Fsync, RestEnds, WatchdogEnds, ServerRestart
<1>6. CASE ServerCrash \/ PowerLoss
  BY <1>6 DEF ServerCrash, PowerLoss, Die
<1> QED BY <1>1, <1>2, <1>3, <1>4, <1>5, <1>6 DEF Next

\* Appending to a sequence of distinct elements one it does not have.
LEMMA AppendDistinct ==
  ASSUME NEW s \in Seq(Nat), NEW x \in Nat,
         \A i \in 1..Len(s) : s[i] # x,
         \A i, j \in 1..Len(s) : s[i] = s[j] => i = j
  PROVE  LET t == Append(s, x)
         IN  /\ \A i, j \in 1..Len(t) : t[i] = t[j] => i = j
             /\ \A i \in 1..Len(t) : (t[i] = x) \/ (\E j \in 1..Len(s) : t[i] = s[j])
<1> DEFINE t == Append(s, x)
<1>1. Len(t) = Len(s) + 1 /\ Len(s) \in Nat
  OBVIOUS
<1>2. ASSUME NEW i \in 1..Len(t)
      PROVE  (i \in 1..Len(s) /\ t[i] = s[i]) \/ (i = Len(s) + 1 /\ t[i] = x)
  <2>1. CASE i = Len(s) + 1
    BY <2>1
  <2>2. CASE i # Len(s) + 1
    <3>1. i \in 1..Len(s)
      BY <1>1, <2>2
    <3> QED BY <3>1
  <2> QED BY <2>1, <2>2
<1> HIDE DEF t
<1> QED BY <1>1, <1>2

\* A step keeps the frames to be fed apart from the fed ones.
LEMMA CarriedStep ==
  ASSUME LogInv, Next, FedOnce, Carried
  PROVE  FedOnce' /\ Carried'
<1>1. /\ \A c \in Channels : Seqs(c) \subseteq Seqs(c)'
      /\ \A c \in Channels : recorded[c] <= recorded'[c]
  BY SeqsStep
<1>2. /\ \A k \in Conns : handler[k].st = "stored" =>
           handler[k].frame.c \in Channels /\ handler[k].frame.s \in Nat /\ handler[k].frame \in Frames
      /\ fed \in [Channels -> Seq(Nat)]
  BY DEF LogInv, HandlersPrepared, Prepared, Frames, ObserverShape
<1>3. ASSUME NEW k \in Conns, Feed(k) PROVE FedOnce' /\ Carried'
  <2>1. handler[k].st = "stored" /\ index' = index /\ handler'[k].st = "open"
        /\ \A j \in Conns : j # k => handler'[j] = handler[j]
    BY <1>3 DEF Feed, Serving, durableVars, LogInv, ServerShape, HandlerShape
  <2>2. PICK c \in Channels, n \in Nat : c = handler[k].frame.c /\ n = handler[k].frame.s
    BY <1>2, <2>1
  <2>3. handler[k].frame \in Frames /\ \A j \in Conns : handler[j].st = "stored" => handler[j].frame \in Frames
    BY <1>2, <2>1
  <2>4. \A d \in Channels : Seqs(d)' = Seqs(d)
    BY <2>1 DEF Seqs
  <2>5. \A d \in Channels \ {c} : fed'[d] = fed[d]
    BY <1>2, <1>3, <2>2 DEF Feed
  <2>6. fed'[c] = fed[c] \/ fed'[c] = Append(fed[c], n)
    BY <1>2, <1>3, <2>2 DEF Feed
  <2>7. n \in Seqs(c) /\ \A i \in 1..Len(fed[c]) : fed[c][i] # n
    BY <2>1, <2>2 DEF Carried, ToFeed
  <2>8. /\ \A i, j \in 1..Len(fed'[c]) : fed'[c][i] = fed'[c][j] => i = j
        /\ \A i \in 1..Len(fed'[c]) : fed'[c][i] = n \/ \E j \in 1..Len(fed[c]) : fed'[c][i] = fed[c][j]
    <3>1. CASE fed'[c] = fed[c]
      <4>1. \A i, j \in 1..Len(fed[c]) : fed[c][i] = fed[c][j] => i = j
        BY DEF FedOnce
      <4> QED BY <3>1, <4>1
    <3>2. CASE fed'[c] = Append(fed[c], n)
      <4>1. \A i, j \in 1..Len(fed[c]) : fed[c][i] = fed[c][j] => i = j
        BY DEF FedOnce
      <4>2. fed[c] \in Seq(Nat)
        BY <1>2
      <4>3. \A i \in 1..Len(fed[c]) : fed[c][i] # n
        BY <2>7
      <4> DEFINE s == fed[c]
      <4>4. /\ s \in Seq(Nat)
            /\ \A i \in 1..Len(s) : s[i] # n
            /\ \A i, j \in 1..Len(s) : s[i] = s[j] => i = j
        BY <4>1, <4>2, <4>3
      <4>5. fed'[c] = Append(s, n)
        BY <3>2
      <4> HIDE DEF s
      <4>6. /\ \A i, j \in 1..Len(Append(s, n)) : Append(s, n)[i] = Append(s, n)[j] => i = j
            /\ \A i \in 1..Len(Append(s, n)) :
                 (Append(s, n)[i] = n) \/ (\E j \in 1..Len(s) : Append(s, n)[i] = s[j])
        BY <4>4, AppendDistinct
      <4>7. /\ \A i, j \in 1..Len(fed'[c]) : fed'[c][i] = fed'[c][j] => i = j
            /\ \A i \in 1..Len(fed'[c]) : fed'[c][i] = n \/ \E j \in 1..Len(s) : fed'[c][i] = s[j]
        BY <4>5, <4>6, Zenon
      <4> QED BY <4>7 DEF s
    <3> QED BY <2>6, <3>1, <3>2
  <2>9. FedOnce'
    <3> SUFFICES ASSUME NEW d \in Channels
                 PROVE  /\ \A i \in 1..Len(fed'[d]) : fed'[d][i] \in Seqs(d)
                        /\ \A i, j \in 1..Len(fed'[d]) : fed'[d][i] = fed'[d][j] => i = j
      BY <2>4 DEF FedOnce
    <3>1. CASE d = c
      <4>1. \A i \in 1..Len(fed[c]) : fed[c][i] \in Seqs(c)
        BY DEF FedOnce
      <4> QED BY <2>7, <2>8, <3>1, <4>1
    <3>2. CASE d # c
      <4>1. fed'[d] = fed[d]
        BY <2>5, <3>2
      <4> QED BY <4>1 DEF FedOnce
    <3> QED BY <3>1, <3>2
  <2>10. ASSUME NEW j \in Conns, handler'[j].st = "stored"
         PROVE  ToFeed(handler[j].frame.c, handler[j].frame.s)'
    <3>1. j # k /\ handler'[j] = handler[j]
      BY <2>1, <2>10
    <3>2. PICK d \in Channels, m \in Nat : d = handler[j].frame.c /\ m = handler[j].frame.s
      BY <1>2, <2>10, <3>1
    <3>3. m \in Seqs(d) /\ \A i \in 1..Len(fed[d]) : fed[d][i] # m
      BY <2>10, <3>1, <3>2 DEF Carried, ToFeed
    <3>4. c = d => m # n
      <4>1. handler[j].frame # handler[k].frame
        <5>1. handler[j].st = "stored"
          BY <2>10, <3>1
        <5>2. \A a, b \in Conns : a # b /\ handler[a].st = "stored" /\ handler[b].st = "stored"
                => handler[a].frame # handler[b].frame
          BY DEF Carried
        <5> QED BY <2>1, <3>1, <5>1, <5>2
      <4>2. handler[j].frame \in Frames /\ handler[k].frame \in Frames
        BY <2>3, <2>10, <3>1
      <4>3. /\ handler[j].frame = [t |-> "frame", c |-> d, s |-> m]
            /\ handler[k].frame = [t |-> "frame", c |-> c, s |-> n]
        BY <2>2, <3>2, <4>2 DEF Frames
      <4> QED BY <4>1, <4>3
    <3>5. \A i \in 1..Len(fed'[d]) : fed'[d][i] # m
      <4>1. CASE d = c
        BY <2>8, <3>3, <3>4, <4>1
      <4>2. CASE d # c
        <5>1. fed'[d] = fed[d]
          BY <2>5, <3>2, <4>2
        <5> QED BY <3>3, <5>1
      <4> QED BY <4>1, <4>2
    <3>6. handler'[j].frame.c = d /\ handler'[j].frame.s = m /\ m \in Seqs(d)'
      BY <2>4, <3>1, <3>2, <3>3
    <3> QED BY <3>5, <3>6 DEF ToFeed
  <2>11. \A i, j \in Conns : i # j /\ handler'[i].st = "stored" /\ handler'[j].st = "stored"
           => handler'[i].frame # handler'[j].frame
    <3> TAKE i, j \in Conns
    <3> HAVE i # j /\ handler'[i].st = "stored" /\ handler'[j].st = "stored"
    <3>1. i # k /\ j # k
      BY <2>1
    <3>2. handler'[i] = handler[i] /\ handler'[j] = handler[j]
      BY <2>1, <3>1
    <3> QED BY <3>2 DEF Carried
  <2> QED BY <2>9, <2>10, <2>11 DEF Carried
<1>4. ASSUME ~(\E k \in Conns : Feed(k)) PROVE FedOnce' /\ Carried'
  <2>1. fed' = fed
    BY <1>4, FedStep
  <2>2. FedOnce'
    BY <1>1, <2>1 DEF FedOnce
  <2>3. ASSUME NEW k \in Conns, CommitOk(k)
        PROVE  /\ handler'[k].frame = handler[k].frame
               /\ \E c \in Channels, n \in Nat :
                    /\ c = handler[k].frame.c /\ n = handler[k].frame.s
                    /\ n \notin Seqs(c) /\ n \in Seqs(c)'
               /\ \A j \in Conns : j # k => handler'[j] = handler[j]
    <3>1. /\ handler[k].frame.c \in Channels /\ handler[k].frame.s \in Nat
          /\ IndexGrows(handler[k].frame.c, handler[k].frame.s)
      BY <2>3, CommitIndexes
    <3>2. PICK c \in Channels, n \in Nat : c = handler[k].frame.c /\ n = handler[k].frame.s
      BY <3>1
    <3>3. Seqs(c) = 0..(n - 1) /\ Seqs(c)' = 0..n
      BY <3>1, <3>2, SeqsStep
    <3>4. n \notin Seqs(c) /\ n \in Seqs(c)'
      BY <3>3
    <3>5. handler'[k].frame = handler[k].frame /\ \A j \in Conns : j # k => handler'[j] = handler[j]
      BY <2>3 DEF CommitOk, LogInv, ServerShape, HandlerShape
    <3> QED BY <3>1, <3>2, <3>4, <3>5
  <2>4. ASSUME NEW k \in Conns, handler'[k].st = "stored"
        PROVE  ToFeed(handler[k].frame.c, handler[k].frame.s)'
    <3>1. CASE CommitOk(k)
      <4>1. PICK c \in Channels, n \in Nat :
              /\ c = handler[k].frame.c /\ n = handler[k].frame.s
              /\ n \notin Seqs(c) /\ n \in Seqs(c)'
        BY <2>3, <3>1
      <4>2. n \notin Seqs(c) /\ n \in Seqs(c)' /\ handler'[k].frame = handler[k].frame
        BY <2>3, <3>1, <4>1
      <4>3. \A i \in 1..Len(fed[c]) : fed[c][i] # n
        <5>1. \A i \in 1..Len(fed[c]) : fed[c][i] \in Seqs(c)
          BY DEF FedOnce
        <5> QED BY <4>2, <5>1
      <4>4. handler'[k].frame.c = c /\ handler'[k].frame.s = n
        BY <4>1, <4>2
      <4> QED BY <2>1, <4>2, <4>3, <4>4 DEF ToFeed
    <3>2. CASE handler[k].st = "stored" /\ handler'[k].frame = handler[k].frame
      <4>1. PICK c \in Channels, n \in Nat : c = handler[k].frame.c /\ n = handler[k].frame.s
        BY <1>2, <3>2
      <4>2. n \in Seqs(c) /\ \A i \in 1..Len(fed[c]) : fed[c][i] # n
        BY <3>2, <4>1 DEF Carried, ToFeed
      <4>3. n \in Seqs(c)' /\ handler'[k].frame.c = c /\ handler'[k].frame.s = n
        BY <1>1, <3>2, <4>1, <4>2
      <4> QED BY <2>1, <4>2, <4>3 DEF ToFeed
    <3> QED BY <2>4, <3>1, <3>2, StoredStep
  <2>5. ASSUME NEW j \in Conns, NEW k \in Conns, j # k,
               handler'[j].st = "stored", handler'[k].st = "stored"
        PROVE  handler'[j].frame # handler'[k].frame
    <3>1. ASSUME NEW a \in Conns, NEW b \in Conns, a # b, CommitOk(a), handler'[b].st = "stored"
          PROVE  handler'[a].frame # handler'[b].frame
      <4>1. handler'[a].frame = handler[a].frame /\ handler'[b] = handler[b]
            /\ handler[a].frame.s \notin Seqs(handler[a].frame.c)
        BY <2>3, <3>1
      <4>2. handler[b].frame.s \in Seqs(handler[b].frame.c)
        BY <3>1, <4>1 DEF Carried, ToFeed
      <4> QED BY <4>1, <4>2
    <3>2. CASE CommitOk(j)
      BY <2>5, <3>1, <3>2
    <3>3. CASE CommitOk(k)
      BY <2>5, <3>1, <3>3
    <3>4. CASE ~CommitOk(j) /\ ~CommitOk(k)
      <4>1. /\ handler[j].st = "stored" /\ handler'[j].frame = handler[j].frame
            /\ handler[k].st = "stored" /\ handler'[k].frame = handler[k].frame
        BY <2>5, <3>4, StoredStep
      <4> QED BY <2>5, <4>1 DEF Carried
    <3> QED BY <3>2, <3>3, <3>4
  <2> QED BY <2>2, <2>4, <2>5 DEF Carried
<1> QED BY <1>3, <1>4

\* The pipeline is fed stored frames only, and none of them twice, however often the client sends
\* a frame again, whichever handlers and ingest objects take it, and whatever fails (append's
\* duplicates, _producer_loop).
THEOREM PipelineFedOnce == Spec => []FedOnce
<1>1. Init => FedOnce /\ Carried
  BY DEF Init, FedOnce, Carried, Closed
<1>2. LogInv /\ FedOnce /\ Carried /\ [Next]_vars => FedOnce' /\ Carried'
  <2>1. CASE UNCHANGED vars
    BY <2>1 DEF vars, FedOnce, Carried, ToFeed, Seqs
  <2> QED BY <2>1, CarriedStep
<1> QED BY <1>1, <1>2, LogInvariant, PTL DEF Spec
-----------------------------------------------------------------------------
(* The inductive invariant of the audio store *)

\* The handlers past hello, and the one in append's critical section.
Past(k) == handler[k].st \in {"open", "committing", "stored", "ending", "draining"}
Committing(k) == handler[k].st = "committing"

\* A row's offset is its seq, a store writes right behind its cursor, and its lock is held by the
\* one handler that commits the store's next frame.
AppendInv ==
  /\ \A c \in Channels : \A r \in index[c] : r.offset = r.seq
  /\ \A g \in Gens : \A c \in Channels : store[g].offset[c] = store[g].last[c] + 1
  /\ \A g \in Gens : \A k \in Conns :
       store[g].lock = k <=> (Committing(k) /\ handler[k].gen = g)
  /\ \A k \in Conns : Committing(k) =>
       handler[k].frame.s = store[handler[k].gen].last[handler[k].frame.c] + 1

\* What a cursor may say of channel c: an indexed seq the file is sure to hold.  While an ingest
\* serves the session that is what its store has; without one, what is in the file - unless a power
\* loss has cut it.
Bound(c) ==
  IF hub # None THEN store[hub].last[c] + 1
  ELSE IF budget["power"] = 0 THEN Len(file[c]) ELSE recorded[c]
Held == [c \in Channels |-> {s \in Seqs(c) : s < Bound(c)} \cup {None}]

\* The files hold the frames in order; while an ingest serves the session they end with its
\* cursor, or with the frame being committed.
InFlight(c) == IF \E k \in Conns : Committing(k) /\ handler[k].frame.c = c THEN 1 ELSE 0
FilesInv ==
  \A c \in Channels :
    /\ \A i \in 1..Len(file[c]) : file[c][i] = i - 1
    /\ hub # None => Len(file[c]) = store[hub].last[c] + 1 + InFlight(c)

\* A handler whose ingest is no longer the hub's is there only once everything is stored: the
\* client has ended the recording, and no store will accept another frame.
Full(g) == \A c \in Channels : store[g].last[c] + 1 >= recorded[c]
Finished ==
  /\ endRequested
  /\ \A k \in Conns : Past(k) => Full(handler[k].gen)
  /\ hub # None => Full(hub)
StaleInv ==
  /\ (\E k \in Conns : Past(k) /\ handler[k].gen # hub) => Finished
  /\ \A k \in Conns : handler[k].st \in {"ending", "draining"} => handler[k].gen # hub
  /\ hub # None => ~store[hub].closed /\ \A e \in Conns \cup {Rest} : handler[e].took # hub

\* What handler k is still to see of channel c before the n-th message of its queue: what its store
\* has, what it is committing, and the frames in front of that message.
Covered(k, c, s, n) ==
  \/ s <= store[handler[k].gen].last[c]
  \/ Committing(k) /\ handler[k].frame = Frame(c, s)
  \/ \E i \in 1..(n - 1) : up[k][i] = Frame(c, s)

\* The frames of channel c a message comes after: those before it, and all of them for `end`.
Before(m, c) ==
  IF m.t = "frame" THEN IF m.c = c THEN 0..(m.s - 1) ELSE {}
  ELSE IF m.t = "end" THEN 0..(recorded[c] - 1) ELSE {}

\* No message reaches a handler before the frames it comes after, and `end` follows the user's
\* request.
Follows(k, j) ==
  /\ up[k][j].t = "end" => endRequested
  /\ \A c \in Channels : \A s \in Before(up[k][j], c) : Covered(k, c, s, j)
\* The client has sent the connection everything below its next frame.
SentSoFar(k) ==
  conn = k /\ client = "connected" =>
    \A c \in Channels : \A s \in 0..(NextToSend(c) - 1) : Covered(k, c, s, Len(up[k]) + 1)
InOrder(k) == Past(k) => (\A j \in 1..Len(up[k]) : Follows(k, j)) /\ SentSoFar(k)
\* A handler still waiting for hello serves a client waiting for hello_ack.
Greeting(k) ==
  handler[k].st = "accepted" =>
    /\ \A j \in 1..Len(up[k]) : up[k][j].t \in {"hello", "gone"}
    /\ conn = k => client = "hello" /\ \A j \in 1..Len(down[k]) : down[k][j] = Close(FALSE)
QueueSound(k) ==
  /\ InOrder(k) /\ Greeting(k)
  /\ conn = k => \A j \in 1..Len(up[k]) : up[k][j].t # "gone"
QueueInv == \A k \in Conns : QueueSound(k)

\* Together, as long as nothing but the client's one `end` ends the session.
CalmInv == Shaped(Held, RecordedFrames) /\ FilesInv /\ StaleInv /\ QueueInv
Calm == Never({"end", "stop"})

-----------------------------------------------------------------------------
(* Appends *)

\* Most steps leave the index, the files, the stores' cursors and locks, and the appends in
\* progress alone.
Quiet ==
  /\ index' = index /\ file' = file
  /\ \A g \in Gens : /\ store'[g].last = store[g].last /\ store'[g].offset = store[g].offset
                     /\ store'[g].lock = store[g].lock
  /\ \A k \in Conns : /\ (handler'[k].st = "committing") <=> (handler[k].st = "committing")
                      /\ handler[k].st = "committing" =>
                           handler'[k].gen = handler[k].gen /\ handler'[k].frame = handler[k].frame

\* The steps that do not.
Busy ==
  \/ \E k \in Conns : FrameWritten(k) \/ CommitOk(k) \/ CommitFails(k)
                      \/ \E g \in Gens : HelloAccepted(k, g)
  \/ ServerCrash \/ PowerLoss

\* The types of the server's state.
LEMMA ServerTypes ==
  ASSUME LogInv
  PROVE  /\ handler \in [Conns \cup {Rest} -> HandlerShape(RecordedFrames)]
         /\ store \in [Gens -> StoreShape(Known)]
         /\ \A g \in Gens : store[g] \in StoreShape(Known)
         /\ hub \in Gens \cup {None} /\ None \notin Gens /\ None \notin Conns
BY DistinctIdentities DEF LogInv, ServerShape

\* When a handler leaves, only producers change.
LEMMA ExitStores ==
  ASSUME NEW k \in Conns, NEW msgs, NEW stores \in [Gens -> StoreShape(Known)],
         Exit(k, msgs, stores)
  PROVE  \A g \in Gens :
           /\ store'[g].last = stores[g].last /\ store'[g].offset = stores[g].offset
           /\ store'[g].lock = stores[g].lock /\ store'[g].closed = stores[g].closed
<1> TAKE g \in Gens
<1>1. stores[g] \in StoreShape(Known)
  OBVIOUS
<1>2. store'[g] = stores[g] \/ store'[g] = [stores[g] EXCEPT !.producer = None]
  BY DEF Exit
<1> QED BY <1>1, <1>2 DEF StoreShape

\* Every other step is quiet.
LEMMA QuietStep ==
  ASSUME LogInv, Next, ~Busy
  PROVE  Quiet
<1>1. /\ handler \in [Conns \cup {Rest} -> HandlerShape(RecordedFrames)]
      /\ store \in [Gens -> StoreShape(Known)]
      /\ \A g \in Gens : store[g] \in StoreShape(Known)
  BY ServerTypes
<1>2. Closed.st = "closed"
  BY DEF Closed
<1>3. CASE (\E c \in Channels : Record(c)) \/ RequestEnd \/ Stop \/ Resume \/ GetTicket
           \/ Fsync \/ ServerRestart
  BY <1>3 DEF Record, RequestEnd, Stop, Resume, GetTicket, Fsync, ServerRestart, serverVars,
     durableVars, Quiet
<1>4. ASSUME NEW j \in Conns, Receiver(j) \/ Sender(j) \/ Drop(j) PROVE Quiet
  BY <1>4 DEF Receiver, RecvHelloAck, RecvAcks, RecvError, RecvClose, Sender, SendEnd,
     Finish, SendFrame, Drop, serverVars, durableVars, Quiet
<1>5. ASSUME NEW j \in Conns, Connect(j) PROVE Quiet
  <2>1. [Closed EXCEPT !.st = "accepted", !.row = status].st = "accepted"
    BY DEF Closed
  <2>2. handler[j].st = "closed" /\ handler'[j].st = "accepted"
        /\ \A k \in Conns : k # j => handler'[k] = handler[k]
    BY <1>1, <1>5, <2>1 DEF Connect
  <2>3. index' = index /\ file' = file /\ store' = store
    BY <1>5 DEF Connect, durableVars
  <2> QED BY <2>2, <2>3 DEF Quiet
<1>6. ASSUME NEW j \in Conns, FlushAcks(j) \/ FrameDuplicate(j) PROVE Quiet
  <2>1. \A k \in Conns : handler'[k].st = handler[k].st /\ handler'[k].gen = handler[k].gen
                         /\ handler'[k].frame = handler[k].frame
    BY <1>1, <1>6 DEF FlushAcks, FrameDuplicate, HandlerShape
  <2>2. index' = index /\ file' = file /\ store' = store
    BY <1>6 DEF FlushAcks, FrameDuplicate, durableVars
  <2> QED BY <2>1, <2>2 DEF Quiet
<1>7. ASSUME NEW j \in Conns,
             HandlerGone(j) \/ HelloRejected(j) \/ HelloLoadFails(j) \/ FrameRejected(j)
      PROVE  Quiet
  <2>1. PICK msgs : Exit(j, msgs, store)
    BY <1>7 DEF HandlerGone, HelloRejected, HelloLoadFails, FrameRejected
  <2>2. handler[j].st # "committing" /\ index' = index /\ file' = file
    BY <1>7 DEF HandlerGone, HelloRejected, HelloLoadFails, FrameRejected, Serving, durableVars
  <2>3. handler'[j].st = "closed" /\ \A k \in Conns : k # j => handler'[k] = handler[k]
    BY <1>1, <1>2, <2>1 DEF Exit
  <2>4. \A g \in Gens :
          /\ store'[g].last = store[g].last /\ store'[g].offset = store[g].offset
          /\ store'[g].lock = store[g].lock
    BY <1>1, <2>1, ExitStores
  <2> QED BY <2>2, <2>3, <2>4 DEF Quiet
<1>8. ASSUME NEW j \in Conns, Feed(j) PROVE Quiet
  <2>1. handler[j].st = "stored" /\ handler'[j].st = "open"
        /\ \A k \in Conns : k # j => handler'[k] = handler[k]
    BY <1>1, <1>8 DEF Feed, Serving, HandlerShape
  <2>2. index' = index /\ file' = file /\ store' = store
    BY <1>8 DEF Feed, durableVars
  <2> QED BY <2>1, <2>2 DEF Quiet
<1>9. ASSUME NEW j \in Conns, ProducerEnds(j) PROVE Quiet
  <2>1. handler[j].st = "open" /\ handler'[j].st = "ending"
        /\ \A k \in Conns : k # j => handler'[k] = handler[k]
    BY <1>1, <1>9 DEF ProducerEnds, EndMark, Serving, HandlerShape
  <2>2. index' = index /\ file' = file /\ store' = store
    BY <1>9 DEF ProducerEnds
  <2> QED BY <2>1, <2>2 DEF Quiet
<1>10. CASE RestEnds \/ WatchdogEnds
  <2>1. \A k \in Conns : handler'[k] = handler[k]
    BY <1>1, <1>10, DistinctIdentities DEF RestEnds, WatchdogEnds, EndMark
  <2>2. index' = index /\ file' = file /\ store' = store
    BY <1>10 DEF RestEnds, WatchdogEnds
  <2> QED BY <2>1, <2>2 DEF Quiet
<1>11. ASSUME NEW e \in Conns \cup {Rest}, EndClose(e) PROVE Quiet
  <2>1. handler[e].st = "ending" /\ handler'[e].st = "draining"
        /\ \A k \in Conns : k # e => handler'[k] = handler[k]
    BY <1>1, <1>11 DEF EndClose, Serving, HandlerShape
  <2>2. index' = index /\ file' = file
    BY <1>11 DEF EndClose
  <2>3. \/ store' = store
        \/ \E g \in Gens : store' = [store EXCEPT ![g].closed = TRUE]
    <3>1. handler[e].took \in Gens \cup {None}
      BY <1>1 DEF HandlerShape
    <3> QED BY <1>11, <3>1 DEF EndClose
  <2>4. \A g \in Gens :
          /\ store'[g].last = store[g].last /\ store'[g].offset = store[g].offset
          /\ store'[g].lock = store[g].lock
    BY <1>1, <2>3 DEF StoreShape
  <2>5. \A k \in Conns : (k = e => handler[k].st = "ending" /\ handler'[k].st = "draining")
    BY <2>1
  <2> QED BY <2>1, <2>2, <2>4, <2>5 DEF Quiet
<1>12. ASSUME NEW e \in Conns \cup {Rest}, EndReturn(e) PROVE Quiet
  <2>1. handler[e].st = "draining" /\ handler'[e].st = "closed"
        /\ \A k \in Conns : k # e => handler'[k] = handler[k]
    BY <1>1, <1>2, <1>12 DEF EndReturn, Serving
  <2>2. index' = index /\ file' = file
    BY <1>12 DEF EndReturn, durableVars
  <2>3. store' = [g \in Gens |-> IF store[g].producer = e
                                 THEN [store[g] EXCEPT !.producer = None] ELSE store[g]]
    BY <1>12 DEF EndReturn
  <2>4. \A g \in Gens :
          /\ store'[g].last = store[g].last /\ store'[g].offset = store[g].offset
          /\ store'[g].lock = store[g].lock
    BY <1>1, <2>3 DEF StoreShape
  <2> QED BY <2>1, <2>2, <2>4 DEF Quiet
<1> QED BY <1>3, <1>4, <1>5, <1>6, <1>7, <1>8, <1>9, <1>10, <1>11, <1>12
        DEF Next, Reconnect, Serve, Ending, Busy

\* A quiet step keeps AppendInv.
LEMMA QuietAppend ==
  ASSUME LogInv, Quiet, AppendInv
  PROVE  AppendInv'
<1>1. \A c \in Channels : \A r \in index'[c] : r.offset = r.seq
  BY DEF Quiet, AppendInv
<1>2. \A g \in Gens : \A c \in Channels : store'[g].offset[c] = store'[g].last[c] + 1
  BY DEF Quiet, AppendInv
<1>3. ASSUME NEW g \in Gens, NEW k \in Conns
      PROVE  store'[g].lock = k <=> (handler'[k].st = "committing" /\ handler'[k].gen = g)
  <2>1. store[g].lock = k <=> (handler[k].st = "committing" /\ handler[k].gen = g)
    BY DEF AppendInv, Committing
  <2> QED BY <2>1 DEF Quiet
<1>4. ASSUME NEW k \in Conns, handler'[k].st = "committing"
      PROVE  handler'[k].frame.s = store'[handler'[k].gen].last[handler'[k].frame.c] + 1
  <2>1. /\ handler[k].st = "committing" /\ handler'[k].gen = handler[k].gen
        /\ handler'[k].frame = handler[k].frame
    BY <1>4 DEF Quiet
  <2>2. handler[k].gen \in Gens
    BY <2>1 DEF LogInv, HandlersPrepared, Prepared
  <2>3. handler[k].frame.s = store[handler[k].gen].last[handler[k].frame.c] + 1
    BY <2>1 DEF AppendInv, Committing
  <2>4. store'[handler[k].gen].last = store[handler[k].gen].last
    BY <2>2 DEF Quiet
  <2> QED BY <2>1, <2>3, <2>4
<1> QED BY <1>1, <1>2, <1>3, <1>4 DEF AppendInv, Committing

\* The frame a handler commits, with its channel, seq and ingest.
LEMMA CommittingFrame ==
  ASSUME LogInv, AppendInv, NEW k \in Conns, handler[k].st = "committing"
  PROVE  \E c \in Channels, n \in Nat, g \in Gens :
           /\ handler[k].frame = Frame(c, n) /\ handler[k].gen = g
           /\ handler[k].frame.c = c /\ handler[k].frame.s = n
           /\ n = store[g].last[c] + 1 /\ store[g].offset[c] = n /\ store[g].lock = k
           /\ n < recorded[c]
<1>1. handler[k].frame \in Frames /\ handler[k].gen \in Gens
  BY DEF LogInv, HandlersPrepared, Prepared
<1>2. handler[k].frame \in RecordedFrames
  <2>1. handler[k] \in HandlerShape(RecordedFrames)
    BY ServerTypes
  <2>2. handler[k].frame # NoFrame
    BY <1>1 DEF Frames, NoFrame
  <2> QED BY <2>1, <2>2 DEF HandlerShape
<1>3. PICK c \in Channels, n \in Nat : handler[k].frame = [t |-> "frame", c |-> c, s |-> n]
  BY <1>1 DEF Frames
<1>4. handler[k].frame.c = c /\ handler[k].frame.s = n /\ n < recorded[c]
  BY <1>2, <1>3 DEF RecordedFrames
<1>5. PICK g \in Gens : g = handler[k].gen
  BY <1>1
<1>6. n = store[g].last[c] + 1 /\ store[g].lock = k
  BY <1>4, <1>5 DEF AppendInv, Committing
<1>7. store[g].offset[c] = n
  BY <1>6 DEF AppendInv
<1> QED BY <1>3, <1>4, <1>5, <1>6, <1>7 DEF Frame

\* What load() finds: the cursor of the last row and the end of its frame.
LEMMA LoadedCursor ==
  ASSUME LogInv, AppendInv, NEW c \in Channels
  PROVE  /\ IndexedCursor[c] \in Seqs(c) \cup {None} /\ IndexedCursor[c] \in Int
         /\ IndexedEnd(c) = IndexedCursor[c] + 1 /\ IndexedEnd(c) \in Nat
         /\ \A s \in Seqs(c) : s <= IndexedCursor[c]
<1>1. recorded \in [Channels -> Nat] /\ DurableShape /\ IndexContiguous
  BY DEF LogInv, ClientShape
<1>2. index[c] \subseteq [seq : Nat, offset : Nat]
  BY <1>1 DEF DurableShape
<1>3. CASE index[c] = {}
  BY <1>3 DEF IndexedCursor, IndexedEnd, Seqs, None
<1>4. CASE index[c] # {}
  <2>1. LastRow(c) \in index[c] /\ \A p \in index[c] : p.seq <= LastRow(c).seq
    BY <1>1, <1>4, LastRowIs
  <2>2. LastRow(c).offset = LastRow(c).seq
    BY <2>1 DEF AppendInv
  <2>3. LastRow(c).seq \in Nat
    BY <1>2, <2>1
  <2>4. IndexedCursor[c] = LastRow(c).seq /\ IndexedEnd(c) = LastRow(c).offset + 1
    BY <1>4 DEF IndexedCursor, IndexedEnd
  <2> QED BY <2>1, <2>2, <2>3, <2>4 DEF Seqs
<1> QED BY <1>3, <1>4

\* A hello that is accepted finds the ingest, or loads it.
HelloCase(k, g) ==
  /\ handler[k].st = "accepted" /\ handler'[k].st = "open" /\ handler'[k].gen = g
  /\ handler'[k].took = handler[k].took
  /\ \A j \in Conns \cup {Rest} : j # k => handler'[j] = handler[j]
  /\ index' = index /\ hub' = g /\ recorded' = recorded /\ budget' = budget
  /\ \A h \in Gens : h # g => store'[h] = store[h]
  /\ \/ /\ hub = g /\ file' = file
        /\ store'[g].last = store[g].last /\ store'[g].offset = store[g].offset
        /\ store'[g].lock = store[g].lock /\ store'[g].closed = store[g].closed
     \/ /\ hub = None
        /\ \A j \in Conns \cup {Rest} : handler[j].gen # g /\ handler[j].took # g
        /\ \A c \in Channels : Len(file[c]) >= IndexedEnd(c)
        /\ file' = [c \in Channels |-> SubSeq(file[c], 1, IndexedEnd(c))]
        /\ store'[g].last = IndexedCursor /\ store'[g].lock = None
        /\ store'[g].offset = [c \in Channels |-> IndexedEnd(c)] /\ ~store'[g].closed

\* hello finds the session's ingest, or loads it into an object nothing refers to.
LEMMA HelloCases ==
  ASSUME LogInv, AppendInv, NEW k \in Conns, NEW g \in Gens, HelloAccepted(k, g)
  PROVE  HelloCase(k, g)
<1>1. /\ handler \in [Conns \cup {Rest} -> HandlerShape(RecordedFrames)]
      /\ store \in [Gens -> StoreShape(Known)] /\ store[g] \in StoreShape(Known)
  BY ServerTypes
<1>2. handler' = [handler EXCEPT ![k] = [@ EXCEPT !.st = "open", !.gen = g]]
      /\ handler[k].st = "accepted"
  BY DEF HelloAccepted, Serving
<1>3. /\ handler'[k].st = "open" /\ handler'[k].gen = g /\ handler'[k].took = handler[k].took
      /\ \A j \in Conns \cup {Rest} : j # k => handler'[j] = handler[j]
  BY <1>1, <1>2 DEF HandlerShape
<1>4. index' = index /\ hub' = g /\ recorded' = recorded /\ budget' = budget
  BY DEF HelloAccepted, clientVars
<1>5. CASE hub = g /\ store' = [store EXCEPT ![g].producer = k] /\ file' = file
  <2>1. /\ store'[g].last = store[g].last /\ store'[g].offset = store[g].offset
        /\ store'[g].lock = store[g].lock /\ store'[g].closed = store[g].closed
        /\ \A h \in Gens : h # g => store'[h] = store[h]
    BY <1>1, <1>5 DEF StoreShape
  <2> QED BY <1>2, <1>3, <1>4, <1>5, <2>1 DEF HelloCase
<1>6. CASE /\ hub = None /\ FreeGen(g)
           /\ \A c \in Channels : Len(file[c]) >= IndexedEnd(c)
           /\ file' = [c \in Channels |-> SubSeq(file[c], 1, IndexedEnd(c))]
           /\ store' = [store EXCEPT ![g] =
                [NewStore(IndexedCursor) EXCEPT !.producer = k,
                                                !.offset = [c \in Channels |-> IndexedEnd(c)]]]
  <2>1. \A j \in Conns \cup {Rest} : handler[j].gen # g /\ handler[j].took # g
    BY <1>6 DEF FreeGen
  <2>2. \A h \in Gens : h # g => store'[h] = store[h]
    BY <1>1, <1>6
  <2>3. store'[g] = [NewStore(IndexedCursor) EXCEPT !.producer = k,
                                                !.offset = [c \in Channels |-> IndexedEnd(c)]]
    BY <1>1, <1>6
  <2>4. /\ store'[g].last = IndexedCursor /\ store'[g].lock = None
        /\ store'[g].offset = [c \in Channels |-> IndexedEnd(c)] /\ ~store'[g].closed
    BY <2>3 DEF NewStore
  <2> QED BY <1>2, <1>3, <1>4, <1>6, <2>1, <2>2, <2>4 DEF HelloCase
<1> QED BY <1>5, <1>6 DEF HelloAccepted

\* append() takes frame n of channel c, the next of store g, and writes it.
Written(k, c, n, g) ==
  /\ up[k] # <<>> /\ Head(up[k]) = Frame(c, n) /\ n < recorded[c]
  /\ handler[k].st = "open" /\ handler[k].gen = g
  /\ store[g].lock = None /\ ~store[g].closed /\ n = store[g].last[c] + 1
  /\ handler'[k].st = "committing" /\ handler'[k].gen = g /\ handler'[k].took = handler[k].took
  /\ handler'[k].frame = Frame(c, n)
  /\ \A j \in Conns \cup {Rest} : j # k => handler'[j] = handler[j]
  /\ file' = [file EXCEPT ![c] = Append(@, n)]
  /\ store'[g].lock = k /\ \A h \in Gens : h # g => store'[h] = store[h]
  /\ store'[g].last = store[g].last /\ store'[g].offset = store[g].offset
  /\ store'[g].closed = store[g].closed
  /\ index' = index /\ hub' = hub /\ recorded' = recorded /\ budget' = budget

\* append() has committed frame n of channel c in store g.
Committed(k, c, n, g) ==
  /\ handler[k].st = "committing" /\ handler[k].gen = g /\ handler[k].frame = Frame(c, n)
  /\ n = store[g].last[c] + 1 /\ n < recorded[c] /\ store[g].lock = k
  /\ handler'[k].st = "stored" /\ handler'[k].gen = g /\ handler'[k].took = handler[k].took
  /\ handler'[k].frame = Frame(c, n)
  /\ \A j \in Conns \cup {Rest} : j # k => handler'[j] = handler[j]
  /\ n \notin Seqs(c) /\ IndexGrows(c, n)
  /\ index' = [index EXCEPT ![c] = @ \cup {[seq |-> n, offset |-> n]}]
  /\ file' = file /\ hub' = hub /\ recorded' = recorded /\ budget' = budget
  /\ store'[g].lock = None /\ \A h \in Gens : h # g => store'[h] = store[h]
  /\ store'[g].last = [store[g].last EXCEPT ![c] = n]
  /\ store'[g].offset = [store[g].offset EXCEPT ![c] = n + 1]
  /\ store'[g].closed = store[g].closed

\* A frame that is written is one.
LEMMA WrittenCase ==
  ASSUME LogInv, NEW k \in Conns, FrameWritten(k)
  PROVE  \E c \in Channels, n \in Nat, g \in Gens : Written(k, c, n, g)
<1>1. /\ handler \in [Conns \cup {Rest} -> HandlerShape(RecordedFrames)]
      /\ store \in [Gens -> StoreShape(Known)]
  BY ServerTypes
<1>2. Head(up[k]) \in UpMessages(RecordedFrames)
  <2> DEFINE U == UpMessages(RecordedFrames)
  <2>1. up[k] \in Seq(U) /\ up[k] # <<>>
    BY DEF LogInv, NetShape, FrameWritten, Receives
  <2> HIDE DEF U
  <2>2. Head(up[k]) \in U
    BY <2>1, SeqShrinks
  <2> QED BY <2>2 DEF U
<1>3. Head(up[k]).t = "frame" /\ handler[k].gen \in Gens /\ handler[k].st = "open" /\ up[k] # <<>>
  BY DEF FrameWritten, Receives, Serving, LogInv, HandlersPrepared, Prepared
<1>4. Head(up[k]) \in RecordedFrames
  BY <1>2, <1>3 DEF UpMessages
<1>5. PICK c \in Channels, n \in Nat : Head(up[k]) = Frame(c, n) /\ n < recorded[c]
  BY <1>4 DEF RecordedFrames, Frames, Frame
<1>6. PICK g \in Gens : g = handler[k].gen
  BY <1>3
<1>7. Head(up[k]).c = c /\ Head(up[k]).s = n
  BY <1>5 DEF Frame
<1>8. /\ store[g].lock = None /\ ~store[g].closed /\ n = store[g].last[c] + 1
      /\ handler' = [handler EXCEPT ![k] = [@ EXCEPT !.st = "committing", !.frame = Frame(c, n)]]
      /\ store' = [store EXCEPT ![g].lock = k]
      /\ file' = [file EXCEPT ![c] = Append(@, n)]
  BY <1>5, <1>6, <1>7 DEF FrameWritten
<1>9. /\ handler'[k].st = "committing" /\ handler'[k].gen = g /\ handler'[k].took = handler[k].took
      /\ handler'[k].frame = Frame(c, n)
      /\ \A j \in Conns \cup {Rest} : j # k => handler'[j] = handler[j]
  BY <1>1, <1>6, <1>8 DEF HandlerShape
<1>10. /\ store'[g].lock = k /\ \A h \in Gens : h # g => store'[h] = store[h]
       /\ store'[g].last = store[g].last /\ store'[g].offset = store[g].offset
       /\ store'[g].closed = store[g].closed
  BY <1>1, <1>8 DEF StoreShape
<1>11. index' = index /\ hub' = hub /\ recorded' = recorded /\ budget' = budget
  BY DEF FrameWritten, clientVars
<1>12. Written(k, c, n, g)
  BY <1>3, <1>5, <1>6, <1>8, <1>9, <1>10, <1>11 DEF Written
<1> QED BY <1>12
\* A commit that succeeds is one.
LEMMA CommittedCase ==
  ASSUME LogInv, AppendInv, NEW k \in Conns, CommitOk(k)
  PROVE  \E c \in Channels, n \in Nat, g \in Gens : Committed(k, c, n, g)
<1>1. /\ handler \in [Conns \cup {Rest} -> HandlerShape(RecordedFrames)]
      /\ store \in [Gens -> StoreShape(Known)]
  BY ServerTypes
<1>2. handler[k].st = "committing"
  BY DEF CommitOk, Serving
<1>3. PICK c \in Channels, n \in Nat, g \in Gens :
           /\ handler[k].frame = Frame(c, n) /\ handler[k].gen = g
           /\ handler[k].frame.c = c /\ handler[k].frame.s = n
           /\ n = store[g].last[c] + 1 /\ store[g].offset[c] = n /\ store[g].lock = k
           /\ n < recorded[c]
  BY <1>2, CommittingFrame
<1>4. /\ n \notin Seqs(c)
      /\ index' = [index EXCEPT ![c] = @ \cup {[seq |-> n, offset |-> n]}]
      /\ store' = [store EXCEPT ![g] =
           [@ EXCEPT !.lock = None, !.last[c] = n, !.offset[c] = n + 1]]
      /\ handler' = [handler EXCEPT ![k].st = "stored"]
  BY <1>3 DEF CommitOk
<1>5. IndexGrows(c, n)
  BY <1>3, CommitIndexes
<1>6. /\ handler'[k].st = "stored" /\ handler'[k].gen = g /\ handler'[k].took = handler[k].took
      /\ handler'[k].frame = Frame(c, n)
      /\ \A j \in Conns \cup {Rest} : j # k => handler'[j] = handler[j]
  BY <1>1, <1>3, <1>4 DEF HandlerShape
<1>7. /\ store'[g].lock = None /\ \A h \in Gens : h # g => store'[h] = store[h]
      /\ store'[g].last = [store[g].last EXCEPT ![c] = n]
      /\ store'[g].offset = [store[g].offset EXCEPT ![c] = n + 1]
      /\ store'[g].closed = store[g].closed
  BY <1>1, <1>4 DEF StoreShape
<1>8. file' = file /\ hub' = hub /\ recorded' = recorded /\ budget' = budget
  BY DEF CommitOk, clientVars
<1>9. Committed(k, c, n, g)
  BY <1>2, <1>3, <1>4, <1>5, <1>6, <1>7, <1>8 DEF Committed
<1> QED BY <1>9

\* append() has failed to commit frame n of channel c in store g.
Failed(k, c, n, g) ==
  /\ handler[k].st = "committing" /\ handler[k].gen = g /\ handler[k].frame = Frame(c, n)
  /\ n = store[g].last[c] + 1 /\ n < recorded[c] /\ store[g].lock = k
  /\ handler'[k] = Closed
  /\ \A j \in Conns \cup {Rest} : j # k => handler'[j] = handler[j]
  /\ \/ n \in Seqs(c) /\ index' = index /\ budget' = budget
     \/ Spend("db") /\ index' = index
     \/ /\ Spend("ambiguous") /\ n \notin Seqs(c)
        /\ index' = [index EXCEPT ![c] = @ \cup {[seq |-> n, offset |-> n]}]
  /\ file' = [file EXCEPT ![c] = Truncate(@, n)]
  /\ hub' = hub /\ recorded' = recorded
  /\ store'[g].lock = None /\ store'[g].last = store[g].last
  /\ store'[g].offset = store[g].offset /\ store'[g].closed = store[g].closed
  /\ \A h \in Gens : h # g =>
       /\ store'[h].lock = store[h].lock /\ store'[h].last = store[h].last
       /\ store'[h].offset = store[h].offset /\ store'[h].closed = store[h].closed

\* A commit that raises is one.
LEMMA FailedCase ==
  ASSUME LogInv, AppendInv, NEW k \in Conns, CommitFails(k)
  PROVE  \E c \in Channels, n \in Nat, g \in Gens : Failed(k, c, n, g)
<1>1. /\ handler \in [Conns \cup {Rest} -> HandlerShape(RecordedFrames)]
      /\ store \in [Gens -> StoreShape(Known)]
  BY ServerTypes
<1>2. handler[k].st = "committing"
  BY DEF CommitFails, Serving
<1>3. PICK c \in Channels, n \in Nat, g \in Gens :
           /\ handler[k].frame = Frame(c, n) /\ handler[k].gen = g
           /\ handler[k].frame.c = c /\ handler[k].frame.s = n
           /\ n = store[g].last[c] + 1 /\ store[g].offset[c] = n /\ store[g].lock = k
           /\ n < recorded[c]
  BY <1>2, CommittingFrame
<1> DEFINE released == [store EXCEPT ![g].lock = None]
<1>4. /\ \/ n \in Seqs(c) /\ index' = index /\ budget' = budget
         \/ Spend("db") /\ index' = index
         \/ /\ Spend("ambiguous") /\ n \notin Seqs(c)
            /\ index' = [index EXCEPT ![c] = @ \cup {[seq |-> n, offset |-> n]}]
      /\ file' = [file EXCEPT ![c] = Truncate(@, n)]
      /\ Exit(k, <<>>, released)
  BY <1>3 DEF CommitFails
<1>5. released \in [Gens -> StoreShape(Known)]
  BY <1>1 DEF StoreShape
<1>6. /\ released[g].lock = None /\ released[g].last = store[g].last
      /\ released[g].offset = store[g].offset /\ released[g].closed = store[g].closed
      /\ \A h \in Gens : h # g => released[h] = store[h]
  BY <1>1 DEF StoreShape
<1>7. handler'[k] = Closed /\ \A j \in Conns \cup {Rest} : j # k => handler'[j] = handler[j]
  BY <1>1, <1>4 DEF Exit
<1>8. hub' = hub /\ recorded' = recorded
  BY DEF CommitFails, clientVars
<1> HIDE DEF released
<1>9. Exit(k, <<>>, released)
  BY <1>4
<1>10. \A h \in Gens :
        /\ store'[h].last = released[h].last /\ store'[h].offset = released[h].offset
        /\ store'[h].lock = released[h].lock /\ store'[h].closed = released[h].closed
  BY <1>5, <1>9, ExitStores
<1>11. Failed(k, c, n, g)
  BY <1>2, <1>3, <1>4, <1>6, <1>7, <1>8, <1>10 DEF Failed
<1> QED BY <1>11

\* The server dies: every handler and every ingest object is gone.
LEMMA DieCase ==
  ASSUME LogInv, Die
  PROVE  /\ \A j \in Conns \cup {Rest} : handler'[j].st = "closed" /\ handler'[j].took = None
         /\ hub' = None /\ index' = index /\ recorded' = recorded /\ endRequested' = endRequested
         /\ \A g \in Gens : /\ store'[g].lock = None /\ store'[g].last = [c \in Channels |-> None]
                            /\ store'[g].offset = [c \in Channels |-> None + 1]
BY DEF Die, Closed, NewStore

\* Adding a row whose offset is its seq.
LEMMA RowAdded ==
  ASSUME LogInv, AppendInv, NEW c \in Channels, NEW n \in Nat,
         index' = [index EXCEPT ![c] = @ \cup {[seq |-> n, offset |-> n]}]
  PROVE  \A d \in Channels : \A r \in index'[d] : r.offset = r.seq
<1>1. index \in [Channels -> SUBSET [seq : Nat, offset : Nat]]
  BY DEF LogInv, DurableShape
<1> QED BY <1>1 DEF AppendInv

\* Every step keeps AppendInv.
LEMMA AppendStep ==
  ASSUME LogInv, Next, AppendInv
  PROVE  AppendInv'
<1>1. CASE ~Busy
  BY <1>1, QuietStep, QuietAppend
<1>2. /\ \A k \in Conns : handler[k].st = "committing" => handler[k].gen \in Gens
      /\ None \notin Conns /\ None \in Int
  BY ServerTypes DEF LogInv, HandlersPrepared, Prepared, None
<1>3. /\ \A c \in Channels : \A r \in index[c] : r.offset = r.seq
      /\ \A g \in Gens : \A c \in Channels : store[g].offset[c] = store[g].last[c] + 1
      /\ \A g \in Gens : \A k \in Conns :
           store[g].lock = k <=> (handler[k].st = "committing" /\ handler[k].gen = g)
      /\ \A k \in Conns : handler[k].st = "committing" =>
           handler[k].frame.s = store[handler[k].gen].last[handler[k].frame.c] + 1
  BY DEF AppendInv, Committing
<1>4. ASSUME NEW k \in Conns, NEW g \in Gens, HelloAccepted(k, g) PROVE AppendInv'
  <2>1. /\ handler[k].st = "accepted" /\ handler'[k].st = "open"
        /\ \A j \in Conns : j # k => handler'[j] = handler[j]
        /\ index' = index
        /\ \A h \in Gens : h # g => store'[h] = store[h]
        /\ \/ /\ store'[g].last = store[g].last /\ store'[g].offset = store[g].offset
              /\ store'[g].lock = store[g].lock
           \/ /\ \A j \in Conns : handler[j].gen # g
              /\ store'[g].last = IndexedCursor /\ store'[g].lock = None
              /\ store'[g].offset = [c \in Channels |-> IndexedEnd(c)]
    BY <1>4, HelloCases DEF HelloCase
  <2>2. ASSUME NEW h \in Gens, NEW c \in Channels
        PROVE  store'[h].offset[c] = store'[h].last[c] + 1
    BY <1>3, <2>1, LoadedCursor
  <2>3. ASSUME NEW h \in Gens, NEW j \in Conns
        PROVE  store'[h].lock = j <=> (handler'[j].st = "committing" /\ handler'[j].gen = h)
    BY <1>2, <1>3, <2>1
  <2>4. ASSUME NEW j \in Conns, handler'[j].st = "committing"
        PROVE  handler'[j].frame.s = store'[handler'[j].gen].last[handler'[j].frame.c] + 1
    <3>1. handler'[j] = handler[j] /\ handler[j].st = "committing" /\ handler[j].gen \in Gens
      BY <1>2, <2>1, <2>4
    <3>2. store'[handler[j].gen].last = store[handler[j].gen].last
      BY <2>1, <3>1
    <3> QED BY <1>3, <3>1, <3>2
  <2> QED BY <1>3, <2>1, <2>2, <2>3, <2>4 DEF AppendInv, Committing
<1>5. ASSUME NEW k \in Conns, FrameWritten(k) PROVE AppendInv'
  <2>0. PICK c \in Channels, n \in Nat, g \in Gens : Written(k, c, n, g)
    BY <1>5, WrittenCase
  <2>1. /\ handler[k].st = "open" /\ store[g].lock = None /\ n = store[g].last[c] + 1
        /\ handler'[k].st = "committing" /\ handler'[k].gen = g
        /\ handler'[k].frame = Frame(c, n)
        /\ \A j \in Conns : j # k => handler'[j] = handler[j]
        /\ store'[g].lock = k /\ \A h \in Gens : h # g => store'[h] = store[h]
        /\ store'[g].last = store[g].last /\ store'[g].offset = store[g].offset
        /\ index' = index
    BY <2>0 DEF Written
  <2>2. ASSUME NEW h \in Gens, NEW d \in Channels
        PROVE  store'[h].offset[d] = store'[h].last[d] + 1
    BY <1>3, <2>1
  <2>3. ASSUME NEW h \in Gens, NEW j \in Conns
        PROVE  store'[h].lock = j <=> (handler'[j].st = "committing" /\ handler'[j].gen = h)
    BY <1>2, <1>3, <2>1
  <2>4. ASSUME NEW j \in Conns, handler'[j].st = "committing"
        PROVE  handler'[j].frame.s = store'[handler'[j].gen].last[handler'[j].frame.c] + 1
    <3>1. CASE j = k
      BY <2>1, <3>1 DEF Frame
    <3>2. CASE j # k
      <4>1. handler'[j] = handler[j] /\ handler[j].st = "committing" /\ handler[j].gen \in Gens
        BY <1>2, <2>1, <2>4, <3>2
      <4>2. store'[handler[j].gen].last = store[handler[j].gen].last
        BY <2>1, <4>1
      <4> QED BY <1>3, <4>1, <4>2
    <3> QED BY <3>1, <3>2
  <2> QED BY <1>3, <2>1, <2>2, <2>3, <2>4 DEF AppendInv, Committing
<1>6. ASSUME NEW k \in Conns, CommitOk(k) PROVE AppendInv'
  <2>0. PICK c \in Channels, n \in Nat, g \in Gens : Committed(k, c, n, g)
    BY <1>6, CommittedCase
  <2>1. /\ handler[k].st = "committing" /\ handler[k].gen = g /\ store[g].lock = k
        /\ handler'[k].st = "stored"
        /\ \A j \in Conns : j # k => handler'[j] = handler[j]
        /\ index' = [index EXCEPT ![c] = @ \cup {[seq |-> n, offset |-> n]}]
        /\ store'[g].lock = None /\ \A h \in Gens : h # g => store'[h] = store[h]
        /\ store'[g].last = [store[g].last EXCEPT ![c] = n]
        /\ store'[g].offset = [store[g].offset EXCEPT ![c] = n + 1]
    BY <2>0 DEF Committed
  <2>2. ASSUME NEW h \in Gens, NEW d \in Channels
        PROVE  store'[h].offset[d] = store'[h].last[d] + 1
    <3>1. store[g].last \in [Channels -> Int] /\ store[g].offset \in [Channels -> Nat]
      BY ServerTypes DEF StoreShape, Cursors
    <3> QED BY <1>3, <2>1, <3>1
  <2>3. ASSUME NEW h \in Gens, NEW j \in Conns
        PROVE  store'[h].lock = j <=> (handler'[j].st = "committing" /\ handler'[j].gen = h)
    BY <1>2, <1>3, <2>1
  <2>4. ASSUME NEW j \in Conns, handler'[j].st = "committing"
        PROVE  handler'[j].frame.s = store'[handler'[j].gen].last[handler'[j].frame.c] + 1
    <3>1. handler'[j] = handler[j] /\ handler[j].st = "committing" /\ handler[j].gen \in Gens /\ j # k
      BY <1>2, <2>1, <2>4
    <3>2. handler[j].gen # g
      BY <1>3, <2>1, <3>1
    <3> QED BY <1>3, <2>1, <3>1, <3>2
  <2>5. \A d \in Channels : \A r \in index'[d] : r.offset = r.seq
    BY <2>1, RowAdded
  <2> QED BY <2>2, <2>3, <2>4, <2>5 DEF AppendInv, Committing
<1>7. ASSUME NEW k \in Conns, CommitFails(k) PROVE AppendInv'
  <2>0. PICK c \in Channels, n \in Nat, g \in Gens : Failed(k, c, n, g)
    BY <1>7, FailedCase
  <2>1. /\ handler[k].st = "committing" /\ handler[k].gen = g /\ store[g].lock = k
        /\ handler'[k] = Closed
        /\ \A j \in Conns : j # k => handler'[j] = handler[j]
        /\ \/ index' = index
           \/ index' = [index EXCEPT ![c] = @ \cup {[seq |-> n, offset |-> n]}]
        /\ store'[g].lock = None /\ store'[g].last = store[g].last
        /\ store'[g].offset = store[g].offset
        /\ \A h \in Gens : h # g =>
             /\ store'[h].lock = store[h].lock /\ store'[h].last = store[h].last
             /\ store'[h].offset = store[h].offset
    BY <2>0 DEF Failed
  <2>2. handler'[k].st = "closed"
    BY <2>1 DEF Closed
  <2>3. ASSUME NEW h \in Gens, NEW d \in Channels
        PROVE  store'[h].offset[d] = store'[h].last[d] + 1
    BY <1>3, <2>1
  <2>4. ASSUME NEW h \in Gens, NEW j \in Conns
        PROVE  store'[h].lock = j <=> (handler'[j].st = "committing" /\ handler'[j].gen = h)
    BY <1>2, <1>3, <2>1, <2>2
  <2>5. ASSUME NEW j \in Conns, handler'[j].st = "committing"
        PROVE  handler'[j].frame.s = store'[handler'[j].gen].last[handler'[j].frame.c] + 1
    <3>1. handler'[j] = handler[j] /\ handler[j].st = "committing" /\ handler[j].gen \in Gens
      BY <1>2, <2>1, <2>2, <2>5
    <3>2. store'[handler[j].gen].last = store[handler[j].gen].last
      BY <2>1, <3>1
    <3> QED BY <1>3, <3>1, <3>2
  <2>6. \A d \in Channels : \A r \in index'[d] : r.offset = r.seq
    BY <1>3, <2>1, RowAdded
  <2> QED BY <2>3, <2>4, <2>5, <2>6 DEF AppendInv, Committing
<1>8. CASE ServerCrash \/ PowerLoss
  <2>1. /\ \A j \in Conns : handler'[j].st = "closed"
        /\ index' = index
        /\ \A g \in Gens : /\ store'[g].lock = None /\ store'[g].last = [c \in Channels |-> None]
                           /\ store'[g].offset = [c \in Channels |-> None + 1]
    BY <1>8, DieCase DEF ServerCrash, PowerLoss
  <2> QED BY <1>2, <1>3, <2>1 DEF AppendInv, Committing
<1> QED BY <1>1, <1>4, <1>5, <1>6, <1>7, <1>8 DEF Busy
-----------------------------------------------------------------------------
(* Faults are counted *)

\* A step counts at most one fault.
LEMMA BudgetStep ==
  ASSUME LogInv, Next
  PROVE  /\ \A f \in Faults : budget[f] \in Nat /\ budget'[f] \in Nat /\ budget[f] <= budget'[f]
         /\ Stop => budget'["stop"] > 0
         /\ RestEnds => budget'["end"] > 0
         /\ PowerLoss => budget'["power"] > 0
         /\ budget'["power"] > budget["power"] => PowerLoss
<1>1. budget \in [Faults -> Nat]
  BY DEF LogInv, ObserverShape
<1> DEFINE Goal == /\ \A f \in Faults : budget[f] \in Nat /\ budget'[f] \in Nat /\ budget[f] <= budget'[f]
                   /\ (budget'["power"] > budget["power"] => PowerLoss)
<1>2. ASSUME budget' = budget PROVE Goal
  BY <1>1, <1>2 DEF Faults
<1>3. ASSUME NEW f \in Faults, f # "power", Spend(f) PROVE Goal
  BY <1>1, <1>3 DEF Spend, Faults
<1>13. ASSUME PowerLoss PROVE Goal
  <2>1. Spend("power")
    BY <1>13 DEF PowerLoss
  <2>2. \A f \in Faults : budget[f] \in Nat /\ budget'[f] \in Nat /\ budget[f] <= budget'[f]
    BY <1>1, <2>1 DEF Spend, Faults
  <2> QED BY <1>13, <2>2
<1> HIDE DEF Goal
<1>4. ASSUME (\E c \in Channels : Record(c)) \/ RequestEnd \/ Resume \/ Reconnect PROVE Goal
  BY <1>2, <1>4 DEF Record, RequestEnd, Resume, Reconnect, GetTicket, Connect
<1>5. ASSUME Stop PROVE Goal
  <2>1. Spend("stop")
    BY <1>5 DEF Stop
  <2> QED BY <1>3, <2>1 DEF Faults
<1>6. ASSUME NEW k \in Conns, Receiver(k) \/ Sender(k) \/ FlushAcks(k) PROVE Goal
  BY <1>2, <1>6 DEF Receiver, RecvHelloAck, RecvAcks, RecvError, RecvClose, Sender, SendEnd,
     Finish, SendFrame, FlushAcks, clientVars
<1>7. ASSUME NEW k \in Conns, Drop(k) PROVE Goal
  <2>1. Spend("drop")
    BY <1>7 DEF Drop
  <2> QED BY <1>3, <2>1 DEF Faults
<1>8. ASSUME NEW k \in Conns, Serve(k) PROVE Goal
  <2>1. CASE CommitFails(k)
    <3>1. budget' = budget \/ Spend("db") \/ Spend("ambiguous")
      BY <2>1 DEF CommitFails
    <3> QED BY <1>2, <1>3, <3>1 DEF Faults
  <2>2. CASE ~CommitFails(k)
    <3>1. budget' = budget
      BY <1>8, <2>2 DEF Serve, HandlerGone, HelloRejected, HelloLoadFails, HelloAccepted, CommitOk,
         FrameRejected, FrameDuplicate, FrameWritten, Feed, ProducerEnds, clientVars
    <3> QED BY <1>2, <3>1
  <2> QED BY <2>1, <2>2
<1>9. ASSUME NEW e \in Conns \cup {Rest}, Ending(e) PROVE Goal
  BY <1>2, <1>9 DEF Ending, EndClose, EndReturn, clientVars
<1>10. ASSUME Fsync \/ WatchdogEnds \/ ServerRestart PROVE Goal
  BY <1>2, <1>10 DEF Fsync, WatchdogEnds, ServerRestart, clientVars
<1>11. ASSUME RestEnds PROVE Goal
  <2>1. Spend("end")
    BY <1>11 DEF RestEnds
  <2> QED BY <1>3, <2>1 DEF Faults
<1>12. ASSUME ServerCrash PROVE Goal
  <2>1. Spend("crash")
    BY <1>12 DEF ServerCrash
  <2> QED BY <1>3, <2>1 DEF Faults
<1>14. Goal
  BY <1>4, <1>5, <1>6, <1>7, <1>8, <1>9, <1>10, <1>11, <1>12, <1>13 DEF Next
<1>15. Stop => budget'["stop"] > 0
  BY <1>1 DEF Stop, Spend, Faults
<1>16. RestEnds => budget'["end"] > 0
  BY <1>1 DEF RestEnds, Spend, Faults
<1>17. PowerLoss => budget'["power"] > 0
  BY <1>1 DEF PowerLoss, Spend, Faults
<1> QED BY <1>14, <1>15, <1>16, <1>17 DEF Goal

\* What has never happened has not happened before, and is not happening now.
LEMMA NeverBefore ==
  ASSUME LogInv, Next, NEW S \in SUBSET Faults, Never(S)'
  PROVE  /\ Never(S)
         /\ "stop" \in S => ~Stop
         /\ "end" \in S => ~RestEnds
         /\ "power" \in S => ~PowerLoss
<1>1. \A f \in S : budget'[f] = 0 /\ budget[f] \in Nat /\ budget[f] <= budget'[f]
  BY BudgetStep DEF Never
<1>2. Never(S)
  BY <1>1 DEF Never
<1> QED BY <1>1, <1>2, BudgetStep

-----------------------------------------------------------------------------
(* Stale handlers *)

PastStates == {"open", "committing", "stored", "ending", "draining"}

\* Most steps leave the hub alone, and bring no handler past hello and none to its end.
Settled ==
  /\ hub' = hub
  /\ endRequested => endRequested' /\ recorded' = recorded
  /\ \A k \in Conns : handler'[k].st \in PastStates =>
       /\ handler[k].st \in PastStates /\ handler'[k].gen = handler[k].gen
       /\ handler'[k].st \in {"ending", "draining"} => handler[k].st \in {"ending", "draining"}
  /\ \A e \in Conns \cup {Rest} : handler'[e].took \in {handler[e].took, None}
  /\ \A g \in Gens : \A c \in Channels : store[g].last[c] <= store'[g].last[c]
  /\ hub # None /\ store'[hub].closed => store[hub].closed

\* The steps that do not.
Unsettling ==
  \/ \E k \in Conns : ProducerEnds(k) \/ \E g \in Gens : HelloAccepted(k, g)
  \/ RestEnds \/ WatchdogEnds \/ Stop \/ ServerCrash \/ PowerLoss

\* A step that changes one handler only, and no store, leaves the hub's business settled.
LEMMA OneHandlerSettled ==
  ASSUME LogInv, NEW k \in Conns, hub' = hub, endRequested' = endRequested, recorded' = recorded,
         \A j \in Conns \cup {Rest} : j # k => handler'[j] = handler[j],
         \/ handler'[k].st \in {"closed", "accepted"}
         \/ /\ handler[k].st \in PastStates /\ handler'[k].gen = handler[k].gen
            /\ handler'[k].st \in {"ending", "draining"} => handler[k].st \in {"ending", "draining"},
         handler'[k].took \in {handler[k].took, None},
         \A g \in Gens : /\ store'[g].closed = store[g].closed
                         /\ \A c \in Channels : store[g].last[c] <= store'[g].last[c]
  PROVE  Settled
<1>1. hub \in Gens \cup {None}
  BY ServerTypes
<1>2. hub # None /\ store'[hub].closed => store[hub].closed
  BY <1>1
<1>3. \A j \in Conns : handler'[j].st \in PastStates =>
       /\ handler[j].st \in PastStates /\ handler'[j].gen = handler[j].gen
       /\ handler'[j].st \in {"ending", "draining"} => handler[j].st \in {"ending", "draining"}
  <2> TAKE j \in Conns
  <2>1. CASE j = k
    BY <2>1 DEF PastStates
  <2>2. CASE j # k
    BY <2>2
  <2> QED BY <2>1, <2>2
<1> QED BY <1>2, <1>3 DEF Settled

\* The stores' cursors are numbers.
LEMMA StoreCursors ==
  ASSUME LogInv
  PROVE  \A g \in Gens : \A c \in Channels :
           /\ store[g].last[c] \in Int /\ store[g].last[c] >= -1 /\ store[g].last[c] < recorded[c]
           /\ store[g].last[c] \in Seqs(c) \cup {None} /\ recorded[c] \in Nat
<1> TAKE g \in Gens
<1> TAKE c \in Channels
<1>1. store[g].last \in Cursors(Known)
  BY ServerTypes DEF StoreShape
<1>2. store[g].last[c] \in Seqs(c) \cup {None} /\ recorded[c] \in Nat
  BY <1>1 DEF Cursors, Known, LogInv, ClientShape
<1>3. PICK n \in 0..recorded[c] : Seqs(c) = 0..(n - 1)
  BY DEF LogInv, IndexContiguous
<1> QED BY <1>2, <1>3 DEF None

\* Every other step is settled.
LEMMA SettledStep ==
  ASSUME LogInv, AppendInv, StaleInv, Next, ~Unsettling
  PROVE  Settled
<1>1. /\ handler \in [Conns \cup {Rest} -> HandlerShape(RecordedFrames)]
      /\ store \in [Gens -> StoreShape(Known)]
      /\ \A g \in Gens : store[g] \in StoreShape(Known)
      /\ hub \in Gens \cup {None}
  BY ServerTypes
<1>2. \A g \in Gens : \A c \in Channels : store[g].last[c] <= store[g].last[c]
  BY StoreCursors
<1>3. Closed.st = "closed" /\ Closed.took = None
  BY DEF Closed
<1>4. ASSUME hub' = hub, handler' = handler, store' = store,
             endRequested => endRequested' /\ recorded' = recorded
      PROVE  Settled
  BY <1>2, <1>4 DEF Settled
<1>5. ASSUME NEW c \in Channels, Record(c) PROVE Settled
  BY <1>4, <1>5 DEF Record, Recording, serverVars
<1>6. CASE RequestEnd
  BY <1>4, <1>6 DEF RequestEnd, serverVars
<1>7. CASE Resume \/ GetTicket
  BY <1>4, <1>7 DEF Resume, GetTicket, serverVars
<1>8. CASE Fsync \/ ServerRestart
  BY <1>4, <1>8 DEF Fsync, ServerRestart, serverVars, clientVars
<1>9. ASSUME NEW j \in Conns, Receiver(j) \/ Sender(j) \/ Drop(j) PROVE Settled
  BY <1>4, <1>9 DEF Receiver, RecvHelloAck, RecvAcks, RecvError, RecvClose, Sender, SendEnd,
     Finish, SendFrame, Drop, serverVars
<1>10. ASSUME NEW j \in Conns, Connect(j) PROVE Settled
  <2>1. [Closed EXCEPT !.st = "accepted", !.row = status].st = "accepted"
        /\ [Closed EXCEPT !.st = "accepted", !.row = status].took = None
    BY DEF Closed
  <2>2. handler'[j].st = "accepted" /\ handler'[j].took = None
        /\ \A k \in Conns \cup {Rest} : k # j => handler'[k] = handler[k]
    BY <1>1, <1>10, <2>1 DEF Connect
  <2>3. hub' = hub /\ store' = store /\ endRequested' = endRequested /\ recorded' = recorded
    BY <1>10 DEF Connect
  <2> QED BY <1>2, <2>2, <2>3, OneHandlerSettled
<1>11. ASSUME NEW j \in Conns, FlushAcks(j) \/ FrameDuplicate(j) PROVE Settled
  <2>1. handler'[j].st = handler[j].st /\ handler'[j].gen = handler[j].gen
        /\ handler'[j].took = handler[j].took /\ handler[j].st \in PastStates
        /\ \A k \in Conns \cup {Rest} : k # j => handler'[k] = handler[k]
    BY <1>1, <1>11 DEF FlushAcks, FrameDuplicate, Producing, Serving, HandlerShape, PastStates
  <2>2. hub' = hub /\ store' = store /\ endRequested' = endRequested /\ recorded' = recorded
    BY <1>11 DEF FlushAcks, FrameDuplicate, clientVars
  <2> QED BY <1>2, <2>1, <2>2, OneHandlerSettled
<1>12. ASSUME NEW j \in Conns,
             HandlerGone(j) \/ HelloRejected(j) \/ HelloLoadFails(j) \/ FrameRejected(j)
      PROVE  Settled
  <2>1. PICK msgs : Exit(j, msgs, store)
    BY <1>12 DEF HandlerGone, HelloRejected, HelloLoadFails, FrameRejected
  <2>2. hub' = hub /\ endRequested' = endRequested /\ recorded' = recorded
    BY <1>12 DEF HandlerGone, HelloRejected, HelloLoadFails, FrameRejected, clientVars
  <2>3. handler'[j].st = "closed" /\ handler'[j].took = None
        /\ \A k \in Conns \cup {Rest} : k # j => handler'[k] = handler[k]
    BY <1>1, <1>3, <2>1 DEF Exit
  <2>4. \A g \in Gens : store'[g].last = store[g].last /\ store'[g].closed = store[g].closed
    BY <1>1, <2>1, ExitStores
  <2> QED BY <1>2, <2>2, <2>3, <2>4, OneHandlerSettled
<1>13. ASSUME NEW j \in Conns, FrameWritten(j) PROVE Settled
  <2>1. PICK c \in Channels, n \in Nat, g \in Gens : Written(j, c, n, g)
    BY <1>13, WrittenCase
  <2>2. handler[j].st = "open" /\ handler'[j].st = "committing"
        /\ handler[j].gen = g /\ handler'[j].gen = g /\ handler'[j].took = handler[j].took
        /\ \A k \in Conns \cup {Rest} : k # j => handler'[k] = handler[k]
    BY <2>1 DEF Written
  <2>3. hub' = hub /\ endRequested' = endRequested /\ recorded' = recorded
    BY <1>13 DEF FrameWritten, clientVars
  <2>4. \A h \in Gens : store'[h].last = store[h].last /\ store'[h].closed = store[h].closed
    BY <2>1 DEF Written
  <2> QED BY <1>2, <2>2, <2>3, <2>4, OneHandlerSettled DEF PastStates
<1>14. ASSUME NEW j \in Conns, CommitOk(j) PROVE Settled
  <2>1. PICK c \in Channels, n \in Nat, g \in Gens : Committed(j, c, n, g)
    BY <1>14, CommittedCase
  <2>2. handler[j].st = "committing" /\ handler'[j].st = "stored"
        /\ handler[j].gen = g /\ handler'[j].gen = g /\ handler'[j].took = handler[j].took
        /\ \A k \in Conns \cup {Rest} : k # j => handler'[k] = handler[k]
    BY <2>1 DEF Committed
  <2>3. hub' = hub /\ endRequested' = endRequested /\ recorded' = recorded
    BY <1>14 DEF CommitOk, clientVars
  <2>4. \A h \in Gens : store'[h].closed = store[h].closed
    BY <2>1 DEF Committed
  <2>5. \A h \in Gens : \A d \in Channels : store[h].last[d] <= store'[h].last[d]
    <3>1. n = store[g].last[c] + 1 /\ store'[g].last = [store[g].last EXCEPT ![c] = n]
          /\ \A h \in Gens : h # g => store'[h] = store[h]
      BY <2>1 DEF Committed
    <3>2. store[g].last \in [Channels -> Int]
      BY <1>1 DEF StoreShape, Cursors
    <3> QED BY <1>2, <3>1, <3>2
  <2> QED BY <2>2, <2>3, <2>4, <2>5, OneHandlerSettled DEF PastStates
<1>15. ASSUME NEW j \in Conns, CommitFails(j) PROVE Settled
  <2>1. PICK c \in Channels, n \in Nat, g \in Gens : Failed(j, c, n, g)
    BY <1>15, FailedCase
  <2>2. handler'[j].st = "closed" /\ handler'[j].took = None
        /\ \A k \in Conns \cup {Rest} : k # j => handler'[k] = handler[k]
    BY <1>3, <2>1 DEF Failed
  <2>3. hub' = hub /\ endRequested' = endRequested /\ recorded' = recorded
    BY <1>15 DEF CommitFails, clientVars
  <2>4. \A h \in Gens : store'[h].last = store[h].last /\ store'[h].closed = store[h].closed
    BY <2>1 DEF Failed
  <2> QED BY <1>2, <2>2, <2>3, <2>4, OneHandlerSettled
<1>16. ASSUME NEW j \in Conns, Feed(j) PROVE Settled
  <2>1. handler[j].st = "stored" /\ handler'[j].st = "open"
        /\ handler'[j].gen = handler[j].gen /\ handler'[j].took = handler[j].took
        /\ \A k \in Conns \cup {Rest} : k # j => handler'[k] = handler[k]
    BY <1>1, <1>16 DEF Feed, Serving, HandlerShape
  <2>2. hub' = hub /\ store' = store /\ endRequested' = endRequested /\ recorded' = recorded
    BY <1>16 DEF Feed, clientVars
  <2> QED BY <1>2, <2>1, <2>2, OneHandlerSettled DEF PastStates
<1>17. ASSUME NEW e \in Conns \cup {Rest}, EndClose(e) PROVE Settled
  <2>1. handler[e].st = "ending" /\ handler'[e].st = "draining" /\ handler'[e].gen = handler[e].gen
        /\ handler'[e].took = handler[e].took
        /\ \A k \in Conns \cup {Rest} : k # e => handler'[k] = handler[k]
    BY <1>1, <1>17 DEF EndClose, Serving, HandlerShape
  <2>2. hub' = hub /\ endRequested' = endRequested /\ recorded' = recorded
    BY <1>17 DEF EndClose, clientVars
  <2>3. \/ store' = store
        \/ \E g \in Gens : g = handler[e].took /\ store' = [store EXCEPT ![g].closed = TRUE]
    <3>1. handler[e].took \in Gens \cup {None}
      BY <1>1 DEF HandlerShape
    <3> QED BY <1>17, <3>1 DEF EndClose
  <2>4. \A g \in Gens : store'[g].last = store[g].last
    BY <1>1, <2>3 DEF StoreShape
  <2>5. hub # None => store'[hub].closed = store[hub].closed
    <3>1. hub # None => handler[e].took # hub
      BY DEF StaleInv
    <3> QED BY <1>1, <2>3, <3>1
  <2>6. \A k \in Conns : handler'[k].st \in PastStates =>
          /\ handler[k].st \in PastStates /\ handler'[k].gen = handler[k].gen
          /\ handler'[k].st \in {"ending", "draining"} => handler[k].st \in {"ending", "draining"}
    <3> TAKE k \in Conns
    <3>1. CASE k = e
      BY <2>1, <3>1 DEF PastStates
    <3>2. CASE k # e
      BY <2>1, <3>2
    <3> QED BY <3>1, <3>2
  <2> QED BY <1>2, <2>1, <2>2, <2>4, <2>5, <2>6 DEF Settled
<1>18. ASSUME NEW e \in Conns \cup {Rest}, EndReturn(e) PROVE Settled
  <2>1. handler'[e] = Closed /\ \A k \in Conns \cup {Rest} : k # e => handler'[k] = handler[k]
    BY <1>1, <1>18 DEF EndReturn
  <2>2. hub' = hub /\ endRequested' = endRequested /\ recorded' = recorded
    BY <1>18 DEF EndReturn, clientVars
  <2>3. store' = [g \in Gens |-> IF store[g].producer = e
                                 THEN [store[g] EXCEPT !.producer = None] ELSE store[g]]
    BY <1>18 DEF EndReturn
  <2>4. \A g \in Gens : store'[g].last = store[g].last /\ store'[g].closed = store[g].closed
    BY <1>1, <2>3 DEF StoreShape
  <2>5. \A k \in Conns : handler'[k].st \in PastStates =>
          /\ handler[k].st \in PastStates /\ handler'[k].gen = handler[k].gen
          /\ handler'[k].st \in {"ending", "draining"} => handler[k].st \in {"ending", "draining"}
    BY <1>3, <2>1 DEF PastStates
  <2> QED BY <1>1, <1>2, <1>3, <2>1, <2>2, <2>4, <2>5 DEF Settled
<1> QED BY <1>5, <1>6, <1>7, <1>8, <1>9, <1>10, <1>11, <1>12, <1>13, <1>14, <1>15, <1>16, <1>17,
        <1>18 DEF Next, Reconnect, Serve, Ending, Unsettling
-----------------------------------------------------------------------------
(* Queues *)

\* The elements of the sequences the actions build.
LEMMA SeqElements ==
  ASSUME NEW S, NEW q \in Seq(S), NEW x \in S
  PROVE  /\ Len(q) \in Nat
         /\ Len(Append(q, x)) = Len(q) + 1 /\ Append(q, x)[Len(q) + 1] = x
         /\ \A i \in 1..Len(q) : Append(q, x)[i] = q[i]
         /\ q # <<>> => /\ Len(q) > 0 /\ Head(q) = q[1] /\ Len(Tail(q)) = Len(q) - 1
                        /\ \A i \in 1..(Len(q) - 1) : Tail(q)[i] = q[i + 1]
         /\ \A n \in 0..Len(q) : /\ Len(SubSeq(q, 1, n)) = n
                                 /\ \A i \in 1..n : SubSeq(q, 1, n)[i] = q[i]
OBVIOUS

\* The queues hold messages.
LEMMA QueueTypes ==
  ASSUME LogInv, NEW k \in Conns
  PROVE  /\ up[k] \in Seq(UpMessages(RecordedFrames))
         /\ down[k] \in Seq(DownMessages(Known))
         /\ up \in [Conns -> Seq(UpMessages(RecordedFrames))]
         /\ down \in [Conns -> Seq(DownMessages(Known))]
BY DEF LogInv, NetShape

\* What a step that leaves handler k's place in its queue alone, or takes the head of the queue,
\* keeps of what is covered: frames only move on, from the queue to the commit to the store.
MovesOn(k) ==
  /\ handler'[k].gen = handler[k].gen
  /\ \A c \in Channels : store[handler[k].gen].last[c] <= store'[handler[k].gen].last[c]
  /\ \A c \in Channels, s \in Nat : Committing(k) /\ handler[k].frame = Frame(c, s) =>
       \/ handler'[k].st = "committing" /\ handler'[k].frame = Frame(c, s)
       \/ s <= store'[handler[k].gen].last[c]

\* Nothing covered is uncovered while the queue keeps its front.
LEMMA CoveredKept ==
  ASSUME LogInv, NEW k \in Conns, handler[k].gen \in Gens, MovesOn(k),
         NEW c \in Channels, NEW s \in Nat, NEW n \in Nat, n <= Len(up[k]) + 1,
         \A i \in 1..(n - 1) : up'[k][i] = up[k][i],
         \A g \in Gens : \A d \in Channels : store'[g].last[d] \in Int,
         Covered(k, c, s, n)
  PROVE  Covered(k, c, s, n)'
<1>1. store[handler[k].gen].last[c] \in Int /\ store'[handler[k].gen].last[c] \in Int
  BY StoreCursors
<1>2. CASE s <= store[handler[k].gen].last[c]
  <2>1. s <= store'[handler'[k].gen].last[c]
    BY <1>1, <1>2 DEF MovesOn
  <2> QED BY <2>1 DEF Covered
<1>3. CASE Committing(k) /\ handler[k].frame = Frame(c, s)
  <2>1. \/ handler'[k].st = "committing" /\ handler'[k].frame = Frame(c, s)
        \/ s <= store'[handler'[k].gen].last[c]
    BY <1>3 DEF MovesOn
  <2> QED BY <2>1 DEF Covered, Committing
<1>4. CASE \E i \in 1..(n - 1) : up[k][i] = Frame(c, s)
  <2>1. \E i \in 1..(n - 1) : up'[k][i] = Frame(c, s)
    BY <1>4
  <2> QED BY <2>1 DEF Covered
<1> QED BY <1>2, <1>3, <1>4 DEF Covered

\* Nor when the head of the queue is taken, to be committed or because the store has it.
LEMMA CoveredPopped ==
  ASSUME LogInv, NEW k \in Conns, handler[k].gen \in Gens, MovesOn(k),
         NEW c \in Channels, NEW s \in Nat, NEW n \in Nat, n <= Len(up[k]),
         up[k] # <<>>, up'[k] = Tail(up[k]),
         Head(up[k]) = Frame(c, s) =>
           \/ handler'[k].st = "committing" /\ handler'[k].frame = Frame(c, s)
           \/ s <= store'[handler[k].gen].last[c],
         \A g \in Gens : \A d \in Channels : store'[g].last[d] \in Int,
         Covered(k, c, s, n + 1)
  PROVE  Covered(k, c, s, n)'
<1>1. store[handler[k].gen].last[c] \in Int /\ store'[handler[k].gen].last[c] \in Int
      /\ handler'[k].gen = handler[k].gen
  BY StoreCursors DEF MovesOn
<1>2. CASE s <= store[handler[k].gen].last[c]
  <2>1. s <= store'[handler'[k].gen].last[c]
    BY <1>1, <1>2 DEF MovesOn
  <2> QED BY <2>1 DEF Covered
<1>3. CASE Committing(k) /\ handler[k].frame = Frame(c, s)
  <2>1. \/ handler'[k].st = "committing" /\ handler'[k].frame = Frame(c, s)
        \/ s <= store'[handler'[k].gen].last[c]
    BY <1>3 DEF MovesOn
  <2> QED BY <2>1 DEF Covered, Committing
<1>4. CASE \E i \in 1..n : up[k][i] = Frame(c, s)
  <2>1. PICK i \in 1..n : up[k][i] = Frame(c, s)
    BY <1>4
  <2>2. /\ Len(up[k]) \in Nat /\ Len(up[k]) > 0 /\ Head(up[k]) = up[k][1]
        /\ \A j \in 1..(Len(up[k]) - 1) : Tail(up[k])[j] = up[k][j + 1]
    <3> DEFINE U == UpMessages(RecordedFrames)
    <3>1. up[k] \in Seq(U) /\ End \in U
      BY QueueTypes DEF UpMessages, End
    <3> HIDE DEF U
    <3> QED BY <3>1, SeqElements
  <2>3. CASE i = 1
    <3>1. \/ handler'[k].st = "committing" /\ handler'[k].frame = Frame(c, s)
          \/ s <= store'[handler'[k].gen].last[c]
      BY <1>1, <2>1, <2>2, <2>3
    <3> QED BY <3>1 DEF Covered, Committing
  <2>4. CASE i # 1
    <3>1. i - 1 \in 1..(n - 1) /\ i - 1 \in 1..(Len(up[k]) - 1) /\ (i - 1) + 1 = i
      BY <2>2, <2>4
    <3>2. up'[k][i - 1] = Frame(c, s)
      BY <2>1, <2>2, <3>1
    <3> QED BY <3>1, <3>2 DEF Covered
  <2> QED BY <2>3, <2>4
<1>5. (n + 1) - 1 = n
  OBVIOUS
<1> QED BY <1>2, <1>3, <1>4, <1>5 DEF Covered
-----------------------------------------------------------------------------
(* StaleInv is inductive *)

\* A frame is committed only into the hub's ingest: the others are full.
LEMMA CommitsAtHub ==
  ASSUME LogInv, AppendInv, StaleInv, NEW k \in Conns, handler[k].st = "committing"
  PROVE  handler[k].gen = hub /\ hub \in Gens
<1>1. PICK c \in Channels, n \in Nat, g \in Gens :
           /\ handler[k].gen = g /\ n = store[g].last[c] + 1 /\ n < recorded[c]
  BY CommittingFrame
<1>2. ~Full(g)
  BY <1>1, StoreCursors DEF Full
<1>3. Past(k)
  BY DEF Past
<1> QED BY <1>1, <1>2, <1>3 DEF StaleInv, Finished

\* A full ingest stays full while nothing is recorded.
LEMMA FullKept ==
  ASSUME LogInv, NEW g \in Gens, Full(g), recorded' = recorded,
         \A c \in Channels : store'[g].last[c] \in Int /\ store[g].last[c] <= store'[g].last[c]
  PROVE  Full(g)'
BY StoreCursors DEF Full

\* An ingest that is full has the whole index, so one that is loaded next to it is full as well.
LEMMA LoadedFull ==
  ASSUME LogInv, AppendInv, NEW g \in Gens, NEW h \in Gens, Full(h), recorded' = recorded,
         store'[g].last = IndexedCursor
  PROVE  Full(g)'
<1> SUFFICES ASSUME NEW c \in Channels PROVE IndexedCursor[c] + 1 >= recorded[c]
  BY DEF Full
<1>1. /\ store[h].last[c] \in Int /\ store[h].last[c] \in Seqs(c) \cup {None}
      /\ store[h].last[c] + 1 >= recorded[c] /\ recorded[c] \in Nat
  BY StoreCursors DEF Full
<1>2. /\ IndexedCursor[c] \in Int /\ IndexedEnd(c) = IndexedCursor[c] + 1 /\ IndexedEnd(c) \in Nat
      /\ \A s \in Seqs(c) : s <= IndexedCursor[c]
  BY LoadedCursor
<1> QED BY <1>1, <1>2 DEF None

\* Every settled step keeps StaleInv.
LEMMA SettledStale ==
  ASSUME LogInv, LogInv', StaleInv, Settled
  PROVE  StaleInv'
<1>1. \A g \in Gens : \A c \in Channels : store'[g].last[c] \in Int
  <2>1. store' \in [Gens -> StoreShape(Known)']
    BY DEF LogInv, ServerShape, StoreShape, Cursors
  <2> QED BY <2>1 DEF StoreShape, Cursors
<1>2. \A j \in Conns : handler[j].st \in PastStates => handler[j].gen \in Gens
  BY DEF LogInv, HandlersPrepared, Prepared, PastStates
<1>3. ASSUME NEW j \in Conns, handler'[j].st \in PastStates, handler'[j].gen # hub' PROVE Finished'
  <2>1. Finished
    BY <1>3 DEF Settled, StaleInv, Past, PastStates
  <2>2. endRequested' /\ recorded' = recorded
    BY <2>1 DEF Settled, Finished
  <2>3. ASSUME NEW g \in Gens, Full(g) PROVE Full(g)'
    BY <1>1, <2>2, <2>3, FullKept DEF Settled
  <2>4. ASSUME NEW k \in Conns, handler'[k].st \in PastStates
        PROVE  handler'[k].gen \in Gens /\ Full(handler[k].gen) /\ handler'[k].gen = handler[k].gen
    BY <1>2, <2>1, <2>4 DEF Settled, Finished, Past, PastStates
  <2>5. hub' # None => Full(hub)'
    <3>1. hub' = hub /\ hub \in Gens \cup {None}
      BY ServerTypes DEF Settled
    <3>2. hub # None => Full(hub)
      BY <2>1 DEF Finished
    <3>3. hub # None => \A c \in Channels : store'[hub].last[c] + 1 >= recorded'[c]
      BY <2>3, <3>1, <3>2 DEF Full
    <3> QED BY <3>1, <3>3 DEF Full
  <2>6. \A k \in Conns : handler'[k].st \in PastStates =>
          \A c \in Channels : store'[handler'[k].gen].last[c] + 1 >= recorded'[c]
    BY <2>3, <2>4 DEF Full
  <2> QED BY <2>2, <2>5, <2>6 DEF Finished, Past, PastStates, Full
<1>4. \A k \in Conns : handler'[k].st \in {"ending", "draining"} => handler'[k].gen # hub'
  BY DEF Settled, StaleInv, PastStates
<1>5. hub' # None => ~store'[hub'].closed /\ \A e \in Conns \cup {Rest} : handler'[e].took # hub'
  BY DEF Settled, StaleInv
<1> QED BY <1>3, <1>4, <1>5 DEF StaleInv, Past, PastStates
\* hello: whoever is stale stays so, and then the ingest that is loaded is full.
LEMMA HelloStale ==
  ASSUME LogInv, LogInv', AppendInv, StaleInv,
         NEW k \in Conns, NEW g \in Gens, HelloAccepted(k, g)
  PROVE  StaleInv'
<1>1. /\ handler[k].st = "accepted" /\ handler'[k].st = "open" /\ handler'[k].gen = g
      /\ handler'[k].took = handler[k].took
      /\ \A j \in Conns \cup {Rest} : j # k => handler'[j] = handler[j]
      /\ hub' = g /\ recorded' = recorded
      /\ \A h \in Gens : h # g => store'[h] = store[h]
      /\ \/ hub = g /\ store'[g].last = store[g].last /\ store'[g].closed = store[g].closed
         \/ /\ hub = None
            /\ \A j \in Conns \cup {Rest} : handler[j].gen # g /\ handler[j].took # g
            /\ store'[g].last = IndexedCursor /\ ~store'[g].closed
  <2>1. HelloCase(k, g)
    BY HelloCases
  <2> QED BY ONLY <2>1 DEF HelloCase
<1>2. endRequested' = endRequested /\ None \notin Gens
  BY ServerTypes DEF HelloAccepted, clientVars
<1>3. \A j \in Conns : handler[j].st \in PastStates => handler[j].gen \in Gens
  BY DEF LogInv, HandlersPrepared, Prepared, PastStates
<1>4. ASSUME NEW j \in Conns, handler'[j].st \in PastStates, handler'[j].gen # hub' PROVE Finished'
  <2>1. j # k /\ handler[j].st \in PastStates /\ handler[j].gen \in Gens /\ handler[j].gen # hub
        /\ handler[j].gen # g
    BY <1>1, <1>2, <1>3, <1>4
  <2>2. Finished
    BY <2>1 DEF StaleInv, Past, PastStates
  <2>3. \A h \in Gens : h # g /\ Full(h) => Full(h)'
    BY <1>1 DEF Full
  <2>4. Full(g)'
    <3>1. CASE hub = g /\ store'[g].last = store[g].last
      BY <1>1, <1>2, <2>2, <3>1 DEF Finished, Full
    <3>2. CASE store'[g].last = IndexedCursor
      <4>1. Full(handler[j].gen)
        BY <2>1, <2>2 DEF Finished, Past, PastStates
      <4> QED BY <1>1, <2>1, <3>2, <4>1, LoadedFull
    <3> QED BY <1>1, <3>1, <3>2
  <2>5. ASSUME NEW i \in Conns, handler'[i].st \in PastStates
        PROVE  \A c \in Channels : store'[handler'[i].gen].last[c] + 1 >= recorded'[c]
    <3>1. CASE handler'[i].gen = g
      BY <2>4, <3>1 DEF Full
    <3>2. CASE handler'[i].gen # g
      <4>1. i # k /\ handler'[i] = handler[i] /\ handler[i].gen \in Gens
        BY <1>1, <1>3, <2>5, <3>2
      <4>2. Full(handler[i].gen)
        BY <2>2, <2>5, <4>1 DEF Finished, Past, PastStates
      <4>3. Full(handler[i].gen)'
        BY <2>3, <3>2, <4>1, <4>2
      <4> QED BY <1>1, <3>2, <4>1, <4>2 DEF Full
    <3> QED BY <3>1, <3>2
  <2>6. \A c \in Channels : store'[hub'].last[c] + 1 >= recorded'[c]
    BY <1>1, <2>4 DEF Full
  <2>7. endRequested'
    BY <1>2, <2>2 DEF Finished
  <2> QED BY <2>5, <2>6, <2>7 DEF Finished, Past, PastStates, Full
<1>5. \A j \in Conns : handler'[j].st \in {"ending", "draining"} => handler'[j].gen # hub'
  <2> SUFFICES ASSUME NEW j \in Conns, handler'[j].st \in {"ending", "draining"}
               PROVE  handler'[j].gen # hub'
    OBVIOUS
  <2>1. handler'[j] = handler[j]
    BY <1>1
  <2>2. handler[j].gen # hub
    BY <2>1 DEF StaleInv
  <2> QED BY <1>1, <2>1, <2>2
<1>6. ~store'[hub'].closed /\ \A e \in Conns \cup {Rest} : handler'[e].took # hub'
  BY <1>1, <1>2 DEF StaleInv
<1> QED BY <1>4, <1>5, <1>6 DEF StaleInv, Past, PastStates

\* The client's `end` comes after all its frames.
LEMMA EndStale ==
  ASSUME LogInv, StaleInv, QueueInv, NEW k \in Conns, ProducerEnds(k)
  PROVE  StaleInv'
<1>1. handler \in [Conns \cup {Rest} -> HandlerShape(RecordedFrames)]
  BY ServerTypes
<1>2. /\ handler[k].st = "open" /\ up[k] # <<>> /\ Head(up[k]).t = "end"
      /\ hub' = None /\ handler' = [handler EXCEPT ![k] = [@ EXCEPT !.st = "ending", !.took = hub]]
      /\ store' = store /\ recorded' = recorded /\ endRequested' = endRequested
  BY DEF ProducerEnds, EndMark, Serving, Receives, clientVars
<1>3. \A j \in Conns : handler[j].st \in PastStates => handler[j].gen \in Gens
  BY DEF LogInv, HandlersPrepared, Prepared, PastStates
<1>4. endRequested /\ \A c \in Channels : \A s \in 0..(recorded[c] - 1) : Covered(k, c, s, 1)
  <2>1. Len(up[k]) \in Nat /\ Len(up[k]) > 0 /\ Head(up[k]) = up[k][1]
    <3> DEFINE U == UpMessages(RecordedFrames)
    <3>1. up[k] \in Seq(U) /\ End \in U
      BY QueueTypes DEF UpMessages, End
    <3> HIDE DEF U
    <3> QED BY <1>2, <3>1, SeqElements
  <2>2. Past(k) /\ InOrder(k) /\ 1 \in 1..Len(up[k]) /\ up[k][1].t = "end"
    BY <1>2, <2>1 DEF Past, QueueInv, QueueSound
  <2>3. \A c \in Channels : Before(up[k][1], c) = 0..(recorded[c] - 1)
    BY <2>2 DEF Before
  <2> QED BY <2>2, <2>3 DEF InOrder, Follows
<1>5. Full(handler[k].gen)
  <2> SUFFICES ASSUME NEW c \in Channels PROVE store[handler[k].gen].last[c] + 1 >= recorded[c]
    BY DEF Full
  <2>1. handler[k].gen \in Gens
    BY <1>2, <1>3 DEF PastStates
  <2>2. /\ store[handler[k].gen].last[c] \in Int /\ store[handler[k].gen].last[c] >= -1
        /\ recorded[c] \in Nat
    BY <2>1, StoreCursors
  <2>3. \A s \in 0..(recorded[c] - 1) : s <= store[handler[k].gen].last[c]
    BY <1>2, <1>4 DEF Covered, Committing
  <2>4. CASE recorded[c] = 0
    BY <2>2, <2>4
  <2>5. CASE recorded[c] > 0
    <3>1. recorded[c] - 1 \in 0..(recorded[c] - 1)
      BY <2>2, <2>5
    <3> QED BY <2>2, <2>3, <3>1
  <2> QED BY <2>2, <2>4, <2>5
<1>6. Past(k)
  BY <1>2 DEF Past
<1>7. \A j \in Conns : Past(j) => Full(handler[j].gen)
  <2>1. CASE \E j \in Conns : Past(j) /\ handler[j].gen # hub
    BY <2>1 DEF StaleInv, Finished
  <2>2. CASE \A j \in Conns : Past(j) => handler[j].gen = hub
    BY <1>5, <1>6, <2>2
  <2> QED BY <2>1, <2>2
<1>8. \A j \in Conns : handler'[j].gen = handler[j].gen
                       /\ (handler'[j].st \in PastStates => handler[j].st \in PastStates)
  BY <1>1, <1>2 DEF HandlerShape, PastStates
<1>9. \A j \in Conns : handler'[j].st \in PastStates =>
        \A c \in Channels : store'[handler'[j].gen].last[c] + 1 >= recorded'[c]
  BY <1>2, <1>7, <1>8 DEF Full, Past, PastStates
<1>10. Finished'
  BY <1>2, <1>4, <1>9 DEF Finished, Past, PastStates, Full
<1>11. \A j \in Conns : handler'[j].st \in {"ending", "draining"} => handler'[j].gen # hub'
  BY <1>2, <1>3, <1>8, ServerTypes DEF PastStates
<1> QED BY <1>2, <1>10, <1>11 DEF StaleInv

\* Every step keeps StaleInv, unless the session is ended over the client's head or the daemon
\* stops.
LEMMA StaleStep ==
  ASSUME LogInv, LogInv', AppendInv, StaleInv, QueueInv, Next, ~Stop, ~RestEnds
  PROVE  StaleInv'
<1>1. CASE ~Unsettling
  BY <1>1, SettledStep, SettledStale
<1>2. CASE WatchdogEnds
  <2>1. \A j \in Conns : handler[j].st = "closed" /\ handler'[j] = handler[j]
    BY <1>2, ServerTypes, DistinctIdentities DEF WatchdogEnds, EndMark
  <2>2. hub' = None
    BY <1>2 DEF WatchdogEnds, EndMark
  <2> QED BY <2>1, <2>2 DEF StaleInv, Past
<1>3. CASE ServerCrash \/ PowerLoss
  <2>1. hub' = None /\ \A j \in Conns : handler'[j].st = "closed"
    BY <1>3, DieCase DEF ServerCrash, PowerLoss
  <2> QED BY <2>1 DEF StaleInv, Past
<1> QED BY <1>1, <1>2, <1>3, HelloStale, EndStale DEF Unsettling
-----------------------------------------------------------------------------
(* FilesInv is inductive *)

\* One append at a time: its handler has the hub's lock.
LEMMA CommitsAlone ==
  ASSUME LogInv, AppendInv, StaleInv, NEW k \in Conns, handler[k].st = "committing"
  PROVE  store[hub].lock = k /\ \A j \in Conns : handler[j].st = "committing" => j = k
<1>1. \A j \in Conns : handler[j].st = "committing" => handler[j].gen = hub /\ hub \in Gens
  BY CommitsAtHub
<1> QED BY <1>1 DEF AppendInv, Committing

\* A frame is written only into the hub's ingest, and no other append is in progress.
LEMMA WritesAtHub ==
  ASSUME LogInv, AppendInv, StaleInv,
         NEW k \in Conns, NEW c \in Channels, NEW n \in Nat, NEW g \in Gens, Written(k, c, n, g)
  PROVE  hub = g /\ \A j \in Conns : handler[j].st # "committing"
<1>1. /\ handler[k].st = "open" /\ handler[k].gen = g /\ store[g].lock = None
      /\ n = store[g].last[c] + 1 /\ n < recorded[c]
  BY DEF Written
<1>2. ~Full(g)
  BY <1>1, StoreCursors DEF Full
<1>3. Past(k)
  BY <1>1 DEF Past
<1>4. hub = g
  BY <1>1, <1>2, <1>3 DEF StaleInv, Finished
<1>5. ASSUME NEW j \in Conns, handler[j].st = "committing" PROVE FALSE
  <2>1. store[g].lock = j
    BY <1>4, <1>5, CommitsAlone
  <2> QED BY <1>1, <2>1, ServerTypes
<1> QED BY <1>4, <1>5

\* The stores' cursors and the files after a step.
LEMMA FileTypes ==
  ASSUME LogInv, NEW c \in Channels
  PROVE  file[c] \in Seq(Int) /\ Len(file[c]) \in Nat
BY DEF LogInv, DurableShape

\* The hub gets an ingest only at hello.
LEMMA HubStep ==
  ASSUME LogInv, AppendInv, StaleInv, Next, ~Busy
  PROVE  hub' \in {hub, None}
<1>1. CASE ~Unsettling
  BY <1>1, SettledStep DEF Settled
<1>2. CASE Unsettling
  BY <1>2 DEF Unsettling, Busy, ProducerEnds, RestEnds, WatchdogEnds, EndMark, Stop, serverVars
<1> QED BY <1>1, <1>2

\* Quiet steps keep FilesInv.
LEMMA QuietFiles ==
  ASSUME LogInv, AppendInv, StaleInv, FilesInv, Next, ~Busy
  PROVE  FilesInv'
<1>1. Quiet /\ hub' \in {hub, None} /\ hub \in Gens \cup {None}
  BY QuietStep, HubStep, ServerTypes
<1>2. ASSUME NEW c \in Channels
      PROVE  (\E k \in Conns : handler'[k].st = "committing" /\ handler'[k].frame.c = c)
             <=> (\E k \in Conns : handler[k].st = "committing" /\ handler[k].frame.c = c)
  BY <1>1 DEF Quiet
<1>3. \A c \in Channels : InFlight(c)' = InFlight(c)
  BY <1>2 DEF InFlight, Committing
<1>4. hub' # None => store'[hub'].last = store[hub].last /\ hub' = hub
  BY <1>1 DEF Quiet
<1>5. file' = file
  BY <1>1 DEF Quiet
<1> QED BY <1>3, <1>4, <1>5 DEF FilesInv

\* The file right after load(): the indexed frames.
LEMMA HelloFiles ==
  ASSUME LogInv, AppendInv, StaleInv, FilesInv, NEW k \in Conns, NEW g \in Gens, HelloAccepted(k, g)
  PROVE  FilesInv'
<1>1. /\ handler[k].st = "accepted" /\ handler'[k].st = "open"
      /\ \A j \in Conns \cup {Rest} : j # k => handler'[j] = handler[j]
      /\ hub' = g
      /\ \/ hub = g /\ file' = file /\ store'[g].last = store[g].last
         \/ /\ hub = None
            /\ \A c \in Channels : Len(file[c]) >= IndexedEnd(c)
            /\ file' = [c \in Channels |-> SubSeq(file[c], 1, IndexedEnd(c))]
            /\ store'[g].last = IndexedCursor
  <2>1. HelloCase(k, g)
    BY HelloCases
  <2> QED BY ONLY <2>1 DEF HelloCase
<1>2. ASSUME NEW c \in Channels
      PROVE  (\E j \in Conns : handler'[j].st = "committing" /\ handler'[j].frame.c = c)
             <=> (\E j \in Conns : handler[j].st = "committing" /\ handler[j].frame.c = c)
  BY <1>1
<1>3. \A c \in Channels : InFlight(c)' = InFlight(c)
  BY <1>2 DEF InFlight, Committing
<1>4. CASE hub = g /\ file' = file /\ store'[g].last = store[g].last
  <2>1. g # None
    BY ServerTypes
  <2> QED BY <1>1, <1>3, <1>4, <2>1 DEF FilesInv
<1>5. CASE /\ hub = None
           /\ \A c \in Channels : Len(file[c]) >= IndexedEnd(c)
           /\ file' = [c \in Channels |-> SubSeq(file[c], 1, IndexedEnd(c))]
           /\ store'[g].last = IndexedCursor
  <2>1. \A c \in Channels : InFlight(c) = 0
    BY <1>5, CommitsAtHub, ServerTypes DEF InFlight, Committing
  <2> SUFFICES ASSUME NEW c \in Channels
               PROVE  /\ \A i \in 1..Len(file'[c]) : file'[c][i] = i - 1
                      /\ Len(file'[c]) = store'[g].last[c] + 1 + 0
    BY <1>1, <1>3, <2>1 DEF FilesInv
  <2>2. /\ IndexedCursor[c] \in Int /\ IndexedEnd(c) = IndexedCursor[c] + 1 /\ IndexedEnd(c) \in Nat
    BY LoadedCursor
  <2>3. PICK n \in Nat : n = IndexedEnd(c) /\ n <= Len(file[c]) /\ file'[c] = SubSeq(file[c], 1, n)
    BY <1>5, <2>2, FileTypes
  <2>4. file[c] \in Seq(Int) /\ Len(file[c]) \in Nat
    BY FileTypes
  <2>5. Len(SubSeq(file[c], 1, n)) = n /\ \A i \in 1..n : SubSeq(file[c], 1, n)[i] = file[c][i]
    BY <2>3, <2>4, SeqElements
  <2>6. \A i \in 1..n : file[c][i] = i - 1
    BY <2>3, <2>4 DEF FilesInv
  <2> QED BY <1>5, <2>2, <2>3, <2>5, <2>6
<1> QED BY <1>1, <1>4, <1>5

\* The file right after a frame is written: the frame behind the cursor.
LEMMA WrittenFiles ==
  ASSUME LogInv, AppendInv, StaleInv, FilesInv, NEW k \in Conns, FrameWritten(k)
  PROVE  FilesInv'
<1>1. PICK c \in Channels, n \in Nat, g \in Gens : Written(k, c, n, g)
  BY WrittenCase
<1>2. /\ handler'[k].st = "committing" /\ handler'[k].frame = Frame(c, n)
      /\ \A j \in Conns \cup {Rest} : j # k => handler'[j] = handler[j]
      /\ file' = [file EXCEPT ![c] = Append(@, n)]
      /\ store'[g].last = store[g].last /\ n = store[g].last[c] + 1 /\ hub' = hub
  BY <1>1 DEF Written
<1>3. hub = g /\ g # None /\ \A j \in Conns : handler[j].st # "committing"
  BY <1>1, WritesAtHub, ServerTypes
<1>4. \A d \in Channels : InFlight(d) = 0
  BY <1>3 DEF InFlight, Committing
<1>5. InFlight(c)' = 1 /\ \A d \in Channels : d # c => InFlight(d)' = 0
  BY <1>2, <1>3 DEF InFlight, Committing, Frame
<1> SUFFICES ASSUME NEW d \in Channels
             PROVE  /\ \A i \in 1..Len(file'[d]) : file'[d][i] = i - 1
                    /\ Len(file'[d]) = store'[g].last[d] + 1 + InFlight(d)'
  BY <1>2, <1>3 DEF FilesInv
<1>6. file \in [Channels -> Seq(Int)] /\ file[d] \in Seq(Int) /\ Len(file[d]) \in Nat
      /\ store[g].last[d] \in Int
  BY FileTypes, StoreCursors DEF LogInv, DurableShape
<1>7. Len(file[d]) = store[g].last[d] + 1 /\ \A i \in 1..Len(file[d]) : file[d][i] = i - 1
  BY <1>3, <1>4, <1>6 DEF FilesInv
<1>8. CASE d # c
  <2>1. file'[d] = file[d]
    BY <1>2, <1>6, <1>8
  <2>2. InFlight(d)' = 0 /\ store'[g].last[d] = store[g].last[d]
    BY <1>2, <1>5, <1>8
  <2>3. store[g].last[d] + 1 + 0 = store[g].last[d] + 1
    BY <1>6
  <2> QED BY <1>7, <2>1, <2>2, <2>3
<1>9. CASE d = c
  <2>1. file'[c] = Append(file[c], n)
    BY <1>2, <1>6
  <2>2. n \in Int
    OBVIOUS
  <2>3. /\ Len(Append(file[c], n)) = Len(file[c]) + 1 /\ Append(file[c], n)[Len(file[c]) + 1] = n
        /\ \A i \in 1..Len(file[c]) : Append(file[c], n)[i] = file[c][i]
    BY <1>6, <1>9, <2>2, SeqElements
  <2>4. Len(file'[c]) = store'[g].last[c] + 1 + InFlight(c)'
    BY <1>2, <1>5, <1>6, <1>7, <1>9, <2>1, <2>3
  <2>5. \A i \in 1..(Len(file[c]) + 1) : i = Len(file[c]) + 1 \/ i \in 1..Len(file[c])
    BY <1>6, <1>9
  <2>6. ASSUME NEW i \in 1..Len(file'[c]) PROVE file'[c][i] = i - 1
    <3>1. i \in 1..(Len(file[c]) + 1)
      BY <2>1, <2>3, <2>6
    <3>2. CASE i = Len(file[c]) + 1
      <4>1. file'[c][i] = n
        BY <2>1, <2>3, <3>2
      <4>2. i - 1 = n
        BY <1>2, <1>6, <1>7, <1>9, <3>2
      <4> QED BY <4>1, <4>2
    <3>3. CASE i \in 1..Len(file[c])
      <4>1. file'[c][i] = file[c][i]
        BY <2>1, <2>3, <3>3
      <4> QED BY <1>7, <1>9, <3>3, <4>1
    <3> QED BY <2>5, <3>1, <3>2, <3>3
  <2> QED BY <1>9, <2>4, <2>6
<1> QED BY <1>8, <1>9

\* The files after the commit: the same, now up to the cursor; or, if it fails, cut back to it.
LEMMA CommitFiles ==
  ASSUME LogInv, AppendInv, StaleInv, FilesInv, NEW k \in Conns, CommitOk(k) \/ CommitFails(k)
  PROVE  FilesInv'
<1>1. handler[k].st = "committing"
  BY DEF CommitOk, CommitFails, Serving
<1>2. PICK c \in Channels, n \in Nat, g \in Gens :
        /\ handler[k].frame = Frame(c, n) /\ handler[k].gen = g /\ n = store[g].last[c] + 1
        /\ Committed(k, c, n, g) \/ Failed(k, c, n, g)
  <2>1. CASE CommitOk(k)
    <3>1. PICK c \in Channels, n \in Nat, g \in Gens : Committed(k, c, n, g)
      BY <2>1, CommittedCase
    <3>2. /\ handler[k].frame = Frame(c, n) /\ handler[k].gen = g /\ n = store[g].last[c] + 1
          /\ Committed(k, c, n, g) \/ Failed(k, c, n, g)
      BY <3>1 DEF Committed
    <3> QED BY <3>2
  <2>2. CASE CommitFails(k)
    <3>1. PICK c \in Channels, n \in Nat, g \in Gens : Failed(k, c, n, g)
      BY <2>2, FailedCase
    <3>2. /\ handler[k].frame = Frame(c, n) /\ handler[k].gen = g /\ n = store[g].last[c] + 1
          /\ Committed(k, c, n, g) \/ Failed(k, c, n, g)
      BY <3>1 DEF Failed
    <3> QED BY <3>2
  <2> QED BY <2>1, <2>2
<1>3. hub = g /\ g # None /\ \A j \in Conns : handler[j].st = "committing" => j = k
  BY <1>1, <1>2, CommitsAtHub, CommitsAlone, ServerTypes
<1>4. InFlight(c) = 1 /\ \A d \in Channels : d # c => InFlight(d) = 0
  BY <1>1, <1>2, <1>3 DEF InFlight, Committing, Frame
<1>5. /\ hub' = hub /\ handler'[k].st # "committing"
      /\ \A j \in Conns \cup {Rest} : j # k => handler'[j] = handler[j]
  BY <1>2 DEF Committed, Failed, Closed
<1>6. \A d \in Channels : InFlight(d)' = 0
  BY <1>3, <1>5 DEF InFlight, Committing
<1> SUFFICES ASSUME NEW d \in Channels
             PROVE  /\ \A i \in 1..Len(file'[d]) : file'[d][i] = i - 1
                    /\ Len(file'[d]) = store'[g].last[d] + 1
  <2>1. store[g].last \in [Channels -> Int]
    BY ServerTypes DEF StoreShape, Cursors
  <2>2. store'[g].last = store[g].last \/ store'[g].last = [store[g].last EXCEPT ![c] = n]
    BY <1>2 DEF Committed, Failed
  <2>3. \A d \in Channels : store'[g].last[d] + 1 + 0 = store'[g].last[d] + 1
    BY <2>1, <2>2
  <2> QED BY <1>3, <1>5, <1>6, <2>3 DEF FilesInv
<1>7. file \in [Channels -> Seq(Int)] /\ file[d] \in Seq(Int) /\ Len(file[d]) \in Nat
      /\ store[g].last \in [Channels -> Int]
  BY FileTypes, ServerTypes DEF LogInv, DurableShape, StoreShape, Cursors
<1>8. /\ \A i \in 1..Len(file[d]) : file[d][i] = i - 1
      /\ Len(file[d]) = store[g].last[d] + 1 + InFlight(d)
  BY <1>3 DEF FilesInv
<1>9. CASE Committed(k, c, n, g)
  <2>1. file' = file /\ store'[g].last = [store[g].last EXCEPT ![c] = n]
    BY <1>9 DEF Committed
  <2>2. CASE d # c
    <3>1. store'[g].last[d] = store[g].last[d] /\ InFlight(d) = 0
      BY <1>4, <1>7, <2>1, <2>2
    <3>2. store[g].last[d] + 1 + 0 = store[g].last[d] + 1
      BY <1>7
    <3> QED BY <1>8, <2>1, <3>1, <3>2
  <2>3. CASE d = c
    <3>1. store'[g].last[d] = n /\ InFlight(d) = 1
      BY <1>4, <1>7, <2>1, <2>3
    <3>2. Len(file[d]) = n + 1
      BY <1>2, <1>7, <1>8, <2>3, <3>1
    <3> QED BY <1>8, <2>1, <3>1, <3>2
  <2> QED BY <2>2, <2>3
<1>10. CASE Failed(k, c, n, g)
  <2>1. file' = [file EXCEPT ![c] = Truncate(@, n)] /\ store'[g].last = store[g].last
    BY <1>10 DEF Failed
  <2>2. CASE d # c
    <3>1. file'[d] = file[d] /\ InFlight(d) = 0
      BY <1>4, <1>7, <2>1, <2>2
    <3>2. store[g].last[d] + 1 + 0 = store[g].last[d] + 1
      BY <1>7
    <3> QED BY <1>8, <2>1, <3>1, <3>2
  <2>3. CASE d = c
    <3>1. Len(file[c]) = n + 1
      BY <1>2, <1>4, <1>7, <1>8, <2>3
    <3>2. file'[c] = SubSeq(file[c], 1, n)
      BY <1>7, <2>1, <2>3, <3>1 DEF Truncate
    <3>3. Len(SubSeq(file[c], 1, n)) = n /\ \A i \in 1..n : SubSeq(file[c], 1, n)[i] = file[c][i]
      BY <1>7, <2>3, <3>1, SeqElements
    <3> QED BY <1>2, <1>8, <2>1, <2>3, <3>1, <3>2, <3>3
  <2> QED BY <2>2, <2>3
<1> QED BY <1>2, <1>9, <1>10

\* Every step keeps FilesInv.
LEMMA FilesStep ==
  ASSUME LogInv, AppendInv, StaleInv, FilesInv, Next
  PROVE  FilesInv'
<1>1. CASE ServerCrash
  BY <1>1, DieCase DEF ServerCrash, FilesInv
<1>2. CASE PowerLoss
  <2>1. hub' = None
    BY <1>2, DieCase DEF PowerLoss
  <2>2. ASSUME NEW c \in Channels PROVE \A i \in 1..Len(file'[c]) : file'[c][i] = i - 1
    <3>1. synced[c] \in Nat /\ file[c] \in Seq(Int) /\ Len(file[c]) \in Nat
      BY FileTypes DEF LogInv, DurableShape
    <3>2. PICK n \in synced[c]..Len(file[c]) : file'[c] = SubSeq(file[c], 1, n)
      BY <1>2 DEF PowerLoss
    <3>3. n \in 0..Len(file[c])
      BY <3>1
    <3>4. Len(SubSeq(file[c], 1, n)) = n /\ \A i \in 1..n : SubSeq(file[c], 1, n)[i] = file[c][i]
      BY <3>1, <3>3, SeqElements
    <3>5. \A i \in 1..Len(file[c]) : file[c][i] = i - 1
      BY DEF FilesInv
    <3>6. \A i \in 1..n : SubSeq(file[c], 1, n)[i] = i - 1
      BY <3>1, <3>3, <3>4, <3>5
    <3> QED BY <3>2, <3>4, <3>6
  <2> QED BY <2>1, <2>2 DEF FilesInv
<1> QED BY <1>1, <1>2, QuietFiles, HelloFiles, WrittenFiles, CommitFiles DEF Busy

-----------------------------------------------------------------------------
(* What a cursor may say only grows *)

\* The seqs indexed for a channel were recorded.
LEMMA SeqsRecorded ==
  ASSUME LogInv, NEW c \in Channels, NEW s \in Seqs(c)
  PROVE  s \in Nat /\ s < recorded[c] /\ recorded[c] \in Nat
<1>1. recorded[c] \in Nat
  BY DEF LogInv, ClientShape
<1>2. PICK n \in 0..recorded[c] : Seqs(c) = 0..(n - 1)
  BY DEF LogInv, IndexContiguous
<1> QED BY <1>1, <1>2

\* Without an ingest, the file or a power loss vouches for what a store had vouched for.
LEMMA BoundLeft ==
  ASSUME LogInv, Next, FilesInv, hub' = None, file' = file \/ budget'["power"] > 0,
         NEW c \in Channels, NEW s \in Seqs(c), s < Bound(c)
  PROVE  s < Bound(c)'
<1>1. /\ s \in Nat /\ s < recorded[c] /\ recorded[c] \in Nat /\ recorded'[c] \in Nat
      /\ recorded[c] <= recorded'[c]
  BY SeqsRecorded, SeqsStep, RecordedStep
<1>2. budget["power"] \in Nat /\ budget'["power"] \in Nat /\ budget["power"] <= budget'["power"]
  BY BudgetStep DEF Faults
<1>3. CASE budget'["power"] > 0
  <2>1. Bound(c)' = recorded'[c]
    BY <1>2, <1>3 DEF Bound
  <2> QED BY <1>1, <2>1
<1>4. CASE budget'["power"] = 0
  <2>1. Bound(c)' = Len(file[c]) /\ budget["power"] = 0 /\ Len(file[c]) \in Nat
    BY <1>2, <1>4, FileTypes DEF Bound
  <2>2. CASE hub = None
    BY <2>1, <2>2 DEF Bound
  <2>3. CASE hub # None
    <3>1. hub \in Gens /\ store[hub].last[c] \in Int
      BY <2>3, ServerTypes, StoreCursors
    <3>2. Len(file[c]) = store[hub].last[c] + 1 + InFlight(c) /\ InFlight(c) \in {0, 1}
      BY <2>3 DEF FilesInv, InFlight
    <3>3. s < store[hub].last[c] + 1
      BY <2>3 DEF Bound
    <3> QED BY <1>1, <2>1, <3>1, <3>2, <3>3
  <2> QED BY <2>2, <2>3
<1> QED BY <1>2, <1>3, <1>4

\* load() has the whole index.
LEMMA BoundLoaded ==
  ASSUME LogInv, AppendInv, NEW k \in Conns, NEW g \in Gens, HelloAccepted(k, g), hub = None,
         NEW c \in Channels, NEW s \in Seqs(c)
  PROVE  s < Bound(c)'
<1>1. hub' = g /\ g # None /\ store'[g].last = IndexedCursor
  BY HelloCases, ServerTypes DEF HelloCase
<1>2. Bound(c)' = IndexedCursor[c] + 1
  BY <1>1 DEF Bound
<1> QED BY <1>2, LoadedCursor, SeqsRecorded

\* What a cursor may say, it may still say after every step.
LEMMA BoundStep ==
  ASSUME LogInv, LogInv', AppendInv, FilesInv, StaleInv, Next,
         NEW c \in Channels, NEW s \in Seqs(c), s < Bound(c)
  PROVE  s < Bound(c)'
<1>1. hub \in Gens \cup {None}
  BY ServerTypes
<1>2. \A g \in Gens : store[g].last[c] \in Int /\ store'[g].last[c] \in Int
  <2>1. \A g \in Gens : store'[g].last[c] \in Int
    BY DEF LogInv, ServerShape, StoreShape, Cursors
  <2> QED BY <2>1, StoreCursors
<1>3. ASSUME hub' = hub, hub # None, store[hub].last[c] <= store'[hub].last[c] PROVE s < Bound(c)'
  BY <1>1, <1>2, <1>3, SeqsRecorded DEF Bound
<1>4. CASE ~Unsettling
  <2>1. Settled
    BY <1>4, SettledStep
  <2>2. CASE hub # None
    BY <1>1, <1>3, <2>1, <2>2 DEF Settled
  <2>3. CASE hub = None
    <3>1. \A j \in Conns : ~FrameWritten(j) /\ ~CommitOk(j) /\ ~CommitFails(j)
      <4> SUFFICES ASSUME NEW j \in Conns, FrameWritten(j) \/ CommitOk(j) \/ CommitFails(j)
                   PROVE  FALSE
        OBVIOUS
      <4>1. CASE FrameWritten(j)
        <5>1. PICK d \in Channels, n \in Nat, g \in Gens : Written(j, d, n, g)
          BY <4>1, WrittenCase
        <5> QED BY <2>3, <5>1, WritesAtHub, ServerTypes
      <4>2. CASE CommitOk(j) \/ CommitFails(j)
        <5>1. handler[j].st = "committing"
          BY <4>2 DEF CommitOk, CommitFails, Serving
        <5> QED BY <2>3, <5>1, CommitsAtHub, ServerTypes
      <4> QED BY <4>1, <4>2
    <3>2. ~Busy
      BY <1>4, <3>1 DEF Unsettling, Busy
    <3>3. file' = file
      BY <3>2, QuietStep DEF Quiet
    <3> QED BY <2>1, <2>3, <3>3, BoundLeft DEF Settled
  <2> QED BY <2>2, <2>3
<1>5. ASSUME NEW k \in Conns, NEW g \in Gens, HelloAccepted(k, g) PROVE s < Bound(c)'
  <2>1. hub' = g /\ \/ hub = g /\ store'[g].last = store[g].last
                    \/ hub = None
    BY <1>5, HelloCases DEF HelloCase
  <2>2. g # None
    BY ServerTypes
  <2> QED BY <1>2, <1>3, <1>5, <2>1, <2>2, BoundLoaded
<1>6. CASE (\E k \in Conns : ProducerEnds(k)) \/ RestEnds \/ WatchdogEnds
  <2>1. hub' = None /\ file' = file
    BY <1>6 DEF ProducerEnds, RestEnds, WatchdogEnds, EndMark
  <2> QED BY <2>1, BoundLeft
<1>7. CASE Stop
  <2>1. hub' = hub /\ file' = file /\ store' = store
    BY <1>7 DEF Stop, serverVars, durableVars
  <2> QED BY <1>1, <1>2, <1>3, <2>1, BoundLeft
<1>8. CASE ServerCrash
  <2>1. hub' = None /\ file' = file
    BY <1>8, DieCase DEF ServerCrash
  <2> QED BY <2>1, BoundLeft
<1>9. CASE PowerLoss
  <2>1. hub' = None /\ budget'["power"] > 0
    BY <1>9, DieCase, BudgetStep DEF PowerLoss
  <2> QED BY <2>1, BoundLeft
<1> QED BY <1>4, <1>5, <1>6, <1>7, <1>8, <1>9 DEF Unsettling

\* A committed frame is in the hub's cursor.
LEMMA CommitHeld ==
  ASSUME LogInv, AppendInv, StaleInv, Next, NEW k \in Conns, CommitOk(k)
  PROVE  \E c \in Channels :
           /\ c = handler[k].frame.c
           /\ handler[k].frame.s \in Seqs(c)' /\ handler[k].frame.s < Bound(c)'
<1>1. PICK c \in Channels, n \in Nat, g \in Gens : Committed(k, c, n, g)
  BY CommittedCase
<1>2. /\ handler[k].st = "committing" /\ handler[k].gen = g /\ handler[k].frame = Frame(c, n)
      /\ hub' = hub /\ store'[g].last = [store[g].last EXCEPT ![c] = n] /\ IndexGrows(c, n)
  BY <1>1 DEF Committed
<1>3. hub = g /\ g # None
  BY <1>2, CommitsAtHub, ServerTypes
<1>4. store[g].last \in [Channels -> Int]
  BY ServerTypes DEF StoreShape, Cursors
<1>5. Bound(c)' = n + 1
  BY <1>2, <1>3, <1>4 DEF Bound
<1>6. n \in Seqs(c)'
  <2>1. Seqs(c)' = 0..n
    BY <1>2, SeqsStep
  <2> QED BY <2>1
<1>7. handler[k].frame.c = c /\ handler[k].frame.s = n
  BY <1>2 DEF Frame
<1> QED BY <1>5, <1>6, <1>7

\* Every step keeps what the cursors in flight and in the outbox say within what is held.
LEMMA HeldStep ==
  ASSUME LogInv, LogInv', AppendInv, FilesInv, StaleInv, Shaped(Held, RecordedFrames), Next
  PROVE  Shaped(Held, RecordedFrames)'
<1>1. /\ \A c \in Channels : Seqs(c) \subseteq Seqs(c)'
      /\ \A c \in Channels : recorded[c] <= recorded'[c]
  BY SeqsStep
<1>2. PICK V, F : V = Held' /\ F = RecordedFrames'
  OBVIOUS
<1>3. recorded \in [Channels -> Nat] /\ recorded' \in [Channels -> Nat]
  BY DEF LogInv, ClientShape
<1>4. \A c \in Channels : V[c] = {s \in Seqs(c)' : s < Bound(c)'} \cup {None}
  BY <1>2 DEF Held
<1>5. Admissible(V, F)
  <2>1. \A c \in Channels : Seqs(c)' \subseteq Nat
    BY DEF LogInv, IndexContiguous
  <2>2. V = [c \in Channels |-> {s \in Seqs(c)' : s < Bound(c)'} \cup {None}] /\ F \subseteq Frames
    BY <1>2 DEF Held, RecordedFrames, Frames
  <2> QED BY <2>1, <2>2 DEF Admissible, None
<1>6. Held \in [Channels -> SUBSET Int]
  <2>1. \A c \in Channels : Seqs(c) \subseteq Nat
    BY DEF LogInv, IndexContiguous
  <2> QED BY <2>1 DEF Held, None
<1>7. RecordedFrames \subseteq F
  <2>1. \A f \in Frames : f.s < recorded[f.c] => f.s < recorded'[f.c]
    BY <1>1, <1>3 DEF Frames
  <2> QED BY <1>2, <2>1 DEF RecordedFrames
<1>8. \A c \in Channels : Held[c] \subseteq V[c]
  <2> SUFFICES ASSUME NEW c \in Channels, NEW s \in Held[c], s # None PROVE s \in V[c]
    BY <1>4
  <2>1. s \in Seqs(c) /\ s < Bound(c)
    BY DEF Held
  <2>2. s < Bound(c)'
    BY <2>1, BoundStep
  <2> QED BY <1>1, <1>4, <2>1, <2>2
<1>9. Shaped(V, F)
  <2>1. V \in [Channels -> SUBSET Int]
    BY <1>5 DEF Admissible
  <2> QED BY <1>6, <1>7, <1>8, <2>1, ShapeMono DEF Shaped
<1>10. HandlersTyped
  BY DEF LogInv, HandlersPrepared, Prepared, HandlersTyped
<1>11. ASSUME hub = None, hub' # None PROVE \A c \in Channels : Seqs(c) \subseteq V[c]
  <2>1. PICK k \in Conns, g \in Gens : HelloAccepted(k, g)
    <3>1. \E k \in Conns, g \in Gens : HelloAccepted(k, g)
      <4>1. CASE ~Unsettling
        BY <1>11, <4>1, SettledStep DEF Settled
      <4>2. CASE ~Busy
        BY <1>11, <4>2, HubStep
      <4>3. CASE ServerCrash \/ PowerLoss
        BY <1>11, <4>3, DieCase DEF ServerCrash, PowerLoss
      <4>4. CASE Unsettling /\ Busy
        BY <1>11, <4>2, <4>3, <4>4 DEF Unsettling, Stop, ProducerEnds, RestEnds, WatchdogEnds, EndMark, serverVars
      <4> QED BY <4>1, <4>2, <4>4
    <3> QED BY <3>1
  <2>2. ASSUME NEW c \in Channels, NEW s \in Seqs(c) PROVE s < Bound(c)'
    BY <1>11, <2>1, BoundLoaded
  <2> QED BY <1>1, <1>4, <2>2
<1>12. ASSUME NEW k \in Conns, CommitOk(k) PROVE handler[k].frame.s \in V[handler[k].frame.c]
  <2>1. PICK c \in Channels :
          /\ c = handler[k].frame.c
          /\ handler[k].frame.s \in Seqs(c)' /\ handler[k].frame.s < Bound(c)'
    BY <1>12, CommitHeld
  <2>2. handler[k].frame.s \in V[c]
    BY <1>4, <2>1
  <2> QED BY <2>1, <2>2
<1>13. IndexContiguous
  BY DEF LogInv
<1>14. Shaped(V, F)'
  BY <1>5, <1>7, <1>9, <1>10, <1>11, <1>12, <1>13, ShapeStep
<1> QED BY <1>2, <1>14 DEF Shaped, ClientShape, NetShape, ServerShape
-----------------------------------------------------------------------------
(* QueueInv: what a step does to the queue of one connection *)

\* Nothing is recorded once the user has asked to end, and the request stands until a stop.
LEMMA RequestKept ==
  ASSUME LogInv, AppendInv, StaleInv, Next, ~Stop, endRequested
  PROVE  endRequested' /\ recorded' = recorded
<1>1. CASE ~Unsettling
  BY <1>1, SettledStep DEF Settled
<1>2. CASE ServerCrash \/ PowerLoss
  BY <1>2, DieCase DEF ServerCrash, PowerLoss
<1>3. CASE RestEnds \/ WatchdogEnds
           \/ \E k \in Conns : ProducerEnds(k) \/ \E g \in Gens : HelloAccepted(k, g)
  BY <1>3 DEF RestEnds, WatchdogEnds, ProducerEnds, HelloAccepted, clientVars
<1> QED BY <1>1, <1>2, <1>3 DEF Unsettling

\* Every handler past hello moves on, whatever step is taken.
LEMMA MovesStep ==
  ASSUME LogInv, LogInv', AppendInv, StaleInv, Next, NEW k \in Conns,
         handler[k].st \in PastStates, handler'[k].st \in PastStates
  PROVE  /\ MovesOn(k) /\ handler[k].gen \in Gens
         /\ \A g \in Gens : \A d \in Channels : store'[g].last[d] \in Int
<1>1. handler[k].gen \in Gens
  BY DEF LogInv, HandlersPrepared, Prepared, PastStates
<1>2. \A g \in Gens : \A d \in Channels : store'[g].last[d] \in Int
  BY DEF LogInv, ServerShape, StoreShape, Cursors
<1>3. handler'[k].gen = handler[k].gen
      /\ \A c \in Channels : store[handler[k].gen].last[c] <= store'[handler[k].gen].last[c]
  <2>1. \A c \in Channels : store[handler[k].gen].last[c] <= store[handler[k].gen].last[c]
    BY <1>1, StoreCursors
  <2>2. CASE ~Unsettling
    BY <1>1, <2>2, SettledStep DEF Settled
  <2>3. CASE ServerCrash \/ PowerLoss
    BY <2>3, DieCase DEF ServerCrash, PowerLoss, PastStates
  <2>4. ASSUME NEW j \in Conns, NEW g \in Gens, HelloAccepted(j, g)
        PROVE  handler'[k].gen = handler[k].gen
               /\ store'[handler[k].gen].last = store[handler[k].gen].last
    BY <1>1, <2>4, HelloCases DEF HelloCase, PastStates
  <2>5. ASSUME NEW j \in Conns, ProducerEnds(j)
        PROVE  handler'[k].gen = handler[k].gen /\ store' = store
    BY <2>5, ServerTypes DEF ProducerEnds, EndMark, HandlerShape
  <2>6. CASE RestEnds \/ WatchdogEnds
    BY <2>1, <2>6, DistinctIdentities, ServerTypes DEF RestEnds, WatchdogEnds, EndMark
  <2>7. CASE Stop
    BY <2>1, <2>7 DEF Stop, serverVars
  <2> QED BY <2>1, <2>2, <2>3, <2>4, <2>5, <2>6, <2>7 DEF Unsettling
<1>4. ASSUME NEW c \in Channels, NEW s \in Nat, handler[k].st = "committing",
             handler[k].frame = Frame(c, s)
      PROVE  \/ handler'[k].st = "committing" /\ handler'[k].frame = Frame(c, s)
             \/ s <= store'[handler[k].gen].last[c]
  <2>1. CASE ~Busy
    BY <1>4, <2>1, QuietStep DEF Quiet
  <2>2. CASE ServerCrash \/ PowerLoss
    BY <2>2, DieCase DEF ServerCrash, PowerLoss, PastStates
  <2>3. ASSUME NEW j \in Conns, NEW g \in Gens, HelloAccepted(j, g) PROVE handler'[k] = handler[k]
    BY <1>4, <2>3, HelloCases DEF HelloCase
  <2>4. ASSUME NEW j \in Conns, FrameWritten(j) PROVE handler'[k] = handler[k]
    <3>1. PICK d \in Channels, n \in Nat, g \in Gens : Written(j, d, n, g)
      BY <2>4, WrittenCase
    <3> QED BY <1>4, <3>1 DEF Written
  <2>5. ASSUME NEW j \in Conns, CommitFails(j) PROVE handler'[k] = handler[k]
    <3>1. PICK d \in Channels, n \in Nat, g \in Gens : Failed(j, d, n, g)
      BY <2>5, FailedCase
    <3> QED BY <3>1 DEF Failed, Closed, PastStates
  <2>6. ASSUME NEW j \in Conns, CommitOk(j)
        PROVE  handler'[k] = handler[k] \/ s <= store'[handler[k].gen].last[c]
    <3>1. PICK d \in Channels, n \in Nat, g \in Gens : Committed(j, d, n, g)
      BY <2>6, CommittedCase
    <3>2. CASE j # k
      BY <3>1, <3>2 DEF Committed
    <3>3. CASE j = k
      <4>1. handler[k].gen = g /\ Frame(d, n) = Frame(c, s)
            /\ store'[g].last = [store[g].last EXCEPT ![d] = n]
        BY <1>4, <3>1, <3>3 DEF Committed
      <4>2. d = c /\ n = s
        BY <4>1 DEF Frame
      <4>3. store[g].last \in [Channels -> Int]
        BY ServerTypes DEF StoreShape, Cursors
      <4> QED BY <4>1, <4>2, <4>3
    <3> QED BY <3>2, <3>3
  <2> QED BY <1>4, <2>1, <2>2, <2>3, <2>4, <2>5, <2>6 DEF Busy
<1> QED BY <1>1, <1>2, <1>3, <1>4 DEF MovesOn, Committing
\* The seqs before a message are numbers.
LEMMA BeforeNat ==
  ASSUME LogInv, NEW m \in UpMessages(RecordedFrames), NEW c \in Channels, NEW s \in Before(m, c)
  PROVE  s \in Nat
<1>1. CASE m.t = "frame"
  <2>1. m \in RecordedFrames
    BY <1>1 DEF UpMessages
  <2> QED BY <1>1, <2>1 DEF Before, RecordedFrames, Frames
<1>2. CASE m.t # "frame"
  <2>1. recorded[c] \in Nat
    BY DEF LogInv, ClientShape
  <2> QED BY <1>2, <2>1 DEF Before
<1> QED BY <1>1, <1>2

\* The messages of a queue, and those of what is left of it.
LEMMA QueueElements ==
  ASSUME LogInv, NEW k \in Conns
  PROVE  /\ Len(up[k]) \in Nat /\ \A j \in 1..Len(up[k]) : up[k][j] \in UpMessages(RecordedFrames)
         /\ up[k] # <<>> => /\ Len(up[k]) > 0 /\ Head(up[k]) = up[k][1]
                            /\ Len(Tail(up[k])) = Len(up[k]) - 1
                            /\ \A j \in 1..(Len(up[k]) - 1) : Tail(up[k])[j] = up[k][j + 1]
         /\ \A m \in UpMessages(RecordedFrames) :
              /\ Len(Append(up[k], m)) = Len(up[k]) + 1 /\ Append(up[k], m)[Len(up[k]) + 1] = m
              /\ \A j \in 1..Len(up[k]) : Append(up[k], m)[j] = up[k][j]
         /\ \A n \in 0..Len(up[k]) :
              /\ Len(Append(SubSeq(up[k], 1, n), Gone)) = n + 1
              /\ Append(SubSeq(up[k], 1, n), Gone)[n + 1] = Gone
              /\ \A j \in 1..n : Append(SubSeq(up[k], 1, n), Gone)[j] = up[k][j]
<1> DEFINE U == UpMessages(RecordedFrames)
<1>1. up[k] \in Seq(U) /\ End \in U /\ Gone \in U
  BY QueueTypes DEF UpMessages, End, Gone
<1> HIDE DEF U
<1>2. \A n \in 0..Len(up[k]) : SubSeq(up[k], 1, n) \in Seq(U)
  BY <1>1, SeqShrinks
<1>3. /\ Len(up[k]) \in Nat /\ \A j \in 1..Len(up[k]) : up[k][j] \in U
      /\ up[k] # <<>> => /\ Len(up[k]) > 0 /\ Head(up[k]) = up[k][1]
                         /\ Len(Tail(up[k])) = Len(up[k]) - 1
                         /\ \A j \in 1..(Len(up[k]) - 1) : Tail(up[k])[j] = up[k][j + 1]
  BY <1>1, SeqElements
<1>4. \A m \in U : /\ Len(Append(up[k], m)) = Len(up[k]) + 1 /\ Append(up[k], m)[Len(up[k]) + 1] = m
                   /\ \A j \in 1..Len(up[k]) : Append(up[k], m)[j] = up[k][j]
  BY <1>1, SeqElements
<1>5. \A n \in 0..Len(up[k]) :
              /\ Len(Append(SubSeq(up[k], 1, n), Gone)) = n + 1
              /\ Append(SubSeq(up[k], 1, n), Gone)[n + 1] = Gone
              /\ \A j \in 1..n : Append(SubSeq(up[k], 1, n), Gone)[j] = up[k][j]
  <2> TAKE n \in 0..Len(up[k])
  <2>1. SubSeq(up[k], 1, n) \in Seq(U) /\ Len(SubSeq(up[k], 1, n)) = n
        /\ \A j \in 1..n : SubSeq(up[k], 1, n)[j] = up[k][j]
    BY <1>1, <1>2, SeqElements
  <2>2. /\ Len(Append(SubSeq(up[k], 1, n), Gone)) = n + 1
        /\ Append(SubSeq(up[k], 1, n), Gone)[n + 1] = Gone
        /\ \A j \in 1..n : Append(SubSeq(up[k], 1, n), Gone)[j] = SubSeq(up[k], 1, n)[j]
    BY <1>1, <2>1, SeqElements
  <2> QED BY <2>1, <2>2
<1> QED BY <1>3, <1>4, <1>5 DEF U

\* A message follows its frames as long as it and what is in front of it stay in the queue.
LEMMA FollowsKept ==
  ASSUME LogInv, LogInv', AppendInv, StaleInv, Next, ~Stop, NEW k \in Conns,
         handler[k].st \in PastStates, handler'[k].st \in PastStates,
         NEW j \in 1..Len(up[k]), \A i \in 1..j : up'[k][i] = up[k][i],
         Follows(k, j)
  PROVE  Follows(k, j)'
<1>1. /\ MovesOn(k) /\ handler[k].gen \in Gens
      /\ \A g \in Gens : \A d \in Channels : store'[g].last[d] \in Int
  BY MovesStep
<1>2. j \in Nat /\ j <= Len(up[k]) + 1 /\ j \in 1..j /\ Len(up[k]) \in Nat
  BY QueueElements
<1>3. up'[k][j] = up[k][j] /\ up[k][j] \in UpMessages(RecordedFrames)
  BY <1>2, QueueElements
<1>4. up[k][j].t = "end" => endRequested' /\ recorded' = recorded
  BY RequestKept DEF Follows
<1>5. ASSUME NEW c \in Channels, NEW s \in Before(up[k][j], c)' PROVE Covered(k, c, s, j)'
  <2>1. s \in Before(up[k][j], c)
    BY <1>3, <1>4, <1>5 DEF Before
  <2>2. s \in Nat /\ Covered(k, c, s, j)
    BY <1>3, <2>1, BeforeNat DEF Follows
  <2>3. \A i \in 1..(j - 1) : up'[k][i] = up[k][i]
    BY <1>2
  <2> QED BY <1>1, <1>2, <2>2, <2>3, CoveredKept
<1> QED BY <1>3, <1>4, <1>5 DEF Follows

\* So does the next one when the message in front of the queue is handled.
LEMMA FollowsPopped ==
  ASSUME LogInv, LogInv', AppendInv, StaleInv, Next, ~Stop, NEW k \in Conns,
         handler[k].st \in PastStates, handler'[k].st \in PastStates,
         up[k] # <<>>, up'[k] = Tail(up[k]),
         \A c \in Channels, s \in Nat : Head(up[k]) = Frame(c, s) =>
           \/ handler'[k].st = "committing" /\ handler'[k].frame = Frame(c, s)
           \/ s <= store'[handler[k].gen].last[c],
         NEW j \in 1..(Len(up[k]) - 1), Follows(k, j + 1)
  PROVE  Follows(k, j)'
<1>1. /\ MovesOn(k) /\ handler[k].gen \in Gens
      /\ \A g \in Gens : \A d \in Channels : store'[g].last[d] \in Int
  BY MovesStep
<1>2. j \in Nat /\ j <= Len(up[k]) /\ j + 1 \in 1..Len(up[k]) /\ Len(up[k]) \in Nat
  BY QueueElements
<1>3. up'[k][j] = up[k][j + 1] /\ up[k][j + 1] \in UpMessages(RecordedFrames)
  BY <1>2, QueueElements
<1>4. up[k][j + 1].t = "end" => endRequested' /\ recorded' = recorded
  BY RequestKept DEF Follows
<1>5. ASSUME NEW c \in Channels, NEW s \in Before(up[k][j], c)' PROVE Covered(k, c, s, j)'
  <2>1. s \in Before(up[k][j + 1], c)
    BY <1>3, <1>4, <1>5 DEF Before
  <2>2. s \in Nat /\ Covered(k, c, s, j + 1)
    BY <1>3, <2>1, BeforeNat DEF Follows
  <2> QED BY <1>1, <1>2, <2>2, CoveredPopped
<1> QED BY <1>3, <1>4, <1>5 DEF Follows
\* The client sends connection k nothing out of turn: it has sent what is below its next frame, or
\* the store of the handler has it.
SendsOn(k) ==
  handler[k].st \in PastStates /\ conn' = k /\ client' = "connected" =>
    \A c \in Channels : \A s \in 0..(NextToSend(c)' - 1) :
      \/ s <= store[handler[k].gen].last[c]
      \/ conn = k /\ client = "connected" /\ s < NextToSend(c)
\* A handler still waiting for hello is left waiting.
WaitsOn(k) ==
  handler'[k].st = "accepted" =>
    /\ handler[k].st = "accepted"
    /\ conn' = k /\ client = "hello" =>
         client' = "hello" /\ (down'[k] = down[k] \/ down'[k] = Append(down[k], Close(FALSE)))

\* What the client may send next is a number.
LEMMA NextNumbers ==
  ASSUME LogInv, NEW c \in Channels
  PROVE  NextToSend(c) \in Int /\ acked[c] \in Int /\ next[c] \in Int
BY DEF LogInv, ClientShape, Cursors, NextToSend, MaxOf

\* A handler that waits for hello goes on waiting.
LEMMA GreetingKept ==
  ASSUME LogInv, NEW k \in Conns, Greeting(k), WaitsOn(k), conn' = k => conn = k,
         \A j \in 1..Len(up'[k]) : up'[k][j].t = "gone" \/ \E i \in 1..Len(up[k]) : up'[k][j] = up[k][i]
  PROVE  Greeting(k)'
<1> SUFFICES ASSUME handler'[k].st = "accepted"
             PROVE  /\ \A j \in 1..Len(up'[k]) : up'[k][j].t \in {"hello", "gone"}
                    /\ conn' = k => client' = "hello"
                                    /\ \A j \in 1..Len(down'[k]) : down'[k][j] = Close(FALSE)
  BY DEF Greeting
<1>1. handler[k].st = "accepted" /\ \A j \in 1..Len(up[k]) : up[k][j].t \in {"hello", "gone"}
  BY DEF WaitsOn, Greeting
<1>2. ASSUME conn' = k
      PROVE  client' = "hello" /\ \A j \in 1..Len(down'[k]) : down'[k][j] = Close(FALSE)
  <2>1. client = "hello" /\ \A j \in 1..Len(down[k]) : down[k][j] = Close(FALSE)
    BY <1>1, <1>2 DEF Greeting
  <2>2. client' = "hello" /\ (down'[k] = down[k] \/ down'[k] = Append(down[k], Close(FALSE)))
    BY <1>2, <2>1 DEF WaitsOn
  <2>3. /\ Len(down[k]) \in Nat /\ Len(Append(down[k], Close(FALSE))) = Len(down[k]) + 1
        /\ Append(down[k], Close(FALSE))[Len(down[k]) + 1] = Close(FALSE)
        /\ \A j \in 1..Len(down[k]) : Append(down[k], Close(FALSE))[j] = down[k][j]
    <3> DEFINE D == DownMessages(Known)  x == Close(FALSE)
    <3>1. down[k] \in Seq(D) /\ x \in D
      BY QueueTypes DEF DownMessages, Close
    <3> HIDE DEF D, x
    <3>2. /\ Len(down[k]) \in Nat /\ Len(Append(down[k], x)) = Len(down[k]) + 1
          /\ Append(down[k], x)[Len(down[k]) + 1] = x
          /\ \A j \in 1..Len(down[k]) : Append(down[k], x)[j] = down[k][j]
      BY <3>1, SeqElements
    <3> QED BY <3>2 DEF x
  <2>4. \A j \in 1..(Len(down[k]) + 1) : j = Len(down[k]) + 1 \/ j \in 1..Len(down[k])
    BY <2>3
  <2> QED BY <2>1, <2>2, <2>3, <2>4
<1>3. \A j \in 1..Len(up'[k]) : up'[k][j].t \in {"hello", "gone"}
  BY <1>1
<1> QED BY <1>2, <1>3

\* A step that leaves the queue as it is.
LEMMA QueueKept ==
  ASSUME LogInv, LogInv', AppendInv, StaleInv, Next, ~Stop, NEW k \in Conns, QueueSound(k),
         handler'[k].st \in PastStates => handler[k].st \in PastStates,
         up'[k] = up[k], conn' = k => conn = k, SendsOn(k), WaitsOn(k)
  PROVE  QueueSound(k)'
<1>1. ASSUME handler'[k].st \in PastStates
      PROVE  (\A j \in 1..Len(up[k]) : Follows(k, j)') /\ SentSoFar(k)'
  <2>1. handler[k].st \in PastStates /\ InOrder(k)
    BY <1>1 DEF QueueSound
  <2>2. (\A j \in 1..Len(up[k]) : Follows(k, j)) /\ SentSoFar(k)
    BY <2>1 DEF InOrder, Past, PastStates
  <2>3. /\ MovesOn(k) /\ handler[k].gen \in Gens
        /\ \A g \in Gens : \A d \in Channels : store'[g].last[d] \in Int
    BY <1>1, <2>1, MovesStep
  <2>4. ASSUME NEW j \in 1..Len(up[k]) PROVE Follows(k, j)'
    BY <1>1, <2>1, <2>2, FollowsKept
  <2>5. ASSUME conn' = k, client' = "connected", NEW c \in Channels,
               NEW s \in 0..(NextToSend(c)' - 1)
        PROVE  Covered(k, c, s, Len(up[k]) + 1)'
    <3>1. Len(up[k]) \in Nat /\ s \in Nat
      BY QueueElements
    <3>2. \/ s <= store[handler[k].gen].last[c]
          \/ conn = k /\ client = "connected" /\ s < NextToSend(c)
      BY <2>1, <2>5 DEF SendsOn
    <3>3. Covered(k, c, s, Len(up[k]) + 1)
      <4>1. CASE s <= store[handler[k].gen].last[c]
        BY <4>1 DEF Covered
      <4>2. CASE conn = k /\ client = "connected" /\ s < NextToSend(c)
        <5>1. s \in 0..(NextToSend(c) - 1)
          BY <3>1, <4>2, NextNumbers
        <5> QED BY <2>2, <4>2, <5>1 DEF SentSoFar
      <4> QED BY <3>2, <4>1, <4>2
    <3>4. \E n \in Nat : n = Len(up[k]) + 1
      BY <3>1
    <3>5. PICK n \in Nat : n = Len(up[k]) + 1
      BY <3>4
    <3>6. Covered(k, c, s, n)'
      BY <2>3, <3>1, <3>3, <3>5, CoveredKept
    <3>7. Len(up[k])' = Len(up[k])
      OBVIOUS
    <3> QED BY <3>5, <3>6, <3>7 DEF Covered
  <2> QED BY <2>4, <2>5 DEF SentSoFar
<1>2. InOrder(k)'
  BY <1>1 DEF InOrder, Past, PastStates
<1>3. Greeting(k)'
  BY GreetingKept DEF QueueSound
<1>4. conn' = k => \A j \in 1..Len(up'[k]) : up'[k][j].t # "gone"
  BY DEF QueueSound
<1> QED BY <1>2, <1>3, <1>4 DEF QueueSound

\* A handler past hello that takes the message in front of its queue.
LEMMA QueuePopped ==
  ASSUME LogInv, LogInv', AppendInv, StaleInv, Next, ~Stop, NEW k \in Conns, QueueSound(k),
         handler[k].st \in PastStates, handler'[k].st \in PastStates,
         up[k] # <<>>, up'[k] = Tail(up[k]), conn' = k => conn = k, SendsOn(k),
         \A c \in Channels, s \in Nat : Head(up[k]) = Frame(c, s) =>
           \/ handler'[k].st = "committing" /\ handler'[k].frame = Frame(c, s)
           \/ s <= store'[handler[k].gen].last[c]
  PROVE  QueueSound(k)'
<1>1. (\A j \in 1..Len(up[k]) : Follows(k, j)) /\ SentSoFar(k)
  BY DEF QueueSound, InOrder, Past, PastStates
<1>2. /\ MovesOn(k) /\ handler[k].gen \in Gens
      /\ \A g \in Gens : \A d \in Channels : store'[g].last[d] \in Int
  BY MovesStep
<1>3. /\ Len(up[k]) \in Nat /\ Len(up[k]) > 0 /\ Len(up'[k]) = Len(up[k]) - 1
      /\ \A j \in 1..(Len(up[k]) - 1) : up'[k][j] = up[k][j + 1]
  BY QueueElements
<1>4. ASSUME NEW j \in 1..(Len(up[k]) - 1) PROVE Follows(k, j)'
  <2>1. j + 1 \in 1..Len(up[k])
    BY <1>3
  <2> QED BY <1>1, <2>1, FollowsPopped
<1>5. ASSUME conn' = k, client' = "connected", NEW c \in Channels, NEW s \in 0..(NextToSend(c)' - 1)
      PROVE  Covered(k, c, s, Len(up[k]) + 1)'
  <2>1. s \in Nat
    OBVIOUS
  <2>2. \/ s <= store[handler[k].gen].last[c]
        \/ conn = k /\ client = "connected" /\ s < NextToSend(c)
    BY <1>5 DEF SendsOn
  <2>3. Covered(k, c, s, Len(up[k]) + 1)
    <3>1. CASE s <= store[handler[k].gen].last[c]
      BY <3>1 DEF Covered
    <3>2. CASE conn = k /\ client = "connected" /\ s < NextToSend(c)
      <4>1. s \in 0..(NextToSend(c) - 1)
        BY <2>1, <3>2, NextNumbers
      <4> QED BY <1>1, <3>2, <4>1 DEF SentSoFar
    <3> QED BY <2>2, <3>1, <3>2
  <2>4. PICK n \in Nat : n = Len(up[k])
    BY <1>3
  <2>5. Covered(k, c, s, n)'
    BY <1>2, <2>1, <2>3, <2>4, CoveredPopped
  <2>6. n = Len(up'[k]) + 1
    BY <1>3, <2>4
  <2> QED BY <2>5, <2>6 DEF Covered
<1>6. InOrder(k)'
  BY <1>3, <1>4, <1>5 DEF InOrder, SentSoFar
<1>7. Greeting(k)'
  BY DEF Greeting, PastStates
<1>8. conn' = k => \A j \in 1..Len(up'[k]) : up'[k][j].t # "gone"
  <2>1. \A j \in 1..(Len(up[k]) - 1) : j + 1 \in 1..Len(up[k])
    BY <1>3
  <2> QED BY <1>3, <2>1 DEF QueueSound
<1> QED BY <1>6, <1>7, <1>8 DEF QueueSound
\* The client sends the connection a message that comes next.
LEMMA QueuePushed ==
  ASSUME LogInv, LogInv', AppendInv, StaleInv, Next, ~Stop, NEW k \in Conns, QueueSound(k),
         handler[k].st \in PastStates, handler'[k].st \in PastStates,
         NEW m \in UpMessages(RecordedFrames), up'[k] = Append(up[k], m), m.t # "gone",
         conn = k, client = "connected", recorded' = recorded,
         m.t = "end" => endRequested,
         \A c \in Channels : \A s \in Before(m, c) : s < NextToSend(c),
         \A c \in Channels : \A s \in 0..(NextToSend(c)' - 1) : s < NextToSend(c) \/ m = Frame(c, s)
  PROVE  QueueSound(k)'
<1>1. (\A j \in 1..Len(up[k]) : Follows(k, j)) /\ SentSoFar(k)
  BY DEF QueueSound, InOrder, Past, PastStates
<1>2. /\ MovesOn(k) /\ handler[k].gen \in Gens
      /\ \A g \in Gens : \A d \in Channels : store'[g].last[d] \in Int
  BY MovesStep
<1>3. /\ Len(up[k]) \in Nat /\ Len(up'[k]) = Len(up[k]) + 1 /\ up'[k][Len(up[k]) + 1] = m
      /\ \A j \in 1..Len(up[k]) : up'[k][j] = up[k][j]
  BY QueueElements
<1>4. PICK n \in Nat : n = Len(up[k]) + 1
  BY <1>3
<1>5. ASSUME NEW c \in Channels, NEW s \in Nat, s < NextToSend(c) PROVE Covered(k, c, s, n)'
  <2>1. s \in 0..(NextToSend(c) - 1)
    BY <1>5, NextNumbers
  <2>2. Covered(k, c, s, n)
    BY <1>1, <1>4, <2>1 DEF SentSoFar
  <2> QED BY <1>2, <1>3, <1>4, <2>2, CoveredKept
<1>6. ASSUME NEW j \in 1..Len(up[k]) PROVE Follows(k, j)'
  <2>1. \A i \in 1..j : up'[k][i] = up[k][i]
    BY <1>3
  <2> QED BY <1>1, <2>1, FollowsKept
<1>7. Follows(k, n)'
  <2>1. up'[k][n] = m
    BY <1>3, <1>4
  <2>2. m.t = "end" => endRequested'
    BY RequestKept
  <2>3. ASSUME NEW c \in Channels, NEW s \in Before(up[k][n], c)' PROVE Covered(k, c, s, n)'
    <3>1. s \in Before(m, c)
      BY <2>1, <2>3 DEF Before
    <3> QED BY <1>5, <3>1, BeforeNat
  <2> QED BY <2>1, <2>2, <2>3 DEF Follows
<1>8. ASSUME NEW c \in Channels, NEW s \in 0..(NextToSend(c)' - 1) PROVE Covered(k, c, s, n + 1)'
  <2>1. s \in Nat
    OBVIOUS
  <2>2. CASE s < NextToSend(c)
    <3>1. Covered(k, c, s, n)'
      BY <1>5, <2>1, <2>2
    <3>2. \A i \in 1..(n - 1) : i \in 1..((n + 1) - 1)
      OBVIOUS
    <3> QED BY <3>1, <3>2 DEF Covered
  <2>3. CASE m = Frame(c, s)
    <3>1. n \in 1..((n + 1) - 1) /\ up'[k][n] = Frame(c, s)
      BY <1>3, <1>4, <2>3
    <3> QED BY <3>1 DEF Covered
  <2> QED BY <2>2, <2>3
<1>9. InOrder(k)'
  <2>1. \A j \in 1..Len(up'[k]) : j \in 1..Len(up[k]) \/ j = n
    BY <1>3, <1>4
  <2>2. \A j \in 1..Len(up'[k]) : Follows(k, j)'
    BY <1>6, <1>7, <2>1
  <2>3. Len(up'[k]) + 1 = n + 1
    BY <1>3, <1>4
  <2> QED BY <1>8, <2>2, <2>3 DEF InOrder, SentSoFar
<1>10. Greeting(k)'
  BY DEF Greeting, PastStates
<1>11. \A j \in 1..Len(up'[k]) : up'[k][j].t # "gone"
  <2>1. \A j \in 1..Len(up'[k]) : j \in 1..Len(up[k]) \/ j = Len(up[k]) + 1
    BY <1>3
  <2>2. \A j \in 1..Len(up[k]) : up[k][j].t # "gone"
    BY DEF QueueSound
  <2> QED BY <1>3, <2>1, <2>2
<1> QED BY <1>9, <1>10, <1>11 DEF QueueSound

\* The client lets go of the connection.
LEMMA QueueLeft ==
  ASSUME LogInv, LogInv', AppendInv, StaleInv, Next, ~Stop, NEW k \in Conns, QueueSound(k),
         handler' = handler, NEW kept \in 0..Len(up[k]), NEW to, Leave(k, kept, to)
  PROVE  QueueSound(k)'
<1>1. conn' = None /\ None # k
  BY ServerTypes DEF Leave
<1>2. up'[k] = IF handler[k].st = "closed" THEN <<>> ELSE Append(SubSeq(up[k], 1, kept), Gone)
  <2>1. up \in [Conns -> Seq(UpMessages(RecordedFrames))]
    BY QueueTypes
  <2> QED BY <2>1 DEF Leave
<1>3. CASE handler[k].st = "closed"
  BY <1>1, <1>3 DEF QueueSound, InOrder, Past, Greeting
<1>4. CASE handler[k].st # "closed"
  <2>1. /\ Len(up[k]) \in Nat /\ kept \in Nat /\ Len(up'[k]) = kept + 1 /\ up'[k][kept + 1] = Gone
        /\ \A j \in 1..kept : up'[k][j] = up[k][j]
    BY <1>2, <1>4, QueueElements
  <2>2. \A j \in 1..Len(up'[k]) : j = kept + 1 \/ (j \in 1..kept /\ j \in 1..Len(up[k]))
    BY <2>1
  <2>3. Greeting(k)'
    <3>1. \A j \in 1..Len(up'[k]) :
            up'[k][j].t = "gone" \/ \E i \in 1..Len(up[k]) : up'[k][j] = up[k][i]
      BY <2>1, <2>2 DEF Gone
    <3>2. WaitsOn(k)
      BY <1>1 DEF WaitsOn
    <3> QED BY <1>1, <3>1, <3>2, GreetingKept DEF QueueSound
  <2>4. ASSUME handler[k].st \in PastStates, NEW j \in 1..Len(up'[k]) PROVE Follows(k, j)'
    <3>1. CASE j = kept + 1
      BY <2>1, <3>1 DEF Follows, Before, Gone
    <3>2. CASE j \in 1..kept /\ j \in 1..Len(up[k])
      <4>1. Follows(k, j) /\ \A i \in 1..j : up'[k][i] = up[k][i]
        BY <2>1, <2>4, <3>2 DEF QueueSound, InOrder, Past, PastStates
      <4> QED BY <2>4, <3>2, <4>1, FollowsKept
    <3> QED BY <2>2, <3>1, <3>2
  <2>5. InOrder(k)'
    BY <1>1, <2>4 DEF InOrder, Past, PastStates, SentSoFar
  <2> QED BY <1>1, <2>3, <2>5 DEF QueueSound
<1> QED BY <1>3, <1>4

\* A handler that is gone.
LEMMA QueueClosed ==
  ASSUME NEW k \in Conns, handler'[k].st = "closed",
         conn' = k => up'[k] = <<>>
  PROVE  QueueSound(k)'
<1>1. up'[k] = <<>> => \A j \in 1..Len(up'[k]) : up'[k][j].t # "gone"
  OBVIOUS
<1> QED BY <1>1 DEF QueueSound, InOrder, Past, Greeting
\* A step that leaves the client alone, and the queue.
LEMMA QueueIdle ==
  ASSUME LogInv, LogInv', AppendInv, StaleInv, Next, ~Stop, NEW k \in Conns, QueueSound(k),
         handler'[k].st \in PastStates => handler[k].st \in PastStates, up'[k] = up[k],
         conn' = conn, client' = client, next' = next, acked' = acked,
         handler'[k].st = "accepted" =>
           /\ handler[k].st = "accepted"
           /\ down'[k] = down[k] \/ down'[k] = Append(down[k], Close(FALSE))
  PROVE  QueueSound(k)'
<1>1. \A c \in Channels : NextToSend(c)' = NextToSend(c)
  BY DEF NextToSend
<1>2. \A c \in Channels : \A s \in 0..(NextToSend(c) - 1) : s < NextToSend(c)
  BY NextNumbers
<1>3. SendsOn(k)
  BY <1>1, <1>2 DEF SendsOn
<1>4. WaitsOn(k)
  BY DEF WaitsOn
<1> QED BY <1>3, <1>4, QueueKept

\* What the client was told of a channel, the store of every handler past hello has.
LEMMA HeldCovers ==
  ASSUME LogInv, StaleInv, NEW f \in Cursors(Held), NEW k \in Conns, handler[k].st \in PastStates,
         NEW c \in Channels
  PROVE  f[c] \in Int /\ f[c] <= store[handler[k].gen].last[c]
<1>1. handler[k].gen \in Gens
  BY DEF LogInv, HandlersPrepared, Prepared, PastStates
<1>2. /\ store[handler[k].gen].last[c] \in Int /\ store[handler[k].gen].last[c] >= -1
      /\ recorded[c] \in Nat
  BY <1>1, StoreCursors
<1>3. f[c] = None \/ (f[c] \in Seqs(c) /\ f[c] < Bound(c))
  BY DEF Cursors, Held
<1>4. f[c] = None \/ (f[c] \in Nat /\ f[c] < recorded[c])
  BY <1>3, SeqsRecorded
<1>5. CASE handler[k].gen = hub
  <2>1. f[c] = None \/ f[c] < store[handler[k].gen].last[c] + 1
    BY <1>1, <1>3, <1>5, ServerTypes DEF Bound
  <2> QED BY <1>2, <1>4, <2>1 DEF None
<1>6. CASE handler[k].gen # hub
  <2>1. store[handler[k].gen].last[c] + 1 >= recorded[c]
    BY <1>6 DEF StaleInv, Finished, Full, Past, PastStates
  <2> QED BY <1>2, <1>4, <2>1 DEF None
<1> QED BY <1>5, <1>6

\* The client's steps on connection j, as another connection sees them.
LEMMA QueueOther ==
  ASSUME LogInv, LogInv', AppendInv, StaleInv, Next, ~Stop, NEW k \in Conns, QueueSound(k),
         NEW j \in Conns, j # k, conn = j, handler' = handler, up'[k] = up[k], conn' \in {j, None}
  PROVE  QueueSound(k)'
<1>1. conn' # k
  BY ServerTypes
<1> QED BY <1>1, QueueKept DEF SendsOn, WaitsOn

\* No handler that waits for hello serves a client past it.
LEMMA NotGreeting ==
  ASSUME LogInv, NEW k \in Conns, QueueSound(k), conn = k,
         \/ client = "connected"
         \/ down[k] # <<>> /\ Head(down[k]).t # "close"
  PROVE  handler[k].st # "accepted"
<1> SUFFICES ASSUME handler[k].st = "accepted" PROVE FALSE
  OBVIOUS
<1>1. client = "hello" /\ \A j \in 1..Len(down[k]) : down[k][j].t = "close"
  BY DEF QueueSound, Greeting, Close
<1>2. down[k] # <<>> => Len(down[k]) \in Nat /\ Len(down[k]) > 0 /\ Head(down[k]) = down[k][1]
  <2> DEFINE D == DownMessages(Known)
  <2>1. down[k] \in Seq(D) /\ Error \in D
    BY QueueTypes DEF DownMessages, Error
  <2> HIDE DEF D
  <2> QED BY <2>1, SeqElements
<1> QED BY <1>1, <1>2

\* Acks raise what the client may skip, never above what the store has.
LEMMA LearnQueue ==
  ASSUME LogInv, LogInv', AppendInv, StaleInv, Shaped(Held, RecordedFrames), Next, ~Stop,
         NEW k \in Conns, QueueSound(k), NEW j \in Conns, RecvHelloAck(j) \/ RecvAcks(j)
  PROVE  QueueSound(k)'
<1>1. /\ conn = j /\ conn' = conn /\ handler' = handler /\ up' = up /\ client' = "connected"
      /\ down[j] # <<>> /\ Head(down[j]).t \in {"hello_ack", "acks"}
      /\ acked' = RaiseAcked(Head(down[j]).cursor)
      /\ \/ next' = [c \in Channels |-> acked'[c] + 1]
         \/ next' = next /\ client = "connected"
  BY DEF RecvHelloAck, RecvAcks, serverVars
<1>2. CASE j # k
  BY <1>1, <1>2, QueueOther
<1>3. CASE j = k
  <2>1. handler[k].st # "accepted"
    BY <1>1, <1>3, NotGreeting
  <2>2. acked \in Cursors(Held) /\ Head(down[k]).cursor \in Cursors(Held)
    <3>1. acked \in Cursors(Held) /\ down[k] \in Seq(DownMessages(Held))
      BY DEF Shaped, ClientShape, NetShape
    <3>2. Head(down[k]) \in DownMessages(Held)
      <4> DEFINE D == DownMessages(Held)
      <4>1. down[k] \in Seq(D)
        BY <3>1
      <4> HIDE DEF D
      <4>2. Head(down[k]) \in D
        BY <1>1, <1>3, <4>1, SeqShrinks
      <4> QED BY <4>2 DEF D
    <3> QED BY <1>1, <1>3, <3>1, <3>2 DEF DownMessages
  <2>3. SendsOn(k)
    <3> SUFFICES ASSUME handler[k].st \in PastStates, NEW c \in Channels,
                        NEW s \in 0..(NextToSend(c)' - 1)
                 PROVE  \/ s <= store[handler[k].gen].last[c]
                        \/ conn = k /\ client = "connected" /\ s < NextToSend(c)
      BY DEF SendsOn
    <3>1. PICK f \in Cursors(Held) : f = Head(down[k]).cursor
      BY <2>2
    <3>2. /\ acked[c] \in Int /\ acked[c] <= store[handler[k].gen].last[c]
          /\ f[c] \in Int /\ f[c] <= store[handler[k].gen].last[c]
      BY <2>2, <3>1, HeldCovers
    <3>3. acked'[c] = MaxOf(acked[c], f[c])
      BY <1>1, <1>3, <3>1 DEF RaiseAcked
    <3>4. store[handler[k].gen].last[c] \in Int
      <4>1. handler[k].gen \in Gens
        BY DEF LogInv, HandlersPrepared, Prepared, PastStates
      <4> QED BY <4>1, StoreCursors
    <3>5. acked'[c] \in Int /\ acked'[c] <= store[handler[k].gen].last[c]
      BY <3>2, <3>3 DEF MaxOf
    <3>6. NextToSend(c)' = MaxOf(next'[c], acked'[c] + 1) /\ next[c] \in Int
      BY NextNumbers DEF NextToSend
    <3>7. CASE next' = [d \in Channels |-> acked'[d] + 1]
      BY <3>4, <3>5, <3>6, <3>7 DEF MaxOf
    <3>8. CASE next' = next /\ client = "connected"
      BY <1>1, <1>3, <3>2, <3>4, <3>5, <3>6, <3>8 DEF MaxOf, NextToSend
    <3> QED BY <1>1, <3>7, <3>8
  <2>4. WaitsOn(k)
    BY <1>1, <2>1 DEF WaitsOn
  <2> QED BY <1>1, <2>3, <2>4, QueueKept
<1> QED BY <1>2, <1>3
\* The client sends.
LEMMA SenderQueue ==
  ASSUME LogInv, LogInv', AppendInv, StaleInv, Next, ~Stop, NEW k \in Conns, QueueSound(k),
         NEW j \in Conns, SendEnd(j) \/ \E c \in Channels : SendFrame(j, c)
  PROVE  QueueSound(k)'
<1>1. /\ conn = j /\ conn' = conn /\ handler' = handler /\ client = "connected" /\ client' = client
      /\ recorded' = recorded /\ acked' = acked
      /\ \E m : Deliver(j, m)
  BY DEF SendEnd, SendFrame, serverVars
<1>2. up \in [Conns -> Seq(UpMessages(RecordedFrames))]
  BY QueueTypes
<1>3. CASE j # k
  <2>1. up'[k] = up[k]
    BY <1>1, <1>2, <1>3 DEF Deliver
  <2> QED BY <1>1, <1>3, <2>1, QueueOther
<1>4. CASE j = k /\ handler[k].st \notin PastStates
  <2>1. handler[k].st = "closed"
    <3>1. handler[k] \in HandlerShape(RecordedFrames)
      BY ServerTypes
    <3>2. handler[k].st # "accepted"
      BY <1>1, <1>4, NotGreeting
    <3> QED BY <1>4, <3>1, <3>2 DEF HandlerShape, PastStates
  <2>2. up'[k] = up[k]
    BY <1>1, <1>2, <1>4, <2>1 DEF Deliver
  <2>3. SendsOn(k) /\ WaitsOn(k)
    BY <1>1, <1>4, <2>1 DEF SendsOn, WaitsOn
  <2> QED BY <1>1, <1>4, <2>2, <2>3, QueueKept
<1>5. CASE j = k /\ handler[k].st \in PastStates
  <2>1. \A m : Deliver(j, m) => up'[k] = Append(up[k], m)
    BY <1>2, <1>5 DEF Deliver, PastStates
  <2>2. CASE SendEnd(j)
    <3>1. /\ endRequested /\ Deliver(j, End) /\ next' = next
          /\ \A c \in Channels : NextToSend(c) >= recorded[c]
      BY <2>2 DEF SendEnd
    <3>2. End \in UpMessages(RecordedFrames) /\ End.t = "end" /\ up'[k] = Append(up[k], End)
      BY <2>1, <3>1 DEF UpMessages, End
    <3>3. \A c \in Channels : NextToSend(c)' = NextToSend(c)
      BY <1>1, <3>1 DEF NextToSend
    <3>4. ASSUME NEW c \in Channels, NEW s \in Before(End, c) PROVE s < NextToSend(c)
      <4>1. s \in 0..(recorded[c] - 1) /\ recorded[c] \in Nat
        BY <3>2, <3>4 DEF Before, LogInv, ClientShape
      <4> QED BY <3>1, <4>1, NextNumbers
    <3>5. \A c \in Channels : \A s \in 0..(NextToSend(c)' - 1) : s < NextToSend(c) \/ End = Frame(c, s)
      BY <3>3, NextNumbers
    <3>6. PICK m \in UpMessages(RecordedFrames) : m = End
      BY <3>2
    <3> QED BY <1>1, <1>5, <3>1, <3>2, <3>4, <3>5, <3>6, QueuePushed
  <2>3. ASSUME NEW c \in Channels, SendFrame(j, c) PROVE QueueSound(k)'
    <3>1. /\ Deliver(j, Frame(c, NextToSend(c))) /\ NextToSend(c) < recorded[c]
          /\ next' = [next EXCEPT ![c] = NextToSend(c) + 1]
      BY <2>3 DEF SendFrame
    <3>2. NextToSend(c) \in Nat
      <4>1. acked[c] \in Int /\ acked[c] >= -1 /\ next[c] \in Int
        <5>1. acked[c] \in Seqs(c) \cup {None}
          BY DEF LogInv, ClientShape, Cursors, Known
        <5> QED BY <5>1, SeqsRecorded, NextNumbers DEF None
      <4> QED BY <4>1 DEF NextToSend, MaxOf
    <3>3. PICK n \in Nat : n = NextToSend(c)
      BY <3>2
    <3>4. PICK m : m = Frame(c, n)
      OBVIOUS
    <3>5. m.t = "frame" /\ m.c = c /\ m.s = n
      BY <3>4 DEF Frame
    <3>6. m \in UpMessages(RecordedFrames)
      <4>1. m \in Frames
        BY <3>4 DEF Frames, Frame
      <4> QED BY <3>1, <3>3, <3>5, <4>1 DEF UpMessages, RecordedFrames
    <3>7. up'[k] = Append(up[k], m)
      BY <2>1, <3>1, <3>3, <3>4
    <3>8. ASSUME NEW d \in Channels, NEW s \in Before(m, d) PROVE s < NextToSend(d)
      BY <3>3, <3>5, <3>8 DEF Before
    <3>9. ASSUME NEW d \in Channels, NEW s \in 0..(NextToSend(d)' - 1)
          PROVE  s < NextToSend(d) \/ m = Frame(d, s)
      <4>1. NextToSend(d)' = MaxOf(next'[d], acked[d] + 1) /\ next \in [Channels -> Int]
            /\ NextToSend(d) = MaxOf(next[d], acked[d] + 1) /\ acked[d] \in Int
        BY <1>1, NextNumbers DEF NextToSend, LogInv, ClientShape
      <4>2. CASE d # c
        BY <3>1, <4>1, <4>2 DEF MaxOf
      <4>3. CASE d = c
        <5>1. next'[c] = n + 1 /\ acked[c] + 1 <= n
          BY <3>1, <3>3, <4>1, <4>3 DEF MaxOf
        <5>2. NextToSend(c)' = n + 1
          BY <4>1, <4>3, <5>1 DEF MaxOf
        <5>3. s < n \/ s = n
          BY <4>3, <5>2
        <5> QED BY <3>3, <3>4, <4>3, <5>3
      <4> QED BY <4>2, <4>3
    <3> QED BY <1>1, <1>5, <3>5, <3>6, <3>7, <3>8, <3>9, QueuePushed
  <2> QED BY <2>2, <2>3
<1> QED BY <1>3, <1>4, <1>5

\* The client's other steps.
LEMMA ClientQueue ==
  ASSUME LogInv, LogInv', AppendInv, StaleInv, Shaped(Held, RecordedFrames), Next, ~Stop,
         NEW k \in Conns, QueueSound(k),
         \/ (\E c \in Channels : Record(c)) \/ RequestEnd \/ Resume \/ Reconnect
         \/ \E j \in Conns : Receiver(j) \/ Sender(j) \/ Drop(j)
  PROVE  QueueSound(k)'
<1>1. CASE (\E c \in Channels : Record(c)) \/ RequestEnd
  <2>1. up' = up /\ conn' = conn /\ client' = client /\ next' = next /\ acked' = acked
        /\ handler' = handler /\ down' = down
    BY <1>1 DEF Record, RequestEnd, serverVars
  <2> QED BY <2>1, QueueIdle
<1>2. CASE Resume \/ GetTicket
  <2>1. up' = up /\ conn' = conn /\ client' \in {"backoff", "ticketed"} /\ client # "hello"
        /\ handler' = handler
    BY <1>2 DEF Resume, GetTicket, serverVars
  <2>2. SendsOn(k) /\ WaitsOn(k)
    BY <2>1 DEF SendsOn, WaitsOn
  <2> QED BY <2>1, <2>2, QueueKept
<1>3. ASSUME NEW j \in Conns, Connect(j) PROVE QueueSound(k)'
  <2>1. /\ conn' = j /\ client' = "hello" /\ up' = [up EXCEPT ![j] = <<Hello>>]
        /\ down' = [down EXCEPT ![j] = <<>>]
        /\ handler' = [handler EXCEPT ![j] = [Closed EXCEPT !.st = "accepted", !.row = status]]
    BY <1>3 DEF Connect
  <2>2. /\ up \in [Conns -> Seq(UpMessages(RecordedFrames))]
        /\ down \in [Conns -> Seq(DownMessages(Known))]
        /\ handler \in [Conns \cup {Rest} -> HandlerShape(RecordedFrames)]
    BY QueueTypes, ServerTypes
  <2>3. CASE j # k
    <3>1. up'[k] = up[k] /\ handler'[k] = handler[k] /\ conn' # k
      BY <2>1, <2>2, <2>3
    <3> QED BY <3>1, QueueKept DEF SendsOn, WaitsOn
  <2>4. CASE j = k
    <3>1. [Closed EXCEPT !.st = "accepted", !.row = status].st = "accepted"
      BY DEF Closed
    <3>2. handler'[k].st = "accepted" /\ up'[k] = <<Hello>> /\ down'[k] = <<>> /\ client' = "hello"
      BY <2>1, <2>2, <2>4, <3>1
    <3>3. /\ \A i \in 1..Len(up'[k]) : up'[k][i] = Hello
          /\ \A i \in 1..Len(down'[k]) : down'[k][i] = Close(FALSE)
      BY <3>2
    <3>4. Hello.t = "hello"
      BY DEF Hello
    <3> QED BY <3>2, <3>3, <3>4 DEF QueueSound, InOrder, Past, Greeting
  <2> QED BY <2>3, <2>4
<1>4. ASSUME NEW j \in Conns, NEW kept \in 0..Len(up[j]), NEW to,
             conn = j, handler' = handler, Leave(j, kept, to)
      PROVE  QueueSound(k)'
  <2>1. CASE j # k
    <3>1. up'[k] = up[k] /\ conn' = None
      BY <1>4, <2>1, QueueTypes DEF Leave
    <3> QED BY <1>4, <2>1, <3>1, QueueOther
  <2>2. CASE j = k
    BY <1>4, <2>2, QueueLeft
  <2> QED BY <2>1, <2>2
<1>5. ASSUME NEW j \in Conns, RecvClose(j) \/ Finish(j) \/ Drop(j) PROVE QueueSound(k)'
  <2>1. conn = j /\ handler' = handler
    BY <1>5 DEF RecvClose, Finish, Drop, serverVars
  <2>2. Len(up[j]) \in 0..Len(up[j])
    BY QueueElements
  <2>3. \E kept \in 0..Len(up[j]), to \in {"backoff", "ended"} : Leave(j, kept, to)
    BY <1>5, <2>2 DEF RecvClose, Finish, Drop
  <2> QED BY <1>4, <2>1, <2>3
<1>6. ASSUME NEW j \in Conns, RecvError(j) PROVE QueueSound(k)'
  <2>1. conn = j /\ handler' = handler /\ down[j] # <<>> /\ Head(down[j]).t = "error" /\ acked' = acked
    BY <1>6 DEF RecvError, serverVars
  <2>2. CASE Leave(j, Len(up[j]), "backoff")
    <3>1. Len(up[j]) \in 0..Len(up[j])
      BY QueueElements
    <3> QED BY <1>4, <2>1, <2>2, <3>1
  <2>3. CASE UNCHANGED <<next, client, conn, endSent, up>>
    <3>1. CASE j # k
      BY <2>1, <2>3, <3>1, QueueOther
    <3>2. CASE j = k
      <4>1. handler[k].st # "accepted"
        BY <2>1, <3>2, NotGreeting
      <4> QED BY <2>1, <2>3, <4>1, QueueIdle
    <3> QED BY <3>1, <3>2
  <2> QED BY <1>6, <2>2, <2>3 DEF RecvError
<1>7. ASSUME NEW j \in Conns, RecvHelloAck(j) \/ RecvAcks(j) PROVE QueueSound(k)'
  BY <1>7, LearnQueue
<1>8. ASSUME NEW j \in Conns, SendEnd(j) \/ \E c \in Channels : SendFrame(j, c)
      PROVE  QueueSound(k)'
  BY <1>8, SenderQueue
<1> QED BY <1>1, <1>2, <1>3, <1>5, <1>6, <1>7, <1>8 DEF Reconnect, Receiver, Sender
\* hello is answered: from here on the handler is past it, with only `gone` behind it.
LEMMA HelloQueue ==
  ASSUME LogInv, LogInv', AppendInv, StaleInv, Next, ~Stop, NEW k \in Conns, QueueSound(k),
         NEW j \in Conns, NEW g \in Gens, HelloAccepted(j, g)
  PROVE  QueueSound(k)'
<1>1. /\ up' = [up EXCEPT ![j] = Tail(@)] /\ up[j] # <<>> /\ Head(up[j]).t = "hello"
      /\ down' = [down EXCEPT ![j] = IF conn = j THEN Append(@, HelloAck(store'[g].last)) ELSE @]
      /\ conn' = conn /\ client' = client /\ next' = next /\ acked' = acked
  BY DEF HelloAccepted, Receives, clientVars
<1>2. /\ handler[j].st = "accepted" /\ handler'[j].st = "open"
      /\ \A i \in Conns \cup {Rest} : i # j => handler'[i] = handler[i]
  <2>1. HelloCase(j, g)
    BY HelloCases
  <2> QED BY ONLY <2>1 DEF HelloCase
<1>3. CASE j # k
  <2>1. up'[k] = up[k] /\ down'[k] = down[k]
    BY <1>1, <1>3, QueueTypes
  <2> QED BY <1>1, <1>2, <1>3, <2>1, QueueIdle
<1>4. CASE j = k
  <2>1. /\ \A i \in 1..Len(up[k]) : up[k][i].t \in {"hello", "gone"}
        /\ conn = k => client = "hello" /\ \A i \in 1..Len(up[k]) : up[k][i].t # "gone"
    BY <1>2, <1>4 DEF QueueSound, Greeting
  <2>2. up'[k] = Tail(up[k]) /\ up[k] # <<>>
    BY <1>1, <1>4, QueueTypes
  <2>3. /\ Len(up[k]) \in Nat /\ Len(up'[k]) = Len(up[k]) - 1
        /\ \A i \in 1..(Len(up[k]) - 1) : up'[k][i] = up[k][i + 1]
    BY <2>2, QueueElements
  <2>4. \A i \in 1..Len(up'[k]) : i + 1 \in 1..Len(up[k]) /\ up'[k][i] = up[k][i + 1]
    BY <2>3
  <2>5. \A i \in 1..Len(up'[k]) : up'[k][i].t \in {"hello", "gone"}
    BY <2>1, <2>4
  <2>6. \A i \in 1..Len(up'[k]) : Follows(k, i)'
    BY <2>5 DEF Follows, Before
  <2>7. conn' = k => client' # "connected" /\ \A i \in 1..Len(up'[k]) : up'[k][i].t # "gone"
    BY <1>1, <2>1, <2>4
  <2>8. InOrder(k)'
    BY <2>6, <2>7 DEF InOrder, SentSoFar
  <2> QED BY <1>2, <1>4, <2>7, <2>8 DEF QueueSound, Greeting
<1> QED BY <1>3, <1>4

\* A handler past hello takes the message in front of its queue.
LEMMA TakesQueue ==
  ASSUME LogInv, LogInv', AppendInv, StaleInv, Next, ~Stop, NEW k \in Conns, QueueSound(k),
         NEW j \in Conns, FrameDuplicate(j) \/ FrameWritten(j) \/ ProducerEnds(j)
  PROVE  QueueSound(k)'
<1>1. /\ up[j] # <<>> /\ up' = [up EXCEPT ![j] = Tail(@)] /\ down' = down
      /\ conn' = conn /\ client' = client /\ next' = next /\ acked' = acked
      /\ handler[j].st = "open"
  BY DEF FrameDuplicate, FrameWritten, ProducerEnds, EndMark, Receives, Serving, clientVars
<1>2. handler'[j].st \in PastStates /\ \A i \in Conns : i # j => handler'[i] = handler[i]
  <2>1. handler \in [Conns \cup {Rest} -> HandlerShape(RecordedFrames)]
    BY ServerTypes
  <2>2. CASE FrameDuplicate(j)
    BY <1>1, <2>1, <2>2 DEF FrameDuplicate, HandlerShape, PastStates
  <2>3. CASE FrameWritten(j)
    BY <1>1, <2>1, <2>3 DEF FrameWritten, HandlerShape, PastStates
  <2>4. CASE ProducerEnds(j)
    BY <1>1, <2>1, <2>4 DEF ProducerEnds, EndMark, HandlerShape, PastStates
  <2> QED BY <2>2, <2>3, <2>4
<1>3. CASE j # k
  <2>1. up'[k] = up[k]
    BY <1>1, <1>3, QueueTypes
  <2> QED BY <1>1, <1>2, <1>3, <2>1, QueueIdle
<1>4. CASE j = k
  <2>1. up'[k] = Tail(up[k])
    BY <1>1, <1>4, QueueTypes
  <2>2. \A c \in Channels : NextToSend(c)' = NextToSend(c) /\ NextToSend(c) \in Int
    BY <1>1, NextNumbers DEF NextToSend
  <2>3. SendsOn(k)
    BY <1>1, <2>2 DEF SendsOn
  <2>4. ASSUME NEW c \in Channels, NEW s \in Nat, Head(up[k]) = Frame(c, s)
        PROVE  \/ handler'[k].st = "committing" /\ handler'[k].frame = Frame(c, s)
               \/ s <= store'[handler[k].gen].last[c]
    <3>1. Head(up[k]).t = "frame" /\ Head(up[k]).c = c /\ Head(up[k]).s = s
      BY <2>4 DEF Frame
    <3>2. CASE FrameDuplicate(k)
      <4>1. s <= store[handler[k].gen].last[c] /\ store' = store
        BY <3>1, <3>2 DEF FrameDuplicate
      <4> QED BY <4>1
    <3>3. CASE FrameWritten(k)
      <4>1. PICK d \in Channels, n \in Nat, g \in Gens : Written(k, d, n, g)
        BY <3>3, WrittenCase
      <4>2. handler'[k].st = "committing" /\ handler'[k].frame = Head(up[k])
        BY <4>1 DEF Written
      <4> QED BY <2>4, <4>2
    <3>4. CASE ProducerEnds(k)
      BY <3>1, <3>4 DEF ProducerEnds, Receives
    <3> QED BY <1>4, <3>2, <3>3, <3>4
  <2>5. handler[k].st \in PastStates /\ conn' = k => conn = k
    BY <1>1
  <2> QED BY <1>1, <1>2, <1>4, <2>1, <2>3, <2>4, QueuePopped DEF PastStates
<1> QED BY <1>3, <1>4

\* A handler leaves.
LEMMA LeavesQueue ==
  ASSUME LogInv, LogInv', AppendInv, StaleInv, Next, ~Stop, NEW k \in Conns, QueueSound(k),
         NEW j \in Conns,
         \/ HandlerGone(j) \/ HelloRejected(j) \/ HelloLoadFails(j) \/ FrameRejected(j)
         \/ CommitFails(j)
  PROVE  QueueSound(k)'
<1>1. conn' = conn /\ client' = client /\ next' = next /\ acked' = acked
  BY DEF HandlerGone, HelloRejected, HelloLoadFails, FrameRejected, CommitFails, clientVars
<1>2. \E msgs, stores : Exit(j, msgs, stores)
  BY DEF HandlerGone, HelloRejected, HelloLoadFails, FrameRejected, CommitFails
<1>3. /\ handler' = [handler EXCEPT ![j] = Closed] /\ up' = [up EXCEPT ![j] = <<>>]
      /\ \E q : down' = [down EXCEPT ![j] = q]
  BY <1>2 DEF Exit
<1>4. CASE j # k
  <2>1. handler'[k] = handler[k] /\ up'[k] = up[k] /\ down'[k] = down[k]
    BY <1>3, <1>4, ServerTypes, QueueTypes
  <2> QED BY <1>1, <2>1, QueueIdle
<1>5. CASE j = k
  <2>1. handler'[k].st = "closed" /\ up'[k] = <<>>
    BY <1>3, <1>5, ServerTypes, QueueTypes DEF Closed
  <2> QED BY <2>1, QueueClosed
<1> QED BY <1>4, <1>5

\* hub.end, from its first step to its return.
LEMMA EndingQueue ==
  ASSUME LogInv, LogInv', AppendInv, StaleInv, Next, ~Stop, NEW k \in Conns, QueueSound(k),
         \/ RestEnds \/ WatchdogEnds \/ \E e \in Conns \cup {Rest} : Ending(e)
  PROVE  QueueSound(k)'
<1>0. handler \in [Conns \cup {Rest} -> HandlerShape(RecordedFrames)]
  BY ServerTypes
<1>1. CASE RestEnds \/ WatchdogEnds
  <2>1. /\ handler'[k] = handler[k] /\ up' = up /\ down' = down
        /\ conn' = conn /\ client' = client /\ next' = next /\ acked' = acked
    BY <1>0, <1>1, DistinctIdentities DEF RestEnds, WatchdogEnds, EndMark, clientVars
  <2> QED BY <2>1, QueueIdle
<1>2. ASSUME NEW e \in Conns \cup {Rest}, EndClose(e) PROVE QueueSound(k)'
  <2>1. /\ up' = up /\ down' = down
        /\ conn' = conn /\ client' = client /\ next' = next /\ acked' = acked
        /\ handler[e].st = "ending" /\ handler' = [handler EXCEPT ![e].st = "draining"]
    BY <1>2 DEF EndClose, Serving, clientVars
  <2>2. CASE e = k
    BY <1>0, <2>1, <2>2, QueueIdle DEF PastStates, HandlerShape
  <2>3. CASE e # k
    BY <1>0, <2>1, <2>3, QueueIdle
  <2> QED BY <2>2, <2>3
<1>3. ASSUME NEW e \in Conns \cup {Rest}, EndReturn(e) PROVE QueueSound(k)'
  <2>1. /\ conn' = conn /\ client' = client /\ next' = next /\ acked' = acked
        /\ handler' = [handler EXCEPT ![e] = Closed]
    BY <1>3 DEF EndReturn, clientVars
  <2>2. CASE e = k
    <3>1. k # Rest
      BY DistinctIdentities
    <3>2. up' = [up EXCEPT ![k] = <<>>]
      BY <1>3, <2>2, <3>1 DEF EndReturn
    <3>3. handler'[k].st = "closed" /\ up'[k] = <<>>
      BY <1>0, <2>1, <2>2, <3>2, QueueTypes DEF Closed
    <3> QED BY <3>3, QueueClosed
  <2>3. CASE e # k
    <3>1. handler'[k] = handler[k]
      BY <1>0, <2>1, <2>3
    <3>2. up'[k] = up[k]
      BY <1>3, <2>3, QueueTypes DEF EndReturn
    <3>3. down'[k] = down[k] \/ down'[k] = Append(down[k], Close(FALSE))
      <4> DEFINE other == IF handler[e].took = None THEN None ELSE store[handler[e].took].producer
                 cut == [i \in Conns |-> IF i = other /\ i # e /\ conn = i
                                         THEN Append(down[i], Close(FALSE)) ELSE down[i]]
      <4>1. cut[k] = down[k] \/ cut[k] = Append(down[k], Close(FALSE))
        OBVIOUS
      <4>2. down' = cut \/ \E q : down' = [cut EXCEPT ![e] = q]
        BY <1>3 DEF EndReturn
      <4>3. down'[k] = cut[k]
        BY <2>3, <4>2
      <4> QED BY <4>1, <4>3
    <3> QED BY <2>1, <3>1, <3>2, <3>3, QueueIdle
  <2> QED BY <2>2, <2>3
<1> QED BY <1>1, <1>2, <1>3 DEF Ending

\* The server's other steps.
LEMMA ServerQueue ==
  ASSUME LogInv, LogInv', AppendInv, StaleInv, Next, ~Stop, NEW k \in Conns, QueueSound(k),
         \/ Fsync \/ ServerRestart \/ ServerCrash \/ PowerLoss
         \/ \E j \in Conns : FlushAcks(j) \/ CommitOk(j) \/ Feed(j)
  PROVE  QueueSound(k)'
<1>1. CASE Fsync \/ ServerRestart
  <2>1. up' = up /\ conn' = conn /\ client' = client /\ next' = next /\ acked' = acked
        /\ handler' = handler /\ down' = down
    BY <1>1 DEF Fsync, ServerRestart, serverVars, clientVars
  <2> QED BY <2>1, QueueIdle
<1>2. CASE ServerCrash \/ PowerLoss
  <2>1. handler'[k].st = "closed" /\ conn' = None /\ None # k
    BY <1>2, DieCase, ServerTypes DEF ServerCrash, PowerLoss, Die
  <2> QED BY <2>1, QueueClosed
<1>3. ASSUME NEW j \in Conns, FlushAcks(j) \/ CommitOk(j) \/ Feed(j) PROVE QueueSound(k)'
  <2>1. /\ up' = up /\ conn' = conn /\ client' = client /\ next' = next /\ acked' = acked
        /\ handler[j].st \in PastStates
        /\ down' = down \/ \E q : down' = [down EXCEPT ![j] = q]
    BY <1>3 DEF FlushAcks, Producing, CommitOk, Feed, Serving, clientVars, PastStates
  <2>2. handler'[j].st \in PastStates /\ \A i \in Conns : i # j => handler'[i] = handler[i]
    <3>1. handler \in [Conns \cup {Rest} -> HandlerShape(RecordedFrames)]
      BY ServerTypes
    <3>2. CASE FlushAcks(j)
      BY <2>1, <3>1, <3>2 DEF FlushAcks, HandlerShape
    <3>3. CASE CommitOk(j)
      BY <3>1, <3>3 DEF CommitOk, HandlerShape, PastStates
    <3>4. CASE Feed(j)
      <4>1. handler'[j].st = "open" /\ \A i \in Conns : i # j => handler'[i] = handler[i]
        <5>1. PICK d : handler' = [handler EXCEPT ![j] = [@ EXCEPT !.st = "open", !.frame = NoFrame,
                                                                   !.dirty = d]]
          BY <3>4 DEF Feed
        <5> QED BY <3>1, <5>1 DEF HandlerShape
      <4> QED BY <4>1 DEF PastStates
    <3> QED BY <1>3, <3>2, <3>3, <3>4
  <2>3. CASE j = k
    <3>1. handler'[k].st # "accepted"
      BY <2>2, <2>3 DEF PastStates
    <3> QED BY <2>1, <2>3, <3>1, QueueIdle
  <2>4. CASE j # k
    <3>1. down'[k] = down[k] /\ handler'[k] = handler[k]
      BY <2>1, <2>2, <2>4, QueueTypes
    <3> QED BY <2>1, <3>1, QueueIdle
  <2> QED BY <2>3, <2>4
<1> QED BY <1>1, <1>2, <1>3

\* Every step keeps the queues in order.
LEMMA QueueStep ==
  ASSUME LogInv, LogInv', AppendInv, StaleInv, Shaped(Held, RecordedFrames), QueueInv, Next, ~Stop
  PROVE  QueueInv'
<1> SUFFICES ASSUME NEW k \in Conns PROVE QueueSound(k)'
  BY DEF QueueInv
<1>1. QueueSound(k)
  BY DEF QueueInv
<1>2. ASSUME NEW j \in Conns, Serve(j) PROVE QueueSound(k)'
  <2>1. ASSUME NEW g \in Gens, HelloAccepted(j, g) PROVE QueueSound(k)'
    BY <1>1, <2>1, HelloQueue
  <2>2. CASE FrameDuplicate(j) \/ FrameWritten(j) \/ ProducerEnds(j)
    BY <1>1, <2>2, TakesQueue
  <2>3. CASE \/ HandlerGone(j) \/ HelloRejected(j) \/ HelloLoadFails(j) \/ FrameRejected(j)
             \/ CommitFails(j)
    BY <1>1, <2>3, LeavesQueue
  <2>4. CASE CommitOk(j) \/ Feed(j)
    BY <1>1, <2>4, ServerQueue
  <2> QED BY <1>2, <2>1, <2>2, <2>3, <2>4 DEF Serve
<1>3. CASE \/ (\E c \in Channels : Record(c)) \/ RequestEnd \/ Resume \/ Reconnect
           \/ \E j \in Conns : Receiver(j) \/ Sender(j) \/ Drop(j)
  BY <1>1, <1>3, ClientQueue
<1>4. CASE \/ Fsync \/ ServerRestart \/ ServerCrash \/ PowerLoss
           \/ \E j \in Conns : FlushAcks(j)
  BY <1>1, <1>4, ServerQueue
<1>5. CASE \/ RestEnds \/ WatchdogEnds \/ \E e \in Conns \cup {Rest} : Ending(e)
  BY <1>1, <1>5, EndingQueue
<1> QED BY <1>2, <1>3, <1>4, <1>5 DEF Next
-----------------------------------------------------------------------------
(* The store is sound *)

\* Every step keeps CalmInv, as long as nothing but the client's one `end` ends the session.
LEMMA CalmStep ==
  ASSUME LogInv, AppendInv, CalmInv, Next, ~Stop, ~RestEnds
  PROVE  CalmInv'
<1>1. LogInv'
  BY NextLogInv
<1>2. StaleInv' /\ FilesInv'
  BY <1>1, StaleStep, FilesStep DEF CalmInv
<1>3. Shaped(Held, RecordedFrames)' /\ QueueInv'
  BY <1>1, HeldStep, QueueStep DEF CalmInv
<1> QED BY <1>2, <1>3 DEF CalmInv

\* The hub's ingest has the whole index: no failed commit has taken effect behind its back.
ExactInv == hub # None => \A c \in Channels : \A s \in Seqs(c) : s <= store[hub].last[c]

\* Every step keeps ExactInv, ambiguous failures and a second ingest aside.
LEMMA ExactStep ==
  ASSUME LogInv, AppendInv, StaleInv, ExactInv, Next, ~Stop, ~RestEnds,
         budget'["ambiguous"] = 0
  PROVE  ExactInv'
<1>1. hub \in Gens \cup {None} /\ \A g \in Gens : g # None
  BY ServerTypes
<1>2. ASSUME NEW k \in Conns, NEW g \in Gens, HelloAccepted(k, g) PROVE ExactInv'
  <2>1. /\ index' = index /\ hub' = g
        /\ \/ hub = g /\ store'[g].last = store[g].last
           \/ store'[g].last = IndexedCursor
    <3>1. HelloCase(k, g)
      BY <1>2, HelloCases
    <3> QED BY ONLY <3>1 DEF HelloCase
  <2>2. \A c \in Channels : Seqs(c)' = Seqs(c)
    BY <2>1 DEF Seqs
  <2>3. \A c \in Channels : \A s \in Seqs(c) : s <= IndexedCursor[c]
    BY LoadedCursor
  <2> QED BY <1>1, <2>1, <2>2, <2>3 DEF ExactInv
<1>3. ASSUME NEW k \in Conns, FrameWritten(k) PROVE ExactInv'
  <2>1. PICK c \in Channels, n \in Nat, g \in Gens : Written(k, c, n, g)
    BY <1>3, WrittenCase
  <2>2. index' = index /\ hub' = hub /\ \A h \in Gens : store'[h].last = store[h].last
    BY <2>1 DEF Written
  <2>3. \A c1 \in Channels : Seqs(c1)' = Seqs(c1)
    BY <2>2 DEF Seqs
  <2> QED BY <1>1, <2>2, <2>3 DEF ExactInv
<1>4. ASSUME NEW k \in Conns, CommitOk(k) PROVE ExactInv'
  <2>1. PICK c \in Channels, n \in Nat, g \in Gens : Committed(k, c, n, g)
    BY <1>4, CommittedCase
  <2>2. /\ handler[k].st = "committing" /\ handler[k].gen = g /\ hub' = hub
        /\ store'[g].last = [store[g].last EXCEPT ![c] = n] /\ IndexGrows(c, n)
    BY <2>1 DEF Committed
  <2>3. hub = g /\ g # None
    BY <1>1, <2>2, CommitsAtHub
  <2>4. Seqs(c)' = 0..n /\ \A d \in Channels \ {c} : Seqs(d)' = Seqs(d)
    BY <2>2, SeqsStep
  <2>5. store[g].last \in [Channels -> Int]
    BY ServerTypes DEF StoreShape, Cursors
  <2> QED BY <2>2, <2>3, <2>4, <2>5 DEF ExactInv
<1>5. ASSUME NEW k \in Conns, CommitFails(k) PROVE ExactInv'
  <2>1. PICK c \in Channels, n \in Nat, g \in Gens : Failed(k, c, n, g)
    BY <1>5, FailedCase
  <2>2. ~Spend("ambiguous")
    <3>1. budget \in [Faults -> Nat] /\ "ambiguous" \in Faults
      BY DEF LogInv, ObserverShape, Faults
    <3> QED BY <3>1 DEF Spend
  <2>3. index' = index /\ hub' = hub /\ \A h \in Gens : store'[h].last = store[h].last
    BY <2>1, <2>2 DEF Failed
  <2>4. \A c1 \in Channels : Seqs(c1)' = Seqs(c1)
    BY <2>3 DEF Seqs
  <2> QED BY <1>1, <2>3, <2>4 DEF ExactInv
<1>6. CASE ServerCrash \/ PowerLoss
  BY <1>6, DieCase DEF ServerCrash, PowerLoss, ExactInv
<1>7. CASE ~Busy
  <2>1. Quiet /\ hub' \in {hub, None}
    BY <1>7, QuietStep, HubStep
  <2>2. \A c \in Channels : Seqs(c)' = Seqs(c)
    BY <2>1 DEF Quiet, Seqs
  <2> QED BY <1>1, <2>1, <2>2 DEF Quiet, ExactInv
<1> QED BY <1>2, <1>3, <1>4, <1>5, <1>6, <1>7 DEF Busy

\* The invariant of the audio store: each part as long as the faults it cannot stand are absent.
StoreInv ==
  /\ LogInv /\ AppendInv
  /\ Calm => CalmInv
  /\ Never({"ambiguous", "end", "stop"}) => ExactInv

\* It holds at first.
LEMMA InitStoreInv ==
  ASSUME Init
  PROVE  StoreInv
<1>1. LogInv
  BY InitLogInv
<1>2. /\ hub = None /\ index = [c \in Channels |-> {}] /\ file = [c \in Channels |-> <<>>]
      /\ handler = [k \in Conns \cup {Rest} |-> Closed]
      /\ store = [g \in Gens |-> NewStore([c \in Channels |-> None])]
      /\ up = [k \in Conns |-> <<>>] /\ down = [k \in Conns |-> <<>>] /\ conn = None
      /\ acked = [c \in Channels |-> None]
  BY DEF Init
<1>3. \A k \in Conns : handler[k].st = "closed"
  BY <1>2 DEF Closed
<1>4. AppendInv
  <2>1. \A g \in Gens : store[g].lock = None /\ \A c \in Channels : store[g].offset[c] = None + 1
                                             /\ store[g].last[c] = None
    BY <1>2 DEF NewStore
  <2>2. None \notin Conns
    BY DistinctIdentities
  <2> QED BY <1>2, <1>3, <2>1, <2>2 DEF AppendInv, Committing
<1>5. FilesInv /\ StaleInv
  BY <1>2, <1>3 DEF FilesInv, StaleInv, Past
<1>6. QueueInv
  <2>1. \A k \in Conns : up[k] = <<>> /\ conn # k
    BY <1>2, DistinctIdentities
  <2> QED BY <1>3, <2>1 DEF QueueInv, QueueSound, InOrder, Past, Greeting
<1>7. Shaped(Held, RecordedFrames)
  <2>1. PICK V : V = Held
    OBVIOUS
  <2>2. \A c \in Channels : Seqs(c) = {}
    BY <1>2 DEF Seqs
  <2>3. Known = V
    BY <2>1, <2>2 DEF Known, Held
  <2> QED BY <1>1, <2>1, <2>3 DEF LogInv, Shaped
<1>8. ExactInv
  BY <1>2 DEF ExactInv
<1> QED BY <1>1, <1>4, <1>5, <1>6, <1>7, <1>8 DEF StoreInv, CalmInv

\* Every step keeps it.
LEMMA NextStoreInv ==
  ASSUME StoreInv, Next
  PROVE  StoreInv'
<1>1. LogInv /\ AppendInv
  BY DEF StoreInv
<1>2. LogInv' /\ AppendInv'
  BY <1>1, NextLogInv, AppendStep
<1>3. ASSUME Calm' PROVE CalmInv' /\ StaleInv
  <2>1. {"end", "stop"} \in SUBSET Faults
    BY DEF Faults
  <2>2. Calm /\ ~Stop /\ ~RestEnds
    BY <1>1, <1>3, <2>1, NeverBefore DEF Calm
  <2> QED BY <1>1, <2>2, CalmStep DEF StoreInv, CalmInv
<1>4. ASSUME Never({"ambiguous", "end", "stop"})' PROVE ExactInv'
  <2>1. {"ambiguous", "end", "stop"} \in SUBSET Faults
    BY DEF Faults
  <2>2. Never({"ambiguous", "end", "stop"}) /\ ~Stop /\ ~RestEnds
    BY <1>1, <1>4, <2>1, NeverBefore
  <2>3. Calm' /\ budget'["ambiguous"] = 0
    BY <1>4 DEF Never, Calm
  <2>4. ExactInv /\ StaleInv
    BY <1>3, <2>2, <2>3 DEF StoreInv
  <2> QED BY <1>1, <2>2, <2>3, <2>4, ExactStep
<1> QED BY <1>2, <1>3, <1>4 DEF StoreInv
\* A step that changes nothing keeps it too.
LEMMA StutterStoreInv ==
  ASSUME StoreInv, UNCHANGED vars
  PROVE  StoreInv'
<1>1. /\ recorded' = recorded /\ acked' = acked /\ next' = next /\ client' = client
      /\ conn' = conn /\ endRequested' = endRequested /\ endSent' = endSent
      /\ up' = up /\ down' = down /\ server' = server /\ handler' = handler /\ hub' = hub
      /\ store' = store /\ status' = status /\ file' = file /\ synced' = synced
      /\ index' = index /\ fed' = fed /\ budget' = budget
  BY DEF vars
<1>2. \A c \in Channels : Seqs(c)' = Seqs(c) /\ Bound(c)' = Bound(c) /\ InFlight(c)' = InFlight(c)
  BY <1>1 DEF Seqs, Bound, InFlight, Committing
<1>3. Known' = Known /\ RecordedFrames' = RecordedFrames /\ Held' = Held
  BY <1>1, <1>2 DEF Known, RecordedFrames, Held
<1>4. DurableShape' = DurableShape /\ ObserverShape' = ObserverShape
  BY <1>1 DEF DurableShape, ObserverShape
<1>5. LogInv'
  <2>1. IndexContiguous'
    BY <1>1, <1>2 DEF StoreInv, LogInv, IndexContiguous
  <2>2. HandlersPrepared'
    BY <1>1 DEF StoreInv, LogInv, HandlersPrepared, Prepared, Seqs
  <2>3. /\ ClientShape(Known)' /\ NetShape(Known, RecordedFrames)'
        /\ ServerShape(Known, RecordedFrames)'
    BY <1>1, <1>3 DEF StoreInv, LogInv, ClientShape, NetShape, ServerShape
  <2> QED BY <1>4, <2>1, <2>2, <2>3 DEF StoreInv, LogInv
<1>6. AppendInv'
  BY <1>1 DEF StoreInv, AppendInv, Committing
<1>7. ASSUME Calm' PROVE CalmInv'
  <2>1. CalmInv
    BY <1>1, <1>7 DEF StoreInv, Calm, Never
  <2>2. Shaped(Held, RecordedFrames)'
    BY <1>1, <1>3, <1>4, <2>1 DEF CalmInv, Shaped, ClientShape, NetShape, ServerShape
  <2>3. FilesInv'
    BY <1>1, <1>2, <2>1 DEF CalmInv, FilesInv
  <2>4. StaleInv'
    BY <1>1, <2>1 DEF CalmInv, StaleInv, Finished, Full, Past
  <2>5. QueueInv'
    <3> SUFFICES ASSUME NEW k \in Conns PROVE QueueSound(k)'
      BY DEF QueueInv
    <3>1. QueueSound(k)
      BY <2>1 DEF CalmInv, QueueInv
    <3>2. \A c, s, n : Covered(k, c, s, n) => Covered(k, c, s, n)'
      BY <1>1 DEF Covered, Committing
    <3>3. \A c, m : Before(m, c)' = Before(m, c) /\ NextToSend(c)' = NextToSend(c)
      BY <1>1 DEF Before, NextToSend
    <3>4. ASSUME handler[k].st \in PastStates PROVE InOrder(k)'
      <4>1. InOrder(k) /\ Past(k)
        BY <3>1, <3>4 DEF QueueSound, Past, PastStates
      <4>2. \A j \in 1..Len(up[k]) : Follows(k, j)'
        BY <1>1, <3>2, <3>3, <4>1 DEF InOrder, Follows
      <4>3. SentSoFar(k)'
        BY <1>1, <3>2, <3>3, <4>1 DEF InOrder, SentSoFar
      <4> QED BY <1>1, <4>2, <4>3 DEF InOrder
    <3>5. InOrder(k)'
      BY <1>1, <3>4 DEF InOrder, Past, PastStates
    <3>6. Greeting(k)' /\ (conn' = k => \A j \in 1..Len(up'[k]) : up'[k][j].t # "gone")
      BY <1>1, <3>1 DEF QueueSound, Greeting
    <3> QED BY <3>5, <3>6 DEF QueueSound
  <2> QED BY <2>2, <2>3, <2>4, <2>5 DEF CalmInv
<1>8. ASSUME Never({"ambiguous", "end", "stop"})' PROVE ExactInv'
  <2>1. ExactInv
    BY <1>1, <1>8 DEF StoreInv, Never
  <2> QED BY <1>1, <1>2, <2>1 DEF ExactInv
<1> QED BY <1>5, <1>6, <1>7, <1>8 DEF StoreInv

\* Whatever interleaves and fails, the invariant of the audio store holds throughout.
LEMMA StoreInvariant == Spec => []StoreInv
<1>1. Init => StoreInv
  BY InitStoreInv
<1>2. StoreInv /\ [Next]_vars => StoreInv'
  BY NextStoreInv, StutterStoreInv
<1> QED BY <1>1, <1>2, PTL DEF Spec

\* Rows whose offsets are their seqs are as many as the seqs.
LEMMA RowsCounted ==
  ASSUME LogInv, AppendInv, NEW c \in Channels, NEW n \in Nat, Seqs(c) = 0..(n - 1)
  PROVE  IsFiniteSet(index[c]) /\ Cardinality(index[c]) = n
<1> DEFINE f == [r \in index[c] |-> r.seq]
<1>1. index[c] \subseteq [seq : Nat, offset : Nat]
  BY DEF LogInv, DurableShape
<1>2. \A r \in index[c] : r.offset = r.seq
  BY DEF AppendInv
<1>3. f \in [index[c] -> Seqs(c)]
  BY DEF Seqs
<1>4. \A p, q \in index[c] : f[p] = f[q] => p = q
  <2> SUFFICES ASSUME NEW p \in index[c], NEW q \in index[c], p.seq = q.seq PROVE p = q
    OBVIOUS
  <2>1. p = [seq |-> p.seq, offset |-> p.offset] /\ q = [seq |-> q.seq, offset |-> q.offset]
    BY <1>1
  <2>2. p.offset = q.offset
    BY <1>2
  <2> QED BY <2>1, <2>2
<1>5. \A s \in Seqs(c) : \E r \in index[c] : f[r] = s
  BY DEF Seqs
<1>6. IsFiniteSet(Seqs(c)) /\ Cardinality(Seqs(c)) = n
  <2>1. IsFiniteSet(0..(n - 1)) /\ Cardinality(0..(n - 1)) = (IF 0 > n - 1 THEN 0 ELSE (n - 1) - 0 + 1)
    BY FS_Interval
  <2> QED BY <2>1
<1>7. f \in Bijection(index[c], Seqs(c))
  BY <1>3, <1>4, <1>5, Fun_IsBij
<1>8. ExistsBijection(index[c], Seqs(c))
  BY <1>7 DEF ExistsBijection
<1>9. ExistsBijection(Seqs(c), index[c])
  BY <1>8, Fun_ExistsBijSymmetric
<1>10. IsFiniteSet(index[c]) /\ Cardinality(index[c]) = Cardinality(Seqs(c))
  BY <1>6, <1>9, FS_Bijection
<1> QED BY <1>6, <1>10

\* What a cursor in the client's hands says is stored has its row, and is in the file.
LEMMA HeldDurable ==
  ASSUME StoreInv, Never({"power", "end", "stop"})
  PROVE  AckedDurable
<1>1. LogInv /\ AppendInv
  BY DEF StoreInv
<1>2. CalmInv /\ budget["power"] = 0
  BY DEF StoreInv, Calm, Never
<1> SUFFICES ASSUME NEW c \in Channels, NEW s \in 0..acked[c]
             PROVE  \E r \in index[c] : r.seq = s /\ r.offset < Len(file[c]) /\ file[c][r.offset + 1] = s
  BY DEF AckedDurable
<1>3. acked[c] = None \/ (acked[c] \in Seqs(c) /\ acked[c] < Bound(c))
  BY <1>2 DEF CalmInv, Shaped, ClientShape, Cursors, Held
<1>4. acked[c] # None
  BY DEF None
<1>5. PICK n \in 0..recorded[c] : Seqs(c) = 0..(n - 1)
  BY <1>1 DEF LogInv, IndexContiguous
<1>6. s \in Seqs(c) /\ s \in Nat /\ s <= acked[c] /\ acked[c] \in Nat
  BY <1>3, <1>4, <1>5
<1>7. Bound(c) <= Len(file[c]) /\ Bound(c) \in Int
  <2>1. CASE hub # None
    <3>1. Len(file[c]) = store[hub].last[c] + 1 + InFlight(c) /\ InFlight(c) \in {0, 1}
      BY <1>2, <2>1 DEF CalmInv, FilesInv, InFlight
    <3>2. store[hub].last[c] \in Int
      BY <1>1, <2>1, ServerTypes, StoreCursors
    <3>3. Bound(c) = store[hub].last[c] + 1
      BY <2>1 DEF Bound
    <3> QED BY <3>1, <3>2, <3>3
  <2>2. CASE hub = None
    BY <1>1, <1>2, <2>2, FileTypes DEF Bound
  <2> QED BY <2>1, <2>2
<1>8. s < Len(file[c]) /\ Len(file[c]) \in Nat
  BY <1>1, <1>3, <1>4, <1>6, <1>7, FileTypes
<1>9. s + 1 \in 1..Len(file[c])
  BY <1>6, <1>8
<1>10. file[c][s + 1] = (s + 1) - 1
  BY <1>2, <1>9 DEF CalmInv, FilesInv
<1>11. PICK r \in index[c] : r.seq = s
  BY <1>6 DEF Seqs
<1>12. r.offset = s
  BY <1>1, <1>11 DEF AppendInv
<1> QED BY <1>6, <1>8, <1>10, <1>11, <1>12

\* While no append is in flight the file is its index.
LEMMA FileIsIndex ==
  ASSUME StoreInv
  PROVE  FileMatchesIndex
<1>1. LogInv /\ AppendInv
  BY DEF StoreInv
<1> SUFFICES ASSUME hub # None, store[hub].lock = None, Never({"ambiguous", "end", "stop"}),
                    NEW c \in Channels
             PROVE  /\ Len(file[c]) = Cardinality(index[c])
                    /\ \A r \in index[c] : r.offset < Len(file[c]) /\ file[c][r.offset + 1] = r.seq
  BY DEF FileMatchesIndex
<1>2. CalmInv /\ ExactInv
  BY DEF StoreInv, Calm, Never
<1>3. hub \in Gens /\ None \notin Conns /\ store[hub].last[c] \in Int /\ store[hub].last[c] >= -1
      /\ store[hub].last[c] \in Seqs(c) \cup {None}
  BY <1>1, ServerTypes, StoreCursors
<1>4. \A k \in Conns : handler[k].st # "committing"
  <2> SUFFICES ASSUME NEW k \in Conns, handler[k].st = "committing" PROVE FALSE
    OBVIOUS
  <2>1. store[hub].lock = k
    BY <1>1, <1>2, CommitsAlone DEF CalmInv
  <2> QED BY <1>3, <2>1
<1>5. Len(file[c]) = store[hub].last[c] + 1
  <2>1. InFlight(c) = 0
    BY <1>4 DEF InFlight, Committing
  <2> QED BY <1>2, <1>3, <2>1 DEF CalmInv, FilesInv
<1>6. PICK n \in 0..recorded[c] : Seqs(c) = 0..(n - 1)
  BY <1>1 DEF LogInv, IndexContiguous
<1>7. n \in Nat /\ n = store[hub].last[c] + 1
  <2>1. \A s \in 0..(n - 1) : s <= store[hub].last[c]
    BY <1>2, <1>6 DEF ExactInv
  <2>2. store[hub].last[c] \in 0..(n - 1) \/ store[hub].last[c] = -1
    BY <1>3, <1>6 DEF None
  <2>3. n \in Nat
    OBVIOUS
  <2>4. n > 0 => n - 1 \in 0..(n - 1)
    BY <2>3
  <2>5. n > 0 => n - 1 <= store[hub].last[c]
    BY <2>1, <2>4
  <2> QED BY <1>3, <2>2, <2>3, <2>5
<1>8. Cardinality(index[c]) = n
  BY <1>1, <1>6, <1>7, RowsCounted
<1>9. ASSUME NEW r \in index[c] PROVE r.offset < Len(file[c]) /\ file[c][r.offset + 1] = r.seq
  <2>1. r.seq \in 0..(n - 1) /\ r.offset = r.seq
    BY <1>1, <1>6 DEF Seqs, AppendInv
  <2>2. r.seq + 1 \in 1..Len(file[c]) /\ r.seq < Len(file[c])
    BY <1>5, <1>7, <2>1
  <2>3. file[c][r.seq + 1] = (r.seq + 1) - 1
    BY <1>2, <2>2 DEF CalmInv, FilesInv
  <2> QED BY <2>1, <2>2, <2>3
<1> QED BY <1>5, <1>7, <1>8, <1>9

\* The audio store is sound: file and index agree while no append is in flight, and what was acked
\* is in both - whatever handlers supersede each other, whatever commits fail, and however the
\* server dies in the middle of an append.
THEOREM AudioStoreSound == Spec => []StoreSound
<1>1. StoreInv => FileMatchesIndex /\ AckedStored
  BY HeldDurable, FileIsIndex DEF AckedStored
<1>2. TypeOK /\ FileMatchesIndex /\ AckedStored => StoreSound
  BY DEF StoreSound
<1> QED BY <1>1, <1>2, StoreInvariant, IngestTypeCorrect, PTL
-----------------------------------------------------------------------------
(* The client ends once everything is stored *)

\* A close the client takes for the end of the session, once it has sent `end`.
Clean(m) == m.t = "close" /\ m.clean
\* The recording is over and every frame of it is indexed.
AllStored == \A c \in Channels : 0..(recorded[c] - 1) \subseteq Seqs(c)
Served == endRequested /\ AllStored
\* A clean close is on its way to the client only once the session is served, or where the client
\* will retry before it sees the close.
CloseOk(k) ==
  conn = k /\ (\E j \in 1..Len(down[k]) : Clean(down[k][j])) =>
    Served \/ (client = "hello" /\ down[k][1].t \in {"error", "close"})
CloseInv == (\A k \in Conns : CloseOk(k)) /\ EndedStored
Ungiving == {"db", "ambiguous", "end", "stop"}

\* What is served stays served.
LEMMA ServedKept ==
  ASSUME LogInv, AppendInv, StaleInv, Next, ~Stop, Served
  PROVE  Served'
<1>1. endRequested' /\ recorded' = recorded
  BY RequestKept DEF Served
<1>2. \A c \in Channels : Seqs(c) \subseteq Seqs(c)'
  BY SeqsStep
<1> QED BY <1>1, <1>2 DEF Served, AllStored

\* A store whose cursor has reached the end of the recording vouches for all of it.
LEMMA FullStored ==
  ASSUME LogInv, NEW f \in Cursors(Known), \A c \in Channels : f[c] + 1 >= recorded[c]
  PROVE  AllStored
<1> SUFFICES ASSUME NEW c \in Channels, NEW s \in 0..(recorded[c] - 1) PROVE s \in Seqs(c)
  BY DEF AllStored
<1>1. f[c] \in Seqs(c) \cup {None} /\ f[c] + 1 >= recorded[c]
  BY DEF Cursors, Known
<1>2. PICK n \in 0..recorded[c] : Seqs(c) = 0..(n - 1)
  BY DEF LogInv, IndexContiguous
<1>3. recorded[c] \in Nat
  BY DEF LogInv, ClientShape
<1> QED BY <1>1, <1>2, <1>3 DEF None

\* A handler the hub has left behind is there only once the session is served.
LEMMA StaleServed ==
  ASSUME LogInv, StaleInv, NEW k \in Conns, handler[k].st \in PastStates, handler[k].gen # hub
  PROVE  Served
<1>1. Past(k)
  BY DEF Past, PastStates
<1>2. endRequested /\ Full(handler[k].gen)
  BY <1>1 DEF StaleInv, Finished
<1>3. handler[k].gen \in Gens
  BY DEF LogInv, HandlersPrepared, Prepared, PastStates
<1>4. store[handler[k].gen].last \in Cursors(Known)
  BY <1>3, ServerTypes DEF StoreShape
<1> QED BY <1>2, <1>4, FullStored DEF Full, Served

\* A step that sends the client nothing, or nothing clean, keeps CloseOk.
LEMMA CloseKept ==
  ASSUME LogInv, AppendInv, StaleInv, Next, ~Stop, NEW k \in Conns, CloseOk(k),
         conn' = k =>
           /\ conn = k /\ (client = "hello" => client' = "hello")
           /\ \/ down'[k] = down[k]
              \/ \E m : ~Clean(m) /\ down'[k] = Append(down[k], m)
  PROVE  CloseOk(k)'
<1> SUFFICES ASSUME conn' = k, NEW j \in 1..Len(down'[k]), Clean(down'[k][j]), ~Served
             PROVE  client' = "hello" /\ down'[k][1].t \in {"error", "close"}
  BY ServedKept DEF CloseOk, Clean
<1>1. /\ conn = k /\ (client = "hello" => client' = "hello")
      /\ \/ down'[k] = down[k]
         \/ \E m : ~Clean(m) /\ down'[k] = Append(down[k], m)
  OBVIOUS
<1>2. (\E i \in 1..Len(down[k]) : Clean(down[k][i])) =>
        client = "hello" /\ down[k][1].t \in {"error", "close"}
  BY <1>1 DEF CloseOk
<1>3. CASE down'[k] = down[k]
  BY <1>1, <1>2, <1>3
<1>4. ASSUME NEW m, ~Clean(m), down'[k] = Append(down[k], m)
      PROVE  client' = "hello" /\ down'[k][1].t \in {"error", "close"}
  <2> DEFINE D == DownMessages(Known) \cup {m}
  <2>1. down[k] \in Seq(D)
    <3>1. down[k] \in Seq(DownMessages(Known)) /\ DownMessages(Known) \subseteq D
      BY QueueTypes
    <3> HIDE DEF D
    <3> QED BY <3>1, SeqMono
  <2>2. m \in D
    OBVIOUS
  <2> HIDE DEF D
  <2>3. /\ Len(down[k]) \in Nat /\ Len(down'[k]) = Len(down[k]) + 1
        /\ down'[k][Len(down[k]) + 1] = m
        /\ \A i \in 1..Len(down[k]) : down'[k][i] = down[k][i]
    BY <1>4, <2>1, <2>2, SeqElements
  <2>4. j \in 1..Len(down[k]) /\ 1 \in 1..Len(down[k])
    <3>1. j # Len(down[k]) + 1
      BY <1>4, <2>3
    <3> QED BY <2>3, <3>1
  <2>5. Clean(down[k][j]) /\ down'[k][1] = down[k][1]
    BY <2>3, <2>4
  <2> QED BY <1>1, <1>2, <2>4, <2>5
<1> QED BY <1>1, <1>3, <1>4

\* Nor does a step that takes the message in front, once the greeting is over.
LEMMA ClosePopped ==
  ASSUME LogInv, AppendInv, StaleInv, Next, ~Stop, NEW k \in Conns, CloseOk(k),
         conn = k, down[k] # <<>>, down'[k] = Tail(down[k]),
         client = "connected" \/ Head(down[k]).t \notin {"error", "close"}
  PROVE  CloseOk(k)'
<1> SUFFICES ASSUME NEW j \in 1..Len(down'[k]), Clean(down'[k][j]), ~Served PROVE FALSE
  BY ServedKept DEF CloseOk
<1>1. /\ Len(down[k]) \in Nat /\ Len(down[k]) > 0 /\ Head(down[k]) = down[k][1]
      /\ Len(Tail(down[k])) = Len(down[k]) - 1
      /\ \A i \in 1..(Len(down[k]) - 1) : Tail(down[k])[i] = down[k][i + 1]
  <2> DEFINE D == DownMessages(Known)
  <2>1. down[k] \in Seq(D) /\ Error \in D
    BY QueueTypes DEF DownMessages, Error
  <2> HIDE DEF D
  <2> QED BY <2>1, SeqElements
<1>2. j + 1 \in 1..Len(down[k]) /\ Clean(down[k][j + 1])
  BY <1>1
<1> QED BY <1>1, <1>2 DEF CloseOk
\* The client's steps and the clean closes on their way to it.
LEMMA ClientClose ==
  ASSUME LogInv, AppendInv, StaleInv, Next, ~Stop, NEW k \in Conns, CloseOk(k),
         \/ (\E c \in Channels : Record(c)) \/ RequestEnd \/ Resume \/ Reconnect
         \/ \E j \in Conns : Receiver(j) \/ Sender(j) \/ Drop(j)
  PROVE  CloseOk(k)'
<1>1. CASE (\E c \in Channels : Record(c)) \/ RequestEnd
  <2>1. conn' = conn /\ client' = client /\ down' = down
    BY <1>1 DEF Record, RequestEnd
  <2> QED BY <2>1, CloseKept
<1>2. CASE Resume \/ GetTicket
  <2>1. conn' = conn /\ client # "hello" /\ down' = down
    BY <1>2 DEF Resume, GetTicket
  <2> QED BY <2>1, CloseKept
<1>3. ASSUME NEW j \in Conns, Connect(j) PROVE CloseOk(k)'
  <2>1. conn' = j /\ down' = [down EXCEPT ![j] = <<>>]
    BY <1>3 DEF Connect
  <2>2. conn' = k => Len(down'[k]) = 0
    BY <2>1, QueueTypes
  <2> QED BY <2>2 DEF CloseOk
<1>4. ASSUME NEW j \in Conns, NEW kept, NEW to, Leave(j, kept, to) PROVE CloseOk(k)'
  BY <1>4, ServerTypes DEF Leave, CloseOk
<1>5. ASSUME NEW j \in Conns, RecvClose(j) \/ Finish(j) \/ Drop(j) PROVE CloseOk(k)'
  <2>1. \E kept, to : Leave(j, kept, to)
    BY <1>5 DEF RecvClose, Finish, Drop
  <2> QED BY <1>4, <2>1
<1>6. ASSUME NEW j \in Conns, SendEnd(j) \/ \E c \in Channels : SendFrame(j, c)
      PROVE  CloseOk(k)'
  <2>1. conn' = conn /\ client' = client /\ down' = down
    BY <1>6 DEF SendEnd, SendFrame
  <2> QED BY <2>1, CloseKept
<1>7. ASSUME NEW j \in Conns,
             \/ RecvHelloAck(j) \/ RecvAcks(j)
             \/ RecvError(j) /\ ~Leave(j, Len(up[j]), "backoff")
      PROVE  CloseOk(k)'
  <2>1. /\ conn = j /\ conn' = conn /\ down[j] # <<>> /\ down' = [down EXCEPT ![j] = Tail(@)]
        /\ client = "connected" \/ Head(down[j]).t \notin {"error", "close"}
    BY <1>7 DEF RecvHelloAck, RecvAcks, RecvError
  <2>2. CASE j # k
    BY <2>1, <2>2 DEF CloseOk
  <2>3. CASE j = k
    <3>1. down'[k] = Tail(down[k])
      BY <2>1, <2>3, QueueTypes
    <3> QED BY <2>1, <2>3, <3>1, ClosePopped
  <2> QED BY <2>2, <2>3
<1> QED BY <1>1, <1>2, <1>3, <1>4, <1>5, <1>6, <1>7 DEF Reconnect, Receiver, Sender

\* A handler that leaves with a clean close serves a client that has still to see the refusal in
\* front of it, or one whose session is served.
LEMMA ExitClose ==
  ASSUME LogInv, AppendInv, StaleInv, Next, ~Stop, NEW k \in Conns, CloseOk(k),
         NEW j \in Conns, NEW stores, conn' = conn, client' = client,
         \/ Exit(j, <<>>, stores) \/ Exit(j, <<Error>>, stores),
         conn = j => Served \/ (handler[j].st = "accepted" /\ QueueSound(j))
  PROVE  CloseOk(k)'
<1>1. CASE j # k
  <2>1. conn = k => down'[k] = down[k]
    BY <1>1, QueueTypes DEF Exit
  <2> QED BY <2>1, CloseKept
<1>2. CASE j = k
  <2> SUFFICES ASSUME conn = k, ~Served PROVE client = "hello" /\ down'[k][1].t \in {"error", "close"}
    BY ServedKept DEF CloseOk
  <2>1. client = "hello" /\ \A i \in 1..Len(down[k]) : down[k][i].t = "close"
    BY <1>2 DEF QueueSound, Greeting, Close
  <2>2. down'[k] = down[k] \o <<>> \o <<Close(TRUE)>> \/ down'[k] = down[k] \o <<Error>> \o <<Close(TRUE)>>
    BY <1>2, QueueTypes DEF Exit
  <2>3. down'[k][1].t \in {"error", "close"}
    <3> DEFINE D == DownMessages(Known)  x == Close(TRUE)  y == Error
    <3>1. down[k] \in Seq(D) /\ x \in D /\ y \in D /\ x.t = "close" /\ y.t = "error"
      BY QueueTypes DEF DownMessages, Error, Close
    <3>2. down'[k] = down[k] \o <<>> \o <<x>> \/ down'[k] = down[k] \o <<y>> \o <<x>>
      BY <2>2
    <3> HIDE DEF D, x, y
    <3>3. down'[k][1] \in {x, y} \/ (1 \in 1..Len(down[k]) /\ down'[k][1] = down[k][1])
      BY <3>1, <3>2
    <3> QED BY <2>1, <3>1, <3>3
  <2> QED BY <2>1, <2>3
<1> QED BY <1>1, <1>2
\* A handler past hello that refuses a frame has lost its ingest.
LEMMA RefusesStale ==
  ASSUME LogInv, AppendInv, StaleInv, NEW k \in Conns, QueueSound(k), FrameRejected(k)
  PROVE  Served
<1>1. /\ handler[k].st = "open" /\ up[k] # <<>> /\ Head(up[k]).t = "frame"
      /\ store[handler[k].gen].closed
         \/ Head(up[k]).s > store[handler[k].gen].last[Head(up[k]).c] + 1
  BY DEF FrameRejected, Serving, Receives
<1>2. handler[k].st \in PastStates /\ Past(k) /\ ~Committing(k)
  BY <1>1 DEF PastStates, Past, Committing
<1>3. handler[k].gen \in Gens
  BY <1>2 DEF LogInv, HandlersPrepared, Prepared, PastStates
<1>4. CASE store[handler[k].gen].closed
  <2>1. handler[k].gen # hub
    BY <1>3, <1>4, ServerTypes DEF StaleInv
  <2> QED BY <1>2, <2>1, StaleServed
<1>5. CASE Head(up[k]).s > store[handler[k].gen].last[Head(up[k]).c] + 1
  <2>1. up[k][1] \in UpMessages(RecordedFrames) /\ Head(up[k]) = up[k][1] /\ 1 \in 1..Len(up[k])
    BY <1>1, QueueElements
  <2>2. up[k][1] \in RecordedFrames
    BY <1>1, <2>1 DEF UpMessages
  <2>3. PICK c \in Channels, n \in Nat : up[k][1].c = c /\ up[k][1].s = n
    BY <2>2 DEF RecordedFrames, Frames
  <2>4. n - 1 \in Before(up[k][1], c)
    <3>1. store[handler[k].gen].last[c] \in Int /\ store[handler[k].gen].last[c] >= -1
      BY <1>3, StoreCursors
    <3>2. up[k][1].t = "frame" /\ n > store[handler[k].gen].last[c] + 1
      BY <1>1, <1>5, <2>1, <2>3
    <3>3. n - 1 \in 0..(n - 1)
      BY <3>1, <3>2
    <3> QED BY <2>3, <3>2, <3>3 DEF Before
  <2>5. Covered(k, c, n - 1, 1)
    BY <1>2, <2>1, <2>4 DEF QueueSound, InOrder, Follows
  <2>6. n - 1 <= store[handler[k].gen].last[c]
    BY <1>2, <2>5 DEF Covered
  <2>7. store[handler[k].gen].last[c] \in Int
    BY <1>3, StoreCursors
  <2> QED BY <1>5, <2>1, <2>3, <2>6, <2>7
<1> QED BY <1>1, <1>4, <1>5

\* Without database failures a commit never raises.
LEMMA NoCommitFails ==
  ASSUME LogInv, AppendInv, StaleInv, ExactInv, budget'["db"] = 0, budget'["ambiguous"] = 0,
         NEW k \in Conns
  PROVE  ~CommitFails(k)
<1> SUFFICES ASSUME CommitFails(k) PROVE FALSE
  OBVIOUS
<1>1. PICK c \in Channels, n \in Nat, g \in Gens : Failed(k, c, n, g)
  BY FailedCase
<1>2. ~Spend("db") /\ ~Spend("ambiguous")
  <2>1. budget \in [Faults -> Nat] /\ "ambiguous" \in Faults /\ "db" \in Faults
    BY DEF LogInv, ObserverShape, Faults
  <2> QED BY <2>1 DEF Spend
<1>3. handler[k].st = "committing" /\ handler[k].gen = g /\ n = store[g].last[c] + 1 /\ n \in Seqs(c)
  BY <1>1, <1>2 DEF Failed
<1>4. hub = g /\ g # None
  BY <1>3, CommitsAtHub, ServerTypes
<1>5. n <= store[g].last[c] /\ store[g].last[c] \in Int
  BY <1>3, <1>4, StoreCursors DEF ExactInv
<1> QED BY <1>3, <1>5

\* hub.end returns only once the session is served, if it is a producer that ends it.
LEMMA ReturnClose ==
  ASSUME LogInv, AppendInv, StaleInv, Next, ~Stop, NEW k \in Conns, CloseOk(k),
         NEW e \in Conns \cup {Rest}, EndReturn(e)
  PROVE  CloseOk(k)'
<1>1. conn' = conn /\ client' = client /\ handler[e].st = "draining"
  BY DEF EndReturn, Serving, clientVars
<1>2. CASE e = k
  <2>1. handler[k].gen # hub /\ handler[k].st \in PastStates
    BY <1>1, <1>2 DEF StaleInv, PastStates
  <2>2. Served
    BY <2>1, StaleServed
  <2> QED BY <2>2, ServedKept DEF CloseOk
<1>3. CASE e # k
  <2>1. down'[k] = down[k] \/ down'[k] = Append(down[k], Close(FALSE))
    <3> DEFINE other == IF handler[e].took = None THEN None ELSE store[handler[e].took].producer
               cut == [i \in Conns |-> IF i = other /\ i # e /\ conn = i
                                       THEN Append(down[i], Close(FALSE)) ELSE down[i]]
    <3>1. cut[k] = down[k] \/ cut[k] = Append(down[k], Close(FALSE))
      OBVIOUS
    <3>2. down' = cut \/ \E q : down' = [cut EXCEPT ![e] = q]
      BY DEF EndReturn
    <3>3. down'[k] = cut[k]
      BY <1>3, <3>2
    <3> QED BY <3>1, <3>3
  <2>2. ~Clean(Close(FALSE))
    BY Zenon DEF Close, Clean
  <2>3. down'[k] = down[k] \/ \E m : ~Clean(m) /\ down'[k] = Append(down[k], m)
    <3> DEFINE x == Close(FALSE)
    <3>1. down'[k] = down[k] \/ down'[k] = Append(down[k], x)
      BY <2>1
    <3>2. ~Clean(x)
      BY <2>2
    <3> HIDE DEF x
    <3> QED BY <3>1, <3>2
  <2> QED BY <1>1, <2>3, CloseKept
<1> QED BY <1>2, <1>3

\* The server's steps and the clean closes on their way to the client.
LEMMA ServerClose ==
  ASSUME LogInv, AppendInv, StaleInv, QueueInv, ExactInv, Next, ~Stop, ~RestEnds,
         budget'["db"] = 0, budget'["ambiguous"] = 0,
         NEW k \in Conns, CloseOk(k),
         \/ \E j \in Conns : Serve(j) \/ FlushAcks(j)
         \/ \E e \in Conns \cup {Rest} : Ending(e)
         \/ Fsync \/ WatchdogEnds \/ ServerCrash \/ PowerLoss \/ ServerRestart
  PROVE  CloseOk(k)'
<1>1. CASE Fsync \/ WatchdogEnds \/ ServerRestart
  <2>1. conn' = conn /\ client' = client /\ down' = down
    BY <1>1 DEF Fsync, WatchdogEnds, ServerRestart, clientVars
  <2> QED BY <2>1, CloseKept
<1>2. CASE ServerCrash \/ PowerLoss
  <2>1. conn' = None /\ None # k
    BY <1>2, ServerTypes DEF ServerCrash, PowerLoss, Die
  <2> QED BY <2>1 DEF CloseOk
<1>3. ASSUME NEW e \in Conns \cup {Rest}, EndClose(e) PROVE CloseOk(k)'
  <2>1. conn' = conn /\ client' = client /\ down' = down
    BY <1>3 DEF EndClose, clientVars
  <2> QED BY <2>1, CloseKept
<1>4. ASSUME NEW e \in Conns \cup {Rest}, EndReturn(e) PROVE CloseOk(k)'
  BY <1>4, ReturnClose
<1>5. ASSUME NEW j \in Conns,
             \/ FrameDuplicate(j) \/ FrameWritten(j) \/ CommitOk(j) \/ Feed(j) \/ ProducerEnds(j)
      PROVE  CloseOk(k)'
  <2>1. conn' = conn /\ client' = client /\ down' = down
    BY <1>5 DEF FrameDuplicate, FrameWritten, CommitOk, Feed, ProducerEnds, clientVars
  <2> QED BY <2>1, CloseKept
<1>6. ASSUME NEW j \in Conns, NEW g \in Gens, HelloAccepted(j, g) PROVE CloseOk(k)'
  <2>1. /\ conn' = conn /\ client' = client
        /\ \E f : down' = [down EXCEPT ![j] = IF conn = j THEN Append(@, HelloAck(f)) ELSE @]
    BY <1>6 DEF HelloAccepted, clientVars
  <2>2. PICK f : down' = [down EXCEPT ![j] = IF conn = j THEN Append(@, HelloAck(f)) ELSE @]
    BY <2>1
  <2>3. down'[k] = down[k] \/ down'[k] = Append(down[k], HelloAck(f))
    BY <2>2, QueueTypes
  <2>4. ~Clean(HelloAck(f))
    BY DEF Clean, HelloAck
  <2> QED BY <2>1, <2>3, <2>4, CloseKept
<1>7. ASSUME NEW j \in Conns, FlushAcks(j) PROVE CloseOk(k)'
  <2>1. /\ conn' = conn /\ client' = client
        /\ down' = [down EXCEPT ![j] = IF conn = j THEN @ \o AcksFor(j) ELSE @]
    BY <1>7 DEF FlushAcks, clientVars
  <2>2. \E f : AcksFor(j) = <<>> \/ AcksFor(j) = <<Acks(f)>>
    BY DEF AcksFor
  <2>3. PICK f : AcksFor(j) = <<>> \/ AcksFor(j) = <<Acks(f)>>
    BY <2>2
  <2>4. down'[k] = down[k] \/ down'[k] = down[k] \o <<>> \/ down'[k] = down[k] \o <<Acks(f)>>
    BY <2>1, <2>3, QueueTypes
  <2>5. ~Clean(Acks(f))
    BY DEF Clean, Acks
  <2>6. PICK m : m = Acks(f) /\ ~Clean(m)
    BY <2>5
  <2>7. down'[k] = down[k] \/ down'[k] = Append(down[k], m)
    <3> DEFINE D == DownMessages(Known)
    <3>1. down[k] \in Seq(D)
      BY QueueTypes
    <3>2. down'[k] = down[k] \/ down'[k] = down[k] \o <<>> \/ down'[k] = down[k] \o <<m>>
      BY <2>4, <2>6
    <3> HIDE DEF D
    <3> QED BY <3>1, <3>2
  <2> QED BY <2>1, <2>6, <2>7, CloseKept
<1>8. ASSUME NEW j \in Conns,
             HandlerGone(j) \/ HelloRejected(j) \/ HelloLoadFails(j) \/ FrameRejected(j)
      PROVE  CloseOk(k)'
  <2>1. /\ conn' = conn /\ client' = client
        /\ Exit(j, <<>>, store) \/ Exit(j, <<Error>>, store)
    BY <1>8 DEF HandlerGone, HelloRejected, HelloLoadFails, FrameRejected, clientVars
  <2>2. QueueSound(j)
    BY DEF QueueInv
  <2>3. conn = j => ~HandlerGone(j)
    <3> SUFFICES ASSUME conn = j, HandlerGone(j) PROVE FALSE
      OBVIOUS
    <3>1. up[j] # <<>> /\ Head(up[j]).t = "gone"
      BY DEF HandlerGone, Receives
    <3>2. Head(up[j]) = up[j][1] /\ 1 \in 1..Len(up[j])
      BY <3>1, QueueElements
    <3> QED BY <2>2, <3>1, <3>2 DEF QueueSound
  <2>4. HelloRejected(j) \/ HelloLoadFails(j) => handler[j].st = "accepted"
    BY DEF HelloRejected, HelloLoadFails, Serving
  <2>5. FrameRejected(j) => Served
    BY <2>2, RefusesStale
  <2> QED BY <1>8, <2>1, <2>2, <2>3, <2>4, <2>5, ExitClose
<1>9. ASSUME NEW j \in Conns PROVE ~CommitFails(j)
  BY NoCommitFails
<1> QED BY <1>1, <1>2, <1>3, <1>4, <1>5, <1>6, <1>7, <1>8, <1>9 DEF Serve, Ending
\* Only Record records.
LEMMA NothingRecorded ==
  ASSUME Next, \A c \in Channels : ~Record(c)
  PROVE  recorded' = recorded
<1>1. CASE RequestEnd \/ Stop \/ Resume \/ Reconnect \/ Fsync \/ RestEnds \/ WatchdogEnds \/ ServerRestart
  BY <1>1 DEF RequestEnd, Stop, Resume, Reconnect, GetTicket, Connect, Fsync, RestEnds, WatchdogEnds,
     ServerRestart, clientVars
<1>2. CASE ServerCrash \/ PowerLoss
  BY <1>2 DEF ServerCrash, PowerLoss, Die
<1>3. CASE \E k \in Conns : Receiver(k) \/ Sender(k) \/ Drop(k)
  BY <1>3 DEF Receiver, RecvHelloAck, RecvAcks, RecvError, RecvClose, Sender, SendEnd, Finish,
     SendFrame, Drop
<1>4. ASSUME NEW k \in Conns, Serve(k) \/ FlushAcks(k) PROVE recorded' = recorded
  <2>1. CASE HandlerGone(k) \/ HelloRejected(k) \/ HelloLoadFails(k) \/ FrameRejected(k) \/ FlushAcks(k)
    BY <2>1 DEF HandlerGone, HelloRejected, HelloLoadFails, FrameRejected, FlushAcks, clientVars
  <2>2. CASE \E g \in Gens : HelloAccepted(k, g)
    BY <2>2 DEF HelloAccepted, clientVars
  <2>3. CASE FrameDuplicate(k) \/ FrameWritten(k) \/ CommitOk(k) \/ CommitFails(k)
    BY <2>3 DEF FrameDuplicate, FrameWritten, CommitOk, CommitFails, clientVars
  <2>4. CASE Feed(k) \/ ProducerEnds(k)
    BY <2>4 DEF Feed, ProducerEnds, clientVars
  <2> QED BY <1>4, <2>1, <2>2, <2>3, <2>4 DEF Serve
<1>5. CASE \E e \in Conns \cup {Rest} : Ending(e)
  BY <1>5 DEF Ending, EndClose, EndReturn, clientVars
<1> QED BY <1>1, <1>2, <1>3, <1>4, <1>5 DEF Next

\* The client ends on its last ack, or on a clean close.
LEMMA EndsBy ==
  ASSUME LogInv, Next, ~Stop, client' = "ended", client # "ended"
  PROVE  \E k \in Conns : Finish(k) \/ (RecvClose(k) /\ client = "connected" /\ Head(down[k]).clean)
<1>1. ASSUME NEW k \in Conns, RecvClose(k), ~(client = "connected" /\ Head(down[k]).clean) PROVE FALSE
  <2>1. client' = "backoff"
    BY <1>1 DEF RecvClose, Leave
  <2> QED BY <2>1
<1>2. ~\E k \in Conns : RecvHelloAck(k) \/ RecvAcks(k) \/ RecvError(k) \/ Drop(k)
                        \/ SendEnd(k) \/ \E c \in Channels : SendFrame(k, c)
  BY DEF RecvHelloAck, RecvAcks, RecvError, Drop, SendEnd, SendFrame, Leave
<1>3. ASSUME NEW k \in Conns, Serve(k) \/ FlushAcks(k) PROVE FALSE
  <2>1. CASE HandlerGone(k) \/ HelloRejected(k) \/ HelloLoadFails(k) \/ FrameRejected(k) \/ FlushAcks(k)
    BY <2>1 DEF HandlerGone, HelloRejected, HelloLoadFails, FrameRejected, FlushAcks, clientVars
  <2>2. CASE \E g \in Gens : HelloAccepted(k, g)
    BY <2>2 DEF HelloAccepted, clientVars
  <2>3. CASE FrameDuplicate(k) \/ FrameWritten(k) \/ CommitOk(k) \/ CommitFails(k)
    BY <2>3 DEF FrameDuplicate, FrameWritten, CommitOk, CommitFails, clientVars
  <2>4. CASE Feed(k) \/ ProducerEnds(k)
    BY <2>4 DEF Feed, ProducerEnds, clientVars
  <2> QED BY <1>3, <2>1, <2>2, <2>3, <2>4 DEF Serve
<1>5. ~\E e \in Conns \cup {Rest} : Ending(e)
  BY DEF Ending, EndClose, EndReturn, clientVars
<1>4. /\ ~\E c \in Channels : Record(c)
      /\ ~(RequestEnd \/ Resume \/ Reconnect \/ Fsync \/ RestEnds \/ WatchdogEnds \/ ServerRestart)
      /\ ~(ServerCrash \/ PowerLoss)
  BY DEF Record, RequestEnd, Resume, Reconnect, GetTicket, Connect, Fsync, RestEnds, WatchdogEnds,
     ServerRestart, ServerCrash, PowerLoss, Die, clientVars
<1> QED BY <1>1, <1>2, <1>3, <1>4, <1>5 DEF Next, Receiver, Sender

\* So what it has recorded by then is stored, and nothing is recorded any more.
LEMMA EndedStep ==
  ASSUME LogInv, Next, ~Stop, CloseInv
  PROVE  EndedStored'
<1> SUFFICES ASSUME client' = "ended" PROVE AllStored'
  BY DEF EndedStored, AllStored
<1>1. AllStored
  <2>1. CASE client = "ended"
    BY <2>1 DEF CloseInv, EndedStored, AllStored
  <2>2. ASSUME NEW k \in Conns, Finish(k) PROVE AllStored
    <3>1. acked \in Cursors(Known) /\ \A c \in Channels : acked[c] + 1 >= recorded[c]
      BY <2>2 DEF LogInv, ClientShape, Finish
    <3> QED BY <3>1, FullStored
  <2>3. ASSUME NEW k \in Conns, RecvClose(k), client = "connected", Head(down[k]).clean
        PROVE  AllStored
    <3>1. conn = k /\ down[k] # <<>> /\ Clean(Head(down[k]))
      BY <2>3 DEF RecvClose, Clean
    <3>2. Head(down[k]) = down[k][1] /\ 1 \in 1..Len(down[k])
      <4> DEFINE D == DownMessages(Known)
      <4>1. down[k] \in Seq(D) /\ Error \in D
        BY QueueTypes DEF DownMessages, Error
      <4> HIDE DEF D
      <4> QED BY <3>1, <4>1, SeqElements
    <3>3. CloseOk(k)
      BY DEF CloseInv
    <3> QED BY <2>3, <3>1, <3>2, <3>3 DEF CloseOk, Served
  <2> QED BY <2>1, <2>2, <2>3, EndsBy
<1>2. \A c \in Channels : ~Record(c)
  BY DEF Record, Recording
<1> QED BY <1>1, <1>2, NothingRecorded, SeqsStep DEF AllStored

\* Every step keeps CloseInv, while none of the faults happens that make the client give up early.
LEMMA CloseStep ==
  ASSUME StoreInv, Next, Never(Ungiving)', CloseInv
  PROVE  CloseInv'
<1>1. LogInv /\ AppendInv
  BY DEF StoreInv
<1>2. Ungiving \in SUBSET Faults
  BY DEF Ungiving, Faults
<1>3. Never(Ungiving) /\ ~Stop /\ ~RestEnds
  BY <1>1, <1>2, NeverBefore DEF Ungiving
<1>4. StaleInv /\ QueueInv /\ ExactInv
  BY <1>3 DEF StoreInv, Calm, CalmInv, Never, Ungiving
<1>5. budget'["db"] = 0 /\ budget'["ambiguous"] = 0
  BY DEF Never, Ungiving
<1>6. ASSUME NEW k \in Conns PROVE CloseOk(k)'
  <2>1. CloseOk(k)
    BY DEF CloseInv
  <2>2. CASE \/ (\E c \in Channels : Record(c)) \/ RequestEnd \/ Resume \/ Reconnect
             \/ \E j \in Conns : Receiver(j) \/ Sender(j) \/ Drop(j)
    BY <1>1, <1>3, <1>4, <2>1, <2>2, ClientClose
  <2>3. CASE \/ \E j \in Conns : Serve(j) \/ FlushAcks(j)
             \/ \E e \in Conns \cup {Rest} : Ending(e)
             \/ Fsync \/ WatchdogEnds \/ ServerCrash \/ PowerLoss \/ ServerRestart
    BY <1>1, <1>3, <1>4, <1>5, <2>1, <2>3, ServerClose
  <2> QED BY <1>3, <2>2, <2>3 DEF Next
<1>7. EndedStored'
  BY <1>1, <1>3, EndedStep
<1> QED BY <1>6, <1>7 DEF CloseInv

\* A client that reports the session ended has every recorded frame on the server, whatever drops,
\* crashes and power losses came in between (end, _run; hub.end): every clean close is sent by a
\* handler whose session has all it was to get.
THEOREM EndedIsStored == Spec => []EndedMeansStored
<1> DEFINE Inv == Never(Ungiving) => CloseInv
<1>1. Init => Inv
  <2> SUFFICES ASSUME Init PROVE CloseInv
    OBVIOUS
  <2>1. client = "backoff" /\ \A k \in Conns : conn # k
    BY DistinctIdentities DEF Init
  <2> QED BY <2>1 DEF CloseInv, CloseOk, EndedStored
<1>2. StoreInv /\ Inv /\ [Next]_vars => Inv'
  <2> SUFFICES ASSUME StoreInv, Inv, [Next]_vars, Never(Ungiving)' PROVE CloseInv'
    OBVIOUS
  <2>1. CASE UNCHANGED vars
    <3>1. Never(Ungiving)
      BY <2>1 DEF vars, Never
    <3>2. CloseInv
      BY <3>1
    <3> QED BY <2>1, <3>2 DEF vars, CloseInv, CloseOk, Clean, Served, AllStored, EndedStored, Seqs
  <2>2. CASE Next
    <3>1. {"db", "ambiguous", "end", "stop"} \in SUBSET Faults /\ LogInv
      BY DEF Faults, StoreInv
    <3>2. Never(Ungiving)
      BY <2>2, <3>1, NeverBefore DEF Ungiving
    <3> QED BY <2>2, <3>2, CloseStep
  <2> QED BY <2>1, <2>2
<1>3. Inv => EndedMeansStored
  BY DEF EndedMeansStored, CloseInv, Ungiving
<1> QED BY <1>1, <1>2, <1>3, StoreInvariant, PTL DEF Spec
=============================================================================
