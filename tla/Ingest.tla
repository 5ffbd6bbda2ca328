------------------------------- MODULE Ingest -------------------------------
(***************************************************************************)
(* The path of one session's audio from the capture client to the server:  *)
(* the client's connection loop (client/transport.py), the producer        *)
(* handlers (api/stream.py), the hub (ingest/hub.py) and the audio store   *)
(* (ingest/store.py), at the granularity of their awaits.                  *)
(*                                                                         *)
(* A frame is its channel and seq; the outbox (Outbox.tla) gives every seq *)
(* one payload.  Every frame is one unit long, so byte offsets count       *)
(* frames.  A connection is a pair of FIFO queues; after a network drop    *)
(* the old handler still works through what the server had received.       *)
(***************************************************************************)
EXTENDS Integers, Sequences, FiniteSets

CONSTANTS Channels,
          Conns,            \* identities of connections; reused once both sides are done
          Gens,             \* identities of SessionIngest objects (one AudioStore each)
          Rest,             \* the caller of hub.end that is not a producer: REST API, watchdog
          Window,           \* max_unacked_ms, in frames
          MaxFrames,        \* frames recorded per channel
          Scenarios         \* bounds on the faults: how often each may happen, together

\* drop: the network drops the connection; crash, power: the server dies, with its machine or
\* not; db, ambiguous: a commit fails, without or with effect; end: the REST API ends the
\* session; stop: the client's daemon dies or is stopped.
Faults == {"drop", "crash", "power", "db", "ambiguous", "end", "stop"}

ASSUME IngestBounds ==
  Window \in Nat /\ MaxFrames \in Nat /\ Scenarios \subseteq [Faults -> Nat]
None == -1

ASSUME DistinctIdentities == Rest \notin Conns /\ None \notin Conns \cup Gens

VARIABLES
  \* The capture client.
  recorded,      \* recorded[c]: frames in the outbox
  acked,         \* acked[c]: the outbox's ack cursor (durable)
  next,          \* next[c]: next_to_send of the connection's send loop
  client,        \* ProducerConnection.state, with the steps of connecting told apart
  conn,          \* the connection in use
  endRequested, endSent,
  \* The network.
  up, down,      \* up[k], down[k]: messages in flight on connection k
  \* The server process.
  server,        \* "up" or "down"
  handler,       \* handler[k]: the coroutine serving connection k, or hub.end for Rest
  hub,           \* IngestHub._states of this session
  store,         \* store[g]: the SessionIngest g and its AudioStore
  \* Durable server state.
  status,        \* Session.status
  file,          \* file[c]: the frames in <channel>.pcm
  synced,        \* synced[c]: how many of them are known to be on disk
  index,         \* index[c]: the audio_chunks rows
  \* Observers and budgets.
  fed,           \* fed[c]: the frames handed to the pipeline, in order
  budget         \* how often each fault has happened

clientVars == <<recorded, acked, next, client, conn, endRequested, endSent>>
serverVars == <<server, handler, hub, store>>
durableVars == <<status, file, synced, index>>
vars == <<recorded, acked, next, client, conn, endRequested, endSent, up, down,
          server, handler, hub, store, status, file, synced, index, fed, budget>>

MaxOf(a, b) == IF a >= b THEN a ELSE b

-----------------------------------------------------------------------------
(* Messages and state values *)

Hello == [t |-> "hello"]
Frame(c, s) == [t |-> "frame", c |-> c, s |-> s]
End == [t |-> "end"]
NoFrame == [t |-> "none"]
Gone == [t |-> "gone"]              \* the server sees the peer disconnect
HelloAck(cursor) == [t |-> "hello_ack", cursor |-> cursor]
Acks(cursor) == [t |-> "acks", cursor |-> cursor]  \* of one flush; None: no ack for the channel
Error == [t |-> "error"]
Close(clean) == [t |-> "close", clean |-> clean]   \* clean: close code 1000

Closed == [st |-> "closed", row |-> "live", gen |-> None, took |-> None, frame |-> NoFrame,
           dirty |-> {}]
NewStore(cursor) ==
  [last |-> cursor, closed |-> FALSE, lock |-> None, producer |-> None,
   offset |-> [c \in Channels |-> cursor[c] + 1]]

Seqs(c) == {r.seq : r \in index[c]}

\* The last row of a channel by seq, as load() selects it.
LastRow(c) == CHOOSE r \in index[c] : \A q \in index[c] : q.seq <= r.seq
IndexedCursor == [c \in Channels |-> IF index[c] = {} THEN None ELSE LastRow(c).seq]
IndexedEnd(c) == IF index[c] = {} THEN 0 ELSE LastRow(c).offset + 1

\* ftruncate: cuts, or extends with zeros.
Truncate(s, n) == IF Len(s) <= n THEN s \o [i \in 1..(n - Len(s)) |-> None] ELSE SubSeq(s, 1, n)

\* The fault happens once more, within one of the scenarios.
Affords(fault) ==
  \E most \in Scenarios : budget[fault] < most[fault] /\ \A f \in Faults : budget[f] <= most[f]
Spend(fault) == Affords(fault) /\ budget' = [budget EXCEPT ![fault] = @ + 1]

Init ==
  /\ recorded = [c \in Channels |-> 0]
  /\ acked = [c \in Channels |-> None]
  /\ next = [c \in Channels |-> 0]
  /\ client = "backoff" /\ conn = None
  /\ endRequested = FALSE /\ endSent = FALSE
  /\ up = [k \in Conns |-> <<>>] /\ down = [k \in Conns |-> <<>>]
  /\ server = "up"
  /\ handler = [k \in Conns \cup {Rest} |-> Closed]
  /\ hub = None
  /\ store = [g \in Gens |-> NewStore([c \in Channels |-> None])]
  /\ status = "live"
  /\ file = [c \in Channels |-> <<>>]
  /\ synced = [c \in Channels |-> 0]
  /\ index = [c \in Channels |-> {}]
  /\ fed = [c \in Channels |-> <<>>]
  /\ budget = [f \in Faults |-> 0]

-----------------------------------------------------------------------------
(* The capture client *)

Recording == client \notin {"ended", "stopped"} /\ ~endRequested

\* The capturer appends a frame to the outbox.
Record(c) ==
  /\ Recording /\ recorded[c] < MaxFrames
  /\ recorded' = [recorded EXCEPT ![c] = @ + 1]
  /\ UNCHANGED <<acked, next, client, conn, endRequested, endSent, up, down, serverVars,
                 durableVars, fed, budget>>

\* end(): capture has stopped; flush and send `end`.
RequestEnd ==
  /\ Recording
  /\ endRequested' = TRUE
  /\ UNCHANGED <<recorded, acked, next, client, conn, endSent, up, down, serverVars,
                 durableVars, fed, budget>>

\* The client lets go of its connection: what it sent may still arrive (a prefix of it after a
\* drop), then the server sees it gone; what was on its way down is lost.
Leave(k, kept, to) ==
  /\ client' = to /\ conn' = None
  /\ next' = [c \in Channels |-> 0] /\ endSent' = FALSE
  /\ up' = [up EXCEPT ![k] = IF handler[k].st = "closed" THEN <<>>
                             ELSE Append(SubSeq(@, 1, kept), Gone)]
  /\ down' = [down EXCEPT ![k] = <<>>]

\* _ticket: the server issues producer tickets while the session is live; a refusal is retried.
GetTicket ==
  /\ client = "backoff" /\ server = "up" /\ status = "live"
  /\ client' = "ticketed"
  /\ UNCHANGED <<recorded, acked, next, conn, endRequested, endSent, up, down, serverVars,
                 durableVars, fed, budget>>

\* Connect and send hello; stream() reads the session row before it accepts.
Connect(k) ==
  /\ client = "ticketed" /\ server = "up"
  /\ handler[k].st = "closed"
  /\ client' = "hello" /\ conn' = k /\ endSent' = FALSE
  /\ up' = [up EXCEPT ![k] = <<Hello>>] /\ down' = [down EXCEPT ![k] = <<>>]
  /\ handler' = [handler EXCEPT ![k] = [Closed EXCEPT !.st = "accepted", !.row = status]]
  /\ UNCHANGED <<recorded, acked, next, endRequested, server, hub, store, durableVars, fed, budget>>

\* Mutant: the cursor is taken for the next seq the server expects.
RaiseAckedToNext(cursor) == [c \in Channels |-> MaxOf(acked[c], cursor[c] + 1)]

\* mark_acked ignores lower values.
RaiseAcked(cursor) == [c \in Channels |-> MaxOf(acked[c], cursor[c])]

\* _converse after hello_ack: raise the outbox's acks, send from there on.
RecvHelloAck(k) ==
  /\ conn = k /\ client = "hello" /\ down[k] # <<>> /\ Head(down[k]).t = "hello_ack"
  /\ acked' = RaiseAcked(Head(down[k]).cursor)
  /\ next' = [c \in Channels |-> acked'[c] + 1]
  /\ client' = "connected"
  /\ down' = [down EXCEPT ![k] = Tail(@)]
  /\ UNCHANGED <<recorded, conn, endRequested, endSent, up, serverVars, durableVars, fed, budget>>

\* _receive_loop: acks move the outbox's cursor.
RecvAcks(k) ==
  /\ conn = k /\ client = "connected" /\ down[k] # <<>> /\ Head(down[k]).t = "acks"
  /\ acked' = RaiseAcked(Head(down[k]).cursor)
  /\ down' = [down EXCEPT ![k] = Tail(@)]
  /\ UNCHANGED <<recorded, next, client, conn, endRequested, endSent, up, serverVars,
                 durableVars, fed, budget>>

\* An error is fatal to the handshake (retry) and only reported afterwards.
RecvError(k) ==
  /\ conn = k /\ down[k] # <<>> /\ Head(down[k]).t = "error"
  /\ \/ client = "hello" /\ Leave(k, Len(up[k]), "backoff")
     \/ /\ client = "connected"
        /\ down' = [down EXCEPT ![k] = Tail(@)]
        /\ UNCHANGED <<next, client, conn, endSent, up>>
  /\ UNCHANGED <<recorded, acked, endRequested, serverVars, durableVars, fed, budget>>

\* The server closed the socket: after `end`, a close with code 1000 ends the run; anything else
\* is retried.
RecvClose(k) ==
  /\ conn = k /\ down[k] # <<>> /\ Head(down[k]).t = "close"
  /\ Leave(k, Len(up[k]),
           IF client = "connected" /\ endSent /\ Head(down[k]).clean THEN "ended" ELSE "backoff")
  /\ UNCHANGED <<recorded, acked, endRequested, serverVars, durableVars, fed, budget>>

NextToSend(c) == MaxOf(next[c], acked[c] + 1)

\* What is sent after the server has closed the socket is lost.
Deliver(k, m) == up' = [up EXCEPT ![k] = IF handler[k].st = "closed" THEN @ ELSE Append(@, m)]

\* _send_loop: the next unacked frame, unless more than the window is in flight.
SendFrame(k, c) ==
  /\ conn = k /\ client = "connected"
  /\ next[c] - 1 - acked[c] <= Window
  /\ NextToSend(c) < recorded[c]
  /\ Deliver(k, Frame(c, NextToSend(c)))
  /\ next' = [next EXCEPT ![c] = NextToSend(c) + 1]
  /\ UNCHANGED <<recorded, acked, client, conn, endRequested, endSent, down, serverVars,
                 durableVars, fed, budget>>

SendEndEarly(k) ==                                                               \* mutant
  /\ conn = k /\ client = "connected" /\ endRequested /\ ~endSent
  /\ Deliver(k, End)
  /\ endSent' = TRUE
  /\ UNCHANGED <<recorded, acked, next, client, conn, endRequested, down, serverVars,
                 durableVars, fed, budget>>

\* `end` follows once every frame has been sent.
SendEnd(k) ==
  /\ conn = k /\ client = "connected"
  /\ endRequested /\ ~endSent
  /\ \A c \in Channels : NextToSend(c) >= recorded[c]
  /\ Deliver(k, End)
  /\ endSent' = TRUE
  /\ UNCHANGED <<recorded, acked, next, client, conn, endRequested, down, serverVars,
                 durableVars, fed, budget>>

\* `end` sent and every frame acked: the run is over.
Finish(k) ==
  /\ conn = k /\ client = "connected" /\ endSent
  /\ \A c \in Channels : acked[c] + 1 >= recorded[c]
  /\ Leave(k, Len(up[k]), "ended")
  /\ UNCHANGED <<recorded, acked, endRequested, serverVars, durableVars, fed, budget>>

\* The network drops the connection.
Drop(k) ==
  /\ conn = k
  /\ \E kept \in 0..Len(up[k]) : Leave(k, kept, "backoff")
  /\ Spend("drop")
  /\ UNCHANGED <<recorded, acked, endRequested, serverVars, durableVars, fed>>

\* stop(), the end timeout or a crash of the daemon; a later daemon resumes from the outbox.
Stop ==
  /\ client \notin {"ended", "stopped"}
  /\ \/ conn # None /\ \E kept \in 0..Len(up[conn]) : Leave(conn, kept, "stopped")
     \/ conn = None /\ client' = "stopped" /\ UNCHANGED <<next, conn, endSent, up, down>>
  /\ endRequested' = FALSE
  /\ Spend("stop")
  /\ UNCHANGED <<recorded, acked, serverVars, durableVars, fed>>

Resume ==
  /\ client = "stopped"
  /\ client' = "backoff"
  /\ UNCHANGED <<recorded, acked, next, conn, endRequested, endSent, up, down, serverVars,
                 durableVars, fed, budget>>

-----------------------------------------------------------------------------
(* The producer handler *)

Serving(k, st) == server = "up" /\ handler[k].st = st
Receives(k, t) == up[k] # <<>> /\ Head(up[k]).t = t

\* The handler of k leaves _producer: it is no longer the producer, forces an fsync, and the
\* socket is closed with code 1000 once `msgs` are out.
Exit(k, msgs, stores) ==
  /\ handler' = [handler EXCEPT ![k] = Closed]
  /\ up' = [up EXCEPT ![k] = <<>>]
  /\ down' = [down EXCEPT ![k] = IF conn = k THEN @ \o msgs \o <<Close(TRUE)>> ELSE <<>>]
  /\ store' = [g \in Gens |-> IF stores[g].producer = k THEN [stores[g] EXCEPT !.producer = None]
                              ELSE stores[g]]

\* The peer is gone, or the handler was superseded and its buffer is empty.
HandlerGone(k) ==
  /\ Serving(k, "accepted") \/ Serving(k, "open")
  /\ Receives(k, "gone")
  /\ Exit(k, <<>>, store)
  /\ synced' = IF handler[k].st = "open" THEN [c \in Channels |-> Len(file[c])] ELSE synced
  /\ UNCHANGED <<clientVars, server, hub, status, file, index, fed, budget>>

\* hello on a session whose row was not live when it was read: session_not_live.
HelloRejected(k) ==
  /\ Serving(k, "accepted") /\ Receives(k, "hello")
  /\ handler[k].row # "live"
  /\ Exit(k, <<Error>>, store)
  /\ UNCHANGED <<clientVars, server, hub, durableVars, fed, budget>>

\* A SessionIngest object nothing refers to.
FreeGen(g) == hub # g /\ \A k \in Conns \cup {Rest} : g \notin {handler[k].gen, handler[k].took}

\* load() refuses a file shorter than its index: the handler dies with the exception.
HelloLoadFails(k) ==
  /\ Serving(k, "accepted") /\ Receives(k, "hello")
  /\ handler[k].row = "live" /\ hub = None
  /\ \E c \in Channels : Len(file[c]) < IndexedEnd(c)
  /\ Exit(k, <<>>, store)
  /\ UNCHANGED <<clientVars, server, hub, durableVars, fed, budget>>

\* hello on a live row: get or load the session's ingest, take over as its producer and answer
\* with the store's cursor.
HelloAccepted(k, g) ==
  /\ Serving(k, "accepted") /\ Receives(k, "hello")
  /\ handler[k].row = "live"
  /\ \/ /\ hub = g
        /\ store' = [store EXCEPT ![g].producer = k]
        /\ UNCHANGED <<file, synced>>
     \/ /\ hub = None /\ FreeGen(g)
        /\ \A c \in Channels : Len(file[c]) >= IndexedEnd(c)
        /\ file' = [c \in Channels |-> SubSeq(file[c], 1, IndexedEnd(c))]
        /\ synced' = [c \in Channels |-> IF synced[c] <= IndexedEnd(c) THEN synced[c]
                                         ELSE IndexedEnd(c)]
        /\ store' = [store EXCEPT ![g] =
             [NewStore(IndexedCursor) EXCEPT !.producer = k,
                                             !.offset = [c \in Channels |-> IndexedEnd(c)]]]
  /\ hub' = g
  /\ handler' = [handler EXCEPT ![k] = [@ EXCEPT !.st = "open", !.gen = g]]
  /\ up' = [up EXCEPT ![k] = Tail(@)]
  /\ down' = [down EXCEPT ![k] =
       IF conn = k THEN Append(@, HelloAck(store'[g].last)) ELSE @]
  /\ UNCHANGED <<clientVars, server, status, index, fed, budget>>

\* append(): the store is closed, or the frame leaves a gap: error, then close.
FrameRejected(k) ==
  /\ Serving(k, "open") /\ Receives(k, "frame")
  /\ LET m == Head(up[k])  s == store[handler[k].gen]
     IN  /\ s.lock = None
         /\ s.closed \/ m.s > s.last[m.c] + 1
  /\ Exit(k, <<Error>>, store)
  /\ synced' = [c \in Channels |-> Len(file[c])]
  /\ UNCHANGED <<clientVars, server, hub, status, file, index, fed, budget>>

FrameDuplicateFed(k) ==                                                          \* mutant
  /\ Serving(k, "open") /\ Receives(k, "frame")
  /\ LET m == Head(up[k])  s == store[handler[k].gen]
     IN  /\ s.lock = None /\ ~s.closed
         /\ m.s <= s.last[m.c]
         /\ handler' = [handler EXCEPT ![k] = [@ EXCEPT !.st = "stored", !.frame = m]]
  /\ up' = [up EXCEPT ![k] = Tail(@)]
  /\ UNCHANGED <<clientVars, down, server, hub, store, durableVars, fed, budget>>

\* append(): a frame the store already has; it is acked again.
FrameDuplicate(k) ==
  /\ Serving(k, "open") /\ Receives(k, "frame")
  /\ LET m == Head(up[k])  s == store[handler[k].gen]
     IN  /\ s.lock = None /\ ~s.closed
         /\ m.s <= s.last[m.c]
         /\ handler' = [handler EXCEPT ![k].dirty = @ \cup {m.c}]
  /\ up' = [up EXCEPT ![k] = Tail(@)]
  /\ UNCHANGED <<clientVars, down, server, hub, store, durableVars, fed, budget>>

FrameWrittenCursorFirst(k) ==                                                    \* mutant
  /\ Serving(k, "open") /\ Receives(k, "frame")
  /\ LET m == Head(up[k])  g == handler[k].gen
     IN  /\ store[g].lock = None /\ ~store[g].closed
         /\ m.s = store[g].last[m.c] + 1
         /\ file' = [file EXCEPT ![m.c] = Append(@, m.s)]
         /\ store' = [store EXCEPT ![g].lock = k, ![g].last[m.c] = m.s]
         /\ handler' = [handler EXCEPT ![k] = [@ EXCEPT !.st = "committing", !.frame = m]]
  /\ up' = [up EXCEPT ![k] = Tail(@)]
  /\ UNCHANGED <<clientVars, down, server, hub, status, synced, index, fed, budget>>

\* append(): the next frame; written to the file under the store's lock, then committed.
FrameWritten(k) ==
  /\ Serving(k, "open") /\ Receives(k, "frame")
  /\ LET m == Head(up[k])  g == handler[k].gen
     IN  /\ store[g].lock = None /\ ~store[g].closed
         /\ m.s = store[g].last[m.c] + 1
         /\ file' = [file EXCEPT ![m.c] = Append(@, m.s)]
         /\ store' = [store EXCEPT ![g].lock = k]
         /\ handler' = [handler EXCEPT ![k] = [@ EXCEPT !.st = "committing", !.frame = m]]
  /\ up' = [up EXCEPT ![k] = Tail(@)]
  /\ UNCHANGED <<clientVars, down, server, hub, status, synced, index, fed, budget>>

\* The row commits: the store advances and lets go of the lock.
CommitOk(k) ==
  /\ Serving(k, "committing")
  /\ LET m == handler[k].frame  g == handler[k].gen
     IN  /\ m.s \notin Seqs(m.c)
         /\ index' = [index EXCEPT ![m.c] = @ \cup {[seq |-> m.s, offset |-> store[g].offset[m.c]]}]
         /\ store' = [store EXCEPT ![g] = [@ EXCEPT !.lock = None, !.last[m.c] = m.s,
                                                  !.offset[m.c] = store[g].offset[m.c] + 1]]
  /\ handler' = [handler EXCEPT ![k].st = "stored"]
  /\ UNCHANGED <<clientVars, up, down, server, hub, status, file, synced, fed, budget>>

\* The insert or commit raises (a database failure, or the row is already there): the file is cut
\* back and the handler dies.  An ambiguous failure has taken effect all the same.
CommitFails(k) ==
  /\ Serving(k, "committing")
  /\ LET m == handler[k].frame  g == handler[k].gen
         row == [seq |-> m.s, offset |-> store[g].offset[m.c]]
         released == [store EXCEPT ![g].lock = None]
     IN  /\ \/ m.s \in Seqs(m.c) /\ UNCHANGED <<index, budget>>
            \/ Spend("db") /\ UNCHANGED index
            \/ /\ m.s \notin Seqs(m.c) /\ Spend("ambiguous")
               /\ index' = [index EXCEPT ![m.c] = @ \cup {row}]
         /\ file' = [file EXCEPT ![m.c] = Truncate(@, store[g].offset[m.c])]
         /\ Exit(k, <<>>, released)
  /\ synced' = [c \in Channels |-> Len(file'[c])]
  /\ UNCHANGED <<clientVars, server, hub, status, fed>>

\* Past append's fsync: the pipeline is fed (unless it is finishing) and the channel awaits an ack.
Feed(k) ==
  /\ Serving(k, "stored")
  /\ LET m == handler[k].frame
     IN  /\ fed' = [fed EXCEPT ![m.c] = IF store[handler[k].gen].closed THEN @ ELSE Append(@, m.s)]
         /\ handler' = [handler EXCEPT ![k] = [@ EXCEPT !.st = "open", !.frame = NoFrame,
                                                      !.dirty = handler[k].dirty \cup {m.c}]]
  /\ UNCHANGED <<clientVars, up, down, server, hub, store, durableVars, budget>>

\* _flush_acks: the store's cursor for every dirty channel.
AcksFor(k) ==
  IF handler[k].dirty = {} THEN <<>>
  ELSE <<Acks([c \in Channels |->
                 IF c \in handler[k].dirty THEN store[handler[k].gen].last[c] ELSE None])>>

Producing(k) ==
  server = "up" /\ handler[k].st \in {"open", "committing", "stored", "ending", "draining"}

FlushAcksQueueFull(k) ==                                                         \* mutant
  /\ Producing(k) /\ handler[k].dirty # {}
  /\ handler' = [handler EXCEPT ![k].dirty = {}]
  /\ UNCHANGED <<clientVars, up, down, server, hub, store, durableVars, fed, budget>>

\* One round of _ack_loop.
FlushAcks(k) ==
  /\ Producing(k) /\ handler[k].dirty # {}
  /\ down' = [down EXCEPT ![k] = IF conn = k THEN @ \o AcksFor(k) ELSE @]
  /\ handler' = [handler EXCEPT ![k].dirty = {}]
  /\ UNCHANGED <<clientVars, up, server, hub, store, durableVars, fed, budget>>

\* maybe_fsync, when its interval has passed.
Fsync ==
  /\ server = "up" /\ hub # None
  /\ \E c \in Channels : synced[c] < Len(file[c])
  /\ synced' = [c \in Channels |-> Len(file[c])]
  /\ UNCHANGED <<clientVars, up, down, serverVars, status, file, index, fed, budget>>

-----------------------------------------------------------------------------
(* hub.end, for a producer's `end` or for the REST API and the watchdog *)

\* _end: mark the session finalizing and take its ingest out of the hub.
EndMark(e) ==
  /\ status' = "finalizing"
  /\ hub' = None
  /\ handler' = [handler EXCEPT ![e] = [@ EXCEPT !.st = "ending", !.took = hub]]

ProducerEnds(k) ==
  /\ Serving(k, "open") /\ Receives(k, "end")
  /\ EndMark(k)
  /\ up' = [up EXCEPT ![k] = Tail(@)]
  /\ UNCHANGED <<clientVars, down, server, store, file, synced, index, fed, budget>>

\* POST /end, while recording or later; or the watchdog, of a session whose client is away too long.
RestEnds ==
  /\ Serving(Rest, "closed")
  /\ EndMark(Rest)
  /\ Spend("end")
  /\ UNCHANGED <<clientVars, up, down, server, store, file, synced, index, fed>>

WatchdogEndsIngestOnly ==                                                        \* mutant
  /\ Serving(Rest, "closed") /\ status = "live" /\ client \in {"ended", "stopped"}
  /\ hub # None /\ \A k \in Conns : handler[k].st = "closed"
  /\ EndMark(Rest)
  /\ UNCHANGED <<clientVars, up, down, server, store, file, synced, index, fed, budget>>

\* The watchdog ends a live session whose client will not be back: idle_end_s is long enough for
\* everything it sent to have been handled.
WatchdogEnds ==
  /\ Serving(Rest, "closed") /\ status = "live" /\ client \in {"ended", "stopped"}
  /\ \A k \in Conns : handler[k].st = "closed"
  /\ EndMark(Rest)
  /\ UNCHANGED <<clientVars, up, down, server, store, file, synced, index, fed, budget>>

\* store.close waits for the append in progress, then refuses frames and fsyncs.
EndClose(e) ==
  /\ Serving(e, "ending")
  /\ LET g == handler[e].took
     IN  \/ g = None /\ UNCHANGED <<store, synced>>
         \/ /\ g # None /\ store[g].lock = None
            /\ store' = [store EXCEPT ![g].closed = TRUE]
            /\ synced' = [c \in Channels |-> Len(file[c])]
  /\ handler' = [handler EXCEPT ![e].st = "draining"]
  /\ UNCHANGED <<clientVars, up, down, server, hub, status, file, index, fed, budget>>

\* The pipeline has drained: another producer is closed with 4410, and the caller of `end` gets
\* its last acks and a clean close.
EndReturn(e) ==
  /\ Serving(e, "draining")
  /\ LET g == handler[e].took
         other == IF g = None THEN None ELSE store[g].producer
         cut == [k \in Conns |-> IF k = other /\ k # e /\ conn = k
                                 THEN Append(down[k], Close(FALSE)) ELSE down[k]]
     IN  /\ handler' = [handler EXCEPT ![e] = Closed]
         /\ store' = [s \in Gens |-> IF store[s].producer = e
                                     THEN [store[s] EXCEPT !.producer = None] ELSE store[s]]
         /\ IF e = Rest
            THEN down' = cut /\ UNCHANGED up
            ELSE /\ down' = [cut EXCEPT ![e] =
                       IF conn = e THEN @ \o AcksFor(e) \o <<Close(TRUE)>> ELSE <<>>]
                 /\ up' = [up EXCEPT ![e] = <<>>]
  /\ UNCHANGED <<clientVars, server, hub, durableVars, fed, budget>>

-----------------------------------------------------------------------------
(* Failures of the server *)

\* The process dies: handlers, hub and stores are gone, connections reset, files and rows stay.
Die ==
  /\ server' = "down"
  /\ handler' = [k \in Conns \cup {Rest} |-> Closed]
  /\ hub' = None
  /\ store' = [g \in Gens |-> NewStore([c \in Channels |-> None])]
  /\ up' = [k \in Conns |-> <<>>] /\ down' = [k \in Conns |-> <<>>]
  /\ client' = IF client \in {"ticketed", "hello", "connected"} THEN "backoff" ELSE client
  /\ conn' = None /\ endSent' = FALSE /\ next' = [c \in Channels |-> 0]
  /\ UNCHANGED <<recorded, acked, endRequested, status, index, fed>>

ServerCrash ==
  /\ server = "up"
  /\ Spend("crash")
  /\ Die
  /\ UNCHANGED <<file, synced>>

\* The machine loses power: bytes not yet fsynced may be gone; committed rows are not.
PowerLoss ==
  /\ server = "up"
  /\ Spend("power")
  /\ Die
  /\ file' \in {f \in [Channels -> UNION {{SubSeq(file[c], 1, n) : n \in 0..Len(file[c])} : c \in Channels}] :
                  \A c \in Channels : \E n \in synced[c]..Len(file[c]) : f[c] = SubSeq(file[c], 1, n)}
  /\ synced' = [c \in Channels |-> Len(file'[c])]

ServerRestart ==
  /\ server = "down"
  /\ server' = "up"
  /\ UNCHANGED <<clientVars, up, down, handler, hub, store, durableVars, fed, budget>>

-----------------------------------------------------------------------------
Receiver(k) == RecvHelloAck(k) \/ RecvAcks(k) \/ RecvError(k) \/ RecvClose(k)
Sender(k) == SendEnd(k) \/ Finish(k) \/ \E c \in Channels : SendFrame(k, c)
Reconnect == GetTicket \/ \E k \in Conns : Connect(k)

Serve(k) ==
  \/ HandlerGone(k) \/ HelloRejected(k) \/ HelloLoadFails(k)
  \/ \E g \in Gens : HelloAccepted(k, g)
  \/ FrameRejected(k) \/ FrameDuplicate(k) \/ FrameWritten(k)
  \/ CommitOk(k) \/ CommitFails(k) \/ Feed(k) \/ ProducerEnds(k)
Ending(e) == EndClose(e) \/ EndReturn(e)

Next ==
  \/ \E c \in Channels : Record(c)
  \/ RequestEnd \/ Stop \/ Resume \/ Reconnect
  \/ \E k \in Conns : Receiver(k) \/ Sender(k) \/ Drop(k) \/ Serve(k) \/ FlushAcks(k)
  \/ \E e \in Conns \cup {Rest} : Ending(e)
  \/ Fsync \/ RestEnds \/ WatchdogEnds
  \/ ServerCrash \/ PowerLoss \/ ServerRestart

Spec == Init /\ [][Next]_vars

\* Every task of the two event loops runs when it can, and a dead server is restarted.  What the
\* user, the network and the machine do is left open.
Fairness ==
  /\ WF_vars(Reconnect) /\ WF_vars(ServerRestart) /\ WF_vars(WatchdogEnds)
  /\ \A k \in Conns :
       WF_vars(Receiver(k)) /\ WF_vars(Sender(k)) /\ WF_vars(Serve(k)) /\ WF_vars(FlushAcks(k))
  /\ \A e \in Conns \cup {Rest} : WF_vars(Ending(e))

FairSpec == Spec /\ Fairness

-----------------------------------------------------------------------------
(* Properties *)

Frames == [t : {"frame"}, c : Channels, s : Nat]

\* The shape of the state, given the values V[c] a cursor may have for channel c and the frames F
\* that may be on their way.
Cursors(V) == {f \in [Channels -> Int] : \A c \in Channels : f[c] \in V[c]}
UpMessages(F) == [t : {"hello", "end", "gone"}] \cup F
DownMessages(V) ==
  [t : {"error"}] \cup [t : {"close"}, clean : BOOLEAN]
  \cup [t : {"hello_ack", "acks"}, cursor : Cursors(V)]
HandlerShape(F) ==
  [st : {"closed", "accepted", "open", "committing", "stored", "ending", "draining"},
   row : {"live", "finalizing"}, gen : Gens \cup {None}, took : Gens \cup {None},
   frame : F \cup {NoFrame}, dirty : SUBSET Channels]
StoreShape(V) ==
  [last : Cursors(V), closed : BOOLEAN, lock : Conns \cup {None}, producer : Conns \cup {None},
   offset : [Channels -> Nat]]

ClientShape(V) ==
  /\ recorded \in [Channels -> Nat] /\ next \in [Channels -> Int] /\ acked \in Cursors(V)
  /\ client \in {"backoff", "ticketed", "hello", "connected", "ended", "stopped"}
  /\ conn \in Conns \cup {None} /\ endRequested \in BOOLEAN /\ endSent \in BOOLEAN
NetShape(V, F) ==
  /\ up \in [Conns -> Seq(UpMessages(F))]
  /\ down \in [Conns -> Seq(DownMessages(V))]
ServerShape(V, F) ==
  /\ server \in {"up", "down"} /\ hub \in Gens \cup {None}
  /\ handler \in [Conns \cup {Rest} -> HandlerShape(F)]
  /\ store \in [Gens -> StoreShape(V)]
DurableShape ==
  /\ status \in {"live", "finalizing"}
  /\ file \in [Channels -> Seq(Int)] /\ synced \in [Channels -> Nat]
  /\ index \in [Channels -> SUBSET [seq : Nat, offset : Nat]]
ObserverShape ==
  fed \in [Channels -> Seq(Nat)] /\ budget \in [Faults -> Nat]

\* The types of the variables of both programs.
TypeOK ==
  LET AnyCursor == [c \in Channels |-> Int]
  IN  /\ ClientShape(AnyCursor) /\ NetShape(AnyCursor, Frames)
      /\ ServerShape(AnyCursor, Frames) /\ DurableShape /\ ObserverShape

\* The audio path implements the log of AudioLog.tla: frames are indexed one at a time, in
\* recording order and without gaps, and an ack only ever covers indexed frames - whatever
\* connections, ends, crashes, power losses, retries and failed commits interleave.
Log == INSTANCE AudioLog WITH stored <- [c \in Channels |-> Seqs(c)]
ImplementsLog == Log!Spec

\* The client keeps to the queue of FrameQueue.tla, which Outbox.tla implements with files: it gives
\* frames away only as they are acked, and no server acks it a frame that it has not recorded.
Unacked(c) == [i \in 1..(recorded[c] - acked[c] - 1) |-> [seq |-> acked[c] + i, payload |-> acked[c] + i]]
Queue == INSTANCE FrameQueue WITH
  Payloads <- 0..MaxFrames, first <- [c \in Channels |-> acked[c] + 1], queue <- [c \in Channels |-> Unacked(c)]
KeepsQueue == Queue!Spec

\* The path between them is what both promise: the client's queue runs into the server's log.
PathImplements == ImplementsLog /\ KeepsQueue

\* None of these faults has happened.
Never(faults) == \A f \in faults : budget[f] = 0

\* "All frames <= seq on channel are durable" (the protocol's ack): a seq the client's outbox holds
\* as acked has its row, and the file holds the frame at the row's offset.  The outbox deletes
\* acked audio, so this is the only copy.
AckedDurable ==
  \A c \in Channels : \A s \in 0..acked[c] :
    \E r \in index[c] : r.seq = s /\ r.offset < Len(file[c]) /\ file[c][r.offset + 1] = s

\* Short of a power loss, and of an end that may come while the client still sends, acked audio is
\* stored: no superseded handler, second store, failed commit or crash in append makes the server
\* ack what it does not have.
AckedStored == Never({"power", "end", "stop"}) => AckedDurable

\* Every row points at its frame, and the file holds nothing else while no append is in flight:
\* "file and index never disagree" (load, append), as long as a commit that raises has no effect
\* and no end takes the store away from an append in progress.
FileMatchesIndex ==
  server = "up" /\ hub # None /\ store[hub].lock = None /\ Never({"ambiguous", "end", "stop"}) =>
    \A c \in Channels :
      /\ Len(file[c]) = Cardinality(index[c])
      /\ \A r \in index[c] : r.offset < Len(file[c]) /\ file[c][r.offset + 1] = r.seq

\* "Flush, send end, wait for every ack" (end): a client that reports the session ended has every
\* recorded frame on the server.  Its outbox is never resumed again.
EndedStored ==
  client = "ended" => \A c \in Channels : \A s \in 0..(recorded[c] - 1) : s \in Seqs(c)

\* Drops, crashes and power losses never make the client give up early, as long as no handler dies
\* of a failed commit and nothing but the client's one `end` ends the session.
EndedMeansStored == Never({"db", "ambiguous", "end", "stop"}) => EndedStored

\* The pipeline is fed stored frames only, and none of them twice, however often a frame is sent
\* again and whichever handler takes it (append's duplicates, _producer_loop).
FedOnce ==
  \A c \in Channels :
    /\ \A i \in 1..Len(fed[c]) : fed[c][i] \in Seqs(c)
    /\ \A i, j \in 1..Len(fed[c]) : fed[c][i] = fed[c][j] => i = j

\* Everything recorded reaches the server: connections may drop and the server may die, the client
\* keeps retrying until the frame is indexed (_run, _send_loop).
RecordedStored ==
  \A c \in Channels : \A s \in 0..(MaxFrames - 1) : recorded[c] > s ~> s \in Seqs(c)

\* A session the user ends is handed to finalizing, however often the `end` has to be sent again.
EndFinalizes == endRequested ~> status = "finalizing"

-----------------------------------------------------------------------------
(* The inductive invariant behind ImplementsLog (StoreProofs.tla)  *)

\* What a cursor may say of channel c: nothing, or a seq that is indexed.
Known == [c \in Channels |-> Seqs(c) \cup {None}]
\* The frames that may be on their way: recorded ones.
RecordedFrames == {f \in Frames : f.s < recorded[f.c]}

\* The seqs of every channel are an initial segment of what was recorded.
IndexContiguous ==
  \A c \in Channels : \E n \in 0..recorded[c] : Seqs(c) = 0..(n - 1)

\* A handler past hello has its ingest; one in append has its frame, and while it commits
\* everything before that frame is indexed, whichever store indexed it.
Prepared(h) ==
  /\ h.st \in {"open", "committing", "stored", "ending", "draining"} => h.gen \in Gens
  /\ h.st \in {"committing", "stored"} => h.frame \in Frames
  /\ h.st = "committing" => 0..(h.frame.s - 1) \subseteq Seqs(h.frame.c)
HandlersPrepared == \A k \in Conns : Prepared(handler[k])

\* Whatever a store, a message in flight or the client's outbox says is stored is indexed, frames
\* in flight were recorded, and no append can leave a gap.
LogInv ==
  /\ ClientShape(Known) /\ NetShape(Known, RecordedFrames)
  /\ ServerShape(Known, RecordedFrames) /\ DurableShape /\ ObserverShape
  /\ IndexContiguous /\ HandlersPrepared

\* The store is sound: its file and its index agree, and they have what was acked.
StoreSound == TypeOK /\ FileMatchesIndex /\ AckedStored
=============================================================================
