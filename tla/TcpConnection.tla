--------------------------- MODULE TcpConnection ---------------------------
(***************************************************************************)
(* One connection: the SessionManager, the write and read tasks of         *)
(* handle_connection, the task that joins them, the accounting requests of *)
(* the tasks that own the Sessions, and the server at the other end.       *)
(*                                                                         *)
(* A write that is done is taken for the delivery of the packet, as it is  *)
(* over TCP. tls_connection.rs has loops and a join of the same form, but  *)
(* its stream may keep the end of a packet that was written: ByteStream.   *)
(*                                                                         *)
(* Obfuscation, header parsing and body encoding are left out: a packet is *)
(* its session id, its sequence number and whether its body parses as an   *)
(* AccountingReply.                                                        *)
(***************************************************************************)
EXTENDS SessionManager

CONSTANTS
  OutCap,   \* capacity of the connection's channel, 32 in SessionManager::new
  WireCap,  \* bound of the model: replies the socket buffers
  Faults    \* what the environment may do, a subset of FaultKinds

FaultKinds == {"close", "cancel", "stray"}

ASSUME TcpConnectionAssumption ==
  /\ OutCap \in Nat /\ OutCap >= 1
  /\ WireCap \in Nat /\ WireCap >= 1
  /\ Faults \subseteq FaultKinds

VARIABLES
  supervisor, \* handle_connection: "new" before run, "joining", "done"
  writer,     \* write task: "off", "recv", "write" (has a packet), "ended"
  hand,       \* the packet the write task writes
  reader,     \* read task: "off", "running", "ended"
  outbound,   \* the connection's mpsc channel
  handle,     \* the application still holds an Arc of the connection
  peerOpen,   \* the server has not closed the connection
  pending,    \* requests the server has received and not answered
  toClient,   \* replies on the wire
  call,       \* send_accounting_request of each task: "ready", "sending", "waiting"
  reqSeq,     \* its local sequence_number
  nextSeq,    \* Session.current_sequence_number
  complete    \* Session.session_complete

taskVars == <<supervisor, writer, hand, reader>>
wireVars == <<peerOpen, pending, toClient>>
callVars == <<call, reqSeq, nextSeq, complete>>
connVars == <<taskVars, outbound, handle, wireVars, callVars>>
vars == <<smVars, connVars>>

\* u8::wrapping_add(1)
WrappingInc(n) == IF n + 1 = SeqMod THEN 0 ELSE n + 1

\* The SessionManager, with its senders, lives as long as an Arc of the
\* connection: the application's, or the ones of the connection's own tasks.
ManagerAlive == handle \/ supervisor # "done"

\* Session::is_complete. A session's receiver is closed when its sender, in
\* the map, is dropped; the connection's sender when the write task ends.
IsComplete(t) == writer = "ended" \/ ~ManagerAlive \/ complete[t]

Init ==
  /\ SMInit
  /\ supervisor = "new"
  /\ writer = "off"
  /\ hand = NoPacket
  /\ reader = "off"
  /\ outbound = <<>>
  /\ handle = TRUE
  /\ peerOpen = TRUE
  /\ pending = {}
  /\ toClient = <<>>
  /\ call = [t \in Tasks |-> "ready"]
  /\ reqSeq = [t \in Tasks |-> 0]
  /\ nextSeq = [t \in Tasks |-> 1]
  /\ complete = [t \in Tasks |-> FALSE]

-----------------------------------------------------------------------------
\* run spawns handle_connection, which takes the receiver out of the manager
\* and spawns the write and the read task.
Run ==
  /\ supervisor = "new"
  /\ supervisor' = "joining"
  /\ writer' = "recv"
  /\ reader' = "running"
  /\ UNCHANGED <<smVars, hand, outbound, handle, wireVars, callVars>>

\* Mutant: the join ends with the first task that ends.
JoinFirst ==
  /\ supervisor = "joining"
  /\ writer = "ended" \/ reader = "ended"
  /\ supervisor' = "done"
  /\ DisableNewSessions
  /\ UNCHANGED <<writer, hand, reader, outbound, handle, wireVars, callVars>>

\* Mutant: handle_connection returns without disable_new_sessions.
JoinKeepsAccepting ==
  /\ supervisor = "joining"
  /\ writer = "ended" /\ reader = "ended"
  /\ supervisor' = "done"
  /\ UNCHANGED <<smVars, writer, hand, reader, outbound, handle, wireVars, callVars>>

\* try_join! over the two JoinHandles waits for both: a task that returns Err
\* is a completed handle. Then disable_new_sessions, and the Arc is dropped.
Join ==
  /\ supervisor = "joining"
  /\ writer = "ended" /\ reader = "ended"
  /\ supervisor' = "done"
  /\ DisableNewSessions
  /\ UNCHANGED <<writer, hand, reader, outbound, handle, wireVars, callVars>>

\* The application drops its Arc, as tacon's main does after create_session.
DropHandle ==
  /\ handle /\ supervisor # "new"
  /\ \A t \in Tasks : stage[t] # "creating"
  /\ handle' = FALSE
  /\ UNCHANGED <<smVars, taskVars, outbound, wireVars, callVars>>

-----------------------------------------------------------------------------
\* write_handler. The recv of the channel never returns None: the task's own
\* Arc keeps the manager, and in it a sender, alive.
WriterRecv ==
  /\ writer = "recv"
  /\ outbound # <<>>
  /\ hand' = Head(outbound)
  /\ outbound' = Tail(outbound)
  /\ writer' = "write"
  /\ UNCHANGED <<smVars, supervisor, reader, handle, wireVars, callVars>>

\* Mutant: the packet written stays in the task's hand and is written again.
WriteTwice ==
  /\ writer = "write"
  /\ pending' = IF peerOpen THEN pending \cup {hand} ELSE pending
  /\ writer' \in {"write", "recv"}
  /\ hand' = IF writer' = "recv" THEN NoPacket ELSE hand
  /\ UNCHANGED <<smVars, supervisor, reader, outbound, handle, peerOpen, toClient, callVars>>

\* write_all returns Ok: also when the peer has closed and nobody will read.
WriteDone ==
  /\ writer = "write"
  /\ pending' = IF peerOpen THEN pending \cup {hand} ELSE pending
  /\ writer' = "recv"
  /\ hand' = NoPacket
  /\ UNCHANGED <<smVars, supervisor, reader, outbound, handle, peerOpen, toClient, callVars>>

\* write_all fails: the task ends and drops the receiver with what it buffers.
WriteFailed ==
  /\ writer = "write"
  /\ ~peerOpen
  /\ writer' = "ended"
  /\ hand' = NoPacket
  /\ outbound' = <<>>
  /\ UNCHANGED <<smVars, supervisor, reader, handle, wireVars, callVars>>

\* read_handler: header and body of one packet, then send_message_to_session.
ReadPacket ==
  /\ reader = "running"
  /\ toClient # <<>>
  /\ BeginForward(Head(toClient))
  /\ toClient' = Tail(toClient)
  /\ UNCHANGED <<taskVars, outbound, handle, peerOpen, pending, callVars>>

\* read_exact fails: end of file, or a reset that loses what was not yet read.
ReadFailed ==
  /\ reader = "running"
  /\ carried = NoPacket
  /\ ~peerOpen
  /\ reader' = "ended"
  /\ toClient' = <<>>
  /\ UNCHANGED <<smVars, supervisor, writer, hand, outbound, handle, peerOpen, pending, callVars>>

\* The steps of send_message_to_session, in the read task.
Forward ==
  /\ LookupUnknown \/ LookupFound \/ ForwardSent \/ ForwardFailed
  /\ UNCHANGED connVars

-----------------------------------------------------------------------------
\* The server answers the requests it holds in any order, with a body that may
\* not parse, and counts the sequence number up by one.
Reply(p, ok) == [id |-> p.id, by |-> p.by, seq |-> WrappingInc(p.seq), ok |-> ok]

ServerAnswer(p) ==
  /\ peerOpen
  /\ p \in pending
  /\ Len(toClient) < WireCap
  /\ \E ok \in BOOLEAN : toClient' = Append(toClient, Reply(p, ok))
  /\ pending' = pending \ {p}
  /\ UNCHANGED <<smVars, taskVars, outbound, handle, peerOpen, callVars>>

ServerClose ==
  /\ "close" \in Faults
  /\ peerOpen
  /\ peerOpen' = FALSE
  /\ pending' = {}
  /\ UNCHANGED <<smVars, taskVars, outbound, handle, toClient, callVars>>

\* A packet nobody asked for, for an id in use, given up or never drawn.
ServerStray ==
  /\ "stray" \in Faults
  /\ peerOpen
  /\ Len(toClient) < WireCap
  /\ \E i \in Ids, ok \in BOOLEAN :
       toClient' = Append(toClient, [id |-> i, by |-> Server, seq |-> 0, ok |-> ok])
  /\ UNCHANGED <<smVars, taskVars, outbound, handle, peerOpen, pending, callVars>>

-----------------------------------------------------------------------------
\* create_session, called through an Arc the application still holds.
BeginCreate(t) ==
  /\ handle
  /\ CheckAccepting(t) \/ RefuseSession(t)
  /\ UNCHANGED connVars

\* create_channel and Session::new.
CreateSession(t) ==
  /\ CreateChannel(t)
  /\ call' = [call EXCEPT ![t] = "ready"]
  /\ reqSeq' = [reqSeq EXCEPT ![t] = 0]
  /\ nextSeq' = [nextSeq EXCEPT ![t] = 1]
  /\ complete' = [complete EXCEPT ![t] = FALSE]
  /\ UNCHANGED <<taskVars, outbound, handle, wireVars>>

\* send_accounting_request up to its first send: is_complete and
\* next_sequence_number. A complete session gets an error and nothing changes.
BeginRequest(t) ==
  /\ Open(t) /\ call[t] = "ready"
  /\ ~IsComplete(t)
  /\ reqSeq' = [reqSeq EXCEPT ![t] = nextSeq[t]]
  /\ nextSeq' = [nextSeq EXCEPT ![t] = WrappingInc(WrappingInc(@))]
  /\ call' = [call EXCEPT ![t] = "sending"]
  /\ UNCHANGED <<smVars, taskVars, outbound, handle, wireVars, complete>>

\* Mutant: the number of the next request is put in the header.
RequestNextNumber(t) == [id |-> sid[t], by |-> t, seq |-> nextSeq[t], ok |-> TRUE]

Request(t) == [id |-> sid[t], by |-> t, seq |-> reqSeq[t], ok |-> TRUE]

\* Mutant: the connection's channel is not bounded.
EnqueueUnbounded(t) ==
  /\ Open(t) /\ call[t] = "sending"
  /\ writer # "ended"
  /\ outbound' = Append(outbound, Request(t))
  /\ call' = [call EXCEPT ![t] = "waiting"]
  /\ UNCHANGED <<smVars, taskVars, handle, wireVars, reqSeq, nextSeq, complete>>

\* duplex_channel.sender.send(packet) waits for room in the channel ...
Enqueue(t) ==
  /\ Open(t) /\ call[t] = "sending"
  /\ writer # "ended"
  /\ Len(outbound) < OutCap
  /\ outbound' = Append(outbound, Request(t))
  /\ call' = [call EXCEPT ![t] = "waiting"]
  /\ UNCHANGED <<smVars, taskVars, handle, wireVars, reqSeq, nextSeq, complete>>

\* Mutant: a send that fails is tried again.
EnqueueFailedRetries(t) ==
  /\ Open(t) /\ call[t] = "sending"
  /\ writer = "ended"
  /\ UNCHANGED vars

\* ... and fails when the receiver is gone.
EnqueueFailed(t) ==
  /\ Open(t) /\ call[t] = "sending"
  /\ writer = "ended"
  /\ call' = [call EXCEPT ![t] = "ready"]
  /\ UNCHANGED <<smVars, taskVars, outbound, handle, wireVars, reqSeq, nextSeq, complete>>

\* Mutant: a body that does not parse is skipped and recv awaited again.
ReceiveSkipsBad(t) ==
  /\ call[t] = "waiting"
  /\ TakeFromInbox(t)
  /\ complete' = [complete EXCEPT ![t] = @ \/ Head(inbox[sid[t]]).ok]
  /\ call' = [call EXCEPT ![t] = IF Head(inbox[sid[t]]).ok THEN "ready" ELSE @]
  /\ UNCHANGED <<taskVars, outbound, handle, wireVars, reqSeq, nextSeq>>

\* recv returns a packet. If its body parses the session is complete,
\* otherwise the call returns an error and the session can be used again.
Receive(t) ==
  /\ call[t] = "waiting"
  /\ TakeFromInbox(t)
  /\ complete' = [complete EXCEPT ![t] = @ \/ Head(inbox[sid[t]]).ok]
  /\ call' = [call EXCEPT ![t] = "ready"]
  /\ UNCHANGED <<taskVars, outbound, handle, wireVars, reqSeq, nextSeq>>

\* Mutant: the loop of a caller that retries recv when the channel is closed.
ReceiveClosedRetries(t) ==
  /\ Open(t) /\ call[t] = "waiting"
  /\ inbox[sid[t]] = <<>>
  /\ ~ManagerAlive
  /\ UNCHANGED vars

\* recv returns None: the manager, and the session's sender with it, is gone.
ReceiveClosed(t) ==
  /\ Open(t) /\ call[t] = "waiting"
  /\ inbox[sid[t]] = <<>>
  /\ ~ManagerAlive
  /\ call' = [call EXCEPT ![t] = "ready"]
  /\ UNCHANGED <<smVars, taskVars, outbound, handle, wireVars, reqSeq, nextSeq, complete>>

\* The task ends, or is aborted, and its Session is dropped.
DropSession(t) ==
  /\ DropReceiver(t)
  /\ call' = [call EXCEPT ![t] = "ready"]
  /\ UNCHANGED <<taskVars, outbound, handle, wireVars, reqSeq, nextSeq, complete>>

\* The application drops the future of the call, as a timeout around it does,
\* and keeps the Session.
Cancel(t) ==
  /\ "cancel" \in Faults
  /\ Open(t) /\ call[t] \in {"sending", "waiting"}
  /\ call' = [call EXCEPT ![t] = "ready"]
  /\ UNCHANGED <<smVars, taskVars, outbound, handle, wireVars, reqSeq, nextSeq, complete>>

ClientNext(t) ==
  \/ BeginCreate(t)
  \/ CreateSession(t)
  \/ BeginRequest(t)
  \/ Enqueue(t)
  \/ EnqueueFailed(t)
  \/ Receive(t)
  \/ ReceiveClosed(t)
  \/ DropSession(t)
  \/ Cancel(t)

Next ==
  \/ \E t \in Tasks : ClientNext(t)
  \/ Run
  \/ Join
  \/ DropHandle
  \/ WriterRecv
  \/ WriteDone
  \/ WriteFailed
  \/ ReadPacket
  \/ ReadFailed
  \/ Forward
  \/ \E p \in pending : ServerAnswer(p)
  \/ ServerClose
  \/ ServerStray

Spec == Init /\ [][Next]_vars

(***************************************************************************)
(* Fairness. Each loop of the connection and each call of a task is polled *)
(* again whenever what it awaits is ready (tokio). The two waits a task    *)
(* can lose to another task are queues: senders on a full mpsc channel and *)
(* acquirers of an RwLock are served in order of arrival, hence SF. Nobody *)
(* is obliged to begin a call, to drop a Session or to close.              *)
(***************************************************************************)
ConnectionFairness ==
  /\ WF_vars(Run)
  /\ WF_vars(Join)
  /\ WF_vars(WriterRecv)
  /\ WF_vars(WriteDone \/ WriteFailed)
  /\ WF_vars(ReadPacket \/ ReadFailed)
  /\ WF_vars(Forward)
  /\ \A t \in Tasks :
       /\ SF_vars(CreateSession(t))
       /\ SF_vars(Enqueue(t))
       /\ WF_vars(EnqueueFailed(t))
       /\ WF_vars(Receive(t))
       /\ WF_vars(ReceiveClosed(t))

FairSpec == Spec /\ ConnectionFairness

\* In addition the server answers every task's requests while the connection
\* is open, however busy the other tasks keep it.
AnswerTo(t) == \E p \in pending : p.by = t /\ ServerAnswer(p)

AnsweringSpec == FairSpec /\ \A t \in Tasks : SF_vars(AnswerTo(t))

-----------------------------------------------------------------------------
PacketsIn(q) == {q[k] : k \in DOMAIN q}
IfPacket(p) == {p} \ {NoPacket}
IdsOf(S) == {p.id : p \in S}

\* The packets on their way to the server, and on their way back.
Requests == PacketsIn(outbound) \cup IfPacket(hand) \cup pending
Replies == PacketsIn(toClient) \cup IfPacket(carried) \cup UNION {PacketsIn(inbox[i]) : i \in Ids}

\* Type invariant of the connection.
TypeOK ==
  /\ SMTypeOK
  /\ supervisor \in {"new", "joining", "done"}
  /\ writer \in {"off", "recv", "write", "ended"}
  /\ hand \in Packet \cup {NoPacket}
  /\ reader \in {"off", "running", "ended"}
  /\ outbound \in Seq(Packet) /\ Len(outbound) <= OutCap
  /\ handle \in BOOLEAN
  /\ peerOpen \in BOOLEAN
  /\ pending \in SUBSET Packet
  /\ toClient \in Seq(Packet) /\ Len(toClient) <= WireCap
  /\ call \in [Tasks -> {"ready", "sending", "waiting"}]
  /\ reqSeq \in [Tasks -> 0 .. SeqMod - 1]
  /\ nextSeq \in [Tasks -> 0 .. SeqMod - 1]
  /\ complete \in [Tasks -> BOOLEAN]

Distinct(q) == \A j, k \in DOMAIN q : q[j].id = q[k].id => j = k

\* Where a session's packet can be, as the sets of ids found there.
FlightIds ==
  << IdsOf(PacketsIn(outbound)), IdsOf(IfPacket(hand)), IdsOf(pending),
     IdsOf(PacketsIn(toClient)), IdsOf(IfPacket(carried)),
     {i \in Ids : inbox[i] # <<>>} >>

\* Between the send of a request and the recv that returns its reply a session
\* has one packet in the whole system: not two in one queue, and never one in
\* two places, also across sessions, because an id is never drawn twice.
OneInFlight ==
  /\ Distinct(outbound)
  /\ Distinct(toClient)
  /\ \A p, q \in pending : p.id = q.id => p = q
  /\ \A i \in Ids : Len(inbox[i]) <= 1
  /\ \A a, b \in 1 .. 6 : a # b => FlightIds[a] \cap FlightIds[b] = {}

\* A reply that reaches a live session answers the request that session is
\* waiting for, whatever else was sent, dropped or created in the meantime.
RepliesReachTheirRequester ==
  \A p \in Replies, t \in Tasks :
    Open(t) /\ sid[t] = p.id =>
      p.by = t /\ p.seq = WrappingInc(reqSeq[t]) /\ call[t] = "waiting"

\* The read task never waits for room with the map locked: a session that
\* still receives has room for the packet carried to it.
ReaderNeverBlocks ==
  readLock /\ ReceiverAlive(carried.id) => Len(inbox[carried.id]) < InCap

\* Nobody is handed a reply to another task's request, also when calls are
\* cancelled and the server sends what nobody asked for.
OwnSessionOnly ==
  \A t \in Tasks : Open(t) =>
    \A p \in PacketsIn(inbox[sid[t]]) : p.by \in {t, Server}

-----------------------------------------------------------------------------
\* An accounting request whose send succeeded returns to its caller as long as
\* the peer keeps the connection open and answers.
EveryRequestReturns ==
  \A t \in Tasks : call[t] = "waiting" ~> call[t] # "waiting" \/ ~peerOpen

\* A call of create_session gets its turn at the map's write lock, although
\* the read task holds the lock across an await.
CreateReturns ==
  \A t \in Tasks : stage[t] = "creating" ~> stage[t] # "creating"

\* The send of a request gets room in the channel or an error, also when the
\* write task dies with the channel full; it needs the connection to be run.
SendReturns ==
  \A t \in Tasks : call[t] = "sending" ~> call[t] # "sending"

\* Once both tasks have ended and the application has dropped its handle,
\* every caller still waiting is released.
ReleasedAfterTeardown ==
  \A t \in Tasks :
    call[t] = "waiting" /\ writer = "ended" /\ reader = "ended" /\ ~handle
      ~> call[t] # "waiting"

\* A connection whose two tasks have ended comes to a state from which on no session
\* is created any more, not even by a create_session that had read the flag before it
\* was cleared and inserts its channel afterwards.
DeadConnectionRefuses ==
  writer = "ended" /\ reader = "ended"
    ~> [](~canAccept /\ \A t \in Tasks : stage[t] # "creating")

\* readme.md, sequence diagram: when the connection is closed the session
\* manager closes all sessions, so no caller keeps waiting for its reply.
ClosedConnectionReleasesSessions ==
  \A t \in Tasks : ~peerOpen /\ call[t] = "waiting" ~> call[t] # "waiting"

\* readme.md: sessions are independent and complete at their own pace, so a
\* reply that has arrived reaches its session whatever other sessions do.
SessionsIndependent ==
  \A t \in Tasks :
    call[t] = "waiting" /\ sid[t] \in IdsOf(PacketsIn(toClient))
      ~> call[t] # "waiting" \/ ~peerOpen
-----------------------------------------------------------------------------
\* Where the call of a waiting task is, from where the packet of its session is.
PhaseOfCall(t) ==
  LET mine(S) == {p \in S : p.id = sid[t]}
      toServer == PacketsIn(outbound) \cup IfPacket(hand)
  IN CASE mine(toServer) # {} -> "asked"
       [] mine(toServer) = {} /\ mine(pending) # {} -> "taken"
       [] mine(Requests) = {} /\ \E p \in mine(Replies) : p.ok -> "good"
       [] mine(Requests) = {} /\ \E p \in mine(Replies) : ~p.ok -> "bad"
       [] OTHER -> "lost"

PhaseOf(t) ==
  CASE stage[t] \in {"idle", "dropped"} -> "none"
    [] stage[t] = "creating" -> "opening"
    [] stage[t] = "refused" -> "refused"
    [] Open(t) /\ call[t] = "ready" -> IF complete[t] THEN "done" ELSE "idle"
    [] Open(t) /\ call[t] = "sending" -> "asked"
    [] Open(t) /\ call[t] = "waiting" -> PhaseOfCall(t)

Service ==
  INSTANCE AccountingService WITH
    Clients <- Tasks,
    phase <- [t \in Tasks |-> PhaseOf(t)],
    connected <- peerOpen,
    accepting <- canAccept

\* The connection implements the service programs rely on: whatever the order of
\* the tasks' steps, a request reaches the server at most once, is not lost while
\* the peer keeps the connection open, and its caller gets what the server
\* answered to it, or an error after the connection has gone.
ImplementsService == Service!ServiceSpec
=============================================================================
