-------------------------- MODULE AccountingSession --------------------------
(***************************************************************************)
(* session.rs and sessions/accounting_session.rs: send_accounting_request  *)
(* called on one Session by several tasks at once, await by await. The     *)
(* method takes &self and a Session guards its fields with RwLocks, so a   *)
(* Session may be shared; TcpConnection gives each Session to one task and *)
(* takes the calls in larger steps.                                        *)
(*                                                                         *)
(* The rest of the connection is reduced to what a Session sees of it: the *)
(* requests it sent whose replies may still come, the channel the replies  *)
(* come through, and which of the connection's parts are left: when the    *)
(* server has closed it, the read task, the write task and the manager may *)
(* each go later, or never.                                                *)
(***************************************************************************)
EXTENDS Naturals, Sequences, FiniteSets, Bags

CONSTANTS
  Callers,   \* tasks that share the Session
  SeqMod,    \* 2^8 in the code: current_sequence_number is a u8
  InCap,     \* capacity of the Session's channel, 32 in the code
  Faults,    \* a subset of {"cancel", "close"}
  MaxUnanswered, \* bound of the model: no call begins with more requests open
  NoCaller

ASSUME AccountingSessionAssumption ==
  /\ IsFiniteSet(Callers) /\ NoCaller \notin Callers
  /\ SeqMod \in Nat /\ SeqMod >= 2 /\ SeqMod % 2 = 0
  /\ InCap \in Nat /\ InCap >= 1
  /\ MaxUnanswered \in Nat
  /\ Faults \subseteq {"cancel", "close"}

VARIABLES
  pc,        \* the await each caller is at, "idle" outside a call
  number,    \* its local sequence_number
  reply,     \* its local response: author of the request and number answered
  nextSeq,   \* current_sequence_number
  complete,  \* session_complete
  holder,    \* who has the write guard of duplex_channel.receiver
  queue,     \* who waits for that RwLock, served in order of arrival
  connected, \* the server has not closed the connection
  reading,   \* the read task is running
  sendOpen,  \* the write task still has the receiver of the connection's channel
  fed,       \* the session manager, with the sender of this channel, is alive
  requests,  \* the bag of requests sent whose replies are to come
  inbox,     \* replies buffered in the Session's channel
  late       \* history: at completion, who had not got past receiver_closed

lockVars == <<holder, queue>>
linkVars == <<connected, reading, sendOpen, fed, requests, inbox>>
vars == <<pc, number, reply, nextSeq, complete, lockVars, linkVars, late>>

Numbers == 0 .. SeqMod - 1
Request == [by : Callers, seq : Numbers]
NoReply == [by |-> NoCaller, seq |-> 0]

Checking == {"receiver_closed", "session_complete"}
Waiting == {"sent", "write_lock", "recv"}
Stages == {"idle"} \cup Checking \cup {"number", "send"} \cup Waiting \cup {"complete"}

Range1(q) == {q[k] : k \in DOMAIN q}

\* The members of a bag with its copies of the same member told apart, and what
\* can be taken out of it, a number of copies of each.
Copies(B) == UNION {{r} \X (1 .. B[r]) : r \in BagToSet(B)}

Parts(B) ==
  {P \in [BagToSet(B) -> UNION {0 .. B[r] : r \in BagToSet(B)}] :
     \A r \in BagToSet(B) : P[r] <= B[r]}

\* How many replies are to come.
Unanswered == Cardinality(Copies(requests))

\* Mutant: the sequence number does not wrap.
PlainAdd(n, k) == n + k

\* Mutant: the number wraps one too early.
WrapsEarly(n, k) == (n + k) % (SeqMod - 1)

\* u8::wrapping_add
WrappingAdd(n, k) == (n + k) % SeqMod

\* A step of the call of c, and its end, where its locals die.
Goto(c, stage) ==
  /\ pc' = [pc EXCEPT ![c] = stage]
  /\ UNCHANGED <<number, reply>>

Return(c) ==
  /\ pc' = [pc EXCEPT ![c] = "idle"]
  /\ number' = [number EXCEPT ![c] = 0]
  /\ reply' = [reply EXCEPT ![c] = NoReply]

Init ==
  /\ pc = [c \in Callers |-> "idle"]
  /\ number = [c \in Callers |-> 0]
  /\ reply = [c \in Callers |-> NoReply]
  /\ nextSeq = 1
  /\ complete = FALSE
  /\ holder = NoCaller
  /\ queue = <<>>
  /\ connected = TRUE
  /\ reading = TRUE
  /\ sendOpen = TRUE
  /\ fed = TRUE
  /\ requests = EmptyBag
  /\ inbox = <<>>
  /\ late = [c \in Callers |-> FALSE]

-----------------------------------------------------------------------------
\* is_complete: sender_closed looks at the channel at once; receiver_closed
\* has to read-lock the receiver first.
BeginCall(c) ==
  /\ pc[c] = "idle"
  /\ sendOpen
  /\ Unanswered <= MaxUnanswered
  /\ Goto(c, "receiver_closed")
  /\ queue' = Append(queue, c)
  /\ UNCHANGED <<nextSeq, complete, holder, linkVars, late>>

MyTurn(c) == holder = NoCaller /\ queue # <<>> /\ Head(queue) = c

\* Mutant: session_complete was looked at before the wait for the lock.
ReceiverClosedCheckedLast(c) ==
  /\ pc[c] = "receiver_closed"
  /\ MyTurn(c)
  /\ queue' = Tail(queue)
  /\ IF fed THEN Goto(c, "number") ELSE Return(c)
  /\ UNCHANGED <<nextSeq, complete, holder, linkVars, late>>

ReceiverClosed(c) ==
  /\ pc[c] = "receiver_closed"
  /\ MyTurn(c)
  /\ queue' = Tail(queue)
  /\ IF fed THEN Goto(c, "session_complete") ELSE Return(c)
  /\ UNCHANGED <<nextSeq, complete, holder, linkVars, late>>

ReadSessionComplete(c) ==
  /\ pc[c] = "session_complete"
  /\ IF complete THEN Return(c) ELSE Goto(c, "number")
  /\ UNCHANGED <<nextSeq, complete, lockVars, linkVars, late>>

NextSequenceNumber(c) ==
  /\ pc[c] = "number"
  /\ pc' = [pc EXCEPT ![c] = "send"]
  /\ number' = [number EXCEPT ![c] = nextSeq]
  /\ nextSeq' = WrappingAdd(nextSeq, 2)
  /\ UNCHANGED <<reply, complete, lockVars, linkVars, late>>

\* The send succeeds as long as there is a write task, which may be waiting in recv
\* long after the server has gone: then the packet is lost.
Send(c) ==
  /\ pc[c] = "send"
  /\ sendOpen
  /\ requests' = IF connected THEN requests (+) SetToBag({[by |-> c, seq |-> number[c]]})
                  ELSE requests
  /\ Goto(c, "sent")
  /\ UNCHANGED <<nextSeq, complete, lockVars, connected, reading, sendOpen, fed, inbox, late>>

SendFailed(c) ==
  /\ pc[c] = "send"
  /\ ~sendOpen
  /\ Return(c)
  /\ UNCHANGED <<nextSeq, complete, lockVars, linkVars, late>>

\* duplex_channel.receiver.write().await
WaitForLock(c) ==
  /\ pc[c] = "sent"
  /\ Goto(c, "write_lock")
  /\ queue' = Append(queue, c)
  /\ UNCHANGED <<nextSeq, complete, holder, linkVars, late>>

AcquireLock(c) ==
  /\ pc[c] = "write_lock"
  /\ MyTurn(c)
  /\ queue' = Tail(queue)
  /\ holder' = c
  /\ Goto(c, "recv")
  /\ UNCHANGED <<nextSeq, complete, linkVars, late>>

\* recv returned a packet: the guard is kept while complete() is awaited, and
\* goes at once when the body does not parse.
Parsed(c) ==
  /\ pc' = [pc EXCEPT ![c] = "complete"]
  /\ reply' = [reply EXCEPT ![c] = [by |-> Head(inbox).by, seq |-> Head(inbox).seq]]
  /\ UNCHANGED <<number, holder>>

\* Mutant: a body that does not parse is skipped and recv awaited again.
NotParsedRetries(c) == UNCHANGED <<pc, number, reply, holder>>

\* Mutant: the error path leaves the guard behind.
NotParsedKeepsGuard(c) == Return(c) /\ UNCHANGED holder

NotParsed(c) ==
  /\ Return(c)
  /\ holder' = NoCaller

Receive(c) ==
  /\ pc[c] = "recv"
  /\ inbox # <<>>
  /\ inbox' = Tail(inbox)
  /\ IF Head(inbox).ok THEN Parsed(c) ELSE NotParsed(c)
  /\ UNCHANGED <<nextSeq, complete, queue, connected, reading, sendOpen, fed, requests, late>>

ReceiveClosed(c) ==
  /\ pc[c] = "recv"
  /\ inbox = <<>> /\ ~fed
  /\ Return(c)
  /\ holder' = NoCaller
  /\ UNCHANGED <<nextSeq, complete, queue, linkVars, late>>

\* Mutant: the guard outlives the call.
CompleteKeepsGuard(c) ==
  /\ pc[c] = "complete"
  /\ complete' = TRUE
  /\ late' = [d \in Callers |-> late[d] \/ pc[d] \in {"idle", "receiver_closed"}]
  /\ Return(c)
  /\ UNCHANGED <<nextSeq, lockVars, linkVars>>

\* complete(), then the call returns Ok and drops the guard.
Complete(c) ==
  /\ pc[c] = "complete"
  /\ complete' = TRUE
  /\ late' = [d \in Callers |-> late[d] \/ pc[d] \in {"idle", "receiver_closed"}]
  /\ Return(c)
  /\ holder' = NoCaller
  /\ UNCHANGED <<nextSeq, queue, linkVars>>

\* The call gives up its place in the lock's queue, if it has one.
LeaveQueue(c) ==
  \/ c \notin Range1(queue) /\ UNCHANGED queue
  \/ \E k \in DOMAIN queue :
       /\ queue[k] = c
       /\ queue' = SubSeq(queue, 1, k - 1) \o SubSeq(queue, k + 1, Len(queue))

\* The future of a call is dropped, at whichever await it is, with its guard or
\* its place in the lock's queue.
Cancel(c) ==
  /\ "cancel" \in Faults
  /\ pc[c] # "idle"
  /\ Return(c)
  /\ LeaveQueue(c)
  /\ holder' = IF holder = c THEN NoCaller ELSE holder
  /\ UNCHANGED <<nextSeq, complete, linkVars, late>>

-----------------------------------------------------------------------------
\* The server answers the requests in any order, the body may not parse, and the
\* read task puts the reply in the channel. After the server has closed the
\* connection the read task still reads the answers given before.
Answer(request, ok) ==
  /\ reading
  /\ Len(inbox) < InCap
  /\ requests' = requests (-) SetToBag({request})
  /\ inbox' = Append(inbox, [by |-> request.by, seq |-> WrappingAdd(request.seq, 1), ok |-> ok])
  /\ UNCHANGED <<pc, number, reply, nextSeq, complete, lockVars, connected, reading, sendOpen, fed, late>>

AnswerSome == \E r \in BagToSet(requests), ok \in BOOLEAN : Answer(r, ok)

\* The server closes the connection, with any part of the requests not answered.
ServerClose ==
  /\ "close" \in Faults
  /\ connected
  /\ connected' = FALSE
  /\ \E lost \in Parts(requests) : requests' = requests (-) lost
  /\ UNCHANGED <<pc, number, reply, nextSeq, complete, lockVars, reading, sendOpen, fed, inbox, late>>

\* The read task meets the end of the stream, or a reset that loses what it had not
\* read.
ReadTaskEnds ==
  /\ ~connected /\ reading
  /\ reading' = FALSE
  /\ requests' = EmptyBag
  /\ UNCHANGED <<pc, number, reply, nextSeq, complete, lockVars, connected, sendOpen, fed, inbox, late>>

\* A write fails. Without anything to write the write task waits in recv.
WriteTaskEnds ==
  /\ ~connected /\ sendOpen
  /\ sendOpen' = FALSE
  /\ UNCHANGED <<pc, number, reply, nextSeq, complete, lockVars, connected, reading, fed, requests, inbox, late>>

\* Both tasks have ended and the application has dropped its handle.
ManagerDropped ==
  /\ ~reading /\ ~sendOpen /\ fed
  /\ fed' = FALSE
  /\ UNCHANGED <<pc, number, reply, nextSeq, complete, lockVars, connected, reading, sendOpen, requests, inbox, late>>

CallStep(c) ==
  \/ ReceiverClosed(c)
  \/ ReadSessionComplete(c)
  \/ NextSequenceNumber(c)
  \/ Send(c)
  \/ SendFailed(c)
  \/ WaitForLock(c)
  \/ AcquireLock(c)
  \/ Receive(c)
  \/ ReceiveClosed(c)
  \/ Complete(c)

Next ==
  \/ \E c \in Callers : BeginCall(c) \/ CallStep(c) \/ Cancel(c)
  \/ AnswerSome
  \/ ServerClose
  \/ ReadTaskEnds
  \/ WriteTaskEnds
  \/ ManagerDropped

Spec == Init /\ [][Next]_vars

\* Every call is polled when its await is ready and, as long as the connection lasts,
\* the server answers and the read task gets to this Session's replies. That either
\* task notices the end of the connection, or that the application drops its handle,
\* is not assumed.
FairSpec ==
  /\ Spec
  /\ \A c \in Callers : WF_vars(CallStep(c))
  /\ WF_vars(connected /\ AnswerSome)

-----------------------------------------------------------------------------
\* Type invariant of the Session and its calls.
TypeOK ==
  /\ pc \in [Callers -> Stages]
  /\ number \in [Callers -> Numbers]
  /\ reply \in [Callers -> Request \cup {NoReply}]
  /\ nextSeq \in Numbers
  /\ complete \in BOOLEAN
  /\ holder \in Callers \cup {NoCaller}
  /\ queue \in Seq(Callers)
  /\ connected \in BOOLEAN /\ reading \in BOOLEAN
  /\ sendOpen \in BOOLEAN
  /\ fed \in BOOLEAN
  /\ IsABag(requests) /\ BagToSet(requests) \subseteq Request
  /\ inbox \in Seq([by : Callers, seq : Numbers, ok : BOOLEAN])
  /\ Len(inbox) <= InCap
  /\ late \in [Callers -> BOOLEAN]

\* The RwLock of the receiver: the guard is held exactly by the call that is in
\* recv or complete, and the queue is the calls that await the lock, each once;
\* no return path or cancellation of send_accounting_request leaves either behind.
GuardFollowsCall ==
  /\ \A c \in Callers : holder = c <=> pc[c] \in {"recv", "complete"}
  /\ Range1(queue) = {c \in Callers : pc[c] \in {"receiver_closed", "write_lock"}}
  /\ \A j, k \in DOMAIN queue : queue[j] = queue[k] => j = k

\* As long as the server keeps the connection open, a caller that has sent its
\* request finds a reply to come for it, its own or another's: whatever was given up
\* or did not parse, waiting callers never outnumber the replies in the channel and
\* those to come.
ReplyForEveryWaiter ==
  connected =>
    Cardinality({c \in Callers : pc[c] \in Waiting}) <= Unanswered + Len(inbox)

\* The client's packets carry odd numbers and the server's even ones, also after
\* the number has wrapped and with requests given up in between: a request cannot
\* be taken for a reply, however many calls a session has seen.
NumbersTellDirection ==
  /\ nextSeq % 2 = 1
  /\ \A r \in BagToSet(requests) : r.seq % 2 = 1
  /\ \A k \in DOMAIN inbox : inbox[k].seq % 2 = 0

\* A call whose look at the receiver was still queued behind the request that
\* completed the session is refused, like every call begun after it.
LateCallsRefused ==
  \A c \in Callers : late[c] => pc[c] \in {"idle"} \cup Checking

\* Every call of send_accounting_request returns as long as the server keeps the
\* connection open, those that are shut out by the guard of another call and those
\* whose own reply went to another caller too; and every call returns once the
\* session manager has gone. Between the two a call may wait for ever.
CallReturns ==
  \A c \in Callers : pc[c] # "idle" ~> pc[c] = "idle" \/ (~connected /\ fed)

\* readme.md, Clients Perspective: the response with sequence number n + 1 is
\* the one to the request with sequence number n.
OwnReply ==
  \A c \in Callers :
    pc[c] = "complete" => reply[c] = [by |-> c, seq |-> WrappingAdd(number[c], 1)]
=============================================================================
