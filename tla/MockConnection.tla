--------------------------- MODULE MockConnection ---------------------------
(***************************************************************************)
(* mock_connection.rs: the connection without a network that tests use. A  *)
(* test prepares replies by session and sequence number; one task answers  *)
(* every request that has a reply with the number after its own, and       *)
(* records it.                                                             *)
(*                                                                         *)
(* Composed with the SessionManager and one caller per Session. Calls are  *)
(* not cancelled here.                                                     *)
(***************************************************************************)
EXTENDS SessionManager

CONSTANTS
  OutCap,          \* capacity of the connection's channel
  ReplyNumbers,    \* bound of the model: the numbers replies are prepared for
  OverflowChecks   \* the build panics on overflow, as test builds do

ASSUME MockConnectionAssumption ==
  /\ OutCap \in Nat /\ OutCap >= 1
  /\ ReplyNumbers \subseteq 0 .. SeqMod - 1
  /\ OverflowChecks \in BOOLEAN

VARIABLES
  task,      \* run_task: "off", "recv", "request", "send", "panicked"
  request,   \* the request it handles
  outbound,  \* the connection's mpsc channel
  replies,   \* prepared replies, at most one for an id and number
  requests,  \* recorded requests
  call, reqSeq, nextSeq, complete  \* as in TcpConnection

mockVars == <<task, request, outbound, replies, requests>>
callVars == <<call, reqSeq, nextSeq, complete>>
vars == <<smVars, mockVars, callVars>>

Init ==
  /\ SMInit
  /\ task = "off"
  /\ request = NoPacket
  /\ outbound = <<>>
  /\ replies = {}
  /\ requests = {}
  /\ call = [t \in Tasks |-> "ready"]
  /\ reqSeq = [t \in Tasks |-> 0]
  /\ nextSeq = [t \in Tasks |-> 1]
  /\ complete = [t \in Tasks |-> FALSE]

-----------------------------------------------------------------------------
\* The task takes the receiver. Its own Arc keeps a sender of the channel alive,
\* so its loop has no end but a panic.
Run ==
  /\ task = "off"
  /\ task' = "recv"
  /\ UNCHANGED <<smVars, request, outbound, replies, requests, callVars>>

Recv ==
  /\ task = "recv"
  /\ outbound # <<>>
  /\ request' = Head(outbound)
  /\ outbound' = Tail(outbound)
  /\ task' = "request"
  /\ UNCHANGED <<smVars, replies, requests, callVars>>

\* seq_no + 1 of the last number: the task dies and its receiver with it.
Overflow ==
  /\ task = "request"
  /\ OverflowChecks /\ request.seq + 1 = SeqMod
  /\ task' = "panicked"
  /\ request' = NoPacket
  /\ outbound' = <<>>
  /\ UNCHANGED <<smVars, replies, requests, callVars>>

ReplySeq(n) == (n + 1) % SeqMod
Prepared(p) == {r \in replies : r.id = p.id /\ r.seq = ReplySeq(p.seq)}

Handles == task = "request" /\ ~(OverflowChecks /\ request.seq + 1 = SeqMod)

\* No reply for this session, or none with this number: the request is lost.
NoReply ==
  /\ Handles
  /\ Prepared(request) = {}
  /\ task' = "recv"
  /\ request' = NoPacket
  /\ UNCHANGED <<smVars, outbound, replies, requests, callVars>>

\* Mutant: any reply prepared for the session will do.
AnswerAny ==
  /\ Handles
  /\ \E r \in replies :
       r.id = request.id /\ BeginForward(r) /\ replies' = replies \ {r}
  /\ requests' = requests \cup {request}
  /\ task' = "send"
  /\ request' = NoPacket
  /\ UNCHANGED <<outbound, callVars>>

\* The reply is taken out and the request recorded before the reply is sent;
\* the guards of both maps are held until it is.
Answer ==
  /\ Handles
  /\ \E r \in Prepared(request) : BeginForward(r) /\ replies' = replies \ {r}
  /\ requests' = requests \cup {request}
  /\ task' = "send"
  /\ request' = NoPacket
  /\ UNCHANGED <<outbound, callVars>>

\* Mutant: a reply that cannot be sent ends the loop.
ForwardEnds ==
  /\ LookupUnknown \/ LookupFound \/ ForwardSent \/ ForwardFailed
  /\ task' = IF carried' # NoPacket THEN task
             ELSE IF inbox' = inbox THEN "ended" ELSE "recv"
  /\ UNCHANGED <<request, outbound, replies, requests, callVars>>

\* The steps of send_message_to_session; its error is logged.
Forward ==
  /\ LookupUnknown \/ LookupFound \/ ForwardSent \/ ForwardFailed
  /\ task' = IF carried' = NoPacket THEN "recv" ELSE task
  /\ UNCHANGED <<request, outbound, replies, requests, callVars>>

-----------------------------------------------------------------------------
\* add_reply waits for the guard of replies. A reply for the same number is
\* replaced.
AddReply(t, n, ok) ==
  /\ Open(t)
  /\ task # "send"
  /\ replies' = {r \in replies : r.id # sid[t] \/ r.seq # n}
                  \cup {[id |-> sid[t], by |-> t, seq |-> n, ok |-> ok]}
  /\ UNCHANGED <<smVars, task, request, outbound, requests, callVars>>

BeginCreate(t) == CheckAccepting(t) /\ UNCHANGED <<mockVars, callVars>>

CreateSession(t) ==
  /\ CreateChannel(t)
  /\ call' = [call EXCEPT ![t] = "ready"]
  /\ reqSeq' = [reqSeq EXCEPT ![t] = 0]
  /\ nextSeq' = [nextSeq EXCEPT ![t] = 1]
  /\ complete' = [complete EXCEPT ![t] = FALSE]
  /\ UNCHANGED mockVars

\* send_accounting_request, as in TcpConnection; the connection's receiver is
\* gone once the task has panicked.
BeginRequest(t) ==
  /\ Open(t) /\ call[t] = "ready"
  /\ task # "panicked" /\ ~complete[t]
  /\ reqSeq' = [reqSeq EXCEPT ![t] = nextSeq[t]]
  /\ nextSeq' = [nextSeq EXCEPT ![t] = (@ + 2) % SeqMod]
  /\ call' = [call EXCEPT ![t] = "sending"]
  /\ UNCHANGED <<smVars, mockVars, complete>>

Request(t) == [id |-> sid[t], by |-> t, seq |-> reqSeq[t], ok |-> TRUE]

\* Mutant: the connection's channel is not bounded.
EnqueueUnbounded(t) ==
  /\ Open(t) /\ call[t] = "sending"
  /\ task # "panicked"
  /\ outbound' = Append(outbound, Request(t))
  /\ call' = [call EXCEPT ![t] = "waiting"]
  /\ UNCHANGED <<smVars, task, request, replies, requests, reqSeq, nextSeq, complete>>

Enqueue(t) ==
  /\ Open(t) /\ call[t] = "sending"
  /\ task # "panicked"
  /\ Len(outbound) < OutCap
  /\ outbound' = Append(outbound, Request(t))
  /\ call' = [call EXCEPT ![t] = "waiting"]
  /\ UNCHANGED <<smVars, task, request, replies, requests, reqSeq, nextSeq, complete>>

EnqueueFailed(t) ==
  /\ Open(t) /\ call[t] = "sending"
  /\ task = "panicked"
  /\ call' = [call EXCEPT ![t] = "ready"]
  /\ UNCHANGED <<smVars, mockVars, reqSeq, nextSeq, complete>>

Receive(t) ==
  /\ call[t] = "waiting"
  /\ TakeFromInbox(t)
  /\ complete' = [complete EXCEPT ![t] = @ \/ Head(inbox[sid[t]]).ok]
  /\ call' = [call EXCEPT ![t] = "ready"]
  /\ UNCHANGED <<mockVars, reqSeq, nextSeq>>

DropSession(t) ==
  /\ DropReceiver(t)
  /\ call' = [call EXCEPT ![t] = "ready"]
  /\ UNCHANGED <<mockVars, reqSeq, nextSeq, complete>>

Next ==
  \/ Run
  \/ Recv
  \/ Overflow
  \/ NoReply
  \/ Answer
  \/ Forward
  \/ \E t \in Tasks :
        \/ \E n \in ReplyNumbers, ok \in BOOLEAN : AddReply(t, n, ok)
        \/ BeginCreate(t)
        \/ CreateSession(t)
        \/ BeginRequest(t)
        \/ Enqueue(t)
        \/ EnqueueFailed(t)
        \/ Receive(t)
        \/ DropSession(t)

Spec == Init /\ [][Next]_vars

\* The mock's task and the calls are polled; nobody has to prepare a reply.
FairSpec ==
  /\ Spec
  /\ WF_vars(Run) /\ WF_vars(Recv) /\ WF_vars(Overflow \/ NoReply \/ Answer) /\ WF_vars(Forward)
  /\ \A t \in Tasks : SF_vars(Enqueue(t)) /\ WF_vars(Receive(t))

-----------------------------------------------------------------------------
\* Type invariant of the mock connection.
TypeOK ==
  /\ SMTypeOK
  /\ task \in {"off", "recv", "request", "send", "panicked"}
  /\ task = "request" <=> request # NoPacket
  /\ task = "send" <=> carried # NoPacket
  /\ outbound \in Seq(Packet) /\ Len(outbound) <= OutCap
  /\ replies \in SUBSET Packet
  /\ requests \in SUBSET Packet
  /\ call \in [Tasks -> {"ready", "sending", "waiting"}]

\* accounting_session.rs, test_send_accounting_request: a Session whose call got
\* its reply finds its request recorded and the reply it prepared used up. Said
\* of every reply on its way: its request is recorded, its caller waits for that
\* very number, and it is there once.
RepliesArePaired ==
  \A t \in Tasks : Open(t) =>
    /\ \A k \in DOMAIN inbox[sid[t]] :
         /\ call[t] = "waiting" /\ inbox[sid[t]][k].seq = ReplySeq(reqSeq[t])
         /\ Request(t) \in requests
    /\ Len(inbox[sid[t]]) <= 1
    /\ complete[t] => Request(t) \in requests

\* The mock never holds its guards while it waits for room in a channel, so a
\* test can always add a reply.
MockNeverBlocks ==
  readLock /\ ReceiverAlive(carried.id) => Len(inbox[carried.id]) < InCap

\* A call whose reply is prepared before its request is sent returns, unless a
\* request overflowed the reply's number and made the task panic: another
\* session's before it, or its own, if that has the last number.
PreparedIsAnswered ==
  \A t \in Tasks :
    call[t] = "sending" /\ Prepared(Request(t)) # {}
      ~> call[t] = "ready" \/ task = "panicked"
=============================================================================
