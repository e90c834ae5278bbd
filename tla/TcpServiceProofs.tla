-------------------------- MODULE TcpServiceProofs --------------------------
(***************************************************************************)
(* The connection implements AccountingService, for every number of tasks  *)
(* and ids, every capacity and every order of the steps, whether or not    *)
(* the peer closes the connection. The phase of a waiting call is where    *)
(* the packet of its session is, so each step of the connection is read    *)
(* as a move of one packet between four sets of session ids: those asked   *)
(* for, those the server holds, and those answered well or badly.          *)
(***************************************************************************)
EXTENDS TcpConnectionProofs

\* A write task that has ended saw the connection closed, and a call in progress
\* is one of a session that is not complete.
CallInv ==
  /\ writer = "ended" => ~peerOpen
  /\ \A t \in Tasks : Open(t) /\ call[t] # "ready" => ~complete[t]

LEMMA CallStep == TypeInv /\ CallInv /\ [Next]_vars => CallInv'
<1> SUFFICES ASSUME TypeInv, CallInv, [Next]_vars PROVE CallInv'
  OBVIOUS
<1>a. TypeOK /\ SMTypeOK
  BY DEF TypeInv, TypeOK
<1>1. (writer = "ended" => ~peerOpen)'
  BY DEF CallInv, Next, ClientNext, BeginCreate, CreateSession, BeginRequest, Enqueue,
     EnqueueFailed, Receive, ReceiveClosed, DropSession, Cancel, Run, Join, DropHandle,
     WriterRecv, WriteDone, WriteFailed, ReadPacket, ReadFailed, Forward, ServerAnswer,
     ServerClose, ServerStray, vars, connVars, taskVars, wireVars
<1>2. ASSUME NEW t \in Tasks, Open(t)', call'[t] # "ready" PROVE ~complete'[t]
  <2>1. ASSUME NEW u \in Tasks, ClientNext(u) PROVE ~complete'[t]
    <3>1. CASE BeginCreate(u)
      BY <1>2, <3>1, <1>a DEF BeginCreate, CheckAccepting, RefuseSession, connVars, callVars,
         CallInv, Open, SMTypeOK
    <3>2. CASE CreateSession(u)
      BY <1>2, <3>2, <1>a DEF CreateSession, CreateChannel, InsertChannel, CallInv, Open,
         TypeOK, SMTypeOK
    <3>3. CASE BeginRequest(u)
      BY <1>2, <3>3, <1>a DEF BeginRequest, IsComplete, smVars, CallInv, Open, TypeOK
    <3>4. CASE Enqueue(u) \/ EnqueueFailed(u) \/ ReceiveClosed(u) \/ Cancel(u)
      BY <1>2, <3>4, <1>a DEF Enqueue, EnqueueFailed, ReceiveClosed, Cancel, smVars, CallInv,
         Open, TypeOK
    <3>5. CASE Receive(u)
      BY <1>2, <3>5, <1>a DEF Receive, TakeFromInbox, CallInv, Open, TypeOK
    <3>6. CASE DropSession(u)
      BY <1>2, <3>6, <1>a DEF DropSession, DropReceiver, CallInv, Open, TypeOK, SMTypeOK
    <3> QED BY <2>1, <3>1, <3>2, <3>3, <3>4, <3>5, <3>6 DEF ClientNext
  <2>2. CASE UNCHANGED <<stage, callVars>>
    BY <1>2, <2>2 DEF CallInv, Open, callVars
  <2>3. (\E u \in Tasks : ClientNext(u)) \/ UNCHANGED <<stage, callVars>>
    BY DEF Next, Run, Join, DisableNewSessions, DropHandle, WriterRecv, WriteDone, WriteFailed,
       ReadPacket, BeginForward, ReadFailed, Forward, LookupUnknown, LookupFound, ForwardSent,
       ForwardFailed, ServerAnswer, ServerClose, ServerStray, vars, connVars, smVars
  <2> QED BY <2>1, <2>2, <2>3
<1> QED BY <1>1, <1>2 DEF CallInv

LEMMA CallInvariance == Spec => []CallInv
<1>1. Init => CallInv
  BY DEF Init, CallInv
<1> QED BY <1>1, CallStep, TypeInvariance, PTL DEF Spec

-----------------------------------------------------------------------------
(***************************************************************************)
(* Where the packet of a session is.                                       *)
(***************************************************************************)
AskedIds == OutIds \cup HandIds
AnsweredIds(ok) == IdsOf({p \in Replies : p.ok = ok})
GoodIds == AnsweredIds(TRUE)
BadIds == AnsweredIds(FALSE)

PhaseAt(i) ==
  IF i \in AskedIds THEN "asked"
  ELSE IF i \in PendingIds THEN "taken"
  ELSE IF i \in GoodIds THEN "good"
  ELSE IF i \in BadIds THEN "bad"
  ELSE "lost"

\* A reply is on the wire, in the hands of the read task or in the buffer of its
\* own session.
LEMMA ReplyPlaces ==
  TypeInv => \A p : p \in Replies <=>
               \/ p \in PacketsIn(toClient)
               \/ p \in IfPacket(carried)
               \/ p.id \in Ids /\ p \in PacketsIn(inbox[p.id])
<1> SUFFICES ASSUME TypeInv, NEW p, p \in Buffered
             PROVE  p.id \in Ids /\ p \in PacketsIn(inbox[p.id])
  BY RepliesDef DEF Buffered
<1> QED BY BufferedPacketIds DEF BufferedIds

LEMMA ReplyPlacesNext ==
  ASSUME TypeInv, [Next]_vars
  PROVE  \A p : p \in Replies' <=>
           \/ p \in PacketsIn(toClient')
           \/ p \in IfPacket(carried')
           \/ p.id \in Ids /\ p \in PacketsIn(inbox'[p.id])
<1>1. ASSUME NEW p, p \in Buffered'
      PROVE  p.id \in Ids /\ p \in PacketsIn(inbox'[p.id])
  BY <1>1, BufferedPacketIdsNext
<1> QED BY <1>1, RepliesDefNext, BufferedMemberNext

LEMMA ReplyType == ASSUME TypeInv PROVE Replies \subseteq Packet
<1> SUFFICES ASSUME NEW p \in Replies PROVE p \in Packet
  OBVIOUS
<1>1. CASE p \in PacketsIn(toClient)
  BY <1>1 DEF PacketsIn, TypeInv, TypeOK
<1>2. CASE p \in IfPacket(carried)
  BY <1>2 DEF IfPacket, TypeInv, TypeOK, SMTypeOK
<1>3. CASE p.id \in Ids /\ p \in PacketsIn(inbox[p.id])
  BY <1>3 DEF PacketsIn, TypeInv, TypeOK, SMTypeOK
<1> QED BY <1>1, <1>2, <1>3, ReplyPlaces

\* The ids of the replies are the ids of the three places they can be in.
LEMMA AnsweredPlaces ==
  ASSUME TypeInv
  PROVE  GoodIds \cup BadIds = BackIds \cup CarriedIds \cup BufferedIds
<1>1. GoodIds \cup BadIds \subseteq BackIds \cup CarriedIds \cup BufferedIds
  <2> SUFFICES ASSUME NEW p \in Replies PROVE p.id \in BackIds \cup CarriedIds \cup BufferedIds
    BY DEF GoodIds, BadIds, AnsweredIds, IdsOf
  <2>1. CASE p \in PacketsIn(toClient) \cup IfPacket(carried)
    BY <2>1 DEF BackIds, CarriedIds, IdsOf
  <2>2. CASE p.id \in Ids /\ p \in PacketsIn(inbox[p.id])
    BY <2>2, PacketsInEmpty DEF BufferedIds
  <2> QED BY <2>1, <2>2, ReplyPlaces
<1>2. ASSUME NEW i \in BackIds \cup CarriedIds \cup BufferedIds PROVE i \in GoodIds \cup BadIds
  <2>1. PICK p \in Replies : p.id = i
    BY StageIdsOfPackets
  <2>2. p.ok \in BOOLEAN
    BY ReplyType DEF Packet
  <2> QED BY <2>1, <2>2 DEF GoodIds, BadIds, AnsweredIds, IdsOf
<1> QED BY <1>1, <1>2

LEMMA OneReply ==
  ASSUME TypeInv, FlightInv, NEW p \in Replies, NEW q \in Replies, p.id = q.id
  PROVE  p = q
<1>a. Distinct(toClient) /\ SingleBuffer /\ StagesApart
  BY OneInFlightParts DEF FlightInv
<1>1. ASSUME NEW r \in Replies
      PROVE  \/ r \in PacketsIn(toClient) /\ r.id \in BackIds
             \/ r \in IfPacket(carried) /\ r.id \in CarriedIds
             \/ r.id \in BufferedIds /\ r \in PacketsIn(inbox[r.id])
  BY ReplyPlaces, PacketsInEmpty DEF BackIds, CarriedIds, BufferedIds, IdsOf
<1>2. CASE p \in PacketsIn(toClient) /\ q \in PacketsIn(toClient)
  BY <1>2, <1>a DEF PacketsIn, Distinct
<1>3. CASE p \in IfPacket(carried) /\ q \in IfPacket(carried)
  BY <1>3 DEF IfPacket
<1>4. CASE p.id \in BufferedIds /\ p \in PacketsIn(inbox[p.id]) /\ q \in PacketsIn(inbox[p.id])
  <2>1. inbox[p.id] \in Seq(Packet) /\ Len(inbox[p.id]) <= 1
    BY <1>4, <1>a DEF BufferedIds, SingleBuffer, TypeInv, SMInv, SMTypeOK
  <2> QED BY <1>4, <2>1 DEF PacketsIn
<1> QED BY <1>1, <1>2, <1>3, <1>4, <1>a DEF StagesApart, Apart

LEMMA PlacesApart ==
  TypeInv /\ FlightInv =>
    Apart(AskedIds, PendingIds, GoodIds, BadIds, {}, {})
<1> SUFFICES ASSUME TypeInv, FlightInv PROVE Apart(AskedIds, PendingIds, GoodIds, BadIds, {}, {})
  OBVIOUS
<1>1. StagesApart
  BY OneInFlightParts DEF FlightInv
<1>2. GoodIds \cap BadIds = {}
  BY OneReply DEF GoodIds, BadIds, AnsweredIds, IdsOf
<1> QED BY <1>1, <1>2, AnsweredPlaces DEF StagesApart, Apart, AskedIds

WaitersArePlaced ==
  \A t \in Tasks : Open(t) /\ call[t] = "waiting" => PhaseOf(t) = PhaseAt(sid[t])

LEMMA PhaseOfWaiter == TypeInv /\ FlightInv => WaitersArePlaced
<1> SUFFICES ASSUME TypeInv, FlightInv, NEW t \in Tasks, Open(t), call[t] = "waiting"
             PROVE  PhaseOfCall(t) = PhaseAt(sid[t])
  BY DEF WaitersArePlaced, PhaseOf, Open
<1> DEFINE i == sid[t]
           mine(S) == {p \in S : p.id = i}
           toServer == PacketsIn(outbound) \cup IfPacket(hand)
<1>1. mine(toServer) # {} <=> i \in AskedIds
  BY DEF AskedIds, OutIds, HandIds, IdsOf
<1>2. mine(pending) # {} <=> i \in PendingIds
  BY DEF PendingIds, IdsOf
<1>3. mine(Requests) = {} <=> i \notin AskedIds /\ i \notin PendingIds
  BY DEF AskedIds, OutIds, HandIds, PendingIds, IdsOf, Requests
<1>4. (\E p \in mine(Replies) : p.ok) <=> i \in GoodIds
  BY ReplyType DEF GoodIds, AnsweredIds, IdsOf, Packet
<1>5. (\E p \in mine(Replies) : ~p.ok) <=> i \in BadIds
  BY ReplyType DEF BadIds, AnsweredIds, IdsOf, Packet
<1>6. PhaseOfCall(t) =
        CASE mine(toServer) # {} -> "asked"
          [] mine(toServer) = {} /\ mine(pending) # {} -> "taken"
          [] mine(Requests) = {} /\ \E p \in mine(Replies) : p.ok -> "good"
          [] mine(Requests) = {} /\ \E p \in mine(Replies) : ~p.ok -> "bad"
          [] OTHER -> "lost"
  BY DEF PhaseOfCall
<1> HIDE DEF mine, toServer
<1>7. i \notin GoodIds \/ i \notin BadIds
  BY PlacesApart DEF Apart
<1> QED BY <1>1, <1>2, <1>3, <1>4, <1>5, <1>6, <1>7 DEF PhaseAt

LEMMA FlightStep ==
  ASSUME TypeInv, FlightInv, Orderly, [Next]_vars
  PROVE  FlightInv'
BY OneInFlightStep, WaiterStep DEF FlightInv

LEMMA PhaseOfWaiterNext ==
  ASSUME TypeInv, FlightInv, Orderly, [Next]_vars, NEW t \in Tasks, Open(t)', call'[t] = "waiting"
  PROVE  PhaseOf(t)' = PhaseAt(sid[t])'
<1>1. TypeInv' /\ FlightInv'
  BY TypeStep, FlightStep
<1>2. WaitersArePlaced'
  BY <1>1, PhaseOfWaiter, PTL
<1> QED BY <1>2 DEF WaitersArePlaced

-----------------------------------------------------------------------------
(***************************************************************************)
(* What a step does to the sessions it is not about: nothing.              *)
(***************************************************************************)
SamePlace(i) ==
  /\ i \in AskedIds' <=> i \in AskedIds
  /\ i \in PendingIds' <=> i \in PendingIds
  /\ i \in GoodIds' <=> i \in GoodIds
  /\ i \in BadIds' <=> i \in BadIds

SameSession(t) ==
  /\ stage'[t] = stage[t] /\ sid'[t] = sid[t]
  /\ call'[t] = call[t] /\ complete'[t] = complete[t]

SamePhase(t) == PhaseOf(t)' = PhaseOf(t)

LEMMA Bystander ==
  ASSUME TypeInv, FlightInv, Orderly, [Next]_vars, NEW t \in Tasks, SameSession(t),
         Open(t) /\ call[t] = "waiting" => SamePlace(sid[t])
  PROVE  SamePhase(t)
<1>1. CASE Open(t) /\ call[t] = "waiting"
  <2>1. PhaseOf(t) = PhaseAt(sid[t])
    BY <1>1, PhaseOfWaiter DEF WaitersArePlaced
  <2>2. PhaseOf(t)' = PhaseAt(sid[t])'
    BY <1>1, PhaseOfWaiterNext DEF SameSession, Open
  <2>3. PhaseAt(sid[t])' = PhaseAt(sid[t])
    BY <1>1 DEF SameSession, SamePlace, PhaseAt
  <2> QED BY <2>1, <2>2, <2>3 DEF SamePhase
<1>2. CASE ~(Open(t) /\ call[t] = "waiting")
  BY <1>2 DEF SameSession, SamePhase, PhaseOf, Open
<1> QED BY <1>1, <1>2

LEMMA RepliesOfId ==
  ASSUME NEW i, \A p : p.id = i => (p \in Replies' <=> p \in Replies)
  PROVE  (i \in GoodIds' <=> i \in GoodIds) /\ (i \in BadIds' <=> i \in BadIds)
BY DEF GoodIds, BadIds, AnsweredIds, IdsOf

\* A step of a task leaves the packets of the other sessions where they are.
LEMMA ClientPlaces ==
  ASSUME TypeInv, [Next]_vars, NEW t \in Tasks, ClientNext(t),
         NEW i \in Ids, Open(t) => i # sid[t]
  PROVE  SamePlace(i)
<1>a. TypeOK /\ SMTypeOK
  BY DEF TypeInv, TypeOK
<1>1. UNCHANGED <<hand, pending, toClient, carried>>
  BY DEF ClientNext, BeginCreate, CheckAccepting, RefuseSession, CreateSession, CreateChannel,
     InsertChannel, BeginRequest, Enqueue, EnqueueFailed, Receive, TakeFromInbox, ReceiveClosed,
     DropSession, DropReceiver, Cancel, taskVars, wireVars, connVars, smVars
<1>2. inbox'[i] = inbox[i]
  <2>1. CASE CreateSession(t)
    <3>1. PICK j \in Ids \ channels : InsertChannel(t, j)
      BY <2>1 DEF CreateSession, CreateChannel
    <3>2. inbox[j] = <<>>
      BY DEF TypeInv, SMInv, LockCoversSend
    <3> QED BY <3>1, <3>2, <1>a DEF InsertChannel, SMTypeOK
  <2>2. CASE ~CreateSession(t)
    BY <2>2, <1>a DEF ClientNext, BeginCreate, CheckAccepting, RefuseSession, BeginRequest,
       Enqueue, EnqueueFailed, Receive, TakeFromInbox, ReceiveClosed, DropSession,
       DropReceiver, Cancel, smVars, SMTypeOK
  <2> QED BY <2>1, <2>2
<1>3. i \in OutIds' <=> i \in OutIds
  <2>1. CASE Enqueue(t)
    <3>1. /\ Request(t) \in Packet /\ Request(t).id = sid[t] /\ sid[t] # i
          /\ outbound \in Seq(Packet) /\ outbound' = Append(outbound, Request(t))
      BY <2>1, <1>a, RequestIsPacket DEF Enqueue, Request, TypeOK
    <3>2. OutIds' = OutIds \cup {sid[t]}
      BY <3>1, PacketsInAppend DEF OutIds, IdsOf
    <3> QED BY <3>1, <3>2
  <2>2. CASE ~Enqueue(t)
    <3>1. UNCHANGED outbound
      BY <2>2 DEF ClientNext, BeginCreate, CreateSession, BeginRequest, EnqueueFailed, Receive,
         ReceiveClosed, DropSession, Cancel, connVars
    <3> QED BY <3>1 DEF OutIds
  <2> QED BY <2>1, <2>2
<1>4. (i \in AskedIds' <=> i \in AskedIds) /\ (i \in PendingIds' <=> i \in PendingIds)
  BY <1>1, <1>3 DEF AskedIds, HandIds, PendingIds
<1>5. ASSUME NEW p, p.id = i PROVE p \in Replies' <=> p \in Replies
  BY <1>1, <1>2, <1>5, ReplyPlaces, ReplyPlacesNext
<1> QED BY <1>4, <1>5, RepliesOfId DEF SamePlace

LEMMA OthersStay ==
  ASSUME TypeInv, FlightInv, Orderly, [Next]_vars, NEW t \in Tasks, ClientNext(t),
         NEW u \in Tasks, u # t
  PROVE  SamePhase(u)
<1>a. TypeOK /\ SMTypeOK
  BY DEF TypeInv, TypeOK
<1>1. SameSession(u)
  BY <1>a DEF SameSession, ClientNext, BeginCreate, CheckAccepting, RefuseSession, CreateSession,
     CreateChannel, InsertChannel, BeginRequest, Enqueue, EnqueueFailed, Receive, TakeFromInbox,
     ReceiveClosed, DropSession, DropReceiver, Cancel, connVars, callVars, smVars, TypeOK, SMTypeOK
<1>2. ASSUME Open(u) PROVE SamePlace(sid[u])
  <2>1. sid[u] \in Ids /\ (Open(t) => sid[u] # sid[t])
    BY <1>2 DEF TypeInv, SMInv, SessionsIsolated, SMTypeOK
  <2> QED BY <2>1, ClientPlaces
<1> QED BY <1>1, <1>2, Bystander

\* A step of the connection or the server is not about a session's state.
ConnectionStep ==
  \/ Run \/ Join \/ DropHandle
  \/ WriterRecv \/ WriteDone \/ WriteFailed
  \/ ReadPacket \/ ReadFailed \/ Forward
  \/ (\E p \in pending : ServerAnswer(p)) \/ ServerClose
  \/ UNCHANGED vars

LEMMA StepKinds ==
  ASSUME Orderly, [Next]_vars
  PROVE  (\E t \in Tasks : ClientNext(t)) \/ ConnectionStep
BY DEF Next, ConnectionStep, ServerStray, Orderly

LEMMA ConnectionSessions == ASSUME ConnectionStep PROVE \A t \in Tasks : SameSession(t)
BY DEF ConnectionStep, Run, Join, DisableNewSessions, DropHandle, WriterRecv, WriteDone,
   WriteFailed, ReadPacket, BeginForward, ReadFailed, Forward, LookupUnknown, LookupFound,
   ForwardSent, ForwardFailed, ServerAnswer, ServerClose, vars, connVars, smVars, callVars,
   SameSession

-----------------------------------------------------------------------------
(***************************************************************************)
(* The service's steps.                                                    *)
(***************************************************************************)
Stutters == UNCHANGED Service!serviceVars

LEMMA StutterStep ==
  ASSUME \A t \in Tasks : SamePhase(t), UNCHANGED <<peerOpen, canAccept>>
  PROVE  Stutters
BY DEF Stutters, Service!serviceVars, SamePhase

LEMMA TransStep ==
  ASSUME NEW t \in Tasks, NEW From, NEW to, PhaseOf(t) \in From, PhaseOf(t)' = to,
         \A u \in Tasks \ {t} : SamePhase(u), UNCHANGED <<peerOpen, canAccept>>
  PROVE  Service!Trans(t, From, to)
BY DEF Service!Trans, SamePhase

LEMMA ClientServiceStep ==
  ASSUME TypeInv, FlightInv, CallInv, Orderly, [Next]_vars, NEW t \in Tasks, ClientNext(t)
  PROVE  Service!ClientStep(t) \/ Stutters
<1>a. TypeOK /\ SMTypeOK
  BY DEF TypeInv, TypeOK
<1>b. \A u \in Tasks \ {t} : SamePhase(u)
  BY OthersStay
<1>c. UNCHANGED <<peerOpen, canAccept>>
  BY DEF ClientNext, BeginCreate, CheckAccepting, RefuseSession, CreateSession, CreateChannel,
     InsertChannel, BeginRequest, Enqueue, EnqueueFailed, Receive, TakeFromInbox, ReceiveClosed,
     DropSession, DropReceiver, Cancel, wireVars, connVars, smVars
<1>d. ASSUME NEW From, NEW to, PhaseOf(t) \in From, PhaseOf(t)' = to
      PROVE  Service!Trans(t, From, to)
  BY <1>b, <1>c, <1>d, TransStep
<1> USE DEF Service!ClientStep
<1>1. CASE BeginCreate(t)
  <2>1. PhaseOf(t) = "none"
    BY <1>1 DEF BeginCreate, CheckAccepting, RefuseSession, PhaseOf, Open
  <2>2. CASE CheckAccepting(t)
    <3>1. PhaseOf(t)' = "opening"
      BY <2>2, <1>a DEF CheckAccepting, PhaseOf, Open, SMTypeOK
    <3> QED BY <2>1, <2>2, <3>1, <1>d DEF CheckAccepting, Service!BeginOpen
  <2>3. CASE RefuseSession(t)
    <3>1. PhaseOf(t)' = "refused"
      BY <2>3, <1>a DEF RefuseSession, PhaseOf, Open, SMTypeOK
    <3> QED BY <2>1, <2>3, <3>1, <1>d DEF RefuseSession, Service!Refuse
  <2> QED BY <1>1, <2>2, <2>3 DEF BeginCreate
<1>2. CASE CreateSession(t)
  <2>1. PhaseOf(t) = "opening"
    BY <1>2 DEF CreateSession, CreateChannel, InsertChannel, PhaseOf, Open
  <2>2. stage'[t] = "open" /\ call'[t] = "ready" /\ complete'[t] = FALSE
    BY <1>2, <1>a DEF CreateSession, CreateChannel, InsertChannel, TypeOK, SMTypeOK
  <2>3. PhaseOf(t)' = "idle"
    BY <2>2 DEF PhaseOf, Open
  <2> QED BY <2>1, <2>3, <1>d DEF Service!Opened
<1>3. CASE BeginRequest(t)
  <2>1. PhaseOf(t) = "idle"
    BY <1>3 DEF BeginRequest, IsComplete, PhaseOf, Open
  <2>2. stage'[t] = "open" /\ call'[t] = "sending"
    BY <1>3, <1>a DEF BeginRequest, smVars, Open, TypeOK
  <2>3. PhaseOf(t)' = "asked"
    BY <2>2 DEF PhaseOf, Open
  <2> QED BY <2>1, <2>3, <1>d DEF Service!Ask
<1>4. CASE Enqueue(t)
  <2>1. PhaseOf(t) = "asked"
    BY <1>4 DEF Enqueue, PhaseOf, Open
  <2>2. Open(t)' /\ call'[t] = "waiting" /\ sid'[t] = sid[t]
    BY <1>4, <1>a DEF Enqueue, smVars, Open, TypeOK
  <2>3. sid[t] \in OutIds'
    <3>1. /\ Request(t) \in Packet /\ Request(t).id = sid[t]
          /\ outbound \in Seq(Packet) /\ outbound' = Append(outbound, Request(t))
      BY <1>4, <1>a, RequestIsPacket DEF Enqueue, Request, TypeOK
    <3> QED BY <3>1, PacketsInAppend DEF OutIds, IdsOf
  <2>4. PhaseOf(t)' = "asked"
    BY <2>2, <2>3, PhaseOfWaiterNext DEF PhaseAt, AskedIds
  <2> QED BY <2>1, <2>4, <1>b, <1>c, StutterStep DEF SamePhase
<1>5. CASE EnqueueFailed(t)
  <2>1. PhaseOf(t) = "asked" /\ ~complete[t] /\ ~peerOpen
    BY <1>5 DEF EnqueueFailed, PhaseOf, Open, CallInv
  <2>2. stage'[t] = "open" /\ call'[t] = "ready" /\ complete'[t] = complete[t]
    BY <1>5, <1>a DEF EnqueueFailed, smVars, Open, TypeOK
  <2>3. PhaseOf(t)' = "idle"
    BY <2>1, <2>2 DEF PhaseOf, Open
  <2> QED BY <2>1, <2>3, <1>d DEF Service!Fail
<1>6. CASE Receive(t)
  <2> DEFINE i == sid[t]
             p == Head(inbox[i])
  <2>1. Open(t) /\ call[t] = "waiting" /\ i \in Ids /\ inbox[i] \in Seq(Packet) /\ inbox[i] # <<>>
    BY <1>6, <1>a DEF Receive, TakeFromInbox, TypeInv, SMInv, SessionsIsolated, SMTypeOK
  <2>2. p \in Packet /\ p \in PacketsIn(inbox[i])
    BY <2>1 DEF PacketsIn
  <2>3. p \in Replies /\ p.id = i /\ p.ok \in BOOLEAN
    BY <2>1, <2>2, RepliesDef DEF Buffered, PacketsIn, TypeInv, SMInv, SessionsIsolated, Packet
  <2>4. /\ stage'[t] = "open" /\ call'[t] = "ready" /\ ~complete[t]
        /\ complete'[t] = (complete[t] \/ p.ok)
    BY <1>6, <1>a DEF Receive, TakeFromInbox, Open, TypeOK, CallInv
  <2>5. PhaseOf(t) = PhaseAt(i)
    BY <2>1, PhaseOfWaiter DEF WaitersArePlaced
  <2> HIDE DEF i, p
  <2>6. CASE p.ok = TRUE
    <3>1. i \in GoodIds
      BY <2>3, <2>6 DEF GoodIds, AnsweredIds, IdsOf
    <3>2. PhaseOf(t) = "good"
      BY <3>1, <2>5, PlacesApart DEF Apart, PhaseAt
    <3>3. PhaseOf(t)' = "done"
      BY <2>4, <2>6 DEF PhaseOf, Open
    <3> QED BY <3>2, <3>3, <1>d DEF Service!Succeed
  <2>7. CASE p.ok = FALSE
    <3>1. i \in BadIds
      BY <2>3, <2>7 DEF BadIds, AnsweredIds, IdsOf
    <3>2. PhaseOf(t) = "bad"
      BY <3>1, <2>5, PlacesApart DEF Apart, PhaseAt
    <3>3. PhaseOf(t)' = "idle"
      BY <2>4, <2>7 DEF PhaseOf, Open
    <3> QED BY <3>2, <3>3, <1>d DEF Service!ReturnBad
  <2> QED BY <2>3, <2>6, <2>7
<1>7. CASE ReceiveClosed(t)
  <2>1. Open(t) /\ call[t] = "waiting" /\ ~complete[t] /\ inbox[sid[t]] = <<>>
    BY <1>7 DEF ReceiveClosed, CallInv
  <2>2. /\ outbound = <<>> /\ hand = NoPacket /\ pending = {} /\ toClient = <<>>
        /\ carried = NoPacket /\ ~peerOpen
    BY <1>7 DEF ReceiveClosed, ManagerAlive, TypeInv, Teardown
  <2>3. sid[t] \notin AskedIds /\ sid[t] \notin PendingIds
    BY <2>2, PacketsInEmpty DEF AskedIds, OutIds, HandIds, PendingIds, IdsOf, IfPacket
  <2>4. sid[t] \notin GoodIds \cup BadIds
    BY <2>1, <2>2, PacketsInEmpty, AnsweredPlaces DEF BackIds, CarriedIds, BufferedIds, IdsOf, IfPacket
  <2>5. PhaseOf(t) = "lost"
    BY <2>1, <2>3, <2>4, PhaseOfWaiter DEF WaitersArePlaced, PhaseAt
  <2>6. stage'[t] = "open" /\ call'[t] = "ready" /\ complete'[t] = complete[t]
    BY <1>7, <1>a DEF ReceiveClosed, smVars, Open, TypeOK
  <2>7. PhaseOf(t)' = "idle"
    BY <2>1, <2>6 DEF PhaseOf, Open
  <2> QED BY <2>2, <2>5, <2>7, <1>d DEF Service!Fail
<1>8. CASE DropSession(t)
  <2>1. Open(t) /\ stage'[t] = "dropped"
    BY <1>8, <1>a DEF DropSession, DropReceiver, SMTypeOK
  <2>2. PhaseOf(t)' = "none"
    BY <2>1 DEF PhaseOf, Open
  <2>3. PhaseOf(t) \in Service!InSession
    <3>1. CASE call[t] = "waiting"
      BY <2>1, <3>1, PhaseOfWaiter DEF WaitersArePlaced, PhaseAt, Service!InSession, Service!Calling
    <3>2. CASE call[t] # "waiting"
      BY <2>1, <3>2, <1>a DEF PhaseOf, Open, TypeOK, Service!InSession, Service!Calling
    <3> QED BY <3>1, <3>2
  <2> QED BY <2>2, <2>3, <1>d DEF Service!Leave
<1>9. ~Cancel(t)
  BY DEF Cancel, Orderly
<1> QED BY <1>1, <1>2, <1>3, <1>4, <1>5, <1>6, <1>7, <1>8, <1>9 DEF ClientNext

\* No packet changes its place.
LEMMA NothingMoves ==
  ASSUME TypeInv, FlightInv, Orderly, [Next]_vars, ConnectionStep,
         UNCHANGED <<peerOpen, canAccept>>,
         \A t \in Tasks : Open(t) => SamePlace(sid[t])
  PROVE  Stutters
BY ConnectionSessions, Bystander, StutterStep

\* The packet of session i moves, and with it the call of the session's owner.
LEMMA OneMoves ==
  ASSUME TypeInv, FlightInv, Orderly, [Next]_vars, ConnectionStep,
         UNCHANGED <<peerOpen, canAccept>>,
         NEW i, \A j : j # i => SamePlace(j),
         \A t \in Tasks : Open(t) /\ sid[t] = i => call[t] = "waiting",
         NEW from, PhaseAt(i) = from, NEW to, PhaseAt(i)' = to
  PROVE  Stutters \/ \E t \in Tasks : Service!Trans(t, {from}, to)
<1>1. ASSUME NEW t \in Tasks, Open(t), sid[t] = i
      PROVE  Service!Trans(t, {from}, to)
  <2>1. PhaseOf(t) = from
    BY <1>1, PhaseOfWaiter DEF WaitersArePlaced
  <2>2. Open(t)' /\ call'[t] = "waiting" /\ sid'[t] = i
    BY <1>1, ConnectionSessions DEF SameSession, Open
  <2>3. PhaseOf(t)' = to
    BY <2>2, PhaseOfWaiterNext DEF PhaseAt
  <2>4. ASSUME NEW u \in Tasks \ {t} PROVE SamePhase(u)
    <3>1. Open(u) => sid[u] # i
      BY <1>1 DEF TypeInv, SMInv, SessionsIsolated
    <3> QED BY <3>1, ConnectionSessions, Bystander
  <2> QED BY <2>1, <2>3, <2>4, TransStep
<1>2. ASSUME \A t \in Tasks : ~(Open(t) /\ sid[t] = i) PROVE Stutters
  BY <1>2, NothingMoves
<1> QED BY <1>1, <1>2

\* The packets of the sessions in L are lost with the connection.
LEMMA SomeAreLost ==
  ASSUME TypeInv, FlightInv, Orderly, [Next]_vars, ConnectionStep,
         ~peerOpen, UNCHANGED <<peerOpen, canAccept>>,
         NEW L, \A j : j \notin L => SamePlace(j),
         \A t \in Tasks : Open(t) /\ sid[t] \in L => call[t] = "waiting",
         \A j \in L : PhaseAt(j) \in {"asked", "good", "bad"} /\ PhaseAt(j)' = "lost"
  PROVE  Stutters \/ \E S \in SUBSET Tasks : Service!Lose(S)
<1> DEFINE S == {t \in Tasks : Open(t) /\ sid[t] \in L}
<1>1. ASSUME NEW t \in S PROVE PhaseOf(t) \in {"asked", "good", "bad"} /\ PhaseOf(t)' = "lost"
  <2>1. PhaseOf(t) = PhaseAt(sid[t])
    BY PhaseOfWaiter DEF WaitersArePlaced
  <2>2. Open(t)' /\ call'[t] = "waiting" /\ sid'[t] = sid[t]
    BY ConnectionSessions DEF SameSession, Open
  <2>3. PhaseOf(t)' = PhaseAt(sid[t])'
    BY <2>2, PhaseOfWaiterNext
  <2>4. PhaseAt(sid[t])' = "lost"
    BY <2>2 DEF PhaseAt
  <2> QED BY <2>1, <2>3, <2>4
<1>2. ASSUME NEW t \in Tasks, t \notin S PROVE SamePhase(t)
  BY <1>2, ConnectionSessions, Bystander
<1> HIDE DEF S
<1>3. CASE S = {}
  BY <1>2, <1>3, StutterStep
<1>4. CASE S # {}
  <2>1. S \in SUBSET Tasks
    BY DEF S
  <2>2. \A t \in S : [u \in Tasks |-> PhaseOf(u)][t] \in {"asked", "good", "bad"}
    BY <1>1, <2>1
  <2>3. [u \in Tasks |-> PhaseOf(u)]'
          = [u \in Tasks |-> IF u \in S THEN "lost" ELSE [v \in Tasks |-> PhaseOf(v)][u]]
    BY <1>1, <1>2 DEF SamePhase
  <2>4. Service!Lose(S)
    BY <1>4, <2>2, <2>3 DEF Service!Lose
  <2> QED BY <2>1, <2>4
<1> QED BY <1>3, <1>4

-----------------------------------------------------------------------------
\* A packet that changes neither queue nor direction.
LEMMA SameRepliesSamePlace ==
  ASSUME NEW i, \A p : p.id = i => (p \in Replies' <=> p \in Replies),
         i \in AskedIds' <=> i \in AskedIds, i \in PendingIds' <=> i \in PendingIds
  PROVE  SamePlace(i)
BY RepliesOfId DEF SamePlace

\* Nobody's step on the connection's own side of the channels, or the packet of
\* a session goes from the write task to the server.
LEMMA WriterServiceStep ==
  ASSUME TypeInv, FlightInv, Orderly, [Next]_vars, WriterRecv \/ WriteDone \/ WriteFailed
  PROVE  Stutters \/ Service!ServiceNext
<1>a. TypeOK /\ SMTypeOK /\ Teardown
  BY DEF TypeInv, TypeOK
<1>b. ConnectionStep
  BY DEF ConnectionStep
<1>c. UNCHANGED <<peerOpen, canAccept, toClient, carried, inbox>>
  BY DEF WriterRecv, WriteDone, WriteFailed, smVars, wireVars
<1>d. \A p : p \in Replies' <=> p \in Replies
  BY <1>c, ReplyPlaces, ReplyPlacesNext
<1>e. \A i : (i \in GoodIds' <=> i \in GoodIds) /\ (i \in BadIds' <=> i \in BadIds)
  BY <1>d, RepliesOfId
<1>f. \A p \in Requests, t \in Tasks : Open(t) /\ sid[t] = p.id => call[t] = "waiting"
  BY DEF FlightInv, RequestOfWaiter
<1>g. StagesApart
  BY OneInFlightParts DEF FlightInv
<1>h. Apart(AskedIds, PendingIds, GoodIds, BadIds, {}, {})
  BY PlacesApart
<1>1. CASE WriterRecv
  <2>1. outbound \in Seq(Packet) /\ outbound # <<>> /\ outbound' = Tail(outbound)
        /\ hand' = Head(outbound) /\ Head(outbound) \in Packet /\ hand = NoPacket
    BY <1>1, <1>a DEF WriterRecv, TypeOK, Teardown
  <2>2. PacketsIn(outbound) = PacketsIn(outbound') \cup {hand'}
    BY <2>1, PacketsInTail
  <2>3. IfPacket(hand) = {} /\ IfPacket(hand') = {hand'}
    BY <2>1, SessionManagerAssumption DEF IfPacket, SessionManagerAssumption
  <2>4. AskedIds' = AskedIds
    BY <2>2, <2>3 DEF AskedIds, OutIds, HandIds, IdsOf
  <2>5. PendingIds' = PendingIds
    BY <1>1 DEF WriterRecv, wireVars, PendingIds
  <2>6. \A i : SamePlace(i)
    BY <1>e, <2>4, <2>5 DEF SamePlace
  <2> QED BY <2>6, <1>b, <1>c, NothingMoves
<1>2. CASE WriteDone
  <2>0. PICK i : i = hand.id
    OBVIOUS
  <2>1. hand # NoPacket /\ hand \in Requests /\ i \in HandIds
    BY <2>0, <1>2, <1>a DEF WriteDone, Teardown, Requests, HandIds, IfPacket, IdsOf
  <2>2. hand' = NoPacket /\ UNCHANGED outbound
    BY <1>2 DEF WriteDone
  <2>3. HandIds = {i} /\ HandIds' = {} /\ OutIds' = OutIds
    BY <2>0, <2>1, <2>2 DEF OutIds, HandIds, IfPacket, IdsOf
  <2>4. AskedIds' = AskedIds \ {i} /\ i \in AskedIds
    BY <2>3, <1>g DEF AskedIds, StagesApart, Apart
  <2>5. PhaseAt(i) = "asked"
    BY <2>4 DEF PhaseAt
  <2>6. \A t \in Tasks : Open(t) /\ sid[t] = i => call[t] = "waiting"
    BY <2>0, <2>1, <1>f
  <2>7. CASE peerOpen
    <3>1. PendingIds' = PendingIds \cup {i}
      BY <2>0, <1>2, <2>7 DEF WriteDone, PendingIds, IdsOf
    <3>2. \A j : j # i => SamePlace(j)
      BY <1>e, <2>4, <3>1 DEF SamePlace
    <3>3. PhaseAt(i)' = "taken"
      BY <2>4, <3>1 DEF PhaseAt
    <3>4. Stutters \/ \E t \in Tasks : Service!Trans(t, {"asked"}, "taken")
      BY <2>5, <2>6, <3>2, <3>3, <1>b, <1>c, OneMoves
    <3> QED BY <2>7, <3>4 DEF Service!ServiceNext, Service!ClientStep, Service!Take
  <2>8. CASE ~peerOpen
    <3>1. PendingIds' = PendingIds
      BY <1>2, <2>8 DEF WriteDone, PendingIds
    <3>0. PICK L : L = {i}
      OBVIOUS
    <3>2. \A j : j \notin L => SamePlace(j)
      BY <1>e, <2>4, <3>0, <3>1 DEF SamePlace
    <3>3. PhaseAt(i)' = "lost"
      BY <2>4, <3>1, <1>e, <1>h DEF PhaseAt, Apart
    <3>4. \A j \in L : PhaseAt(j) \in {"asked", "good", "bad"} /\ PhaseAt(j)' = "lost"
      BY <2>5, <3>0, <3>3
    <3>5. \A t \in Tasks : Open(t) /\ sid[t] \in L => call[t] = "waiting"
      BY <2>6, <3>0
    <3>6. Stutters \/ \E S \in SUBSET Tasks : Service!Lose(S)
      BY <2>8, <3>2, <3>4, <3>5, <1>b, <1>c, SomeAreLost
    <3> QED BY <3>6 DEF Service!ServiceNext
  <2> QED BY <2>7, <2>8
<1>3. CASE WriteFailed
  <2>1. hand' = NoPacket /\ outbound' = <<>> /\ ~peerOpen /\ UNCHANGED pending
    BY <1>3 DEF WriteFailed, wireVars
  <2>2. AskedIds' = {} /\ PendingIds' = PendingIds
    BY <2>1, PacketsInEmpty DEF AskedIds, OutIds, HandIds, PendingIds, IfPacket, IdsOf
  <2>3. \A j : j \notin AskedIds => SamePlace(j)
    BY <1>e, <2>2 DEF SamePlace
  <2>4. \A t \in Tasks : Open(t) /\ sid[t] \in AskedIds => call[t] = "waiting"
    BY <1>f DEF AskedIds, OutIds, HandIds, IdsOf, Requests
  <2>5. \A j \in AskedIds : PhaseAt(j) = "asked" /\ PhaseAt(j)' = "lost"
    BY <2>2, <1>e, <1>h DEF PhaseAt, Apart
  <2>6. Stutters \/ \E S \in SUBSET Tasks : Service!Lose(S)
    BY <2>1, <2>3, <2>4, <2>5, <1>b, <1>c, SomeAreLost
  <2> QED BY <2>6 DEF Service!ServiceNext
<1> QED BY <1>1, <1>2, <1>3

\* The read task moves a reply between the three places of replies, or the wire
\* is lost with the connection.
LEMMA ReaderServiceStep ==
  ASSUME TypeInv, FlightInv, Orderly, [Next]_vars, ReadPacket \/ ReadFailed \/ Forward
  PROVE  Stutters \/ Service!ServiceNext
<1>a. TypeOK /\ SMTypeOK /\ Teardown
  BY DEF TypeInv, TypeOK
<1>b. ConnectionStep
  BY DEF ConnectionStep
<1>c. UNCHANGED <<peerOpen, canAccept, outbound, hand, pending>>
  BY DEF ReadPacket, BeginForward, ReadFailed, Forward, LookupUnknown, LookupFound, ForwardSent,
     ForwardFailed, smVars, wireVars, taskVars, connVars
<1>d. AskedIds' = AskedIds /\ PendingIds' = PendingIds
  BY <1>c DEF AskedIds, OutIds, HandIds, PendingIds
<1>e. \A p \in Replies, t \in Tasks : Open(t) /\ sid[t] = p.id => call[t] = "waiting"
  BY DEF FlightInv, ReplyToWaiter
<1>1. ASSUME \A t \in Tasks : Open(t) =>
               \A p : p.id = sid[t] => (p \in Replies' <=> p \in Replies)
      PROVE  Stutters
  <2>1. \A t \in Tasks : Open(t) => SamePlace(sid[t])
    BY <1>1, <1>d, SameRepliesSamePlace
  <2> QED BY <2>1, <1>b, <1>c, NothingMoves
<1>2. CASE ReadPacket
  <2>1. PacketsIn(toClient) = PacketsIn(toClient') \cup {carried'}
    BY <1>2, <1>a, PacketsInTail DEF ReadPacket, BeginForward, TypeOK
  <2>2. UNCHANGED inbox /\ carried = NoPacket /\ carried' # NoPacket
    BY <1>2, <1>a, SessionManagerAssumption
       DEF ReadPacket, BeginForward, TypeOK, SessionManagerAssumption
  <2>3. IfPacket(carried) = {} /\ IfPacket(carried') = {carried'}
    BY <2>2 DEF IfPacket
  <2>4. \A p : p \in Replies' <=> p \in Replies
    BY <2>1, <2>2, <2>3, ReplyPlaces, ReplyPlacesNext
  <2> QED BY <2>4, <1>1
<1>3. CASE ReadFailed
  <2>1. toClient' = <<>> /\ carried = NoPacket /\ ~peerOpen /\ UNCHANGED <<carried, inbox>>
    BY <1>3 DEF ReadFailed, smVars
  <2>2. ASSUME NEW p, p \notin PacketsIn(toClient) PROVE p \in Replies' <=> p \in Replies
    BY <2>1, <2>2, PacketsInEmpty, ReplyPlaces, ReplyPlacesNext
  <2>3. ASSUME NEW j, j \notin BackIds PROVE SamePlace(j)
    <3>1. ASSUME NEW p, p.id = j PROVE p \in Replies' <=> p \in Replies
      BY <2>2, <2>3, <3>1 DEF BackIds, IdsOf
    <3> QED BY <3>1, <1>d, SameRepliesSamePlace
  <2>4. \A t \in Tasks : Open(t) /\ sid[t] \in BackIds => call[t] = "waiting"
    BY <1>e, RepliesDef DEF BackIds, IdsOf
  <2>5. ASSUME NEW j \in BackIds
        PROVE  PhaseAt(j) \in {"asked", "good", "bad"} /\ PhaseAt(j)' = "lost"
    <3>1. StagesApart
      BY OneInFlightParts DEF FlightInv
    <3>2. j \notin AskedIds /\ j \notin PendingIds /\ j \notin BufferedIds
      BY <3>1 DEF StagesApart, Apart, AskedIds
    <3>3. j \in GoodIds \cup BadIds
      BY AnsweredPlaces
    <3>4. \A p : p.id = j => p \notin Replies'
      BY <2>1, <3>2, PacketsInEmpty, ReplyPlacesNext DEF IfPacket, BufferedIds
    <3>5. j \notin GoodIds' /\ j \notin BadIds'
      BY <3>4 DEF GoodIds, BadIds, AnsweredIds, IdsOf
    <3> QED BY <3>2, <3>3, <3>5, <1>d DEF PhaseAt
  <2>6. Stutters \/ \E S \in SUBSET Tasks : Service!Lose(S)
    BY <2>1, <2>3, <2>4, <2>5, <1>b, <1>c, SomeAreLost
  <2> QED BY <2>6 DEF Service!ServiceNext
<1>4. CASE LookupUnknown /\ UNCHANGED connVars
  <2>1. carried \in Replies
    BY <1>4 DEF LookupUnknown, Replies, IfPacket
  <2>2. carried.id \in channels
    BY <2>1 DEF FlightInv, ReplyToWaiter
  <2> QED BY <1>4, <2>2 DEF LookupUnknown
<1>5. CASE LookupFound /\ UNCHANGED connVars
  <2>1. UNCHANGED <<toClient, carried, inbox>>
    BY <1>5 DEF LookupFound, connVars, wireVars
  <2>2. \A p : p \in Replies' <=> p \in Replies
    BY <2>1, ReplyPlaces, ReplyPlacesNext
  <2> QED BY <2>2, <1>1
<1>6. CASE ForwardSent /\ UNCHANGED connVars
  <2>1. carried \in Packet /\ carried # NoPacket /\ carried.id \in Ids
    BY <1>6, <1>a DEF ForwardSent, TypeInv, SMInv, SMTypeOK, LockCoversSend, Packet
  <2>2. UNCHANGED toClient /\ carried' = NoPacket
    BY <1>6 DEF ForwardSent, connVars, wireVars
  <2>3. \A j \in Ids : inbox'[j] = IF j = carried.id THEN Append(inbox[j], carried) ELSE inbox[j]
    BY <1>6, <1>a DEF ForwardSent, SMTypeOK
  <2>4. PacketsIn(inbox'[carried.id]) = PacketsIn(inbox[carried.id]) \cup {carried}
    BY <2>1, <2>3, <1>a, PacketsInAppend DEF SMTypeOK
  <2>5. IfPacket(carried) = {carried} /\ IfPacket(carried') = {}
    BY <2>1, <2>2 DEF IfPacket
  <2>6. ASSUME NEW p PROVE p \in Replies' <=> p \in Replies
    <3>1. CASE p.id = carried.id
      BY <2>1, <2>2, <2>4, <2>5, <3>1, ReplyPlaces, ReplyPlacesNext
    <3>2. CASE p.id # carried.id
      BY <2>2, <2>3, <2>5, <3>2, ReplyPlaces, ReplyPlacesNext
    <3> QED BY <3>1, <3>2
  <2> QED BY <2>6, <1>1
<1>7. CASE ForwardFailed /\ UNCHANGED connVars
  <2>1. UNCHANGED <<toClient, inbox>> /\ carried' = NoPacket /\ ~ReceiverAlive(carried.id)
    BY <1>7 DEF ForwardFailed, connVars, wireVars
  <2>2. ASSUME NEW t \in Tasks, Open(t), NEW p, p.id = sid[t]
        PROVE  p \in Replies' <=> p \in Replies
    <3>1. p # carried
      BY <2>1, <2>2 DEF ReceiverAlive
    <3> QED BY <2>1, <3>1, ReplyPlaces, ReplyPlacesNext DEF IfPacket
  <2> QED BY <2>2, <1>1
<1> QED BY <1>2, <1>3, <1>4, <1>5, <1>6, <1>7 DEF Forward

\* The server answers the request of one session, or closes the connection.
LEMMA ServerServiceStep ==
  ASSUME TypeInv, FlightInv, Orderly, [Next]_vars,
         ServerClose \/ \E p \in pending : ServerAnswer(p)
  PROVE  Stutters \/ Service!ServiceNext
<1>a. TypeOK /\ SMTypeOK
  BY DEF TypeInv, TypeOK
<1>b. ConnectionStep
  BY DEF ConnectionStep
<1>c. UNCHANGED <<canAccept, outbound, hand, carried, inbox>>
  BY DEF ServerClose, ServerAnswer, smVars, taskVars
<1>d. AskedIds' = AskedIds
  BY <1>c DEF AskedIds, OutIds, HandIds
<1>e. Apart(AskedIds, PendingIds, GoodIds, BadIds, {}, {})
  BY PlacesApart
<1>1. ASSUME NEW p \in pending, ServerAnswer(p) PROVE Stutters \/ Service!ServiceNext
  <2>1. PICK ok \in BOOLEAN : toClient' = Append(toClient, Reply(p, ok))
    BY <1>1 DEF ServerAnswer
  <2>2. PICK i : i = p.id
    OBVIOUS
  <2>3. /\ Reply(p, ok) \in Packet /\ Reply(p, ok).id = i /\ Reply(p, ok).ok = ok
        /\ toClient \in Seq(Packet)
    BY <2>2, <1>a, ReplyIsPacket DEF TypeOK, Reply
  <2>4. PacketsIn(toClient') = PacketsIn(toClient) \cup {Reply(p, ok)}
    BY <2>1, <2>3, PacketsInAppend
  <2>5. peerOpen /\ UNCHANGED peerOpen /\ pending' = pending \ {p}
    BY <1>1 DEF ServerAnswer
  <2>6. \A q : q \in Replies' <=> q \in Replies \/ q = Reply(p, ok)
    BY <2>4, <1>c, ReplyPlaces, ReplyPlacesNext
  <2>7. PendingIds' = PendingIds \ {i} /\ i \in PendingIds
    <3>1. PendingDistinct
      BY OneInFlightParts DEF FlightInv
    <3> QED BY <2>2, <2>5, <3>1 DEF PendingDistinct, PendingIds, IdsOf
  <2>8. \A j : j # i => SamePlace(j)
    <3>1. ASSUME NEW j, j # i, NEW q, q.id = j PROVE q \in Replies' <=> q \in Replies
      BY <2>3, <2>6, <3>1
    <3> QED BY <2>7, <3>1, <1>d, SameRepliesSamePlace
  <2>9. PhaseAt(i) = "taken" /\ i \notin AskedIds /\ i \notin GoodIds /\ i \notin BadIds
    BY <2>7, <1>e DEF PhaseAt, Apart
  <2>10. \A t \in Tasks : Open(t) /\ sid[t] = i => call[t] = "waiting"
    BY <2>2 DEF FlightInv, RequestOfWaiter, Requests
  <2>11. i \in GoodIds' <=> ok
    BY <2>3, <2>6, <2>9 DEF GoodIds, AnsweredIds, IdsOf
  <2>12. i \in BadIds' <=> ~ok
    BY <2>3, <2>6, <2>9 DEF BadIds, AnsweredIds, IdsOf
  <2>13. PhaseAt(i)' = IF ok THEN "good" ELSE "bad"
    BY <2>7, <2>9, <2>11, <2>12, <1>d DEF PhaseAt
  <2>14. CASE ok
    <3>1. PhaseAt(i)' = "good"
      BY <2>13, <2>14
    <3>2. Stutters \/ \E t \in Tasks : Service!Trans(t, {"taken"}, "good")
      BY <2>5, <2>8, <2>9, <2>10, <3>1, <1>b, <1>c, OneMoves
    <3> QED BY <2>5, <3>2 DEF Service!ServiceNext, Service!ClientStep, Service!AnswerWell
  <2>15. CASE ~ok
    <3>1. PhaseAt(i)' = "bad"
      BY <2>13, <2>15
    <3>2. Stutters \/ \E t \in Tasks : Service!Trans(t, {"taken"}, "bad")
      BY <2>5, <2>8, <2>9, <2>10, <3>1, <1>b, <1>c, OneMoves
    <3> QED BY <2>5, <3>2 DEF Service!ServiceNext, Service!ClientStep, Service!AnswerBadly
  <2> QED BY <2>14, <2>15
<1>2. CASE ServerClose
  <2>1. peerOpen /\ peerOpen' = FALSE /\ pending' = {} /\ UNCHANGED toClient
    BY <1>2 DEF ServerClose
  <2>2. \A q : q \in Replies' <=> q \in Replies
    BY <2>1, <1>c, ReplyPlaces, ReplyPlacesNext
  <2>3. PendingIds' = {}
    BY <2>1 DEF PendingIds, IdsOf
  <2>4. \A j : (j \in GoodIds' <=> j \in GoodIds) /\ (j \in BadIds' <=> j \in BadIds)
    BY <2>2, RepliesOfId
  <2>5. \A j : j \notin PendingIds => SamePlace(j)
    BY <2>3, <2>4, <1>d DEF SamePlace
  <2>6. ASSUME NEW t \in Tasks
        PROVE  PhaseOf(t)' = IF PhaseOf(t) = "taken" THEN "lost" ELSE PhaseOf(t)
    <3>1. CASE Open(t) /\ call[t] = "waiting" /\ sid[t] \in PendingIds
      <4>1. PhaseOf(t) = "taken"
        BY <3>1, <1>e, PhaseOfWaiter DEF WaitersArePlaced, PhaseAt, Apart
      <4>2. Open(t)' /\ call'[t] = "waiting" /\ sid'[t] = sid[t]
        BY <3>1, <1>b, ConnectionSessions DEF SameSession, Open
      <4>3. PhaseOf(t)' = "lost"
        BY <3>1, <4>2, <2>3, <2>4, <1>d, <1>e, PhaseOfWaiterNext DEF PhaseAt, Apart
      <4> QED BY <4>1, <4>3
    <3>2. CASE Open(t) /\ call[t] = "waiting" /\ sid[t] \notin PendingIds
      <4>1. PhaseOf(t) # "taken"
        BY <3>2, PhaseOfWaiter DEF WaitersArePlaced, PhaseAt
      <4>2. SamePhase(t)
        BY <3>2, <2>5, <1>b, ConnectionSessions, Bystander
      <4> QED BY <4>1, <4>2 DEF SamePhase
    <3>3. CASE ~(Open(t) /\ call[t] = "waiting")
      <4>1. PhaseOf(t) # "taken"
        BY <3>3, <1>a DEF PhaseOf, Open, TypeOK, SMTypeOK
      <4>2. SamePhase(t)
        BY <3>3, <1>b, ConnectionSessions, Bystander
      <4> QED BY <4>1, <4>2 DEF SamePhase
    <3> QED BY <3>1, <3>2, <3>3
  <2>7. [t \in Tasks |-> PhaseOf(t)]'
          = [t \in Tasks |-> IF [u \in Tasks |-> PhaseOf(u)][t] = "taken" THEN "lost"
                             ELSE [u \in Tasks |-> PhaseOf(u)][t]]
    BY <2>6
  <2>8. Service!Disconnect
    BY <2>1, <2>7, <1>c DEF Service!Disconnect
  <2> QED BY <2>8 DEF Service!ServiceNext
<1> QED BY <1>1, <1>2

\* The tasks of the connection begin and end.
LEMMA TaskServiceStep ==
  ASSUME TypeInv, FlightInv, Orderly, [Next]_vars, Run \/ Join \/ DropHandle \/ UNCHANGED vars
  PROVE  Stutters \/ Service!ServiceNext
<1>a. ConnectionStep
  BY DEF ConnectionStep
<1>b. UNCHANGED <<peerOpen, outbound, hand, pending, toClient, carried, inbox>>
  BY DEF Run, Join, DisableNewSessions, DropHandle, smVars, wireVars, connVars, taskVars, vars
<1>c. \A q : q \in Replies' <=> q \in Replies
  BY <1>b, ReplyPlaces, ReplyPlacesNext
<1>d. \A j : SamePlace(j)
  BY <1>b, <1>c, RepliesOfId DEF SamePlace, AskedIds, OutIds, HandIds, PendingIds
<1>1. CASE UNCHANGED canAccept
  BY <1>1, <1>a, <1>b, <1>d, NothingMoves
<1>2. CASE Join /\ canAccept
  <2>1. canAccept' = FALSE /\ ~peerOpen
    BY <1>2 DEF Join, DisableNewSessions, TypeInv, Teardown
  <2>2. \A t \in Tasks : SamePhase(t)
    BY <1>a, <1>d, ConnectionSessions, Bystander
  <2>3. Service!Stop
    BY <1>2, <2>1, <2>2, <1>b DEF Service!Stop, SamePhase
  <2> QED BY <2>3 DEF Service!ServiceNext
<1>3. CASE Join /\ ~canAccept
  <2>1. UNCHANGED canAccept
    BY <1>3 DEF Join, DisableNewSessions, TypeInv, TypeOK, SMTypeOK
  <2> QED BY <2>1, <1>1
<1>4. Join \/ UNCHANGED canAccept
  BY DEF Run, DropHandle, smVars, vars
<1> QED BY <1>1, <1>2, <1>3, <1>4

LEMMA ServiceStep ==
  TypeInv /\ FlightInv /\ CallInv /\ Orderly /\ [Next]_vars =>
    [Service!ServiceNext]_Service!serviceVars
<1> SUFFICES ASSUME TypeInv, FlightInv, CallInv, Orderly, [Next]_vars
             PROVE  Stutters \/ Service!ServiceNext
  BY DEF Stutters
<1>1. ASSUME NEW t \in Tasks, ClientNext(t) PROVE Stutters \/ Service!ServiceNext
  BY <1>1, ClientServiceStep DEF Service!ServiceNext
<1> QED
  BY <1>1, StepKinds, WriterServiceStep, ReaderServiceStep, ServerServiceStep, TaskServiceStep
     DEF ConnectionStep

\* Without cancelled calls and stray packets the connection implements the service
\* programs rely on: a request is taken at most once, not lost while the peer keeps
\* the connection open, and its caller gets the answer given to it or an error once
\* the connection has gone.
THEOREM ConnectionImplementsService ==
  ASSUME Faults \subseteq {"close"}
  PROVE  Spec => ImplementsService
<1>1. Orderly
  BY DEF Orderly
<1>2. Init => Service!ServiceInit
  BY DEF Init, SMInit, Service!ServiceInit, PhaseOf, Open
<1>3. TypeInv /\ FlightInv /\ CallInv /\ [Next]_vars => [Service!ServiceNext]_Service!serviceVars
  BY <1>1, ServiceStep
<1> QED
  BY <1>1, <1>2, <1>3, TypeInvariance, FlightInvariance, CallInvariance, PTL
     DEF Spec, ImplementsService, Service!ServiceSpec
=============================================================================
