------------------------ MODULE MockConnectionProofs ------------------------
(***************************************************************************)
(* The mock connection, for every number of tasks and ids and every        *)
(* capacity. A session has one packet under way at a time, a request or    *)
(* its reply, and that is why replies find their requests and the mock     *)
(* never waits for room in a session's channel.                            *)
(***************************************************************************)
EXTENDS MockConnection, SessionManagerProofs

MockTyped ==
  /\ task \in {"off", "recv", "request", "send", "panicked"}
  /\ request \in Packet \cup {NoPacket}
  /\ task = "request" <=> request # NoPacket
  /\ task = "send" <=> carried # NoPacket
  /\ outbound \in Seq(Packet) /\ Len(outbound) <= OutCap
  /\ replies \in SUBSET Packet
  /\ requests \in SUBSET Packet
  /\ call \in [Tasks -> {"ready", "sending", "waiting"}]
  /\ reqSeq \in [Tasks -> 0 .. SeqMod - 1]
  /\ nextSeq \in [Tasks -> 0 .. SeqMod - 1]
  /\ complete \in [Tasks -> BOOLEAN]

\* Every packet names a session there is or was, so one to come finds none.
IdsKnown ==
  /\ \A k \in DOMAIN outbound : outbound[k].id \in channels
  /\ request # NoPacket => request.id \in channels
  /\ carried # NoPacket => carried.id \in channels
  /\ \A r \in replies : r.id \in channels

\* A session's packet is in one place only, once.
OnePlace ==
  /\ \A j, k \in DOMAIN outbound : outbound[j].id = outbound[k].id => j = k
  /\ \A k \in DOMAIN outbound :
       /\ request # NoPacket => request.id # outbound[k].id
       /\ carried # NoPacket => carried.id # outbound[k].id
       /\ inbox[outbound[k].id] = <<>>
  /\ request # NoPacket => inbox[request.id] = <<>>
  /\ carried # NoPacket => inbox[carried.id] = <<>>
  /\ \A i \in Ids : Len(inbox[i]) <= 1

\* Task t waits for p, and its request is recorded.
AwaitedBy(t, p) ==
  call[t] = "waiting" /\ p.seq = ReplySeq(reqSeq[t]) /\ Request(t) \in requests

\* What is under way for t's session is its request or the reply to it.
InCall(t) ==
  /\ \A k \in DOMAIN outbound :
       outbound[k].id = sid[t] => call[t] = "waiting" /\ outbound[k] = Request(t)
  /\ request # NoPacket /\ request.id = sid[t] => call[t] = "waiting" /\ request = Request(t)
  /\ carried # NoPacket /\ carried.id = sid[t] => AwaitedBy(t, carried)
  /\ \A k \in DOMAIN inbox[sid[t]] : AwaitedBy(t, inbox[sid[t]][k])
  /\ complete[t] => Request(t) \in requests

MockInv ==
  /\ SMInv
  /\ MockTyped
  /\ IdsKnown
  /\ OnePlace
  /\ \A t \in Tasks : Open(t) => InCall(t)

-----------------------------------------------------------------------------
LEMMA MockInitInv == Init => MockInv
<1> SUFFICES ASSUME Init PROVE MockInv
  OBVIOUS
<1>1. SMInv
  BY SMInitInv DEF Init
<1>2. MockTyped
  BY MockConnectionAssumption, SessionManagerAssumption
     DEF Init, SMInit, MockTyped, MockConnectionAssumption, SessionManagerAssumption
<1>3. IdsKnown /\ OnePlace
  BY DEF Init, SMInit, IdsKnown, OnePlace
<1>4. \A t \in Tasks : ~Open(t)
  BY DEF Init, SMInit, Open
<1> QED BY <1>1, <1>2, <1>3, <1>4 DEF MockInv

\* The mock handles the map of sessions as the SessionManager lets it.
LEMMA MockStepsManager == ASSUME MockInv, [Next]_vars PROVE [SMNext]_smVars
<1>1. CASE Answer
  <2>1. \E p \in Packet : BeginForward(p)
    BY <1>1 DEF Answer, Prepared, MockInv, MockTyped
  <2> QED BY <2>1 DEF SMNext
<1> QED BY <1>1
        DEF Next, vars, Run, Recv, Overflow, NoReply, Forward, AddReply, BeginCreate,
            CreateSession, BeginRequest, Enqueue, EnqueueFailed, Receive, DropSession, SMNext

LEMMA MockStaysTyped == ASSUME MockInv, [Next]_vars PROVE MockTyped'
<1> USE MockConnectionAssumption, SessionManagerAssumption
    DEF MockConnectionAssumption, SessionManagerAssumption, MockTyped
<1>1. MockTyped /\ SMTypeOK /\ (readLock => carried # NoPacket)
  BY DEF MockInv, SMInv, LockCoversSend
<1>2. CASE Run \/ Overflow \/ NoReply
  <2>1. <<>> \in Seq(Packet) /\ Len(<<>>) <= OutCap
    BY EmptyInbox
  <2>2. CASE Run
    BY <1>1, <2>2 DEF Run, smVars, callVars
  <2>3. CASE Overflow
    BY <1>1, <2>1, <2>3 DEF Overflow, smVars, callVars
  <2>4. CASE NoReply
    BY <1>1, <2>4 DEF NoReply, Handles, smVars, callVars
  <2> QED BY <1>2, <2>2, <2>3, <2>4
<1>3. CASE Recv
  <2>1. /\ Head(outbound) \in Packet /\ Tail(outbound) \in Seq(Packet)
        /\ Len(Tail(outbound)) = Len(outbound) - 1 /\ Len(outbound) \in Nat
    BY <1>1, <1>3 DEF Recv
  <2> QED BY <1>1, <1>3, <2>1 DEF Recv, smVars, callVars
<1>4. CASE Answer
  <2>1. PICK r \in replies : BeginForward(r) /\ replies' = replies \ {r}
    BY <1>4 DEF Answer, Prepared
  <2> QED BY <1>1, <1>4, <2>1 DEF Answer, Handles, BeginForward, callVars
<1>5. CASE Forward
  BY <1>1, <1>5
     DEF Forward, LookupUnknown, LookupFound, ForwardSent, ForwardFailed, callVars
<1>6. ASSUME NEW t \in Tasks, NEW n \in ReplyNumbers, NEW ok \in BOOLEAN, AddReply(t, n, ok)
      PROVE  MockTyped'
  <2>1. sid[t] \in Ids /\ n \in 0 .. SeqMod - 1
    BY <1>6 DEF AddReply, MockInv, SMInv, SMTypeOK, SessionsIsolated
  <2>2. [id |-> sid[t], by |-> t, seq |-> n, ok |-> ok] \in Packet
    BY <2>1 DEF Packet
  <2> QED BY <1>1, <1>6, <2>2 DEF AddReply, smVars, callVars
<1>7. ASSUME NEW t \in Tasks,
             \/ BeginCreate(t) \/ CreateSession(t) \/ EnqueueFailed(t)
             \/ Receive(t) \/ DropSession(t)
      PROVE  MockTyped'
  <2>1. CASE BeginCreate(t)
    BY <1>1, <2>1 DEF BeginCreate, CheckAccepting, mockVars, callVars
  <2>2. CASE CreateSession(t)
    BY <1>1, <2>2 DEF CreateSession, CreateChannel, InsertChannel, mockVars
  <2>3. CASE EnqueueFailed(t)
    BY <1>1, <2>3 DEF EnqueueFailed, smVars, mockVars
  <2>4. CASE Receive(t)
    <3>1. complete'[t] \in BOOLEAN /\ complete' \in [Tasks -> BOOLEAN]
      BY <1>1, <2>4 DEF Receive
    <3> QED BY <1>1, <2>4, <3>1 DEF Receive, TakeFromInbox, mockVars
  <2>5. CASE DropSession(t)
    BY <1>1, <2>5 DEF DropSession, DropReceiver, mockVars
  <2> QED BY <1>7, <2>1, <2>2, <2>3, <2>4, <2>5
<1>8. ASSUME NEW t \in Tasks, BeginRequest(t) PROVE MockTyped'
  BY <1>1, <1>8 DEF BeginRequest, smVars, mockVars
<1>9. ASSUME NEW t \in Tasks, Enqueue(t) PROVE MockTyped'
  <2>1. sid[t] \in Ids /\ reqSeq[t] \in 0 .. SeqMod - 1
    BY <1>1, <1>9 DEF Enqueue, MockInv, SMInv, SMTypeOK, SessionsIsolated
  <2>2. Request(t) \in Packet
    BY <2>1 DEF Packet, Request
  <2>3. Append(outbound, Request(t)) \in Seq(Packet)
        /\ Len(Append(outbound, Request(t))) = Len(outbound) + 1 /\ Len(outbound) \in Nat
    BY <1>1, <2>2
  <2> QED BY <1>1, <1>9, <2>3 DEF Enqueue, smVars
<1>10. CASE UNCHANGED vars
  BY <1>1, <1>10 DEF vars, smVars, mockVars, callVars
<1> QED BY <1>2, <1>3, <1>4, <1>5, <1>6, <1>7, <1>8, <1>9, <1>10 DEF Next

-----------------------------------------------------------------------------
(***************************************************************************)
(* Steps that put no packet anywhere it was not.                           *)
(***************************************************************************)
LEMMA NothingMoves ==
  ASSUME MockInv, MockTyped', SMTypeOK',
         channels \subseteq channels', \A r \in replies' : r.id \in channels',
         requests \subseteq requests',
         outbound' \in {outbound, <<>>}, request' \in {request, NoPacket},
         carried' \in {carried, NoPacket},
         \A i \in Ids : inbox'[i] \in {inbox[i], <<>>},
         \A t \in Tasks : Open(t)' =>
           /\ Open(t) /\ sid'[t] = sid[t]
           /\ call'[t] = call[t] /\ reqSeq'[t] = reqSeq[t] /\ complete'[t] = complete[t]
  PROVE  IdsKnown' /\ OnePlace' /\ \A t \in Tasks : Open(t)' => InCall(t)'
<1>1. \A k \in DOMAIN outbound' : k \in DOMAIN outbound /\ outbound'[k] = outbound[k]
  OBVIOUS
<1>2. \A k \in DOMAIN outbound : outbound[k].id \in Ids
  <2>1. \A k \in DOMAIN outbound : outbound[k] \in Packet
    BY DEF MockInv, MockTyped
  <2> QED BY <2>1 DEF Packet
<1>3. /\ request # NoPacket => request.id \in Ids
      /\ carried # NoPacket => carried.id \in Ids
  BY DEF MockInv, MockTyped, SMInv, SMTypeOK, Packet
<1>4. IdsKnown'
  BY <1>1 DEF MockInv, IdsKnown
<1>5. OnePlace'
  <2>1. \A i \in Ids : Len(inbox'[i]) <= 1
    BY DEF MockInv, OnePlace
  <2>2. \A i \in Ids : inbox[i] = <<>> => inbox'[i] = <<>>
    OBVIOUS
  <2> QED BY <1>1, <1>2, <1>3, <2>1, <2>2 DEF MockInv, OnePlace
<1>6. ASSUME NEW t \in Tasks, Open(t)' PROVE InCall(t)'
  <2>1. Open(t) /\ InCall(t) /\ sid'[t] = sid[t] /\ Request(t)' = Request(t) /\ sid[t] \in Ids
    BY <1>6 DEF MockInv, SMInv, SMTypeOK, SessionsIsolated, Request
  <2>2. \A k \in DOMAIN inbox'[sid[t]] :
          k \in DOMAIN inbox[sid[t]] /\ inbox'[sid[t]][k] = inbox[sid[t]][k]
    BY <2>1
  <2> QED BY <1>1, <1>6, <2>1, <2>2 DEF InCall, AwaitedBy
<1> QED BY <1>4, <1>5, <1>6

-----------------------------------------------------------------------------
(***************************************************************************)
(* A packet's way: from the caller to the channel, to the task, back as a  *)
(* reply and into the session's inbox, until the caller takes it out.      *)
(***************************************************************************)
\* A buffer without a position is empty, and empties when its one packet is taken.
LEMMA ShortInbox ==
  ASSUME NEW q \in Seq(Packet)
  PROVE  /\ DOMAIN q = {} => q = <<>>
         /\ Len(q) <= 1 /\ q # <<>> => Tail(q) = <<>> /\ 1 \in DOMAIN q
<1>1. Len(q) \in Nat /\ DOMAIN q = 1 .. Len(q) /\ (Len(q) = 0 => q = <<>>)
  OBVIOUS
<1>2. q # <<>> => 1 \in DOMAIN q
  BY <1>1
<1>3. CASE Len(q) <= 1 /\ q # <<>>
  <2>1. Len(q) = 1
    BY <1>1, <1>3
  <2>2. Tail(q) \in Seq(Packet) /\ Len(Tail(q)) = Len(q) - 1
    BY <1>3
  <2>3. PICK r \in Seq(Packet) : r = Tail(q) /\ Len(r) = Len(q) - 1
    BY <2>2
  <2>4. Tail(q) = <<>>
    BY <2>1, <2>3
  <2> QED BY <1>2, <2>4
<1> QED BY <1>2, <1>3

Kept == IdsKnown /\ OnePlace /\ \A t \in Tasks : Open(t) => InCall(t)

LEMMA PacketTypes ==
  ASSUME MockInv
  PROVE  /\ outbound \in Seq(Packet) /\ \A k \in DOMAIN outbound : outbound[k].id \in Ids
         /\ request # NoPacket => request \in Packet /\ request.id \in Ids
         /\ carried # NoPacket => carried \in Packet /\ carried.id \in Ids
         /\ inbox \in [Ids -> Seq(Packet)]
         /\ \A t \in Tasks : Open(t) => sid[t] \in Ids /\ sid[t] \in channels /\ InCall(t)
         /\ \A t, u \in Tasks : Open(t) /\ Open(u) /\ sid[t] = sid[u] => t = u
         /\ channels \subseteq Ids /\ IdsKnown /\ OnePlace
<1>1. \A k \in DOMAIN outbound : outbound[k] \in Packet
  BY DEF MockInv, MockTyped
<1>2. /\ request # NoPacket => request \in Packet
      /\ carried # NoPacket => carried \in Packet
  BY DEF MockInv, MockTyped, SMInv, SMTypeOK
<1>3. \A p \in Packet : p.id \in Ids
  BY DEF Packet
<1> QED BY <1>1, <1>2, <1>3 DEF MockInv, MockTyped, SMInv, SMTypeOK, SessionsIsolated

\* Nothing is under way for a caller that does not wait.
LEMMA NothingUnderWay ==
  ASSUME MockInv, NEW t \in Tasks, Open(t), call[t] # "waiting"
  PROVE  /\ \A k \in DOMAIN outbound : outbound[k].id # sid[t]
         /\ request # NoPacket => request.id # sid[t]
         /\ carried # NoPacket => carried.id # sid[t]
         /\ inbox[sid[t]] = <<>>
<1>1. InCall(t) /\ inbox[sid[t]] \in Seq(Packet)
  BY PacketTypes
<1>2. DOMAIN inbox[sid[t]] = {}
  BY <1>1 DEF InCall, AwaitedBy
<1>3. inbox[sid[t]] = <<>>
  BY <1>1, <1>2, ShortInbox
<1>4. carried # NoPacket => carried.id # sid[t]
  BY <1>1 DEF InCall, AwaitedBy
<1>5. request # NoPacket => request.id # sid[t]
  BY <1>1 DEF InCall
<1>6. \A k \in DOMAIN outbound : outbound[k].id # sid[t]
  BY <1>1 DEF InCall
<1> QED BY <1>3, <1>4, <1>5, <1>6

LEMMA RecvKeeps == ASSUME MockInv, Recv PROVE Kept'
<1> DEFINE p == Head(outbound)
<1>1. /\ request' = p /\ outbound' = Tail(outbound) /\ request = NoPacket /\ carried = NoPacket
      /\ outbound # <<>>
      /\ UNCHANGED <<channels, inbox, stage, sid, carried, replies, requests, call, reqSeq,
                     nextSeq, complete>>
  BY DEF Recv, MockInv, MockTyped, smVars, callVars
<1>2. /\ 1 \in DOMAIN outbound /\ p = outbound[1]
      /\ \A k \in DOMAIN Tail(outbound) :
           /\ k + 1 \in DOMAIN outbound /\ Tail(outbound)[k] = outbound[k + 1]
           /\ k + 1 # 1 /\ k \in Nat
  BY <1>1, PacketTypes
<1>3. PICK q : q = p
  OBVIOUS
<1> HIDE DEF p
<1>4. IdsKnown'
  BY <1>1, <1>2, PacketTypes DEF IdsKnown
<1>5. OnePlace'
  <2>1. ASSUME NEW j \in DOMAIN outbound', NEW k \in DOMAIN outbound',
               outbound'[j].id = outbound'[k].id
        PROVE  j = k
    <3>1. j + 1 = k + 1
      BY <1>1, <1>2, <2>1, PacketTypes DEF OnePlace
    <3> QED BY <1>1, <1>2, <3>1
  <2>2. ASSUME NEW k \in DOMAIN outbound'
        PROVE  request'.id # outbound'[k].id /\ inbox[outbound'[k].id] = <<>>
    BY <1>1, <1>2, PacketTypes DEF OnePlace
  <2>3. inbox[p.id] = <<>>
    BY <1>2, PacketTypes DEF OnePlace
  <2> QED BY <1>1, <2>1, <2>2, <2>3, PacketTypes DEF OnePlace
<1>6. ASSUME NEW t \in Tasks, Open(t)' PROVE InCall(t)'
  <2>1. Open(t) /\ InCall(t) /\ Request(t)' = Request(t)
    BY <1>1, <1>6, PacketTypes DEF Open, Request
  <2>2. \A k \in DOMAIN outbound' :
          outbound'[k].id = sid[t] => call[t] = "waiting" /\ outbound'[k] = Request(t)
    BY <1>1, <1>2, <2>1 DEF InCall
  <2>3. p.id = sid[t] => call[t] = "waiting" /\ p = Request(t)
    BY <1>2, <2>1 DEF InCall
  <2> QED BY <1>1, <2>1, <2>2, <2>3 DEF InCall, AwaitedBy
<1> QED BY <1>4, <1>5, <1>6 DEF Kept

LEMMA AnswerKeeps == ASSUME MockInv, Answer PROVE Kept'
<1>1. PICK r \in replies :
        /\ r.id = request.id /\ r.seq = ReplySeq(request.seq)
        /\ carried' = r /\ replies' = replies \ {r} /\ request' = NoPacket
        /\ requests' = requests \cup {request} /\ request # NoPacket /\ carried = NoPacket
        /\ UNCHANGED <<channels, inbox, stage, sid, outbound, call, reqSeq, nextSeq, complete>>
  BY DEF Answer, Handles, Prepared, BeginForward, MockInv, MockTyped, callVars
<1>2. IdsKnown'
  BY <1>1, PacketTypes DEF IdsKnown
<1>3. OnePlace'
  BY <1>1, PacketTypes DEF OnePlace
<1>4. ASSUME NEW t \in Tasks, Open(t)' PROVE InCall(t)'
  <2>1. Open(t) /\ InCall(t) /\ Request(t)' = Request(t)
    BY <1>1, <1>4, PacketTypes DEF Open, Request
  <2>2. r.id = sid[t] =>
          call[t] = "waiting" /\ r.seq = ReplySeq(reqSeq[t]) /\ Request(t) \in requests'
    <3>1. r.id = sid[t] => call[t] = "waiting" /\ request = Request(t)
      BY <1>1, <2>1 DEF InCall
    <3> QED BY <1>1, <3>1 DEF Request
  <2> QED BY <1>1, <2>1, <2>2 DEF InCall, AwaitedBy
<1> QED BY <1>2, <1>3, <1>4 DEF Kept

LEMMA SentKeeps ==
  ASSUME MockInv, ForwardSent,
         UNCHANGED <<outbound, request, replies, requests, call, reqSeq, nextSeq, complete>>
  PROVE  Kept'
<1>1. PICK i \in Ids : i = carried.id /\ carried # NoPacket /\ carried \in Packet
  BY PacketTypes DEF ForwardSent, MockInv, SMInv, LockCoversSend
<1>2. inbox[i] = <<>> /\ request = NoPacket
  BY <1>1, PacketTypes DEF OnePlace, MockInv, MockTyped
<1>3. PICK q \in Seq(Packet) : q = Append(inbox[i], carried)
  <2>1. PICK p \in Packet : p = carried
    BY <1>1
  <2>2. Append(<<>>, p) \in Seq(Packet)
    BY <2>1
  <2> QED BY <1>2, <2>1, <2>2
<1>4. Len(q) = 1 /\ DOMAIN q = {1} /\ q[1] = carried
  BY <1>1, <1>2, <1>3
<1>5. /\ inbox' = [inbox EXCEPT ![i] = q] /\ carried' = NoPacket
      /\ UNCHANGED <<channels, stage, sid>>
  BY <1>1, <1>3 DEF ForwardSent
<1>6. \A j \in Ids : inbox'[j] = IF j = i THEN q ELSE inbox[j]
  BY <1>5, PacketTypes
<1>7. IdsKnown'
  BY <1>5, PacketTypes DEF IdsKnown
<1>8. OnePlace'
  <2>1. \A k \in DOMAIN outbound : outbound[k].id # i
    BY <1>1, PacketTypes DEF OnePlace
  <2>2. \A k \in DOMAIN outbound : inbox'[outbound[k].id] = <<>>
    BY <1>6, <2>1, PacketTypes DEF OnePlace
  <2>3. \A j \in Ids : Len(inbox'[j]) <= 1
    <3> SUFFICES ASSUME NEW j \in Ids PROVE Len(inbox'[j]) <= 1
      OBVIOUS
    <3>1. CASE j # i
      BY <1>6, <3>1, PacketTypes DEF OnePlace
    <3>2. CASE j = i
      <4>1. inbox'[j] = q
        BY <1>6, <3>2
      <4>2. Len(inbox'[j]) = 1
        BY <1>4, <4>1
      <4> QED BY <4>2
    <3> QED BY <3>1, <3>2
  <2> QED BY <1>2, <1>5, <2>2, <2>3, PacketTypes DEF OnePlace
<1>9. ASSUME NEW t \in Tasks, Open(t)' PROVE InCall(t)'
  <2>1. Open(t) /\ InCall(t) /\ Request(t)' = Request(t) /\ sid[t] \in Ids
    BY <1>5, <1>9, PacketTypes DEF Open, Request
  <2>2. \A k \in DOMAIN inbox'[sid[t]] : AwaitedBy(t, inbox'[sid[t]][k])
    <3>1. CASE sid[t] = i
      BY <1>1, <1>4, <1>6, <2>1, <3>1 DEF InCall
    <3>2. CASE sid[t] # i
      BY <1>6, <2>1, <3>2 DEF InCall
    <3> QED BY <1>4, <3>1, <3>2
  <2> QED BY <1>2, <1>5, <2>1, <2>2 DEF InCall, AwaitedBy
<1> QED BY <1>7, <1>8, <1>9 DEF Kept

\* A new session has an id no packet has.
LEMMA CreateKeeps == ASSUME MockInv, NEW t \in Tasks, CreateSession(t) PROVE Kept'
<1>1. PICK i \in Ids \ channels :
        /\ channels' = channels \cup {i} /\ inbox' = [inbox EXCEPT ![i] = <<>>]
        /\ sid' = [sid EXCEPT ![t] = i] /\ stage' = [stage EXCEPT ![t] = "open"]
        /\ complete' = [complete EXCEPT ![t] = FALSE]
        /\ call' = [call EXCEPT ![t] = "ready"] /\ reqSeq' = [reqSeq EXCEPT ![t] = 0]
        /\ UNCHANGED <<outbound, request, carried, replies, requests>>
  BY DEF CreateSession, CreateChannel, InsertChannel, mockVars
<1>2. \A j \in Ids : inbox'[j] = IF j = i THEN <<>> ELSE inbox[j]
  BY <1>1, PacketTypes
<1>3. /\ \A k \in DOMAIN outbound : outbound[k].id # i
      /\ request # NoPacket => request.id # i
      /\ carried # NoPacket => carried.id # i
  BY <1>1, PacketTypes DEF IdsKnown
<1>4. IdsKnown'
  BY <1>1, PacketTypes DEF IdsKnown
<1>5. OnePlace'
  <2>1. \A j \in Ids : Len(inbox'[j]) <= 1
    BY <1>2, PacketTypes DEF OnePlace
  <2> QED BY <1>1, <1>2, <2>1, PacketTypes DEF OnePlace
<1>6. /\ stage \in [Tasks -> {"idle", "creating", "open", "dropped", "refused"}]
      /\ sid \in [Tasks -> Ids \cup {NoId}] /\ complete \in [Tasks -> BOOLEAN]
      /\ call \in [Tasks -> {"ready", "sending", "waiting"}]
      /\ reqSeq \in [Tasks -> 0 .. SeqMod - 1]
  BY DEF MockInv, SMInv, SMTypeOK, MockTyped
<1>7. ASSUME NEW u \in Tasks, Open(u)', u # t PROVE InCall(u)'
  <2>1. /\ Open(u) /\ InCall(u) /\ sid'[u] = sid[u] /\ sid[u] # i /\ Request(u)' = Request(u)
        /\ inbox'[sid[u]] = inbox[sid[u]] /\ call'[u] = call[u] /\ reqSeq'[u] = reqSeq[u]
        /\ complete'[u] = complete[u]
    BY <1>1, <1>2, <1>6, <1>7, PacketTypes DEF Open, Request
  <2> QED BY <1>1, <2>1 DEF InCall, AwaitedBy
<1>8. InCall(t)'
  <2>1. sid'[t] = i /\ ~complete'[t] /\ inbox'[i] = <<>>
    BY <1>1, <1>2, <1>6
  <2>2. DOMAIN inbox'[i] = {}
    BY <2>1
  <2> QED BY <1>1, <1>3, <2>1, <2>2 DEF InCall
<1> QED BY <1>4, <1>5, <1>7, <1>8 DEF Kept

\* The caller takes a step for which its session has no packet under way, and
\* after which it has none either.
LEMMA CallerKeeps ==
  ASSUME MockInv, NEW t \in Tasks, Open(t), call[t] # "waiting",
         UNCHANGED <<smVars, mockVars>>,
         complete' = complete, complete[t] => reqSeq'[t] = reqSeq[t],
         \A u \in Tasks \ {t} : call'[u] = call[u] /\ reqSeq'[u] = reqSeq[u]
  PROVE  Kept'
<1>1. IdsKnown' /\ OnePlace'
  BY PacketTypes DEF IdsKnown, OnePlace, smVars, mockVars
<1>2. ASSUME NEW u \in Tasks, Open(u)', u # t PROVE InCall(u)'
  <2>1. Open(u) /\ InCall(u) /\ Request(u)' = Request(u)
    BY <1>2, PacketTypes DEF Open, Request, smVars
  <2> QED BY <1>2, <2>1 DEF InCall, AwaitedBy, smVars, mockVars
<1>3. InCall(t)'
  <2>1. complete[t] => Request(t)' = Request(t)
    BY DEF Request, smVars
  <2>2. DOMAIN inbox[sid[t]] = {}
    BY NothingUnderWay
  <2> QED BY NothingUnderWay, PacketTypes, <2>1, <2>2 DEF InCall, smVars, mockVars
<1> QED BY <1>1, <1>2, <1>3 DEF Kept

LEMMA EnqueueKeeps == ASSUME MockInv, NEW t \in Tasks, Enqueue(t) PROVE Kept'
<1>1. /\ Open(t) /\ call[t] = "sending" /\ outbound' = Append(outbound, Request(t))
      /\ call' = [call EXCEPT ![t] = "waiting"]
      /\ UNCHANGED <<channels, inbox, stage, sid, carried, request, replies, requests, reqSeq,
                     complete>>
  BY DEF Enqueue, smVars
<1>2. PICK p : p = Request(t)
  OBVIOUS
<1>3. p.id = sid[t] /\ p \in Packet
  BY <1>1, <1>2, PacketTypes DEF Request, Packet, MockInv, MockTyped
<1>4. /\ DOMAIN outbound' = DOMAIN outbound \cup {Len(outbound) + 1}
      /\ Len(outbound) + 1 \notin DOMAIN outbound /\ outbound'[Len(outbound) + 1] = p
      /\ \A k \in DOMAIN outbound : outbound'[k] = outbound[k]
  BY <1>1, <1>2, <1>3, PacketTypes
<1>5. PICK n : n = Len(outbound) + 1
  OBVIOUS
<1>6. /\ \A k \in DOMAIN outbound : outbound[k].id # sid[t]
      /\ request # NoPacket => request.id # sid[t]
      /\ carried # NoPacket => carried.id # sid[t]
      /\ inbox[sid[t]] = <<>> /\ DOMAIN inbox[sid[t]] = {}
  BY <1>1, NothingUnderWay
<1>7. IdsKnown'
  BY <1>1, <1>3, <1>4, PacketTypes DEF IdsKnown
<1>8. OnePlace'
  BY <1>1, <1>3, <1>4, <1>5, <1>6, PacketTypes DEF OnePlace
<1>9. ASSUME NEW u \in Tasks, Open(u)', u # t PROVE InCall(u)'
  <2>1. Open(u) /\ InCall(u) /\ Request(u)' = Request(u) /\ sid[u] # sid[t] /\ call'[u] = call[u]
    BY <1>1, <1>9, PacketTypes DEF Open, Request, MockInv, MockTyped
  <2>2. \A k \in DOMAIN outbound' :
          outbound'[k].id = sid[u] => call[u] = "waiting" /\ outbound'[k] = Request(u)
    BY <1>3, <1>4, <2>1 DEF InCall
  <2> QED BY <1>1, <2>1, <2>2 DEF InCall, AwaitedBy
<1>10. InCall(t)'
  <2>1. InCall(t) /\ Request(t)' = p /\ call'[t] = "waiting"
    BY <1>1, <1>2, PacketTypes DEF Request, MockInv, MockTyped
  <2>2. \A k \in DOMAIN outbound' : outbound'[k].id = sid[t] => outbound'[k] = p
    BY <1>4, <1>6
  <2>3. complete[t] => p \in requests
    BY <1>2, <2>1 DEF InCall
  <2> QED BY <1>1, <1>6, <2>1, <2>2, <2>3 DEF InCall
<1> QED BY <1>7, <1>8, <1>9, <1>10 DEF Kept

LEMMA ReceiveKeeps == ASSUME MockInv, NEW t \in Tasks, Receive(t) PROVE Kept'
<1>1. PICK i \in Ids : i = sid[t] /\ Open(t)
  BY PacketTypes DEF Receive, TakeFromInbox
<1>2. /\ inbox[i] # <<>> /\ inbox' = [inbox EXCEPT ![i] = Tail(inbox[i])]
      /\ call' = [call EXCEPT ![t] = "ready"]
      /\ complete' = [complete EXCEPT ![t] = complete[t] \/ Head(inbox[i]).ok]
      /\ UNCHANGED <<channels, outbound, stage, sid, carried, request, replies, requests, reqSeq>>
  BY <1>1 DEF Receive, TakeFromInbox, mockVars
<1>3. Tail(inbox[i]) = <<>> /\ 1 \in DOMAIN inbox[i]
  BY <1>2, ShortInbox, PacketTypes DEF OnePlace
<1>4. \A j \in Ids : inbox'[j] = IF j = i THEN <<>> ELSE inbox[j]
  BY <1>2, <1>3, PacketTypes
<1>5. /\ \A k \in DOMAIN outbound : outbound[k].id # i
      /\ request # NoPacket => request.id # i
      /\ carried # NoPacket => carried.id # i
  BY <1>2, PacketTypes DEF OnePlace
<1>6. IdsKnown'
  BY <1>2, PacketTypes DEF IdsKnown
<1>7. OnePlace'
  <2>1. \A j \in Ids : Len(inbox'[j]) <= 1
    BY <1>4, PacketTypes DEF OnePlace
  <2> QED BY <1>2, <1>4, <2>1, PacketTypes DEF OnePlace
<1>8. ASSUME NEW u \in Tasks, Open(u)', u # t PROVE InCall(u)'
  <2>1. /\ Open(u) /\ InCall(u) /\ Request(u)' = Request(u) /\ sid[u] # i
        /\ inbox'[sid[u]] = inbox[sid[u]] /\ call'[u] = call[u] /\ complete'[u] = complete[u]
    BY <1>1, <1>2, <1>4, <1>8, PacketTypes DEF Open, Request, MockInv, MockTyped
  <2> QED BY <1>2, <2>1 DEF InCall, AwaitedBy
<1>9. InCall(t)'
  <2>1. Request(t) \in requests /\ Request(t)' = Request(t)
    BY <1>1, <1>2, <1>3, PacketTypes DEF InCall, AwaitedBy, Request
  <2>2. inbox'[i] = <<>> /\ DOMAIN inbox'[i] = {}
    BY <1>4
  <2> QED BY <1>1, <1>2, <1>5, <2>1, <2>2 DEF InCall
<1> QED BY <1>6, <1>7, <1>8, <1>9 DEF Kept

-----------------------------------------------------------------------------
LEMMA MockStepInv == MockInv /\ [Next]_vars => MockInv'
<1> SUFFICES ASSUME MockInv, [Next]_vars PROVE MockInv'
  OBVIOUS
<1>1. SMInv' /\ SMTypeOK'
  BY MockStepsManager, SMStepInv DEF MockInv, SMInv
<1>2. MockTyped'
  BY MockStaysTyped
<1>3. ASSUME UNCHANGED vars PROVE Kept'
  BY <1>1, <1>2, <1>3, NothingMoves, PacketTypes
     DEF vars, smVars, mockVars, callVars, Open, Kept, IdsKnown
<1>4. ASSUME Run \/ Overflow \/ NoReply PROVE Kept'
  <2>1. /\ outbound' \in {outbound, <<>>} /\ request' \in {request, NoPacket}
        /\ UNCHANGED <<smVars, replies, requests, callVars>>
    BY <1>4 DEF Run, Overflow, NoReply
  <2> QED BY <1>1, <1>2, <2>1, NothingMoves, PacketTypes DEF smVars, callVars, Open, IdsKnown, Kept
<1>5. ASSUME Forward PROVE Kept'
  <2>1. UNCHANGED <<request, outbound, replies, requests, callVars>>
    BY <1>5 DEF Forward
  <2>2. CASE ForwardSent
    BY <2>1, <2>2, SentKeeps DEF callVars
  <2>3. CASE LookupUnknown \/ LookupFound \/ ForwardFailed
    <3>1. carried' \in {carried, NoPacket} /\ UNCHANGED <<channels, inbox, stage, sid>>
      BY <2>3 DEF LookupUnknown, LookupFound, ForwardFailed
    <3> QED BY <1>1, <1>2, <2>1, <3>1, NothingMoves, PacketTypes DEF callVars, Open, IdsKnown, Kept
  <2> QED BY <1>5, <2>2, <2>3 DEF Forward
<1>6. ASSUME NEW t \in Tasks, NEW n \in ReplyNumbers, NEW ok \in BOOLEAN, AddReply(t, n, ok)
      PROVE  Kept'
  <2>1. \A r \in replies' : r.id \in channels
    BY <1>6, PacketTypes DEF AddReply, IdsKnown
  <2>2. UNCHANGED <<smVars, request, outbound, requests, callVars>>
    BY <1>6 DEF AddReply
  <2> QED BY <1>1, <1>2, <2>1, <2>2, NothingMoves DEF smVars, callVars, Open, Kept
<1>7. ASSUME NEW t \in Tasks, BeginCreate(t) PROVE Kept'
  <2>1. /\ stage' = [stage EXCEPT ![t] = "creating"]
        /\ UNCHANGED <<channels, inbox, sid, carried, mockVars, callVars>>
    BY <1>7 DEF BeginCreate, CheckAccepting
  <2>2. \A u \in Tasks : Open(u)' => Open(u)
    BY <2>1 DEF MockInv, SMInv, SMTypeOK, Open
  <2> QED BY <1>1, <1>2, <2>1, <2>2, NothingMoves, PacketTypes
          DEF mockVars, callVars, IdsKnown, Kept
<1>8. ASSUME NEW t \in Tasks, DropSession(t) PROVE Kept'
  <2>1. /\ stage' = [stage EXCEPT ![t] = "dropped"] /\ sid' = [sid EXCEPT ![t] = NoId]
        /\ inbox' = [inbox EXCEPT ![sid[t]] = <<>>] /\ call' = [call EXCEPT ![t] = "ready"]
        /\ UNCHANGED <<channels, carried, mockVars, reqSeq, nextSeq, complete>>
    BY <1>8 DEF DropSession, DropReceiver
  <2>2. \A i \in Ids : inbox'[i] \in {inbox[i], <<>>}
    BY <2>1, PacketTypes
  <2>3. \A u \in Tasks : Open(u)' => Open(u) /\ sid'[u] = sid[u] /\ call'[u] = call[u]
    BY <2>1 DEF MockInv, MockTyped, SMInv, SMTypeOK, Open
  <2> QED BY <1>1, <1>2, <2>1, <2>2, <2>3, NothingMoves, PacketTypes DEF mockVars, IdsKnown, Kept
<1>9. ASSUME NEW t \in Tasks, BeginRequest(t) \/ EnqueueFailed(t) PROVE Kept'
  <2>1. /\ Open(t) /\ call[t] # "waiting" /\ UNCHANGED <<smVars, mockVars>>
        /\ complete' = complete /\ (complete[t] => reqSeq'[t] = reqSeq[t])
        /\ \A u \in Tasks \ {t} : call'[u] = call[u] /\ reqSeq'[u] = reqSeq[u]
    BY <1>9 DEF BeginRequest, EnqueueFailed, MockInv, MockTyped
  <2> QED BY <2>1, CallerKeeps
<1>10. Kept'
  <2>1. CASE Recv \/ Answer
    BY <2>1, RecvKeeps, AnswerKeeps
  <2>2. ASSUME NEW t \in Tasks, CreateSession(t) \/ Enqueue(t) \/ Receive(t) PROVE Kept'
    BY <2>2, CreateKeeps, EnqueueKeeps, ReceiveKeeps
  <2>3. ASSUME NEW t \in Tasks,
               \/ \E n \in ReplyNumbers, ok \in BOOLEAN : AddReply(t, n, ok)
               \/ BeginCreate(t) \/ DropSession(t) \/ BeginRequest(t) \/ EnqueueFailed(t)
        PROVE  Kept'
    BY <1>6, <1>7, <1>8, <1>9, <2>3
  <2> QED BY <1>3, <1>4, <1>5, <2>1, <2>2, <2>3 DEF Next
<1> QED BY <1>1, <1>2, <1>10 DEF MockInv, Kept

LEMMA MockInvariance == Spec => []MockInv
BY MockInitInv, MockStepInv, PTL DEF Spec

\* The mock connection keeps the types of its state, and its channel its bound;
\* the task has a request in hand only between recv and its answer.
THEOREM MockTypeCorrect == Spec => []TypeOK
<1>1. MockInv => TypeOK
  BY DEF MockInv, SMInv, MockTyped, TypeOK
<1> QED BY <1>1, MockInvariance, PTL

\* Every reply on its way to a Session answers the request its caller waits for,
\* which is recorded, and is there once.
THEOREM MockPairsReplies == Spec => []RepliesArePaired
<1>1. MockInv => RepliesArePaired
  <2> SUFFICES ASSUME MockInv, NEW t \in Tasks, Open(t)
               PROVE  /\ \A k \in DOMAIN inbox[sid[t]] : AwaitedBy(t, inbox[sid[t]][k])
                      /\ Len(inbox[sid[t]]) <= 1
                      /\ complete[t] => Request(t) \in requests
    BY DEF RepliesArePaired, AwaitedBy
  <2> QED BY PacketTypes DEF InCall, OnePlace
<1> QED BY <1>1, MockInvariance, PTL

\* The mock's task never waits for room in a Session's channel, so add_reply
\* never waits for the task.
THEOREM MockDoesNotBlock == Spec => []MockNeverBlocks
<1>1. MockInv => MockNeverBlocks
  <2> SUFFICES ASSUME MockInv, readLock PROVE Len(inbox[carried.id]) < InCap
    BY DEF MockNeverBlocks
  <2>1. inbox[carried.id] = <<>>
    BY PacketTypes DEF OnePlace, MockInv, SMInv, LockCoversSend
  <2> QED BY <2>1, SessionManagerAssumption DEF SessionManagerAssumption
<1> QED BY <1>1, MockInvariance, PTL

\* The mock uses the SessionManager as the SessionManager's own specification
\* allows, so that what holds of the one holds of it with the other.
THEOREM MockImplementsManager == Spec => SMSpec
<1>1. Init => SMInit
  BY DEF Init
<1>2. MockInv /\ [Next]_vars => [SMNext]_smVars
  BY MockStepsManager
<1> QED BY <1>1, <1>2, MockInvariance, PTL DEF Spec, SMSpec
=============================================================================
