------------------------ MODULE SessionManagerProofs ------------------------
(***************************************************************************)
(* Invariants of the session manager for every number of tasks, ids and    *)
(* packets. SMInv is inductive: the type of a buffered packet depends on   *)
(* the lock (a guard is held only for a packet being carried), and that    *)
(* sessions keep their ids apart depends on every live id being in the map.*)
(***************************************************************************)
EXTENDS SessionManager, TLAPS

SMInv == SMTypeOK /\ SessionsIsolated /\ LockCoversSend


\* A buffer that gets a packet of its own session, or loses its first one,
\* still buffers packets of that session only.
LEMMA AppendInbox ==
  ASSUME NEW i \in Ids, NEW q \in Seq(Packet), NEW p \in Packet,
         p.id = i, \A k \in DOMAIN q : q[k].id = i
  PROVE  /\ Append(q, p) \in Seq(Packet)
         /\ Len(Append(q, p)) = Len(q) + 1
         /\ \A k \in DOMAIN Append(q, p) : Append(q, p)[k].id = i
OBVIOUS

LEMMA TailInbox ==
  ASSUME NEW i \in Ids, NEW q \in Seq(Packet), q # <<>>,
         \A k \in DOMAIN q : q[k].id = i
  PROVE  /\ Tail(q) \in Seq(Packet)
         /\ Len(Tail(q)) = Len(q) - 1
         /\ \A k \in DOMAIN Tail(q) : Tail(q)[k].id = i
OBVIOUS

LEMMA EmptyInbox ==
  /\ <<>> \in Seq(Packet)
  /\ Len(<<>>) = 0
  /\ \A i \in Ids : \A k \in DOMAIN <<>> : <<>>[k].id = i
OBVIOUS

LEMMA SMInitInv == SMInit => SMInv
<1> SUFFICES ASSUME SMInit PROVE SMInv
  OBVIOUS
<1>1. inbox \in [Ids -> Seq(Packet)] /\ \A i \in Ids : Len(inbox[i]) <= InCap
  <2>1. \A i \in Ids : inbox[i] = <<>>
    BY DEF SMInit
  <2> QED BY <2>1, EmptyInbox, SessionManagerAssumption DEF SMInit
<1>2. SMTypeOK
  BY <1>1 DEF SMInit, SMTypeOK
<1>3. SessionsIsolated /\ LockCoversSend
  BY EmptyInbox DEF SMInit, SessionsIsolated, LockCoversSend, Open
<1> QED BY <1>2, <1>3 DEF SMInv

LEMMA SMStepInv == SMInv /\ [SMNext]_smVars => SMInv'
<1> SUFFICES ASSUME SMInv, [SMNext]_smVars PROVE SMInv'
  OBVIOUS
<1> USE SessionManagerAssumption DEF SMInv, Open, SessionManagerAssumption
<1>1. ASSUME NEW t \in Tasks, CheckAccepting(t) PROVE SMInv'
  BY <1>1 DEF CheckAccepting, SMTypeOK, SessionsIsolated, LockCoversSend
<1>2. ASSUME NEW t \in Tasks, RefuseSession(t) PROVE SMInv'
  BY <1>2 DEF RefuseSession, SMTypeOK, SessionsIsolated, LockCoversSend
<1>3. ASSUME NEW t \in Tasks, CreateChannel(t) PROVE SMInv'
  <2>1. PICK i \in Ids \ channels : InsertChannel(t, i)
    BY <1>3 DEF CreateChannel
  <2>2. SMTypeOK'
    <3>1. inbox' = [j \in Ids |-> IF j = i THEN <<>> ELSE inbox[j]]
      BY <2>1 DEF InsertChannel, SMTypeOK
    <3>2. inbox' \in [Ids -> Seq(Packet)] /\ \A j \in Ids : Len(inbox'[j]) <= InCap
      BY <3>1, EmptyInbox DEF SMTypeOK
    <3> QED BY <2>1, <3>2 DEF InsertChannel, SMTypeOK
  <2>3. SessionsIsolated'
    BY <2>1, EmptyInbox DEF InsertChannel, SMTypeOK, SessionsIsolated
  <2>4. LockCoversSend'
    BY <2>1 DEF InsertChannel, SMTypeOK, LockCoversSend
  <2> QED BY <2>2, <2>3, <2>4
<1>4. ASSUME NEW t \in Tasks, TakeFromInbox(t) PROVE SMInv'
  <2>1. sid[t] \in Ids /\ sid[t] \in channels
    BY <1>4 DEF TakeFromInbox, SMTypeOK, SessionsIsolated
  <2>2. /\ Tail(inbox[sid[t]]) \in Seq(Packet)
        /\ Len(Tail(inbox[sid[t]])) = Len(inbox[sid[t]]) - 1
        /\ \A k \in DOMAIN Tail(inbox[sid[t]]) : Tail(inbox[sid[t]])[k].id = sid[t]
    <3>1. /\ inbox[sid[t]] \in Seq(Packet) /\ inbox[sid[t]] # <<>>
          /\ \A k \in DOMAIN inbox[sid[t]] : inbox[sid[t]][k].id = sid[t]
      BY <1>4, <2>1 DEF TakeFromInbox, SMTypeOK, SessionsIsolated
    <3> QED BY <2>1, <3>1, TailInbox
  <2>3. SMTypeOK'
    BY <1>4, <2>1, <2>2 DEF TakeFromInbox, SMTypeOK
  <2>4. SessionsIsolated'
    BY <1>4, <2>1, <2>2 DEF TakeFromInbox, SMTypeOK, SessionsIsolated
  <2>5. LockCoversSend'
    BY <1>4, <2>1 DEF TakeFromInbox, SMTypeOK, LockCoversSend
  <2> QED BY <2>3, <2>4, <2>5
<1>5. ASSUME NEW t \in Tasks, DropReceiver(t) PROVE SMInv'
  <2>1. SMTypeOK'
    <3>1. inbox' = [j \in Ids |-> IF j = sid[t] THEN <<>> ELSE inbox[j]]
      BY <1>5 DEF DropReceiver, SMTypeOK
    <3>2. inbox' \in [Ids -> Seq(Packet)] /\ \A j \in Ids : Len(inbox'[j]) <= InCap
      BY <3>1, EmptyInbox DEF SMTypeOK
    <3> QED BY <1>5, <3>2 DEF DropReceiver, SMTypeOK
  <2>2. SessionsIsolated'
    BY <1>5, EmptyInbox DEF DropReceiver, SMTypeOK, SessionsIsolated
  <2>3. LockCoversSend'
    BY <1>5 DEF DropReceiver, SMTypeOK, LockCoversSend
  <2> QED BY <2>1, <2>2, <2>3
<1>6. ASSUME NEW p \in Packet, BeginForward(p) PROVE SMInv'
  BY <1>6 DEF BeginForward, SMTypeOK, SessionsIsolated, LockCoversSend
<1>7. ASSUME LookupUnknown PROVE SMInv'
  BY <1>7 DEF LookupUnknown, SMTypeOK, SessionsIsolated, LockCoversSend
<1>8. ASSUME LookupFound PROVE SMInv'
  BY <1>8 DEF LookupFound, SMTypeOK, SessionsIsolated, LockCoversSend
<1>9. ASSUME ForwardSent PROVE SMInv'
  <2> DEFINE i == carried.id
  <2>1. carried \in Packet /\ i \in Ids /\ i \in channels
    BY <1>9 DEF ForwardSent, SMTypeOK, LockCoversSend, Packet
  <2>2. /\ Append(inbox[i], carried) \in Seq(Packet)
        /\ Len(Append(inbox[i], carried)) = Len(inbox[i]) + 1
        /\ \A k \in DOMAIN Append(inbox[i], carried) : Append(inbox[i], carried)[k].id = i
    <3>1. inbox[i] \in Seq(Packet) /\ \A k \in DOMAIN inbox[i] : inbox[i][k].id = i
      BY <2>1 DEF SMTypeOK, SessionsIsolated
    <3> QED BY <2>1, <3>1, AppendInbox
  <2>3. SMTypeOK'
    <3>1. inbox' = [j \in Ids |-> IF j = i THEN Append(inbox[i], carried) ELSE inbox[j]]
      BY <1>9, <2>1 DEF ForwardSent, SMTypeOK
    <3>2. Len(inbox[i]) < InCap /\ Len(inbox[i]) \in Nat
      BY <1>9, <2>1 DEF ForwardSent, SMTypeOK
    <3> HIDE DEF i
    <3>3. inbox' \in [Ids -> Seq(Packet)] /\ \A j \in Ids : Len(inbox'[j]) <= InCap
      BY <3>1, <3>2, <2>1, <2>2 DEF SMTypeOK
    <3> QED BY <1>9, <3>3 DEF ForwardSent, SMTypeOK
  <2>4. SessionsIsolated'
    BY <1>9, <2>1, <2>2 DEF ForwardSent, SMTypeOK, SessionsIsolated
  <2>5. LockCoversSend'
    BY <1>9, <2>1 DEF ForwardSent, SMTypeOK, LockCoversSend
  <2> QED BY <2>3, <2>4, <2>5
<1>10. ASSUME ForwardFailed PROVE SMInv'
  BY <1>10 DEF ForwardFailed, SMTypeOK, SessionsIsolated, LockCoversSend
<1>11. ASSUME DisableNewSessions PROVE SMInv'
  BY <1>11 DEF DisableNewSessions, SMTypeOK, SessionsIsolated, LockCoversSend
<1>12. ASSUME UNCHANGED smVars PROVE SMInv'
  BY <1>12 DEF smVars, SMTypeOK, SessionsIsolated, LockCoversSend
<1> QED
  BY <1>1, <1>2, <1>3, <1>4, <1>5, <1>6, <1>7, <1>8, <1>9, <1>10, <1>11, <1>12 DEF SMNext

LEMMA SMInvariance == SMSpec => []SMInv
BY SMInitInv, SMStepInv, PTL DEF SMSpec

\* The variables of the session manager keep their types, and no channel
\* buffers more than its capacity.
THEOREM SMTypeCorrect == SMSpec => []SMTypeOK
<1>1. SMInv => SMTypeOK
  BY DEF SMInv
<1> QED BY <1>1, SMInvariance, PTL

\* Live sessions have ids of their own, are reachable through the map, and get
\* only packets of their own id.
THEOREM SMSessionsIsolated == SMSpec => []SessionsIsolated
<1>1. SMInv => SessionsIsolated
  BY DEF SMInv
<1> QED BY <1>1, SMInvariance, PTL

\* The packet being handed over while the map is read-locked has a channel in
\* the map, and a channel outside the map is empty.
THEOREM SMLockCoversSend == SMSpec => []LockCoversSend
<1>1. SMInv => LockCoversSend
  BY DEF SMInv
<1> QED BY <1>1, SMInvariance, PTL
=============================================================================
