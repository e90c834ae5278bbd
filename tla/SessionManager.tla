--------------------------- MODULE SessionManager ---------------------------
(***************************************************************************)
(* session_manager.rs: the map from session id to the sending half of that *)
(* session's channel, shared by the tasks that open sessions and by the    *)
(* read task that hands incoming packets over.                             *)
(*                                                                         *)
(* The map's RwLock: a writer (create_channel) never awaits while it holds *)
(* the lock, so its critical section is one step; the reader               *)
(* (send_message_to_session) keeps its guard across the await on a full    *)
(* channel, which readLock records.                                        *)
(*                                                                         *)
(* A connection has one caller of send_message_to_session, its read task,  *)
(* so at most one packet is being handed over: carried.                    *)
(***************************************************************************)
EXTENDS Naturals, Sequences, FiniteSets

CONSTANTS
  Tasks,      \* application tasks; each owns at most one Session at a time
  Ids,        \* what rand::random::<u32>() can draw
  SeqMod,     \* 2^8 in the code: sequence numbers are u8
  InCap,      \* capacity of a session's channel, 32 in the code
  NoId,
  NoPacket,
  Server      \* author of a packet that answers no request

\* by is an auxiliary field: the task whose request a packet is, or answers.
Packet == [id : Ids, by : Tasks \cup {Server}, seq : 0 .. SeqMod - 1, ok : BOOLEAN]

ASSUME SessionManagerAssumption ==
  /\ SeqMod \in Nat /\ SeqMod >= 2
  /\ InCap \in Nat /\ InCap >= 1
  /\ NoId \notin Ids
  /\ NoPacket \notin Packet
  /\ Server \notin Tasks

VARIABLES
  canAccept,  \* can_accept_new_sessions
  channels,   \* keys of duplex_channels: an id stays once inserted
  inbox,      \* packets buffered in each session's channel
  stage,      \* where each task is with create_session and its Session
  sid,        \* the id of the Session each task holds
  carried,    \* argument of the send_message_to_session call in progress
  readLock    \* that call holds the read guard and awaits channel.send

smVars == <<canAccept, channels, inbox, stage, sid, carried, readLock>>

Open(t) == stage[t] = "open"

\* A Session, and with it the receiving half of its channel, lives in one task.
ReceiverAlive(i) == \E t \in Tasks : Open(t) /\ sid[t] = i

\* Bound of the model: no more creations in progress than ids left to draw
\* (2^32 in the code, where the redraw loop would otherwise not end).
FreeIdLeft ==
  Cardinality({t \in Tasks : stage[t] = "creating"}) < Cardinality(Ids \ channels)

SMInit ==
  /\ canAccept = TRUE
  /\ channels = {}
  /\ inbox = [i \in Ids |-> <<>>]
  /\ stage = [t \in Tasks |-> "idle"]
  /\ sid = [t \in Tasks |-> NoId]
  /\ carried = NoPacket
  /\ readLock = FALSE

-----------------------------------------------------------------------------
\* create_session, first await: the flag is read and its guard released.
CheckAccepting(t) ==
  /\ stage[t] \in {"idle", "dropped"}
  /\ canAccept
  /\ FreeIdLeft
  /\ stage' = [stage EXCEPT ![t] = "creating"]
  /\ UNCHANGED <<canAccept, channels, inbox, sid, carried, readLock>>

RefuseSession(t) ==
  /\ stage[t] \in {"idle", "dropped"}
  /\ ~canAccept
  /\ stage' = [stage EXCEPT ![t] = "refused"]
  /\ UNCHANGED <<canAccept, channels, inbox, sid, carried, readLock>>

\* create_channel under the write guard: insert a fresh channel at id i.
InsertChannel(t, i) ==
  /\ stage[t] = "creating"
  /\ ~readLock
  /\ channels' = channels \cup {i}
  /\ inbox' = [inbox EXCEPT ![i] = <<>>]
  /\ sid' = [sid EXCEPT ![t] = i]
  /\ stage' = [stage EXCEPT ![t] = "open"]
  /\ UNCHANGED <<canAccept, carried, readLock>>

\* Mutant: the id is not redrawn when the map already has it.
CreateChannelNoRedraw(t) == \E i \in Ids : InsertChannel(t, i)

\* Ids that the map already has are drawn again.
CreateChannel(t) == \E i \in Ids \ channels : InsertChannel(t, i)

DisableNewSessions ==
  /\ canAccept' = FALSE
  /\ UNCHANGED <<channels, inbox, stage, sid, carried, readLock>>

-----------------------------------------------------------------------------
\* send_message_to_session(p) is called.
BeginForward(p) ==
  /\ carried = NoPacket
  /\ carried' = p
  /\ UNCHANGED <<canAccept, channels, inbox, stage, sid, readLock>>

\* No channel for the id: an error the read task ignores.
LookupUnknown ==
  /\ carried # NoPacket /\ ~readLock
  /\ carried.id \notin channels
  /\ carried' = NoPacket
  /\ UNCHANGED <<canAccept, channels, inbox, stage, sid, readLock>>

LookupFound ==
  /\ carried # NoPacket /\ ~readLock
  /\ carried.id \in channels
  /\ readLock' = TRUE
  /\ UNCHANGED <<canAccept, channels, inbox, stage, sid, carried>>

\* Mutant: the channel is not bounded.
ForwardSentUnbounded ==
  /\ readLock
  /\ ReceiverAlive(carried.id)
  /\ inbox' = [inbox EXCEPT ![carried.id] = Append(@, carried)]
  /\ carried' = NoPacket
  /\ readLock' = FALSE
  /\ UNCHANGED <<canAccept, channels, stage, sid>>

\* channel.send(packet): waits for room, with the read guard held.
ForwardSent ==
  /\ readLock
  /\ ReceiverAlive(carried.id)
  /\ Len(inbox[carried.id]) < InCap
  /\ inbox' = [inbox EXCEPT ![carried.id] = Append(@, carried)]
  /\ carried' = NoPacket
  /\ readLock' = FALSE
  /\ UNCHANGED <<canAccept, channels, stage, sid>>

\* Mutant: the send is repeated until the Session takes the packet.
ForwardFailedRetries ==
  /\ readLock
  /\ ~ReceiverAlive(carried.id)
  /\ UNCHANGED smVars

\* The Session is gone: send fails, also when it was already waiting.
ForwardFailed ==
  /\ readLock
  /\ ~ReceiverAlive(carried.id)
  /\ carried' = NoPacket
  /\ readLock' = FALSE
  /\ UNCHANGED <<canAccept, channels, inbox, stage, sid>>

-----------------------------------------------------------------------------
\* The session's side of the channel: Receiver::recv and the drop of a Session.
TakeFromInbox(t) ==
  /\ Open(t)
  /\ inbox[sid[t]] # <<>>
  /\ inbox' = [inbox EXCEPT ![sid[t]] = Tail(@)]
  /\ UNCHANGED <<canAccept, channels, stage, sid, carried, readLock>>

\* Mutant: the map entry goes with the Session, so the id can be drawn again.
DropReceiverUnregister(t) ==
  /\ Open(t)
  /\ stage' = [stage EXCEPT ![t] = "dropped"]
  /\ sid' = [sid EXCEPT ![t] = NoId]
  /\ inbox' = [inbox EXCEPT ![sid[t]] = <<>>]
  /\ channels' = channels \ {sid[t]}
  /\ UNCHANGED <<canAccept, carried, readLock>>

\* Nothing removes the id from duplex_channels.
DropReceiver(t) ==
  /\ Open(t)
  /\ stage' = [stage EXCEPT ![t] = "dropped"]
  /\ sid' = [sid EXCEPT ![t] = NoId]
  /\ inbox' = [inbox EXCEPT ![sid[t]] = <<>>]
  /\ UNCHANGED <<canAccept, channels, carried, readLock>>

SMNext ==
  \/ \E t \in Tasks :
        \/ CheckAccepting(t)
        \/ RefuseSession(t)
        \/ CreateChannel(t)
        \/ TakeFromInbox(t)
        \/ DropReceiver(t)
  \/ \E p \in Packet : BeginForward(p)
  \/ LookupUnknown
  \/ LookupFound
  \/ ForwardSent
  \/ ForwardFailed
  \/ DisableNewSessions

SMSpec == SMInit /\ [][SMNext]_smVars

-----------------------------------------------------------------------------
\* Type invariant of the manager's state.
SMTypeOK ==
  /\ canAccept \in BOOLEAN
  /\ channels \in SUBSET Ids
  /\ inbox \in [Ids -> Seq(Packet)]
  /\ \A i \in Ids : Len(inbox[i]) <= InCap
  /\ stage \in [Tasks -> {"idle", "creating", "open", "dropped", "refused"}]
  /\ sid \in [Tasks -> Ids \cup {NoId}]
  /\ carried \in Packet \cup {NoPacket}
  /\ readLock \in BOOLEAN

\* Sessions are isolated: two Sessions alive at once have different ids, each
\* is reachable through the map, and a channel buffers only packets of its own
\* id (create_channel's redraw loop and the lookup of send_message_to_session).
SessionsIsolated ==
  /\ \A t, u \in Tasks : Open(t) /\ Open(u) /\ sid[t] = sid[u] => t = u
  /\ \A t \in Tasks : Open(t) => sid[t] \in channels
  /\ \A i \in Ids : \A k \in DOMAIN inbox[i] : inbox[i][k].id = i

\* While send_message_to_session waits for room it holds the guard of a map
\* that still has the channel it looked up, and nothing reaches a channel that
\* is not in the map.
LockCoversSend ==
  /\ readLock => carried # NoPacket /\ carried.id \in channels
  /\ \A i \in Ids \ channels : inbox[i] = <<>>
=============================================================================
