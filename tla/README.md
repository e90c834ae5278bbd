# A TLA+ model of tacacs-rs

tacacs-rs is a TACACS+ client: a message library, a networking library that
multiplexes many sessions over one TCP or TLS connection with tokio tasks, and
the `tacon` command line with a few example programs. What is hard in it is the networking library: five or
more tasks share a session map, an mpsc channel per direction and per session,
and a number of flags, and every one of their steps is an `await` where another
task may run. This directory holds the specifications of that part, the TLC
configurations that check them and proofs about them.

Paths below: `N` = `libraries/tacacsrs_networking/src`,
`M` = `libraries/tacacsrs_messages/src`.

## 1. Inventory

| component | state it keeps | operations | correct when |
|---|---|---|---|
| Session manager, `N/session_manager.rs` | `duplex_channels: RwLock<HashMap<u32, DuplexChannel>>`, `can_accept_new_sessions: RwLock<bool>`, the connection's sender and (until taken) receiver | `create_session` / `create_channel`, `can_create_sessions`, `disable_new_sessions`, `send_message_to_session` | live sessions have different ids and are in the map; a packet goes to the session of its id or nowhere; nobody waits for the map's lock for ever |
| TCP connection, `N/tcp_connection.rs` | an `Arc` shared by the application, the supervising task, the write task and the read task | `run`, `handle_connection` (spawn and join of the two loops), `write_handler`, `read_handler` | every request is written once; every reply reaches its session; when a loop ends, the other end of every channel learns of it; no session is refused by a connection that works, none is accepted by a dead one |
| TLS connection, `N/tls_connection.rs` | the same over a split `TlsStream`, both loops inline | the same | the same, with a stream that buffers |
| Session, duplex channel, `N/session.rs`, `N/duplex_channel.rs` | `current_sequence_number: RwLock<u8>`, `session_complete: RwLock<bool>`, the sender to the connection, `receiver: RwLock<Receiver>` | `next_sequence_number`, `complete`, `is_complete`, `sender_closed`, `receiver_closed` | numbers wrap; a complete session sends no more |
| Accounting session, `N/sessions/accounting_session.rs` | the locals of one `send_accounting_request` call | check `is_complete`, take a number, send, lock the receiver, `recv`, parse, `complete` | every call returns; the guard never outlives it; a caller gets the reply to its request |
| Mock connection, `N/mock_connection.rs` | maps of prepared replies and of recorded requests | `run`, `handle_connection`, `add_reply`, `add_accounting_reply`, getters | the prepared reply goes to the request with the number before it |
| Message encoding, `M/header.rs`, `M/packet.rs`, `M/accounting/*.rs`, `M/helpers.rs` | none | `from_bytes`, `to_bytes`, `from_packet`, `size_from_bytes` | decoding inverts encoding; a length that is too short or too long is an error |
| Obfuscation, `M/obfuscation.rs` | none | `convert`, `convert_inplace`, `generate_pad` | applying it twice gives the body back |
| Connection helpers, `N/helpers.rs` | the TLS configuration being built | `get_server_addresses`, `connect_tcp`, `with_client_auth_cert_files`, `build`, `connect_tls` | every address is tried once; what fails ends the program with an error |
| `tacon`, `executables/tacon` | its options | one connection, one session, at most one request | it exits without an error only after a reply to what it sent |
| Examples, `libraries/tacacsrs_networking/examples` | the sessions and tasks they have begun | one connection; one or two requests, or one per session at once | a STOP follows the reply to its START; no task is cut off by the end of the program but for another's panic |

How they interact. The application calls `create_session` on the connection;
the session manager inserts the sending half of a fresh channel in the map and
gives the `Session` the receiving half and a clone of the connection's sender.
`send_accounting_request` puts a packet in the connection's channel; the write
task takes it out and writes it. The read task reads packets and hands each to
`send_message_to_session`, which looks the id up and awaits the session's
channel with the map's read guard in hand. The end of a task is seen by the
others only through the channels: a receiver that is dropped makes the senders
fail, and a channel is closed for its receiver when all its senders are gone,
which for the sessions' channels means when the session manager, so the last
`Arc` of the connection, is dropped.

What is hard here: the interleaving of those tasks; locks held across an
`await`; flags read before an `await` and used after it; the loss of everything
in a channel whose receiver goes; calls whose future is dropped (timeouts)
after the request went out; replies in any order, with bodies that do not
parse, for sessions that are gone; the end of one loop while the other goes
on; full channels; a TLS stream that keeps what the socket has no room for.
`PROJECT.json` lists these as hazards, each at its line.

## 2. Modules

| module | models | built on |
|---|---|---|
| `SessionManager` | the session manager | - |
| `TcpConnection` | a connection, its sessions with one caller each, the server | `EXTENDS SessionManager`; implements `AccountingService` |
| `AccountingService` | abstract: what a connection promises the programs that use it | - |
| `Programs` | tacon and the examples, from their options to their exit | `EXTENDS AccountingService` |
| `AccountingSession` | one Session shared by several callers, await by await | - |
| `PacketStream` | abstract: one direction of a connection as a stream of packets | - |
| `ByteStream` | the two loops of a connection at the level of bytes, over TCP or TLS | implements `PacketStream` |
| `Encoding` | the message library, and one message's way through it | - |
| `MockConnection` | the mock connection and the calls of its Sessions | `EXTENDS SessionManager` |
| `MC*` | the sets of tasks, ids and callers TLC uses, and their symmetry | |
| `SessionManagerProofs`, `TcpConnectionProofs`, `AccountingSessionProofs`, `ByteStreamProofs`, `EncodingProofs`, `MockConnectionProofs`, `ProgramsProofs` | theorems and proofs | `EXTENDS` the module, `TLAPS` |
| `TcpServiceProofs` | the connection implements the service | `EXTENDS TcpConnectionProofs` |

### SessionManager

`channels` is the key set of the map, `inbox[i]` what the channel of id `i`
buffers, `canAccept` the flag, `stage[t]` and `sid[t]` where task `t` is with
`create_session` and the id of the Session it got. Sections of code between two
awaits that suspend are one step: `create_channel` runs under the write guard
without suspending (`CreateChannel`), the check of the flag is a step before it
(`CheckAccepting`, `RefuseSession`), as the flag's guard is released in between.
`send_message_to_session` is `BeginForward`, then `LookupUnknown` or
`LookupFound`, then `ForwardSent` or `ForwardFailed`; between the lookup and the
end `readLock` says that the read guard is held, which disables `CreateChannel`.
`carried` is the packet it was called with: a connection has one read task, so
there is at most one. The packets `SMSpec` forwards are arbitrary.

A `Session` owns its receiver, so `ReceiverAlive(i)` is "some task holds the
Session with id `i`". The map is never cleaned: `DropReceiver` leaves
`channels` alone, as the code does.

### TcpConnection

A connection over TCP: `WriteDone` takes a packet that was written for one the
server gets, and over TLS that can be wrong for ever (`tls_unflushed`), so what
this module shows of replies and of the service is not claimed of
`tls_connection.rs`, whose tasks, join and sessions are otherwise written the same
way.

`Run`, `Join` and `DropHandle` are the life of the connection's `Arc`s;
`WriterRecv`, `WriteDone`, `WriteFailed` the write task; `ReadPacket`,
`ReadFailed` and `Forward` (the steps of `send_message_to_session`) the read
task; `BeginCreate`, `CreateSession`, `BeginRequest`, `Enqueue`,
`EnqueueFailed`, `Receive`, `ReceiveClosed`, `DropSession`, `Cancel` the calls
of the task that owns a Session. `ServerAnswer`, `ServerClose`, `ServerStray`
are the other end. Points worth knowing:

* `try_join!` runs over the two `JoinHandle`s. A task that returns `Err` is a
  handle that completes with `Ok(Err(..))`, so the macro does not return early:
  `Join` needs both tasks ended. Only then is the accepting flag cleared and
  the supervisor's `Arc` dropped.
* The write task's `recv` never returns `None`: the task's own `Arc` keeps the
  manager, and the sender in it, alive. So `WriterRecv` has no closed case.
* `ManagerAlive` is "some `Arc` is left". The tasks' own `Arc`s are covered by
  `supervisor # "done"`, for the supervisor waits for both.
* `WriteDone` is also enabled after the peer has closed: the first writes to
  such a socket may succeed.
* `ReadFailed` may lose what was on the wire: a reset discards received data.
* A packet carries an auxiliary field `by`, the task whose request it is or
  answers. No action reads it; properties do.
* Only accounting exists in the code, and `send_accounting_request` needs no
  lock here, because each Session has one owner; `AccountingSession` drops that
  restriction.

`Faults` selects what the environment may do: `"close"` (the peer goes),
`"cancel"` (the application drops a call's future and keeps the Session),
`"stray"` (the server sends packets for ids of its choice).

### AccountingService and Programs

`AccountingService` has one variable per thing a program can tell: `phase[c]`,
how far the session of client `c` is, whether the server is `connected`, and
whether sessions are `accepting`. A request is `"asked"`, `"taken"` by the server,
answered (`"good"`, or `"bad"` if the body is no reply) and returned; it can be
`"lost"` only after the connection has gone (`Disconnect`, `Lose`), sessions are
refused only after that (`Stop`, `Refuse`), and a client that was answered is
`"done"`. `TcpConnection` implements it under the mapping `PhaseOf`, which looks
for the client's packet in the six places one can be: the connection's channel and
the write task's hand make `"asked"`, the server's `pending` `"taken"`, the wire,
the read task's hand and the session's channel `"good"` or `"bad"`. That the
mapping is a function of the state, with no history, is what `OneInFlight` gives;
so the refinement is about connections whose application cancels no calls and
whose server sends nothing unasked (with those, `shared_session_reply` shows that
the service is not kept).

`Programs` runs on top of it: a program is the sequence of steps its `main` has
left (`todo`), chosen at the start by `invocation`: tacon with each combination of
options clap lets through, or one of the examples. `Resolve` and `Connect` are the
helpers' loop over addresses, `LocateFiles` tls_client's walk from its executable to
the sample files, `CheckFiles`, `ReadFiles`, `BuildConfiguration` and
`Handshake` the TLS set-up, `Command` tacon's choice of what to send; each of them
may end the program with its error (`exit`). `BeginSession`, `OpenedSession`,
`Send`, `ReplyReceived`, `CallFailed` are conjunctions with the service's
`BeginOpen`, `Opened`, `Ask`, `Succeed`, `Fail`, so a program's steps are steps of
the service by construction. `multiple_transactions` creates its sessions one
after the other, for the iterator that spawns the tasks is lazy, and has its calls
run at once (`Callers`). Its last loop awaits the tasks in the order of their
sessions (`AwaitTask`, with `awaited` for the number behind it) until there is none
left (`AllAwaited`). It ignores what a task returns, but the `?` after the await
returns the error of a task that panicked, which cuts off the tasks after it. Of a
task of `send_test_request` the one thing that can panic is the `println!` that
reports a failed request (`TaskPanics`); the tasks that create the sessions have
nothing that can, so their `?` is left out, and a `println!` of `main` itself is
taken to succeed. When a program exits, its runtime and all its tasks go, so
nothing happens any more (`Linked`).

### AccountingSession

`pc[c]` names the await at which each caller is. `holder` and `queue` are the
receiver's `RwLock` with tokio's order of arrival: `receiver_closed` queues for
a read guard it drops at once (`ReceiverClosed`), the call queues again for the
write guard (`WaitForLock`, `AcquireLock`) and keeps it through `recv` and
`complete()`, or drops it on every error path. A cancelled call gives its
place up (`LeaveQueue`). Read guards are held for no
await, so treating them like writers loses no behaviour. `requests` is the bag
of requests whose replies are to come: with a wrapped number two of them can be equal;
`Copies` tells its members apart to count them, `Parts` is what the server's close
may take out of it.

Four flags are what is left of the connection. The server closes (`connected`,
`ServerClose`); after that the read task still hands over answers that were on their
way (`Answer`) until it meets the end of the stream (`reading`, `ReadTaskEnds`); the
write task stays in `recv` until a write fails (`sendOpen`, `WriteTaskEnds`), and up
to then takes requests that go nowhere (`Send`); the manager, and with it the sender
of the Session's channel, goes when both tasks have ended and the application has let
go of the connection (`fed`, `ManagerDropped`). Each of the last three may never
happen, so a call that is caught between the close and the drop of the manager may
wait for ever, as `peer_close` shows of the whole connection: `ReplyForEveryWaiter`
and `CallReturns` say what holds before and after.
`late` is a history variable: who, when the session was completed, had not got
past the look at the receiver.

### PacketStream and ByteStream

`TcpConnection` moves packets; `ByteStream` shows why that is right. The write
task turns a packet into bytes (`WriterRecv`) of which the socket takes some at
a time (`WriteSome`) or none any more (`WriteFailed`, with part of the packet
gone). The read task fills a buffer of `HeaderLen` bytes and then one of the
length the header states (`ReadSome`, `ReadHeader`, `ReadBody`), or meets the
end of the stream first (`ReadFailed`). With a packet read it awaits
`send_message_to_session` (`"handing"`, `HandedOver`), which lasts as long as that
session's channel is full (`slow_session`) and need not end. A byte is a position in a packet, not a
value: a header is read back as itself if the buffer holds exactly the header of
one packet, and as any header at all otherwise. `SkipHeader` is the branch that
logs a header it cannot decode and goes on with the next twelve bytes.

A packet here is what the loops look at in a header: its length, the flag for
unobfuscated bodies, and whether it decodes. `Outgoing` and `Incoming` are what
the loops do to that flag if there is a key. `Faults` adds `"bad_header"` (the
server sends headers the library does not know), `"close"` (anywhere in a
packet, with any part of what was sent lost) and `"write_error"`.

`transport` is `"tcp"` or `"tls"`. `write_all` is a loop until the stream has
accepted every byte (`WriteSome`). A TCP stream accepts what the socket takes. A
TLS stream makes records of the bytes, writes as much of them as the socket takes
and keeps the rest, yet reports the bytes as accepted (`Accept`, `held`); it gets
rid of the rest when it is written to or flushed again, and the loop of
`tls_connection.rs` does not flush. Reads of the stream are taken not to write.

`InboundStream` is the refinement: `delivered`, as far as the packets before the
first bad header, is the `got` of `PacketStream`. The cut is there because from
that header on the code keeps no promise (section 5).

### Encoding

Requests, replies and headers are encoded and decoded by operators on sequences
of bytes that follow `to_bytes`, `from_bytes`, `size_from_bytes` and
`from_packet`; `Pad`, `Convert` and `ConvertInplace` are `obfuscation.rs`, and
`AsConverted` and `ToConverted` the four operations of a packet. The strings of
a request are one sequence: user, port, remote address, arguments. `Error` is an
`Err`, `Panic` an index out of bounds or an `unwrap`.

The state machine takes one message the way of the program: `Pack` (what
`send_accounting_request` or the server does), `Damage` (a sender that cuts the
body short, adds to it, or uses a flag or a byte that is not allowed), `Write`
and `Read` (the loops' use of the library). The width of a byte is the
parameter `Nibble`, md5 the parameter `Hash`, the exclusive or of two bytes the
parameter `ExclusiveOr`, of which `EncodingAssumption` says that doing it twice
gives the byte back (TLC has it from `Bitwise`). `MessageAssumption` is what Rust's
types say of the messages: enumerations hold their values, a `String` is UTF-8; and
that a body is shorter than 4 GiB, for `data.len() as u32` is not checked. `AccountingFlags`, `AuthenMethods`,
`AuthenTypes`, `AuthenServices` and `Statuses` are the enumerations' values;
`TaconRequest` is the request of tacon's accounting command, with `cmd=` and
`cmd-arg=` in front of the user's words.

### MockConnection

`Recv`, `Overflow`, `NoReply`, `Answer` and `Forward` are one turn of the
mock's task; the caller's actions are those of `TcpConnection` without cancelled
calls. `Answer` takes the guards of both maps and keeps them until `Forward` is
done, so `AddReply` waits (`task # "send"`). `seq_no + 1` panics at the last
number in builds with overflow checks and wraps in others: `OverflowChecks`.

## 3. What is checked

| run | question | size |
|---|---|---|
| `connection_live` | `OneInFlight`, `RepliesReachTheirRequester`, `ReaderNeverBlocks`, `EveryRequestReturns`, `CreateReturns`, `SendReturns`, `ReleasedAfterTeardown`, `DeadConnectionRefuses`, `ImplementsService` with a peer that may close | 2 tasks, 2 ids, channels of 1, numbers mod 4; 35 thousand states |
| `connection_faults` | `OwnSessionOnly`, the manager's `SessionsIsolated`, `TypeOK`, with cancelled calls and stray packets too | 2 tasks, 2 ids |
| `accounting_session` | `GuardFollowsCall`, `ReplyForEveryWaiter`, `LateCallsRefused`, `NumbersTellDirection`, `CallReturns`, `TypeOK` with cancelled calls, the server's close and the end of each task and of the manager after it, or not | 3 callers, numbers mod 2 |
| `byte_streams` | `ServerSeesPackets`, `InboundStream`, `ArrivedIsDelivered`, `TcpPacketsReachServer`, `TypeOK` with every fault, over TCP and over TLS, with sessions that may not take their packet | headers of 2 bytes, bodies of 0 or 1, 2 packets one way and 1 the other |
| `encoding` | `RoundTrip`, `ShortBodyRefused`, `DecodingFaithful`, `LengthCheckAgrees`, `ConversionsAgree`, `TypeOK` | bytes of 4 bits, tacon's requests and others, all damages |
| `mock_connection` | `RepliesArePaired`, `MockNeverBlocks`, `PreparedIsAnswered`, `TypeOK` | 2 tasks, 2 ids, replies for two numbers |
| `programs` | `SuccessMeansAnswered`, `OnlyPanicsCutOff`, `StopFollowsStart`, `ProgramEnds`, `TypeOK` | every invocation, 3 sessions at once, up to 2 addresses |
| `peer_close`, `slow_session`, `shared_session_reply`, `out_of_sync`, `tls_unflushed` | statements of the documentation and of log messages the code does not keep (section 5) | as above |

Why these bounds are enough. Two tasks are the smallest number with another
task to be confused with, to fill a channel before one, or to hold a lock
against one. Two ids let one of the tasks drop a Session and create another, so
that a packet of its first life can be on its way in the second; what would need
a third id, that both tasks do so, is covered by the theorems of section 4, which
are for any number of ids. Channels of
capacity 1 are full after one packet, so every wait for room that needs 33
packets in the program needs two here; no guard compares a capacity with
anything but a length. Numbers are only added to, never compared, so their
modulus matters for the wrap alone, which 2 and 4 both reach. `WireCap` bounds
what the socket buffers, `MaxUnanswered` how many requests may be open when a
call begins, `FreeIdLeft` keeps the redraw loop of `create_channel` from
running out of ids; the program's own limit for that is 2^32 sessions.

In `Programs` three sessions are the least of which one can end before, and one
after, the one `main` awaits; two addresses are one to fail and one to go on to,
and the empty list is included. `multiple_transactions` opens 100000 sessions: the
loops over them look at one at a time, so their number is not compared with
anything.

In `ByteStream` a header of two bytes is the shortest that can be read in
pieces and that can be taken from the middle of another; with bodies of none or
one byte a header read out of step ends inside a packet or on its edge, and a
second packet is what a partial first one could be mixed up with. `Limits` has
two packets one way and one the other, both ways round: the directions share only
the end of the connection. In `Encoding`
a byte holds 0 to 15, so that strings of 15 and 16 bytes are at and above the
limit of a one-byte length and a few bytes more are still within a two-byte one;
the two-byte limit is not reached. The pad's block is 4 bytes, so pads of none,
one and several blocks, whole and cut, occur. The mock's replies are prepared
for number 2, which answers the first request, and 0, which answers the one
that overflows.

Deadlock is not checked: an application may stop making calls, and a
connection may end.

Symmetry over tasks and over ids is used in runs that check invariants only.

### Fairness

`ConnectionFairness` gives weak fairness to each loop and each call: tokio
polls a task again once what it awaits is ready. Two waits can be lost to
another task again and again, for room in the connection's channel (`Enqueue`)
and for the write guard of the map (`CreateSession`); tokio's mpsc semaphore and
`RwLock` serve in order of arrival, so these have strong fairness. `Run` is fair
because every caller of the library calls it right after `new`. Nothing is
assumed of the application: it need not begin a call, drop a Session or its
handle. `AnsweringSpec` adds that the server answers each task's requests; it is
used where the property is about replies, and its premise is that the peer stays
connected. `WriteDone \/ WriteFailed` is fair as one: that a dead peer is ever
noticed by a write is not assumed.

In `AccountingSession` each call is weakly fair, and so are the server's answers as
long as it has not closed the connection; the lock's queue is explicit, so no more is
needed. That a task notices the close, or that the application drops its handle, is
not assumed, and `CallReturns` asks for nothing between the close and the drop.

In `ByteStream` each loop is weakly fair, the socket's acceptance of bytes
together with its failure; neither the server nor the sessions have to send, and
a stream that nobody polls does nothing. The await on a session's channel
(`HandedOver`) is not fair: `ArrivedIsDelivered` is about runs in which the read loop
is not left waiting there for ever.

In `Programs` the tasks of a program are weakly fair, and so are, while the connection
stands, the answers to what the server has got and, over TCP, the service's `Take`:
that is what `SendReturns`, `EveryRequestReturns` and `CreateReturns` of
`TcpConnection` come to for a server that answers. Over TLS `Take` is not fair, for
the stream may keep a request (`tls_unflushed`): `ProgramEnds` allows such a program
to wait for ever, with a request the server never gets. `Fail` is not fair either, for
after the peer has closed a call may wait for ever (`peer_close`), so `ProgramEnds`
asks for nothing then. In
`MockConnection` the task is weakly fair, receiving too, and the wait for room in
the channel strongly, as above.

## 4. What is proved

All proofs are for every set of tasks, ids, callers and clients, every capacity, every
modulus of at least 2, headers and bodies of every length and any list of addresses,
under the named assumptions in the modules (`SessionManagerAssumption`,
`TcpConnectionAssumption` and so on): they only say that capacities are at least 1,
that the special values are not members of the sets, what the types of messages say
and, where a theorem counts calls, that the set of callers is finite. TLC evaluates each on every run of its
module. The invariants named below were checked with TLC on the runs' instances
before they were proved.

* **The manager** (`SessionManagerProofs`). `SMInv` is `SMTypeOK`,
  `SessionsIsolated` and `LockCoversSend` together, and is inductive: that a
  buffered packet has its channel's id needs the lookup, that needs the map to
  keep the id while the guard is held. Theorems `SMTypeCorrect`,
  `SMSessionsIsolated`, `SMLockCoversSend`.
* **The connection implements the manager** (`ImplementsManager`):
  `Spec => SMSpec`. Every action of `TcpConnection` is an action of
  `SessionManager` or leaves its variables alone. So `SMSpec` is the abstract
  specification of what the tasks of a connection do to the shared map, and the
  three theorems above carry over (`ConnectionIsolatesSessions`).
* **Types and ends** (`TypeCorrect`). `TypeInv` adds to the types
  `Teardown`: what the end of each task leaves behind (the write task's end
  empties the channel, the read task's end implies the peer is gone and nothing
  is carried, the supervisor is done, and the flag cleared, only after both). The
  theorems below rest on it.
* **No session gets another task's reply** (`NobodyElsesReply`), with every
  fault. The invariant `AuthorInv` says of every packet anywhere that its author
  either holds the Session with its id or is done with that id, and that an id
  not yet in the map is on no packet but the server's own. The proof's heart
  is that `CreateChannel` draws an id outside the map and that nothing leaves it.
* **One packet per session; replies are awaited; the read task is never
  blocked** (`OnePacketPerSession`, `RepliesAreAwaited`, `ReaderIsNeverBlocked`),
  for connections without cancelled calls and stray packets. `FlightInv` states
  that the six places a packet can be in hold disjoint sets of ids, each id
  once; that a caller about to send has no packet anywhere; that a packet of a
  live session is its owner's current request or its answer and the owner waits;
  and that a fresh id is in none of the places. Each conjunct is needed: without
  the last, creating a session could find a packet waiting; without the second,
  `Enqueue` could add a second one.

* **A shared Session** (`AccountingSessionProofs`), for any set of callers and with
  every fault. `GuardIsTheCalls`: `GuardInv` has, besides `GuardFollowsCall`, the
  types of the lock and its queue; the work is in three lemmas on what joining,
  leading and leaving a queue of distinct callers makes of it.
  `LateCallsAreRefused`: the inductive form adds that somebody is late only when
  the session is complete. `NumbersKeepTheirDirection`: needs that a number taken
  and not yet sent is odd, and that an even modulus keeps parities when it wraps
  (`WrappingAddKeepsParity`); it is for every even modulus, 2^8 included, where the
  run has the smallest.

  `WaitersAreOwedReplies` counts: `FlowInv` is that the waiting calls are no more than
  the members of the bag and the replies buffered together, and each step takes one
  from both sides or from the right one only when a call stops waiting; the lemmas say
  what one more or one fewer copy does to the number of a bag's members. It is about a
  connection the server has not closed: from the close on requests and replies are lost
  while calls still wait for them. `Typed`
  needs `GuardInv`, for the lock's holder is the first of its queue.

* **The connection implements its abstract service** (`TcpServiceProofs`,
  `ConnectionImplementsService`): `Spec => ImplementsService` for connections whose
  only fault is that the peer may close (`Faults \subseteq {"close"}`, the
  hypothesis under which the refinement holds, section 2). With `FlightInv` a waiting
  call's packet is in exactly one place, so `PhaseOf` depends on the place of one id
  (`PhaseOfWaiter`); each step of the connection then is one of three things, shown
  by lemmas of their own: nothing moves and no session changes its state (a stutter),
  one packet moves from one set of places to the next (`Take`, an answer, a loss), or
  one client's call begins or ends while nobody else's phase changes (`Bystander`).
  `CallInv` adds what `FlightInv` lacks: that a write task that has ended saw the
  connection closed.

* **The loops and the bytes** (`ByteStreamProofs`). `WriteInv` says that what the
  server has, what TLS holds back and what the write task still has to write are
  together one piece of the stream of packets as they are written (`Chain`), which
  starts at its beginning and ends with a packet's end. A write moves a boundary
  inside that piece, an error cuts it off, so `ServerGetsPackets` follows, for TCP and
  TLS. `ReadInv` says the same of the read task's buffer and the wire, as long as the
  loop is `Synced`, and that it is `Synced` while it still owes packets from before
  the first bad header (`Promised`): after that a header may be read from anywhere.
  `ReadLoopImplementsStream` is the refinement of `PacketStream` from it, the cut at
  the first bad header included, for any lengths of headers and bodies, one of 0 bytes
  among them. `LoopsTyped` is the type invariant.

* **The mock connection** (`MockConnectionProofs`). `MockInv` says that a packet is
  in one place, once (`OnePlace`), what each call waits for (`InCall`), and that ids
  not yet drawn are on no packet (`IdsKnown`): `MockPairsReplies`, `MockDoesNotBlock`
  and `MockTypeCorrect` follow. `MockImplementsManager` is `Spec => SMSpec`, as for the
  connection.

* **The programs** (`ProgramsProofs`). `ProgramInv` relates the steps a `main` has
  left to what its sessions have come to: a request never comes before its session,
  what was opened before the newest session has been answered (`AnsweredInv`), the
  tasks behind the last loop of `multiple_transactions` have ended, and the one it
  stopped at has panicked (`AwaitInv`), and the outcome of a call is the phase the
  library's service has it in. That the lists
  of steps `main` begins with are of that form, for every combination of options, is
  `StepsOrdered`. `SuccessIsAnswered`, `NoTaskCutOff` and `StopIsAfterStart` are what
  a user can take from an exit; `Typed` is the type invariant.

* **The message library** (`EncodingProofs`), for every width of a byte, so for the
  code's eight bits, where the run has four, and for fields at the two-byte limit,
  which the run does not reach. `EncodingInv` says at each stage what is left of the
  message: the packet has a header of this library and the encoding, or the part of it
  that the damage left, as its body (`OnItsWay`); the bytes are those of that packet
  or of the obfuscated one (`Wire`); the packet read is that packet again unless a
  flag is unknown. Under it are lemmas on the operators: the bytes of numbers are
  unique (`U16Value`, `U32Value`, from the division with remainder); the strings of a
  body are found where the sizes say (`FlattenParts`, `StringsFound`); the layout of a
  request, a reply and a header (`RequestLaidOut`, `ReplyLaidOut`, `HeaderBytesAre`);
  and in both directions what a decoder makes of a body that agrees with an encoding
  as far as it goes (`RequestDecoded`, `ReplyDecoded`), and that what it accepts is
  encoded to the same bytes (`RequestFaithful`, `ReplyFaithful`, `HeaderFaithful`).
  `PadType` shows the pad long enough for every length, so that `convert_inplace`
  never indexes past it (`ConvertedPacket`). The induction over strings and hashes is
  over a set of numbers (`Induction`, from the least number of a set). The theorems
  are `MessageOnItsWay` for the invariant, `MessagesComeBack`, `ShortBodiesAreRefused`,
  `DecodingKeepsAll`, `LengthChecksAlwaysAgree`, `ConversionsAlwaysAgree` and `Typed`;
  each has the hypothesis `HashIsDigest`, that md5 returns `HashLen` bytes for every
  input, which is not an `ASSUME` only because TLC cannot list all inputs.

So every invariant the runs check is stated by a theorem. Model-checked only: all
liveness properties, which are out of the prover's reach.

## 5. What the code does not keep

* `peer_close`: the readme's diagram (`readme.md:89-97`) closes all sessions
  when the connection is closed. The read task ends, but the write task stays
  in `recv`, the join does not return, and a caller waiting for its reply waits
  for ever, until somebody's write fails. `ReleasedAfterTeardown` is what the
  code does promise: both tasks ended and no handle left.
* `slow_session`: the readme (`readme.md:8`) calls sessions independent. After
  its owner gave up as many calls as its channel holds, a session that is not
  read stops the read task, which waits with the map's guard in hand; no other
  session gets its reply and none can be created. `ReaderNeverBlocks` shows that
  cancelled calls (or unasked packets) are needed for this.
* `shared_session_reply`: the readme (`readme.md:11-14`) pairs request 1 with
  response 2. The code never compares the numbers; with two callers of one
  Session one completes with the other's reply.
* `out_of_sync`: the read loop reads every body, a comment says
  (`N/tcp_connection.rs:179`), to prevent the stream from getting out of sync.
  A header that does not decode is skipped without its body, and the body's
  first bytes are read as a header. `InboundStream` is what holds up to there.

* `tls_unflushed`: after `write_all` the write loop reports a packet as sent to the
  network (`N/tls_connection.rs:88-92`). A TLS stream accepts the packet while the
  socket is full and keeps its end; the loop then waits for the next packet and
  does not flush, so with no other packet to come the server never gets it, and the
  caller waits. Over TCP this cannot happen (`TcpPacketsReachServer`).

Met on the way and kept in the models, without a run of their own: the check for a
complete session comes awaits before the send, so a second caller of one Session
can send in a session that another's reply has completed (`LateCallsRefused` is the
part that holds); tacon and `single_transaction` take any reply for success,
whatever its status, and `multiple_transactions` ignores what its requests
return; tacon without certificate options panics after it has connected
(`main.rs:123`); batch mode and the authentication and authorization commands
connect, open a session and send nothing; a request
whose body ends within its lengths makes `AccountingRequest::size_from_bytes`
panic (no code path of the client reads requests; `ShortBodyRefused` states
exactly when); a string longer than its length field is encoded with a length
that wraps (`RoundTrip` is conditional on `Fits`).

## 6. What is not modelled, and the plan

Not modelled: the inside of rustls and tokio; the root certificates and session
resumption of `TlsConfigurationBuilder`, which no program sets, and its
certificate verifier, which accepts everything; logging; a second `run` of one
connection (it panics on the receiver that is gone, `N/tcp_connection.rs:36`,
before it spawns anything); the enumerations of authentication and authorization,
which no code uses. In `TcpConnection` a packet only has a flag that says
whether its body parses; that a packet is read as it was sent is `ByteStream`'s
and `Encoding`'s part, and no module composes the three. `Programs` composes with
`TcpConnection` through `AccountingService` only. No module composes a whole
connection over TLS: a program over TLS has the service's safety from the same code,
which loses no packet but at the end of the connection, and of its liveness only
that what reached the server is answered.

Done: every component of the inventory but for what is named above, the abstract
service between the library and its programs, and the proofs of section 4.
