------------------------------ MODULE Programs ------------------------------
(***************************************************************************)
(* The programs of the repository that use the networking library: tacon   *)
(* and the examples single_transaction, multiple_transactions and          *)
(* tls_client. Each connects, opens sessions and sends accounting requests *)
(* in them; what the library does is AccountingService, whose actions are  *)
(* conjuncts of this module's.                                             *)
(*                                                                         *)
(* A program is the sequence of steps it has left to do. A step that fails *)
(* ends the program, and with it the runtime and every session.            *)
(***************************************************************************)
EXTENDS AccountingService, Naturals, Sequences, FiniteSets

CONSTANT MaxAddresses  \* bound of the model: addresses a host name resolves to

ASSUME ProgramsAssumption ==
  /\ MaxAddresses \in Nat
  /\ IsFiniteSet(Clients) /\ Cardinality(Clients) >= 2

VARIABLES
  invocation, \* the program and what tacon's options say
  todo,       \* the steps main has left
  addresses,  \* how many addresses connect_tcp has not tried
  sessions,   \* the clients whose sessions main has opened, in order
  outcome,    \* of each client's request: "none", "pending" or how it returned
  awaited,    \* how many of its tasks multiple_transactions has awaited
  exit        \* "running", "ok", "panic" or what failed when main returns an error

programVars == <<invocation, todo, addresses, sessions, outcome, awaited, exit>>
vars == <<serviceVars, programVars>>

\* The client certificate and its key: not given or not there, files that cannot
\* be read, files that do not fit together.
Credentials == {"none", "unreadable", "unusable", "good"}

\* clap asks for the user, port and remote address unless there is --batch.
TaconInvocations ==
  {i \in [program : {"tacon"}, tls : BOOLEAN, credentials : Credentials, batch : BOOLEAN,
          command : {"none", "accounting", "other"}, cmdEmpty : BOOLEAN, origin : BOOLEAN] :
     i.batch \/ i.origin}

Example(name, credentials) == [program |-> name, credentials |-> credentials]

Invocations ==
  TaconInvocations
    \cup {Example("single_transaction", "none"), Example("multiple_transactions", "none")}
    \cup {Example("tls_client", c) : c \in Credentials}

Connecting == <<"resolve", "connect">>
Configuring == <<"files", "read", "build">>

\* The steps of each main; run, which only spawns the connection's tasks, is part
\* of the step before it.
TaconSteps(tls) ==
  <<"options">> \o Connecting \o (IF tls THEN Configuring \o <<"handshake">> ELSE <<>>)
    \o <<"session", "command">>

TlsClientSteps ==
  <<"locate">> \o Configuring \o Connecting \o <<"handshake", "session", "request">>

SingleSteps == Connecting \o <<"session", "request", "session", "request">>

\* The sessions are opened one after the other, for the iterator of spawned calls
\* is lazy: one per client here, 100000 in the code.
MultipleSteps ==
  Connecting \o [k \in 1 .. Cardinality(Clients) |-> "session"] \o <<"requests">>

Steps(i) ==
  CASE i.program = "tacon" -> TaconSteps(i.tls)
    [] i.program = "tls_client" -> TlsClientSteps
    [] i.program = "single_transaction" -> SingleSteps
    [] i.program = "multiple_transactions" -> MultipleSteps

Init ==
  /\ ServiceInit
  /\ invocation \in Invocations
  /\ todo = Steps(invocation)
  /\ addresses = 0
  /\ sessions = <<>>
  /\ outcome = [c \in Clients |-> "none"]
  /\ awaited = 0
  /\ exit = "running"

-----------------------------------------------------------------------------
At(step) == exit = "running" /\ todo # <<>> /\ Head(todo) = step
Proceed == todo' = Tail(todo) /\ UNCHANGED exit
Exit(e) == exit' = e /\ UNCHANGED todo

\* tacon refuses a command together with --batch before it connects.
Options ==
  /\ At("options")
  /\ IF invocation.batch /\ invocation.command # "none" THEN Exit("options") ELSE Proceed
  /\ UNCHANGED <<serviceVars, invocation, addresses, sessions, outcome, awaited>>

\* get_server_addresses: a list of addresses, which may be empty, or an error.
Resolve ==
  /\ At("resolve")
  /\ \/ addresses' \in 0 .. MaxAddresses /\ Proceed
     \/ Exit("resolve") /\ UNCHANGED addresses
  /\ UNCHANGED <<serviceVars, invocation, sessions, outcome, awaited>>

\* Mutant: the loop goes one address too far.
ConnectPastEnd ==
  /\ At("connect")
  /\ \/ addresses > 0 /\ Proceed /\ UNCHANGED addresses
     \/ addresses >= 0 /\ addresses' = addresses - 1 /\ UNCHANGED <<todo, exit>>
  /\ UNCHANGED <<serviceVars, invocation, sessions, outcome, awaited>>

\* Mutant: after the last address the loop starts over.
ConnectAgain ==
  /\ At("connect")
  /\ \/ addresses > 0 /\ Proceed /\ UNCHANGED addresses
     \/ addresses > 0 /\ addresses' = addresses - 1 /\ UNCHANGED <<todo, exit>>
     \/ addresses = 0 /\ addresses' = MaxAddresses /\ UNCHANGED <<todo, exit>>
  /\ UNCHANGED <<serviceVars, invocation, sessions, outcome, awaited>>

\* connect_tcp tries one address after the other.
Connect ==
  /\ At("connect")
  /\ \/ addresses > 0 /\ Proceed /\ UNCHANGED addresses
     \/ addresses > 0 /\ addresses' = addresses - 1 /\ UNCHANGED <<todo, exit>>
     \/ addresses = 0 /\ Exit("connect") /\ UNCHANGED addresses
  /\ UNCHANGED <<serviceVars, invocation, sessions, outcome, awaited>>

\* tls_client looks for the samples four directories above its executable: that
\* has no path, or no fourth parent, which are errors, or lacks one of the three
\* before, which are unwrapped.
LocateFiles ==
  /\ At("locate")
  /\ Proceed \/ Exit("locate") \/ Exit("panic")
  /\ UNCHANGED <<serviceVars, invocation, addresses, sessions, outcome, awaited>>

\* tacon unwraps its two options, when the TCP connection is up already;
\* tls_client looks whether its files exist.
CheckFiles ==
  /\ At("files")
  /\ IF invocation.credentials # "none" THEN Proceed
     ELSE Exit(IF invocation.program = "tacon" THEN "panic" ELSE "files")
  /\ UNCHANGED <<serviceVars, invocation, addresses, sessions, outcome, awaited>>

\* with_client_auth_cert_files
ReadFiles ==
  /\ At("read")
  /\ IF invocation.credentials = "unreadable" THEN Exit("read") ELSE Proceed
  /\ UNCHANGED <<serviceVars, invocation, addresses, sessions, outcome, awaited>>

\* TlsConfigurationBuilder::build fails if the key does not fit the certificate.
BuildConfiguration ==
  /\ At("build")
  /\ IF invocation.credentials = "unusable" THEN Exit("build") ELSE Proceed
  /\ UNCHANGED <<serviceVars, invocation, addresses, sessions, outcome, awaited>>

\* connect_tls. The server's certificate is not looked at.
Handshake ==
  /\ At("handshake")
  /\ Proceed \/ Exit("handshake")
  /\ UNCHANGED <<serviceVars, invocation, addresses, sessions, outcome, awaited>>

-----------------------------------------------------------------------------
Opening == \E c \in Clients : phase[c] = "opening"
InUse == {sessions[k] : k \in DOMAIN sessions}
Newest == sessions[Len(sessions)]

BeginSession(c) ==
  /\ At("session") /\ ~Opening /\ c \notin InUse
  /\ BeginOpen(c)
  /\ UNCHANGED programVars

RefusedSession(c) ==
  /\ At("session") /\ ~Opening /\ c \notin InUse
  /\ Refuse(c)
  /\ Exit("session")
  /\ UNCHANGED <<invocation, addresses, sessions, outcome, awaited>>

OpenedSession(c) ==
  /\ At("session")
  /\ Opened(c)
  /\ sessions' = Append(sessions, c)
  /\ Proceed
  /\ UNCHANGED <<invocation, addresses, outcome, awaited>>

\* tacon's command: only accounting sends anything.
Command ==
  /\ At("command")
  /\ CASE invocation.command # "accounting" -> Proceed
       [] invocation.command = "accounting" /\ (invocation.cmdEmpty \/ ~invocation.origin) ->
            Exit("command")
       [] OTHER -> todo' = <<"request">> \o Tail(todo) /\ UNCHANGED exit
  /\ UNCHANGED <<serviceVars, invocation, addresses, sessions, outcome, awaited>>

-----------------------------------------------------------------------------
\* The calls of send_accounting_request in progress: main's own, or those of the
\* tasks multiple_transactions spawns, one per session.
Callers ==
  CASE At("request") -> {Newest}
    [] At("requests") -> InUse
    [] OTHER -> {}

Returned(c) == outcome[c] \in {"reply", "bad", "error"}

Becomes(c, o) ==
  /\ outcome' = [outcome EXCEPT ![c] = o]
  /\ UNCHANGED <<invocation, todo, addresses, sessions, exit, awaited>>

Send(c) ==
  /\ c \in Callers /\ outcome[c] = "none"
  /\ Ask(c)
  /\ Becomes(c, "pending")

\* The session is complete already, for its channels are closed.
SendRefused(c) ==
  /\ c \in Callers /\ outcome[c] = "none"
  /\ ~connected
  /\ UNCHANGED serviceVars
  /\ Becomes(c, "error")

ReplyReceived(c) ==
  /\ c \in Callers /\ outcome[c] = "pending"
  /\ \/ Succeed(c) /\ Becomes(c, "reply")
     \/ ReturnBad(c) /\ Becomes(c, "bad")

CallFailed(c) ==
  /\ c \in Callers /\ outcome[c] = "pending"
  /\ Fail(c)
  /\ Becomes(c, "error")

\* Mutant: a request that failed is only reported.
RequestReturnsAnyway ==
  /\ At("request")
  /\ Returned(Newest)
  /\ Proceed
  /\ UNCHANGED <<serviceVars, invocation, addresses, sessions, outcome, awaited>>

\* main returns the error of its request.
RequestReturns ==
  /\ At("request")
  /\ Returned(Newest)
  /\ IF outcome[Newest] = "reply" THEN Proceed ELSE Exit("request")
  /\ UNCHANGED <<serviceVars, invocation, addresses, sessions, outcome, awaited>>

\* The Session moved into its task goes with it.
TaskEnds(c) ==
  /\ At("requests")
  /\ Returned(c)
  /\ Leave(c)
  /\ UNCHANGED programVars

\* A task whose request failed prints the error, and println! panics when that
\* cannot be written: the Session goes as well.
TaskPanics(c) ==
  /\ At("requests")
  /\ outcome[c] \in {"bad", "error"}
  /\ Leave(c)
  /\ Becomes(c, "panicked")

Ended(c) == phase[c] = "none"

\* Mutant: main returns the error of its task's request, too.
AwaitTaskPropagates ==
  /\ At("requests") /\ awaited < Len(sessions)
  /\ Ended(sessions[awaited + 1])
  /\ IF outcome[sessions[awaited + 1]] # "reply"
       THEN Exit("task") /\ UNCHANGED awaited
       ELSE awaited' = awaited + 1 /\ UNCHANGED <<todo, exit>>
  /\ UNCHANGED <<serviceVars, invocation, addresses, sessions, outcome>>

\* main awaits its tasks in the order of their sessions: it ignores what a task
\* returns, but an error of the JoinHandle, for a task that panicked, is its own.
AwaitTask ==
  /\ At("requests") /\ awaited < Len(sessions)
  /\ Ended(sessions[awaited + 1])
  /\ IF outcome[sessions[awaited + 1]] = "panicked"
       THEN Exit("task") /\ UNCHANGED awaited
       ELSE awaited' = awaited + 1 /\ UNCHANGED <<todo, exit>>
  /\ UNCHANGED <<serviceVars, invocation, addresses, sessions, outcome>>

AllAwaited ==
  /\ At("requests") /\ awaited = Len(sessions)
  /\ Proceed
  /\ UNCHANGED <<serviceVars, invocation, addresses, sessions, outcome, awaited>>

ReturnOk ==
  /\ exit = "running" /\ todo = <<>>
  /\ Exit("ok")
  /\ UNCHANGED <<serviceVars, invocation, addresses, sessions, outcome, awaited>>

\* The library and the server, once there is a connection.
Linked == exit = "running" /\ "connect" \notin {todo[k] : k \in DOMAIN todo}

Answer(c) == AnswerWell(c) \/ AnswerBadly(c)

Service(A) == Linked /\ A /\ UNCHANGED programVars

MainStep ==
  \/ Options \/ Resolve \/ Connect
  \/ LocateFiles \/ CheckFiles \/ ReadFiles \/ BuildConfiguration \/ Handshake
  \/ Command \/ RequestReturns \/ AwaitTask \/ AllAwaited \/ ReturnOk
  \/ \E c \in Clients : BeginSession(c) \/ RefusedSession(c) \/ OpenedSession(c)

CallStep(c) ==
  \/ Send(c) \/ SendRefused(c) \/ ReplyReceived(c) \/ CallFailed(c)
  \/ TaskEnds(c) \/ TaskPanics(c)

Next ==
  \/ MainStep
  \/ \E c \in Clients : CallStep(c)
  \/ \E c \in Clients : Service(Take(c)) \/ Service(Answer(c))
  \/ \E S \in SUBSET Clients : Service(Lose(S))
  \/ Service(Disconnect)
  \/ Service(Stop)

Spec == Init /\ [][Next]_vars

\* The write loop of a TLS connection does not flush its stream, which may keep
\* a request that was written (ByteStream).
OverTls ==
  \/ invocation.program = "tls_client"
  \/ invocation.program = "tacon" /\ invocation.tls

\* The tasks of a program are polled, an attempt to connect and a handshake end,
\* and requests are written, answered and returned while the connection stands,
\* as TcpConnection shows (CreateReturns, SendReturns, EveryRequestReturns). That
\* the server ever gets a request over TLS is not assumed, nor that a call whose
\* connection has gone returns.
FairSpec ==
  /\ Spec
  /\ WF_vars(MainStep)
  /\ \A c \in Clients :
       /\ WF_vars(Send(c) \/ SendRefused(c)) /\ WF_vars(ReplyReceived(c)) /\ WF_vars(TaskEnds(c))
       /\ WF_vars(~OverTls /\ Service(Take(c))) /\ WF_vars(Service(Answer(c)))

-----------------------------------------------------------------------------
\* Type invariant of a program and of the service under it.
TypeOK ==
  /\ phase \in [Clients -> Phases]
  /\ connected \in BOOLEAN /\ accepting \in BOOLEAN
  /\ invocation \in Invocations
  /\ \E k \in 0 .. Len(Steps(invocation)) :
       \/ todo = SubSeq(Steps(invocation), k + 1, Len(Steps(invocation)))
       \/ todo = <<"request">> /\ invocation.program = "tacon"
  /\ addresses \in 0 .. MaxAddresses
  /\ InUse \subseteq Clients /\ Len(sessions) = Cardinality(InUse)
  /\ outcome \in [Clients -> {"none", "pending", "reply", "bad", "error", "panicked"}]
  /\ awaited \in 0 .. Len(sessions)
  /\ exit \in {"running", "ok", "panic", "options", "resolve", "connect", "locate", "files",
                "read", "build", "handshake", "session", "command", "request", "task"}

\* tacon's commands other than accounting, and batch mode, send nothing.
Accounts == invocation.program = "tacon" => invocation.command = "accounting"

\* A program that exits without an error has had a reply to each of its requests,
\* whatever became of the connection meanwhile, so its exit status can be relied
\* on. (What the reply's status says is not looked at, and multiple_transactions
\* does not look at what its requests return.)
SuccessMeansAnswered ==
  exit = "ok" /\ Accounts /\ invocation.program # "multiple_transactions" =>
    sessions # <<>> /\ \A c \in InUse : outcome[c] = "reply" /\ phase[c] = "done"

\* multiple_transactions cuts a task off, before its call or in the middle of it,
\* only when main returns the error of a task before it that panicked: however the
\* tasks overtake each other, and whichever of their requests fail.
OnlyPanicsCutOff ==
  invocation.program = "multiple_transactions" /\ exit \in {"ok", "task"} =>
    \A k \in DOMAIN sessions :
      \/ Ended(sessions[k])
      \/ exit = "task" /\ \E j \in 1 .. k - 1 : outcome[sessions[j]] = "panicked"

\* single_transaction sends its STOP record only after it has had the server's reply
\* to the START, whatever status the reply has.
StopFollowsStart ==
  invocation.program = "single_transaction" /\ Len(sessions) = 2 =>
    outcome[sessions[1]] = "reply"

\* A program ends as long as the server keeps the connection open and answers what it
\* gets, unless a TLS stream keeps a request for ever.
ProgramEnds ==
  exit = "running" ~>
    \/ exit # "running"
    \/ ~connected
    \/ OverTls /\ [](\E c \in Clients : phase[c] = "asked")
=============================================================================
