--------------------------- MODULE ProgramsProofs ---------------------------
(***************************************************************************)
(* What the programs' mains can rely on, for every number of clients and   *)
(* addresses and whatever the library and the server do in between.        *)
(***************************************************************************)
EXTENDS Programs, FiniteSetTheorems, SequenceTheorems, TLAPS

StepNames ==
  {"options", "resolve", "connect", "locate", "files", "read", "build", "handshake",
   "session", "command", "request", "requests"}

Left == {todo[k] : k \in DOMAIN todo}
Many == invocation.program = "multiple_transactions"

\* The steps left: no request comes before its session, and unless it is
\* multiple_transactions main asks in each session before it opens another.
TodoInv ==
  /\ todo \in Seq(StepNames)
  /\ \A j \in DOMAIN todo :
       /\ todo[j] \in {"request", "requests", "command"} =>
            sessions # <<>> \/ \E i \in 1 .. j - 1 : todo[i] = "session"
       /\ todo[j] = "session" /\ ~Many =>
            j + 1 \in DOMAIN todo /\ todo[j + 1] \in {"request", "command"}
       /\ todo[j] = "requests" => Many
       /\ todo[j] = "command" => invocation.program = "tacon" /\ j = Len(todo)
  /\ sessions # <<>> \/ "session" \in Left
  /\ Many => todo = <<>> \/ todo[Len(todo)] = "requests"
  /\ exit = "ok" => todo = <<>>

\* Main opens no session twice.
SessionsInv ==
  /\ sessions \in Seq(Clients)
  /\ \A j, k \in DOMAIN sessions : sessions[j] = sessions[k] => j = k

\* How far the library is with a call says how far main is with it.
InStep(c) ==
  /\ c \notin InUse => outcome[c] = "none" /\ phase[c] \in {"none", "opening", "refused"}
  /\ c \in InUse =>
       \/ outcome[c] = "none" /\ phase[c] = "idle"
       \/ outcome[c] = "pending" /\ phase[c] \in Calling
       \/ outcome[c] = "reply" /\ phase[c] = "done"
       \/ outcome[c] \in {"bad", "error"} /\ phase[c] = "idle"
       \/ (Returned(c) \/ outcome[c] = "panicked") /\ Many /\ phase[c] = "none"
  /\ exit \in {"running", "ok"} /\ outcome[c] = "pending" => c \in Callers

\* All but the newest session have their reply; the newest has it once main has
\* gone on from its request.
AnsweredInv ==
  Accounts /\ ~Many =>
    \A c \in InUse :
      \/ outcome[c] = "reply"
      \/ c = Newest /\ todo # <<>> /\ Head(todo) \in {"request", "command"}

\* What the library and its connection are in.
LibraryInv ==
  /\ phase \in [Clients -> Phases]
  /\ connected \in BOOLEAN /\ accepting \in BOOLEAN
  /\ outcome \in [Clients -> {"none", "pending", "reply", "bad", "error", "panicked"}]

\* The tasks main has awaited have ended, all of them once it has gone on; and if it
\* stopped at one, that one has ended too, by a panic.
PanicNext ==
  /\ awaited < Len(sessions)
  /\ Ended(sessions[awaited + 1]) /\ outcome[sessions[awaited + 1]] = "panicked"

AwaitInv ==
  /\ awaited \in 0 .. Len(sessions)
  /\ \A k \in 1 .. awaited : Ended(sessions[k])
  /\ Many /\ todo = <<>> => awaited = Len(sessions)
  /\ exit = "task" => PanicNext

ProgramInv ==
  /\ LibraryInv
  /\ TodoInv
  /\ SessionsInv
  /\ \A c \in Clients : InStep(c)
  /\ AnsweredInv
  /\ AwaitInv

-----------------------------------------------------------------------------
(***************************************************************************)
(* The steps of the mains, before any of them is taken.                    *)
(***************************************************************************)
WellOrdered(S, i) ==
  /\ S \in Seq(StepNames) /\ S # <<>>
  /\ \A j \in DOMAIN S :
       /\ S[j] \in {"request", "requests", "command"} => \E k \in 1 .. j - 1 : S[k] = "session"
       /\ S[j] = "session" /\ i.program # "multiple_transactions" =>
            j + 1 \in DOMAIN S /\ S[j + 1] \in {"request", "command"}
       /\ S[j] = "requests" => i.program = "multiple_transactions"
       /\ S[j] = "command" => i.program = "tacon" /\ j = Len(S)
  /\ \E j \in DOMAIN S : S[j] = "session"
  /\ i.program = "multiple_transactions" => S[Len(S)] = "requests"

\* Steps that prepare the connection, and open or ask nothing.
Prepares(P) ==
  /\ P \in Seq(StepNames)
  /\ \A j \in DOMAIN P : P[j] \notin {"session", "command", "request", "requests"}

LEMMA BothPrepare ==
  ASSUME NEW P, NEW Q, Prepares(P), Prepares(Q)
  PROVE  Prepares(P \o Q)
<1>1. /\ P \o Q \in Seq(StepNames) /\ Len(P \o Q) = Len(P) + Len(Q)
      /\ \A j \in 1 .. Len(P) + Len(Q) : (P \o Q)[j] = IF j <= Len(P) THEN P[j] ELSE Q[j - Len(P)]
  BY ConcatProperties DEF Prepares
<1>2. Len(P) \in Nat /\ Len(Q) \in Nat /\ DOMAIN P = 1 .. Len(P) /\ DOMAIN Q = 1 .. Len(Q)
  BY DEF Prepares
<1>3. DOMAIN (P \o Q) = 1 .. Len(P) + Len(Q)
  BY <1>1
<1>4. ASSUME NEW j \in 1 .. Len(P) + Len(Q)
      PROVE  (P \o Q)[j] \notin {"session", "command", "request", "requests"}
  <2>1. CASE j <= Len(P)
    BY <1>1, <1>2, <2>1 DEF Prepares
  <2>2. CASE j > Len(P)
    <3>1. j - Len(P) \in DOMAIN Q /\ (P \o Q)[j] = Q[j - Len(P)]
      BY <1>1, <1>2, <2>2
    <3> QED BY <3>1 DEF Prepares
  <2> QED BY <1>2, <2>1, <2>2
<1> QED BY <1>1, <1>3, <1>4 DEF Prepares

LEMMA PreparedOrdered ==
  ASSUME NEW P, NEW Q, NEW i, Prepares(P), WellOrdered(Q, i)
  PROVE  WellOrdered(P \o Q, i)
<1> DEFINE S == P \o Q
           n == Len(P)
<1>1. /\ S \in Seq(StepNames) /\ Len(S) = n + Len(Q)
      /\ \A j \in 1 .. n + Len(Q) : S[j] = IF j <= n THEN P[j] ELSE Q[j - n]
  BY ConcatProperties DEF Prepares, WellOrdered
<1>2. /\ n \in Nat /\ Len(Q) \in Nat /\ DOMAIN P = 1 .. n /\ DOMAIN Q = 1 .. Len(Q)
      /\ Len(Q) # 0
  BY DEF Prepares, WellOrdered
<1>3. DOMAIN S = 1 .. n + Len(Q)
  BY <1>1
<1> HIDE DEF S, n
<1>4. S # <<>>
  BY <1>1, <1>2
<1>5. \A j \in DOMAIN S : (j \in DOMAIN P /\ S[j] = P[j]) \/ (j - n \in DOMAIN Q /\ S[j] = Q[j - n])
  <2> SUFFICES ASSUME NEW j \in 1 .. n + Len(Q)
               PROVE  (j \in DOMAIN P /\ S[j] = P[j]) \/ (j - n \in DOMAIN Q /\ S[j] = Q[j - n])
    BY <1>3
  <2>1. S[j] = IF j <= n THEN P[j] ELSE Q[j - n]
    BY <1>1
  <2>2. CASE j <= n
    <3>1. S[j] = P[j]
      BY <2>1, <2>2
    <3>2. j \in 1 .. n
      BY <1>2, <2>2
    <3> QED BY <1>2, <3>1, <3>2
  <2>3. CASE j > n
    <3>1. S[j] = Q[j - n]
      BY <1>2, <2>1, <2>3
    <3> QED BY <1>2, <2>3, <3>1
  <2> QED BY <1>2, <2>2, <2>3
<1>6. ASSUME NEW k \in DOMAIN Q PROVE k + n \in DOMAIN S /\ S[k + n] = Q[k]
  <2>1. PICK j : j = k + n
    OBVIOUS
  <2>2. j \in 1 .. n + Len(Q) /\ ~(j <= n) /\ j - n = k
    BY <1>2, <2>1
  <2>3. S[j] = IF j <= n THEN P[j] ELSE Q[j - n]
    BY <1>1, <2>2
  <2>4. S[j] = Q[k]
    BY <2>2, <2>3
  <2> QED BY <1>3, <2>1, <2>2, <2>4
<1>7. ASSUME NEW j \in DOMAIN S, S[j] \in {"session", "command", "request", "requests"}
      PROVE  j - n \in DOMAIN Q /\ S[j] = Q[j - n] /\ j \in Nat
  BY <1>2, <1>3, <1>5, <1>7 DEF Prepares
<1>8. ASSUME NEW j \in DOMAIN S, S[j] \in {"request", "requests", "command"}
      PROVE  \E k \in 1 .. j - 1 : S[k] = "session"
  <2>1. j - n \in DOMAIN Q /\ Q[j - n] \in {"request", "requests", "command"} /\ j \in Nat
    BY <1>7, <1>8
  <2>2. PICK k \in 1 .. (j - n) - 1 : Q[k] = "session"
    BY <2>1 DEF WellOrdered
  <2>3. k \in DOMAIN Q /\ k + n \in 1 .. j - 1
    BY <1>2, <2>1
  <2> QED BY <1>6, <2>2, <2>3
<1>9. ASSUME NEW j \in DOMAIN S, S[j] = "session", i.program # "multiple_transactions"
      PROVE  j + 1 \in DOMAIN S /\ S[j + 1] \in {"request", "command"}
  <2>1. j - n \in DOMAIN Q /\ Q[j - n] = "session" /\ j \in Nat
    BY <1>7, <1>9
  <2>2. (j - n) + 1 \in DOMAIN Q /\ Q[(j - n) + 1] \in {"request", "command"}
    BY <1>9, <2>1 DEF WellOrdered
  <2>3. ((j - n) + 1) + n = j + 1
    BY <1>2, <2>1
  <2> QED BY <1>6, <2>2, <2>3
<1>10. ASSUME NEW j \in DOMAIN S
       PROVE  /\ S[j] = "requests" => i.program = "multiple_transactions"
              /\ S[j] = "command" => i.program = "tacon" /\ j = Len(S)
  <2>1. CASE S[j] \in {"command", "requests"}
    <3>1. j - n \in DOMAIN Q /\ S[j] = Q[j - n] /\ j \in Nat
      BY <1>7, <2>1
    <3>2. /\ Q[j - n] = "requests" => i.program = "multiple_transactions"
          /\ Q[j - n] = "command" => i.program = "tacon" /\ j - n = Len(Q)
      BY <3>1 DEF WellOrdered
    <3>3. S[j] = "requests" => i.program = "multiple_transactions"
      BY <3>1, <3>2
    <3>4. ASSUME S[j] = "command" PROVE i.program = "tacon" /\ j = Len(S)
      <4>1. i.program = "tacon" /\ j - n = Len(Q)
        BY <3>1, <3>2, <3>4
      <4>2. j = n + Len(Q)
        BY <1>2, <3>1, <4>1
      <4> QED BY <1>1, <4>1, <4>2
    <3> QED BY <3>3, <3>4
  <2> QED BY <2>1
<1>11. \E j \in DOMAIN S : S[j] = "session"
  BY <1>6 DEF WellOrdered
<1>12. i.program = "multiple_transactions" => S[Len(S)] = "requests"
  <2>1. Len(Q) \in DOMAIN Q /\ Len(Q) + n = Len(S)
    BY <1>1, <1>2
  <2> QED BY <1>6, <2>1 DEF WellOrdered
<1>13. WellOrdered(S, i)
  BY <1>1, <1>4, <1>8, <1>9, <1>10, <1>11, <1>12 DEF WellOrdered
<1> QED BY <1>13 DEF S

LEMMA PartsPrepare ==
  /\ Prepares(<<"options">>) /\ Prepares(<<"handshake">>) /\ Prepares(<<>>)
  /\ Prepares(<<"locate">>)
  /\ Prepares(Connecting) /\ Prepares(Configuring)
BY DEF Prepares, StepNames, Connecting, Configuring

LEMMA TaconOrdered ==
  ASSUME NEW i, i.program = "tacon", NEW tls \in BOOLEAN
  PROVE  WellOrdered(TaconSteps(tls), i)
<1>1. Prepares(IF tls THEN Configuring \o <<"handshake">> ELSE <<>>)
  BY PartsPrepare, BothPrepare
<1>2. Prepares(<<"options">> \o Connecting
                 \o (IF tls THEN Configuring \o <<"handshake">> ELSE <<>>))
  BY <1>1, PartsPrepare, BothPrepare
<1>3. WellOrdered(<<"session", "command">>, i)
  BY DEF WellOrdered, StepNames
<1> QED BY <1>2, <1>3, PreparedOrdered DEF TaconSteps

LEMMA ExamplesOrdered ==
  ASSUME NEW i
  PROVE  /\ i.program = "tls_client" => WellOrdered(TlsClientSteps, i)
         /\ i.program = "single_transaction" => WellOrdered(SingleSteps, i)
<1>1. Prepares(<<"locate">> \o Configuring \o Connecting) /\ Prepares(Connecting)
  BY PartsPrepare, BothPrepare
<1>2. i.program = "tls_client" => WellOrdered(<<"handshake", "session", "request">>, i)
  BY DEF WellOrdered, StepNames
<1>3. i.program = "single_transaction" =>
        WellOrdered(<<"session", "request", "session", "request">>, i)
  BY DEF WellOrdered, StepNames
<1> QED BY <1>1, <1>2, <1>3, PreparedOrdered DEF TlsClientSteps, SingleSteps

LEMMA MultipleOrdered ==
  ASSUME NEW i, i.program = "multiple_transactions"
  PROVE  WellOrdered(MultipleSteps, i)
<1> DEFINE n == Cardinality(Clients)
           opens == [k \in 1 .. n |-> "session"]
           S == MultipleSteps
<1>1. n \in Nat /\ n >= 2
  BY FS_CardinalityType, ProgramsAssumption DEF ProgramsAssumption
<1> HIDE DEF n
<1>2. opens \in Seq(StepNames) /\ Len(opens) = n
  BY <1>1 DEF StepNames
<1>3. Connecting \in Seq(StepNames) /\ Len(Connecting) = 2 /\ Connecting[1] = "resolve"
      /\ Connecting[2] = "connect"
  BY DEF Connecting, StepNames
<1>4. <<"requests">> \in Seq(StepNames) /\ Len(<<"requests">>) = 1
  BY DEF StepNames
<1>5. S = (Connecting \o opens) \o <<"requests">>
  BY DEF MultipleSteps, n
<1>6. /\ S \in Seq(StepNames) /\ Len(S) = n + 3
      /\ S[1] = "resolve" /\ S[2] = "connect" /\ S[n + 3] = "requests"
      /\ \A j \in 3 .. n + 2 : S[j] = "session"
  <2> HIDE DEF opens, S
  <2>0. /\ Connecting \o opens \in Seq(StepNames)
        /\ Len(Connecting \o opens) = Len(Connecting) + Len(opens)
        /\ \A j \in 1 .. Len(Connecting) + Len(opens) : (Connecting \o opens)[j] =
             IF j <= Len(Connecting) THEN Connecting[j] ELSE opens[j - Len(Connecting)]
    BY <1>2, <1>3, ConcatProperties
  <2>1. Connecting \o opens \in Seq(StepNames) /\ Len(Connecting \o opens) = n + 2
    BY <1>1, <1>2, <1>3, <2>0
  <2>2. ASSUME NEW j \in 3 .. n + 2 PROVE (Connecting \o opens)[j] = "session"
    <3>1. j \in 1 .. n + 2 /\ ~(j <= 2) /\ j - 2 \in 1 .. n
      BY <1>1
    <3>2. (Connecting \o opens)[j] = opens[j - 2]
      BY <1>1, <1>2, <1>3, <2>0, <3>1
    <3> QED BY <3>1, <3>2 DEF opens
  <2>3. (Connecting \o opens)[1] = "resolve" /\ (Connecting \o opens)[2] = "connect"
    BY <1>1, <1>2, <1>3, <2>0
  <2> QED BY ConcatProperties, <1>1, <1>4, <1>5, <2>1, <2>2, <2>3
<1> HIDE DEF S
<1>7. \A j \in DOMAIN S : j = 1 \/ j = 2 \/ j \in 3 .. n + 2 \/ j = n + 3
  BY <1>1, <1>6
<1>8. 3 \in DOMAIN S /\ 3 \in 1 .. n + 2 /\ S[3] = "session" /\ S # <<>>
  BY <1>1, <1>6
<1>9. ASSUME NEW j \in DOMAIN S, S[j] \in {"request", "requests", "command"}
      PROVE  \E k \in 1 .. j - 1 : S[k] = "session"
  <2>1. j = n + 3
    BY <1>6, <1>7, <1>9
  <2> QED BY <1>1, <1>8, <2>1
<1>10. \A j \in DOMAIN S : S[j] # "command"
  BY <1>6, <1>7
<1>11. WellOrdered(S, i)
  BY <1>6, <1>8, <1>9, <1>10 DEF WellOrdered
<1> QED BY <1>11 DEF S

LEMMA StepsOrdered == ASSUME NEW i \in Invocations PROVE WellOrdered(Steps(i), i)
<1>1. CASE i \in TaconInvocations
  <2>1. i.program = "tacon" /\ i.tls \in BOOLEAN
    BY <1>1 DEF TaconInvocations
  <2> QED BY <2>1, TaconOrdered DEF Steps
<1>2. CASE i \notin TaconInvocations
  <2>1. i.program \in {"single_transaction", "multiple_transactions", "tls_client"}
    BY <1>2 DEF Invocations, Example
  <2> QED BY <2>1, ExamplesOrdered, MultipleOrdered DEF Steps
<1> QED BY <1>1, <1>2

LEMMA InitProgramInv == Init => ProgramInv
<1> SUFFICES ASSUME Init PROVE ProgramInv
  OBVIOUS
<1>1. WellOrdered(todo, invocation)
  BY StepsOrdered DEF Init
<1>2. sessions = <<>> /\ InUse = {} /\ exit = "running"
  BY DEF Init, InUse
<1>3. TodoInv
  BY <1>1, <1>2 DEF WellOrdered, TodoInv, Many, Left
<1>4. SessionsInv
  BY <1>2 DEF SessionsInv
<1>5. LibraryInv /\ AnsweredInv
  BY <1>2 DEF Init, ServiceInit, LibraryInv, Phases, AnsweredInv
<1>6. \A c \in Clients : InStep(c)
  BY <1>2 DEF Init, ServiceInit, InStep
<1>7. AwaitInv
  BY <1>1, <1>2 DEF Init, AwaitInv, WellOrdered
<1> QED BY <1>3, <1>4, <1>5, <1>6, <1>7 DEF ProgramInv

\* A program that has ended does nothing.
LEMMA EndedIsFrozen == ASSUME exit # "running", [Next]_vars PROVE UNCHANGED vars
BY DEF Next, MainStep, Options, Resolve, Connect, LocateFiles, CheckFiles, ReadFiles, BuildConfiguration,
   Handshake, Command, RequestReturns, AwaitTask, AllAwaited, ReturnOk, BeginSession, RefusedSession,
   OpenedSession, CallStep, Send, SendRefused, ReplyReceived, CallFailed, TaskEnds, TaskPanics, Callers,
   At, Service, Linked

-----------------------------------------------------------------------------
(***************************************************************************)
(* Main's own steps, in which the library takes no part: main goes on to   *)
(* its next step, puts tacon's request in the place of its command, stays  *)
(* with the same step, stops at an error, or returns.                      *)
(***************************************************************************)
GoesOn ==
  /\ todo # <<>> /\ Head(todo) # "session"
  /\ todo' = Tail(todo) /\ UNCHANGED exit
  /\ Head(todo) = "command" => ~Accounts
  /\ Head(todo) = "request" => outcome[Newest] = "reply"
  /\ Head(todo) = "requests" => awaited = Len(sessions)

Asks ==
  /\ todo # <<>> /\ Head(todo) = "command"
  /\ todo' = <<"request">> \o Tail(todo) /\ UNCHANGED exit

Stops ==
  /\ UNCHANGED todo /\ exit' \notin {"running", "ok", "session"}
  /\ exit' = "request" =>
       todo # <<>> /\ Head(todo) = "request" /\ Returned(Newest) /\ outcome[Newest] # "reply"
  /\ exit' = "task" => PanicNext

Ends == todo = <<>> /\ UNCHANGED todo /\ exit' = "ok"

Awaits ==
  /\ UNCHANGED <<todo, exit>> /\ todo # <<>>
  /\ awaited < Len(sessions) /\ Ended(sessions[awaited + 1])
  /\ awaited' = awaited + 1

PlanStep ==
  /\ exit = "running"
  /\ GoesOn \/ Asks \/ Stops \/ Ends \/ UNCHANGED <<todo, exit>>
  /\ UNCHANGED awaited \/ Awaits
  /\ UNCHANGED <<serviceVars, invocation, sessions, outcome>>

LEMMA PlanSteps ==
  ASSUME ProgramInv,
         \/ Options \/ Resolve \/ Connect \/ LocateFiles \/ CheckFiles \/ ReadFiles \/ BuildConfiguration
         \/ Handshake \/ Command \/ RequestReturns \/ AwaitTask \/ AllAwaited
         \/ ReturnOk
  PROVE  PlanStep
<1>1. CASE Command
  <2>1. Head(todo) = "command" => invocation.program = "tacon"
    <3>1. todo # <<>> => 1 \in DOMAIN todo /\ Head(todo) = todo[1]
      BY DEF ProgramInv, TodoInv
    <3> QED BY <1>1, <3>1 DEF Command, At, ProgramInv, TodoInv
  <2>2. CASE invocation.command # "accounting"
    BY <1>1, <2>1, <2>2 DEF Command, At, Proceed, PlanStep, GoesOn, Accounts
  <2>3. CASE invocation.command = "accounting" /\ (invocation.cmdEmpty \/ ~invocation.origin)
    BY <1>1, <2>3 DEF Command, At, Exit, PlanStep, Stops
  <2>4. CASE invocation.command = "accounting" /\ ~(invocation.cmdEmpty \/ ~invocation.origin)
    BY <1>1, <2>4 DEF Command, At, PlanStep, Asks
  <2> QED BY <2>2, <2>3, <2>4
<1>2. CASE RequestReturns
  BY <1>2 DEF RequestReturns, At, Proceed, Exit, PlanStep, GoesOn, Stops
<1>3. CASE AwaitTask \/ AllAwaited
  BY <1>3 DEF AwaitTask, AllAwaited, At, Proceed, Exit, PlanStep, GoesOn, Stops, PanicNext, Awaits
<1>4. CASE ReturnOk
  BY <1>4 DEF ReturnOk, Exit, PlanStep, Ends
<1>5. CASE Options \/ Resolve \/ Connect
  BY <1>5 DEF Options, Resolve, Connect, At, Proceed, Exit, PlanStep, GoesOn, Stops
<1>6. CASE LocateFiles \/ CheckFiles \/ ReadFiles \/ BuildConfiguration \/ Handshake
  BY <1>6 DEF LocateFiles, CheckFiles, ReadFiles, BuildConfiguration, Handshake, At, Proceed, Exit, PlanStep,
     GoesOn, Stops
<1> QED BY <1>1, <1>2, <1>3, <1>4, <1>5, <1>6

\* The steps left after one is done.
LEMMA TodoTail ==
  ASSUME TodoInv, todo # <<>>, todo' = Tail(todo), UNCHANGED <<exit, invocation>>,
         exit = "running", sessions' # <<>> \/ (UNCHANGED sessions /\ Head(todo) # "session")
  PROVE  TodoInv'
<1>1. /\ todo \in Seq(StepNames) /\ Head(todo) = todo[1] /\ todo' \in Seq(StepNames)
      /\ DOMAIN todo = 1 .. Len(todo) /\ Len(todo) \in Nat /\ DOMAIN todo' = 1 .. Len(todo) - 1
      /\ \A j \in 1 .. Len(todo) - 1 : j \in Nat /\ j + 1 \in DOMAIN todo /\ todo'[j] = todo[j + 1]
  BY DEF TodoInv
<1>2. ASSUME NEW j \in DOMAIN todo', todo'[j] \in {"request", "requests", "command"}
      PROVE  sessions' # <<>> \/ \E i \in 1 .. j - 1 : todo'[i] = "session"
  <2> SUFFICES ASSUME UNCHANGED sessions, sessions = <<>>, Head(todo) # "session"
               PROVE  \E i \in 1 .. j - 1 : todo'[i] = "session"
    OBVIOUS
  <2>1. PICK i \in 1 .. j : todo[i] = "session"
    <3>1. \E i \in 1 .. (j + 1) - 1 : todo[i] = "session"
      BY <1>1, <1>2 DEF TodoInv
    <3> QED BY <1>1, <3>1
  <2>2. i # 1 /\ i - 1 \in 1 .. j - 1 /\ i - 1 \in 1 .. Len(todo) - 1 /\ (i - 1) + 1 = i
    BY <1>1, <2>1
  <2> QED BY <1>1, <2>1, <2>2
<1>3. ASSUME NEW j \in DOMAIN todo', todo'[j] = "session", ~Many
      PROVE  j + 1 \in DOMAIN todo' /\ todo'[j + 1] \in {"request", "command"}
  <2>1. (j + 1) + 1 \in DOMAIN todo /\ todo[(j + 1) + 1] \in {"request", "command"}
    BY <1>1, <1>3 DEF TodoInv
  <2>2. j + 1 \in 1 .. Len(todo) - 1
    BY <1>1, <2>1
  <2> QED BY <1>1, <2>1, <2>2
<1>4. ASSUME NEW j \in DOMAIN todo'
      PROVE  /\ todo'[j] = "requests" => Many
             /\ todo'[j] = "command" => invocation.program = "tacon" /\ j = Len(todo')
  <2>1. PICK k : k = j + 1
    OBVIOUS
  <2>2. k \in DOMAIN todo /\ todo'[j] = todo[k] /\ Len(todo') = Len(todo) - 1 /\ j \in Nat
    BY <1>1, <2>1
  <2>3. /\ todo[k] = "requests" => Many
        /\ todo[k] = "command" => invocation.program = "tacon" /\ k = Len(todo)
    BY <2>2 DEF TodoInv
  <2> QED BY <1>1, <2>1, <2>2, <2>3
<1>5. sessions' # <<>> \/ "session" \in Left'
  <2> SUFFICES ASSUME UNCHANGED sessions, sessions = <<>>, Head(todo) # "session"
               PROVE  "session" \in Left'
    OBVIOUS
  <2>1. PICK j \in DOMAIN todo : todo[j] = "session"
    BY DEF TodoInv, Left
  <2>2. j - 1 \in DOMAIN todo' /\ (j - 1) + 1 = j
    BY <1>1, <2>1
  <2> QED BY <1>1, <2>1, <2>2 DEF Left
<1>6. Many' => todo' = <<>> \/ todo'[Len(todo')] = "requests"
  <2> SUFFICES ASSUME Many, todo' # <<>> PROVE todo'[Len(todo')] = "requests"
    BY DEF Many
  <2>1. Len(todo') = Len(todo) - 1 /\ Len(todo') \in 1 .. Len(todo) - 1
    BY <1>1
  <2>2. todo'[Len(todo')] = todo[Len(todo') + 1] /\ Len(todo') + 1 = Len(todo)
    BY <1>1, <2>1
  <2> QED BY <2>2 DEF TodoInv
<1> QED BY <1>1, <1>2, <1>3, <1>4, <1>5, <1>6 DEF TodoInv, Many

LEMMA TodoAsks ==
  ASSUME TodoInv, Asks, UNCHANGED <<invocation, sessions>>, exit = "running"
  PROVE  TodoInv' /\ todo' = <<"request">> /\ invocation.program = "tacon"
<1>1. /\ todo \in Seq(StepNames) /\ 1 \in DOMAIN todo /\ todo[1] = "command"
      /\ 1 \in 1 .. Len(todo)
  BY DEF TodoInv, Asks
<1>2. Len(todo) = 1 /\ invocation.program = "tacon"
  BY <1>1 DEF TodoInv
<1>3. Tail(todo) = <<>>
  <2>1. Len(Tail(todo)) = 0 /\ Tail(todo) \in Seq(StepNames)
    BY <1>1, <1>2, HeadTailProperties
  <2> QED BY <2>1, EmptySeq
<1>4. todo' = <<"request">>
  <2>1. <<"request">> \in Seq(StepNames)
    BY DEF StepNames
  <2> QED BY <1>3, <2>1, ConcatEmptySeq DEF Asks
<1>5. sessions # <<>>
  <2>1. sessions # <<>> \/ \E i \in 1 .. 1 - 1 : todo[i] = "session"
    BY <1>1 DEF TodoInv
  <2> QED BY <2>1
<1>6. /\ todo' \in Seq(StepNames) /\ DOMAIN todo' = {1} /\ todo'[1] = "request"
      /\ exit' = "running"
  <2>1. /\ <<"request">> \in Seq(StepNames) /\ DOMAIN <<"request">> = {1}
        /\ <<"request">>[1] = "request"
    BY DEF StepNames
  <2> QED BY <1>4, <2>1 DEF Asks
<1> QED BY <1>2, <1>4, <1>5, <1>6 DEF TodoInv, Many

-----------------------------------------------------------------------------
LEMMA OneStepLeft ==
  ASSUME NEW s \in Seq(StepNames), s # <<>>, Tail(s) = <<>>
  PROVE  Len(s) = 1 /\ Head(s) = s[1]
<1>1. Len(s) \in Nat /\ Len(s) # 0 /\ Head(s) = s[1]
  BY EmptySeq
<1>2. Len(Tail(s)) = Len(s) - 1
  BY <1>1, HeadTailProperties
<1>3. Len(Tail(s)) = 0
  <2>1. Tail(s) \in Seq(StepNames)
    BY HeadTailProperties
  <2> QED BY <2>1, EmptySeq
<1> QED BY <1>1, <1>2, <1>3

\* Main's next step, if it needs a session, has one.
LEMMA HasSession ==
  ASSUME ProgramInv, todo # <<>>, Head(todo) \in {"request", "requests", "command"}
  PROVE  Newest \in InUse /\ (Head(todo) = "requests" => Many)
<1>1. 1 \in DOMAIN todo /\ Head(todo) = todo[1]
  BY DEF ProgramInv, TodoInv
<1>2. sessions # <<>>
  <2>1. sessions # <<>> \/ \E i \in 1 .. 1 - 1 : todo[i] = "session"
    BY <1>1 DEF ProgramInv, TodoInv
  <2> QED BY <2>1
<1>3. Len(sessions) \in DOMAIN sessions
  BY <1>2 DEF ProgramInv, SessionsInv
<1> QED BY <1>1, <1>3 DEF ProgramInv, TodoInv, Newest, InUse

LEMMA InUseClients == ASSUME SessionsInv PROVE InUse \subseteq Clients
BY DEF SessionsInv, InUse

LEMMA CallersInUse == ASSUME ProgramInv PROVE Callers \subseteq InUse
BY HasSession DEF Callers, At

LEMMA PlanKeeps == ASSUME ProgramInv, PlanStep PROVE ProgramInv'
<1>1. InUse' = InUse /\ Newest' = Newest /\ Many' = Many /\ Accounts' = Accounts
  BY DEF PlanStep, InUse, Newest, Many, Accounts
<1>2. TodoInv'
  <2>1. CASE GoesOn
    BY <2>1, TodoTail DEF GoesOn, PlanStep, ProgramInv
  <2>2. CASE Asks
    BY <2>2, TodoAsks DEF PlanStep, ProgramInv
  <2>3. CASE UNCHANGED todo /\ (exit' = "ok" => todo = <<>>)
    BY <2>3 DEF PlanStep, ProgramInv, TodoInv, Many, Left
  <2> QED BY <2>1, <2>2, <2>3 DEF PlanStep, Stops, Ends, ProgramInv, TodoInv
<1>3. SessionsInv' /\ LibraryInv'
  BY DEF PlanStep, ProgramInv, SessionsInv, LibraryInv, serviceVars
<1>4. ASSUME NEW c \in Clients PROVE InStep(c)'
  <2>1. ASSUME exit' \in {"running", "ok"}, outcome[c] = "pending" PROVE c \in Callers'
    <3>1. c \in Callers
      BY <2>1 DEF ProgramInv, InStep, PlanStep
    <3>2. todo # <<>> /\ Head(todo) \in {"request", "requests"}
      BY <3>1 DEF Callers, At
    <3>3. (Head(todo) = "request" => c = Newest) /\ (Head(todo) = "requests" => c \in InUse)
      BY <3>1, <3>2 DEF Callers, At, PlanStep
    <3>4. CASE GoesOn
      <4>1. Head(todo) = "requests"
        BY <2>1, <3>2, <3>3, <3>4 DEF GoesOn
      <4>2. c \in InUse /\ \A k \in DOMAIN sessions : Ended(sessions[k])
        BY <3>3, <3>4, <4>1 DEF GoesOn, ProgramInv, AwaitInv, SessionsInv
      <4>3. Ended(c)
        BY <4>2 DEF InUse
      <4> QED BY <2>1, <4>2, <4>3 DEF ProgramInv, InStep, Ended, Calling, Returned
    <3>5. CASE UNCHANGED <<todo, exit>>
      BY <1>1, <3>1, <3>5 DEF Callers, At
    <3> QED BY <2>1, <3>2, <3>4, <3>5 DEF PlanStep, Asks, Stops, Ends
  <2>2. InStep(c)
    BY DEF ProgramInv
  <2> QED BY <1>1, <2>1, <2>2 DEF InStep, PlanStep, serviceVars, Returned
<1>5. AnsweredInv'
  <2> SUFFICES ASSUME Accounts, ~Many, NEW c \in InUse, outcome[c] # "reply"
               PROVE  c = Newest /\ todo' # <<>> /\ Head(todo') \in {"request", "command"}
    BY <1>1 DEF AnsweredInv, PlanStep
  <2>1. c = Newest /\ todo # <<>> /\ Head(todo) \in {"request", "command"}
    BY DEF ProgramInv, AnsweredInv
  <2>2. CASE Asks
    <3>1. todo' = <<"request">>
      BY <2>2, TodoAsks DEF PlanStep, ProgramInv
    <3> QED BY <2>1, <3>1
  <2> QED BY <2>1, <2>2 DEF PlanStep, GoesOn, Stops, Ends
<1>6. AwaitInv'
  <2>1. /\ awaited' \in 0 .. Len(sessions) /\ \A k \in 1 .. awaited' : Ended(sessions[k])
    <3>1. CASE UNCHANGED awaited
      BY <3>1 DEF ProgramInv, AwaitInv
    <3>2. CASE Awaits
      <4>1. awaited \in 0 .. Len(sessions) /\ \A k \in 1 .. awaited : Ended(sessions[k])
        BY DEF ProgramInv, AwaitInv
      <4>2. awaited' \in 0 .. Len(sessions) /\ \A k \in 1 .. awaited' : k \in 1 .. awaited \/ k = awaited + 1
        BY <3>2, <4>1 DEF Awaits, ProgramInv, SessionsInv
      <4> QED BY <3>2, <4>1, <4>2 DEF Awaits
    <3> QED BY <3>1, <3>2 DEF PlanStep
  <2>2. ASSUME Many, todo' = <<>> PROVE awaited' = Len(sessions)
    <3>1. CASE todo = <<>>
      BY <2>2, <3>1 DEF PlanStep, Awaits, ProgramInv, AwaitInv
    <3>2. CASE todo # <<>>
      <4>1. GoesOn
        BY <2>2, <3>2, TodoAsks DEF PlanStep, Asks, Stops, Ends, ProgramInv
      <4>2. Len(todo) = 1 /\ Head(todo) = todo[1]
        <5>1. todo \in Seq(StepNames) /\ Tail(todo) = <<>>
          BY <2>2, <4>1 DEF GoesOn, ProgramInv, TodoInv
        <5> QED BY <3>2, <5>1, OneStepLeft
      <4>3. Head(todo) = "requests"
        BY <2>2, <3>2, <4>2 DEF ProgramInv, TodoInv
      <4>4. UNCHANGED awaited
        BY <2>2, <3>2 DEF PlanStep, Awaits
      <4> QED BY <4>1, <4>3, <4>4 DEF GoesOn
    <3> QED BY <3>1, <3>2
  <2>3. exit' = "task" => PanicNext /\ UNCHANGED awaited
    BY DEF PlanStep, GoesOn, Asks, Stops, Ends, Awaits
  <2> QED BY <1>1, <2>1, <2>2, <2>3 DEF AwaitInv, PanicNext, Ended, PlanStep, serviceVars
<1> QED BY <1>2, <1>3, <1>4, <1>5, <1>6 DEF ProgramInv

-----------------------------------------------------------------------------
(***************************************************************************)
(* The steps of a call, and those of the library.                          *)
(***************************************************************************)

\* Client c and the library take a step in c's call.
LEMMA CallKeeps ==
  ASSUME ProgramInv, exit = "running", NEW c \in Clients,
         UNCHANGED <<todo, exit, sessions, invocation, awaited>>, LibraryInv',
         \A d \in Clients \ {c} : phase'[d] = phase[d] /\ outcome'[d] = outcome[d],
         InStep(c)', outcome[c] = "reply" => outcome'[c] = "reply",
         c \in InUse => (Ended(c) => Ended(c)')
  PROVE  ProgramInv'
<1>1. /\ InUse' = InUse /\ Newest' = Newest /\ Many' = Many /\ Accounts' = Accounts
      /\ Callers' = Callers
  BY DEF InUse, Newest, Many, Accounts, Callers, At
<1>2. TodoInv' /\ SessionsInv'
  BY DEF ProgramInv, TodoInv, SessionsInv, Many, Left
<1>3. ASSUME NEW d \in Clients, d # c PROVE InStep(d)'
  BY <1>1, <1>3 DEF ProgramInv, InStep, Returned
<1>4. AnsweredInv'
  <2>1. \A d \in InUse : outcome[d] = "reply" => outcome'[d] = "reply"
    BY InUseClients DEF ProgramInv
  <2> QED BY <1>1, <2>1 DEF ProgramInv, AnsweredInv
<1>5. AwaitInv'
  <2>1. \A k \in 1 .. awaited : sessions[k] \in InUse
    BY DEF ProgramInv, AwaitInv, SessionsInv, InUse
  <2>2. \A d \in InUse : Ended(d) => Ended(d)'
    BY InUseClients DEF ProgramInv, Ended
  <2> QED BY <1>1, <2>1, <2>2 DEF ProgramInv, AwaitInv
<1> QED BY <1>2, <1>3, <1>4, <1>5 DEF ProgramInv

LEMMA CallSteps ==
  ASSUME ProgramInv, exit = "running", NEW c \in Clients, CallStep(c)
  PROVE  ProgramInv'
<1>1. c \in InUse /\ InStep(c) /\ (At("requests") => Many)
  <2>1. c \in InUse
    BY CallersInUse
       DEF CallStep, Send, SendRefused, ReplyReceived, CallFailed, TaskEnds, TaskPanics, ProgramInv, InStep,
           Returned
  <2> QED BY <2>1, HasSession DEF ProgramInv, At
<1>2. /\ phase \in [Clients -> Phases]
      /\ outcome \in [Clients -> {"none", "pending", "reply", "bad", "error", "panicked"}]
      /\ LibraryInv
  BY DEF ProgramInv, LibraryInv
<1>3. CASE Send(c)
  <2>1. /\ phase' = [phase EXCEPT ![c] = "asked"] /\ outcome' = [outcome EXCEPT ![c] = "pending"]
        /\ c \in Callers /\ outcome[c] = "none"
        /\ UNCHANGED <<connected, accepting, invocation, todo, addresses, sessions, exit, awaited>>
    BY <1>3 DEF Send, Ask, Trans, Becomes
  <2>2. InStep(c)'
    BY <1>1, <1>2, <2>1 DEF InStep, Calling, InUse, Callers, At, Newest
  <2>3. LibraryInv'
    BY <1>2, <2>1 DEF LibraryInv, Phases, InSession, Calling
  <2>4. ~Ended(c)
    BY <1>1, <2>1 DEF InStep, Ended, Calling, Returned
  <2> QED BY <1>2, <2>1, <2>2, <2>3, <2>4, CallKeeps
<1>4. CASE SendRefused(c)
  <2>1. /\ outcome' = [outcome EXCEPT ![c] = "error"] /\ outcome[c] = "none" /\ ~connected
        /\ UNCHANGED <<phase, connected, accepting, invocation, todo, addresses, sessions, exit, awaited>>
    BY <1>4 DEF SendRefused, Becomes, serviceVars
  <2>2. InStep(c)'
    BY <1>1, <1>2, <2>1 DEF InStep, InUse, Returned
  <2>3. LibraryInv'
    BY <1>2, <2>1 DEF LibraryInv
  <2> QED BY <1>1, <1>2, <2>1, <2>2, <2>3, CallKeeps DEF InStep, Ended, Calling
<1>5. CASE ReplyReceived(c)
  <2>1. PICK p \in {"done", "idle"}, o \in {"reply", "bad"} :
          /\ (p = "done" /\ o = "reply") \/ (p = "idle" /\ o = "bad")
          /\ phase' = [phase EXCEPT ![c] = p] /\ outcome' = [outcome EXCEPT ![c] = o]
          /\ outcome[c] = "pending"
          /\ UNCHANGED <<connected, accepting, invocation, todo, addresses, sessions, exit, awaited>>
    BY <1>5 DEF ReplyReceived, Succeed, ReturnBad, Trans, Becomes
  <2>2. InStep(c)'
    BY <1>1, <1>2, <2>1 DEF InStep, InUse
  <2>3. LibraryInv'
    BY <1>2, <2>1 DEF LibraryInv, Phases, InSession
  <2>4. ~Ended(c)
    BY <1>1, <2>1 DEF InStep, Ended, Calling, Returned
  <2> QED BY <1>2, <2>1, <2>2, <2>3, <2>4, CallKeeps
<1>6. CASE CallFailed(c)
  <2>1. /\ phase' = [phase EXCEPT ![c] = "idle"] /\ outcome' = [outcome EXCEPT ![c] = "error"]
        /\ outcome[c] = "pending" /\ ~connected
        /\ UNCHANGED <<connected, accepting, invocation, todo, addresses, sessions, exit, awaited>>
    BY <1>6 DEF CallFailed, Fail, Trans, Becomes
  <2>2. InStep(c)'
    BY <1>1, <1>2, <2>1 DEF InStep, InUse
  <2>3. LibraryInv'
    BY <1>2, <2>1 DEF LibraryInv, Phases, InSession
  <2>4. ~Ended(c)
    BY <1>1, <2>1 DEF InStep, Ended, Calling, Returned
  <2> QED BY <1>2, <2>1, <2>2, <2>3, <2>4, CallKeeps
<1>7. CASE TaskEnds(c)
  <2>1. /\ phase' = [phase EXCEPT ![c] = "none"] /\ Returned(c) /\ Many
        /\ UNCHANGED <<connected, accepting, invocation, todo, addresses, sessions, exit, outcome, awaited>>
    BY <1>1, <1>7 DEF TaskEnds, Leave, Trans, programVars
  <2>2. InStep(c)'
    BY <1>1, <1>2, <2>1 DEF InStep, InUse, Returned, Many
  <2>3. LibraryInv'
    BY <1>2, <2>1 DEF LibraryInv, Phases
  <2> QED BY <1>1, <1>2, <2>1, <2>2, <2>3, CallKeeps DEF InStep, Ended, Calling
<1>8. CASE TaskPanics(c)
  <2>1. /\ phase' = [phase EXCEPT ![c] = "none"] /\ outcome' = [outcome EXCEPT ![c] = "panicked"]
        /\ outcome[c] \in {"bad", "error"} /\ Many
        /\ UNCHANGED <<connected, accepting, invocation, todo, addresses, sessions, exit, awaited>>
    BY <1>1, <1>8 DEF TaskPanics, Leave, Trans, Becomes
  <2>2. InStep(c)'
    BY <1>1, <1>2, <2>1 DEF InStep, InUse, Returned, Many
  <2>3. LibraryInv'
    BY <1>2, <2>1 DEF LibraryInv, Phases
  <2> QED BY <1>2, <2>1, <2>2, <2>3, CallKeeps DEF Ended
<1> QED BY <1>3, <1>4, <1>5, <1>6, <1>7, <1>8 DEF CallStep

\* What the library and the server do leaves a call a call, and no program notices.
LibraryStep ==
  \/ \E c \in Clients : Take(c) \/ Answer(c)
  \/ \E S \in SUBSET Clients : Lose(S)
  \/ Disconnect
  \/ Stop

LEMMA LibraryKeeps ==
  ASSUME ProgramInv, LibraryStep, UNCHANGED programVars
  PROVE  ProgramInv'
<1>1. phase \in [Clients -> Phases] /\ connected \in BOOLEAN /\ accepting \in BOOLEAN
  BY DEF ProgramInv, LibraryInv
<1>2. /\ phase' \in [Clients -> Phases] /\ connected' \in BOOLEAN /\ accepting' \in BOOLEAN
      /\ \A c \in Clients :
           phase'[c] = phase[c] \/ (phase[c] \in Calling /\ phase'[c] \in Calling)
  <2>1. CASE \E c \in Clients : Take(c) \/ Answer(c)
    BY <1>1, <2>1 DEF Take, Answer, AnswerWell, AnswerBadly, Trans, Phases, InSession, Calling
  <2>2. CASE \E S \in SUBSET Clients : Lose(S)
    BY <1>1, <2>2 DEF Lose, Phases, InSession, Calling
  <2>3. CASE Disconnect
    BY <1>1, <2>3 DEF Disconnect, Phases, InSession, Calling
  <2>4. CASE Stop
    BY <1>1, <2>4 DEF Stop
  <2> QED BY <2>1, <2>2, <2>3, <2>4 DEF LibraryStep
<1>3. /\ InUse' = InUse /\ Newest' = Newest /\ Many' = Many /\ Accounts' = Accounts
      /\ Callers' = Callers
  BY DEF programVars, InUse, Newest, Many, Accounts, Callers, At
<1>4. TodoInv' /\ SessionsInv' /\ AnsweredInv'
  BY <1>3 DEF programVars, ProgramInv, TodoInv, SessionsInv, AnsweredInv, Many, Left
<1>5. LibraryInv' /\ AwaitInv'
  <2>1. \A k \in 1 .. Len(sessions) : sessions[k] \in Clients
    BY DEF ProgramInv, SessionsInv
  <2>2. \A c \in Clients : Ended(c) => Ended(c)'
    BY <1>2 DEF Ended, Calling
  <2> QED BY <1>2, <1>3, <2>1, <2>2
          DEF programVars, ProgramInv, LibraryInv, SessionsInv, AwaitInv, PanicNext
<1>6. ASSUME NEW c \in Clients PROVE InStep(c)'
  <2>1. /\ InStep(c)
        /\ phase'[c] = phase[c] \/ (phase[c] \in Calling /\ phase'[c] \in Calling)
    BY <1>2 DEF ProgramInv
  <2> QED BY <1>2, <1>3, <2>1 DEF InStep, programVars, Returned, Calling
<1> QED BY <1>4, <1>5, <1>6 DEF ProgramInv

-----------------------------------------------------------------------------
(***************************************************************************)
(* Main opens a session.                                                   *)
(***************************************************************************)
LEMMA BeginSessionKeeps ==
  ASSUME ProgramInv, NEW c \in Clients, BeginSession(c)
  PROVE  ProgramInv'
<1>1. /\ phase' = [phase EXCEPT ![c] = "opening"] /\ c \notin InUse /\ exit = "running"
      /\ UNCHANGED <<connected, accepting, invocation, todo, addresses, sessions, exit, outcome, awaited>>
  BY DEF BeginSession, BeginOpen, Trans, programVars, At
<1>2. LibraryInv /\ InStep(c)
  BY DEF ProgramInv
<1>3. InStep(c)'
  BY <1>1, <1>2 DEF InStep, InUse, LibraryInv
<1>4. LibraryInv'
  BY <1>1, <1>2 DEF LibraryInv, Phases
<1> QED BY <1>1, <1>2, <1>3, <1>4, CallKeeps DEF LibraryInv

LEMMA RefusedSessionKeeps ==
  ASSUME ProgramInv, NEW c \in Clients, RefusedSession(c)
  PROVE  ProgramInv'
<1>1. /\ phase' = [phase EXCEPT ![c] = "refused"] /\ c \notin InUse
      /\ exit' = "session"
      /\ UNCHANGED <<connected, accepting, invocation, todo, addresses, sessions, outcome, awaited>>
  BY DEF RefusedSession, Refuse, Trans, Exit
<1>2. LibraryInv
  BY DEF ProgramInv
<1>3. InUse' = InUse /\ Newest' = Newest /\ Many' = Many /\ Accounts' = Accounts
  BY <1>1 DEF InUse, Newest, Many, Accounts
<1>4. ASSUME NEW d \in Clients PROVE InStep(d)'
  <2>1. d # c => phase'[d] = phase[d]
    BY <1>1, <1>2 DEF LibraryInv
  <2>2. d = c => phase'[d] = "refused"
    BY <1>1, <1>2 DEF LibraryInv
  <2> QED BY <1>1, <1>3, <2>1, <2>2 DEF ProgramInv, InStep, Returned
<1>5. TodoInv' /\ SessionsInv' /\ AnsweredInv' /\ AwaitInv'
  <2>1. TodoInv' /\ SessionsInv' /\ AnsweredInv'
    BY <1>1, <1>2, <1>3 DEF ProgramInv, TodoInv, SessionsInv, AnsweredInv, Many, Left
  <2>2. \A k \in 1 .. awaited : sessions[k] \in InUse
    BY DEF ProgramInv, AwaitInv, SessionsInv, InUse
  <2>3. \A d \in InUse : Ended(d)' = Ended(d)
    BY <1>1, <1>2 DEF LibraryInv, Ended
  <2> QED BY <1>1, <1>3, <2>1, <2>2, <2>3 DEF ProgramInv, AwaitInv
<1>6. LibraryInv'
  BY <1>1, <1>2 DEF LibraryInv, Phases
<1> QED BY <1>4, <1>5, <1>6 DEF ProgramInv

LEMMA OpenedSessionKeeps ==
  ASSUME ProgramInv, NEW c \in Clients, OpenedSession(c)
  PROVE  /\ ProgramInv'
         /\ c \notin InUse /\ InUse' = InUse \cup {c} /\ Len(sessions') = Len(sessions) + 1
<1>1. /\ phase' = [phase EXCEPT ![c] = "idle"] /\ phase[c] = "opening" /\ exit = "running"
      /\ todo # <<>> /\ Head(todo) = "session" /\ todo' = Tail(todo)
      /\ sessions' = Append(sessions, c)
      /\ UNCHANGED <<connected, accepting, invocation, exit, outcome, awaited>>
  BY DEF OpenedSession, Opened, Trans, Proceed, At
<1>2. LibraryInv /\ InStep(c) /\ TodoInv /\ SessionsInv
  BY DEF ProgramInv
<1>3. c \notin InUse /\ outcome[c] = "none"
  BY <1>1, <1>2 DEF InStep, Calling
<1>4. /\ sessions' \in Seq(Clients) /\ Len(sessions') = Len(sessions) + 1
      /\ \A j \in 1 .. Len(sessions) : sessions'[j] = sessions[j]
      /\ sessions'[Len(sessions) + 1] = c
      /\ Len(sessions) \in Nat /\ DOMAIN sessions = 1 .. Len(sessions)
      /\ DOMAIN sessions' = 1 .. Len(sessions) + 1
  BY <1>1, <1>2, AppendProperties DEF SessionsInv
<1>5. InUse' = InUse \cup {c}
  <2>1. \A j \in DOMAIN sessions' : j \in DOMAIN sessions \/ j = Len(sessions) + 1
    BY <1>4
  <2>2. DOMAIN sessions \subseteq DOMAIN sessions' /\ Len(sessions) + 1 \in DOMAIN sessions'
    BY <1>4
  <2> QED BY <1>4, <2>1, <2>2 DEF InUse
<1>6. Newest' = c /\ sessions' # <<>>
  BY <1>4 DEF Newest
<1>7. TodoInv'
  BY <1>1, <1>2, <1>6, TodoTail
<1>8. SessionsInv'
  <2>1. ASSUME NEW j \in DOMAIN sessions', NEW k \in DOMAIN sessions', sessions'[j] = sessions'[k]
        PROVE  j = k
    <3>1. CASE j \in DOMAIN sessions /\ k \in DOMAIN sessions
      BY <1>2, <1>4, <2>1, <3>1 DEF SessionsInv
    <3>2. \A i \in DOMAIN sessions' : i \in DOMAIN sessions \/ i = Len(sessions) + 1
      BY <1>4
    <3>3. \A i \in DOMAIN sessions : sessions[i] # c
      BY <1>3 DEF InUse
    <3> QED BY <1>4, <2>1, <3>1, <3>2, <3>3
  <2> QED BY <1>4, <2>1 DEF SessionsInv
<1>9. ASSUME NEW d \in Clients PROVE InStep(d)'
  <2>1. outcome[d] # "pending"
    BY <1>1 DEF ProgramInv, InStep, Callers, At
  <2>2. CASE d = c
    BY <1>1, <1>2, <1>3, <1>5, <2>1, <2>2 DEF InStep, LibraryInv
  <2>3. CASE d # c
    <3>1. phase'[d] = phase[d] /\ (d \in InUse' <=> d \in InUse) /\ InStep(d)
      BY <1>1, <1>2, <1>5, <2>3 DEF LibraryInv, ProgramInv
    <3> QED BY <1>1, <2>1, <3>1 DEF InStep, Returned, Many
  <2> QED BY <2>2, <2>3
<1>10. LibraryInv' /\ AwaitInv'
  <2>1. LibraryInv'
    BY <1>1, <1>2 DEF LibraryInv, Phases, InSession
  <2>2. AwaitInv
    BY DEF ProgramInv
  <2>3. /\ awaited' = awaited /\ awaited \in 0 .. Len(sessions)
        /\ \A k \in 1 .. awaited : Ended(sessions[k])
    BY <1>1, <2>2 DEF AwaitInv
  <2>4. awaited \in 0 .. Len(sessions) + 1 /\ \A k \in 1 .. awaited : k \in 1 .. Len(sessions)
    BY <1>4, <2>3
  <2>5. ASSUME NEW k \in 1 .. awaited PROVE phase'[sessions'[k]] = "none"
    <3>1. sessions'[k] = sessions[k] /\ k \in DOMAIN sessions
      BY <1>4, <2>4
    <3>2. sessions[k] \in InUse /\ sessions[k] \in Clients
      BY <1>2, <3>1 DEF InUse, SessionsInv
    <3>3. sessions[k] # c
      BY <1>3, <3>2
    <3>4. phase'[sessions[k]] = phase[sessions[k]]
      BY <1>1, <1>2, <3>2, <3>3 DEF LibraryInv
    <3> QED BY <2>3, <3>1, <3>4 DEF Ended
  <2>6. Many' => todo' # <<>>
    <3> SUFFICES ASSUME Many, todo' = <<>> PROVE FALSE
      BY <1>1 DEF Many
    <3>1. Len(todo) = 1 /\ Head(todo) = todo[1]
      BY <1>1, <1>2, OneStepLeft DEF TodoInv
    <3>2. todo[Len(todo)] = "requests"
      BY <1>1, <1>2 DEF TodoInv
    <3> QED BY <1>1, <3>1, <3>2
  <2>7. exit' # "task"
    BY <1>1
  <2>8. AwaitInv'
    <3>1. awaited' \in 0 .. Len(sessions')
      BY <1>4, <2>3, <2>4
    <3>2. \A k \in 1 .. awaited' : Ended(sessions[k])'
      BY <2>3, <2>5 DEF Ended
    <3> QED BY <2>6, <2>7, <3>1, <3>2 DEF AwaitInv
  <2> QED BY <2>1, <2>8
<1>11. AnsweredInv'
  <2> SUFFICES ASSUME Accounts, ~Many
               PROVE  /\ \A d \in InUse : outcome[d] = "reply"
                      /\ todo' # <<>> /\ Head(todo') \in {"request", "command"}
    BY <1>1, <1>5, <1>6 DEF AnsweredInv, Accounts, Many
  <2>1. \A d \in InUse : outcome[d] = "reply"
    BY <1>1 DEF ProgramInv, AnsweredInv
  <2>2. 1 \in DOMAIN todo /\ todo[1] = "session"
    BY <1>1, <1>2 DEF TodoInv
  <2>3. 1 + 1 \in DOMAIN todo /\ todo[1 + 1] \in {"request", "command"}
    BY <1>2, <2>2 DEF TodoInv
  <2>4. 1 \in DOMAIN todo' /\ todo'[1] = todo[1 + 1] /\ todo' \in Seq(StepNames)
    BY <1>1, <1>2, <2>3 DEF TodoInv
  <2> QED BY <2>1, <2>3, <2>4
<1> QED BY <1>3, <1>4, <1>5, <1>7, <1>8, <1>9, <1>10, <1>11 DEF ProgramInv

-----------------------------------------------------------------------------
LEMMA ProgramInvariance == Spec => []ProgramInv
<1>1. ProgramInv /\ [Next]_vars => ProgramInv'
  <2> SUFFICES ASSUME ProgramInv, [Next]_vars PROVE ProgramInv'
    OBVIOUS
  <2>1. CASE exit # "running" \/ UNCHANGED vars
    <3>1. UNCHANGED vars
      BY <2>1, EndedIsFrozen
    <3> QED BY <3>1
          DEF vars, serviceVars, programVars, ProgramInv, LibraryInv, TodoInv, SessionsInv,
              AnsweredInv, AwaitInv, PanicNext, Ended, InStep, Many, Left, InUse, Newest, Accounts, Callers, At,
              Returned
  <2>2. ASSUME MainStep PROVE ProgramInv'
    <3>1. CASE \E c \in Clients : BeginSession(c) \/ RefusedSession(c) \/ OpenedSession(c)
      BY <3>1, BeginSessionKeeps, RefusedSessionKeeps, OpenedSessionKeeps
    <3> QED BY <2>2, <3>1, PlanSteps, PlanKeeps DEF MainStep
  <2>3. ASSUME NEW c \in Clients, CallStep(c), exit = "running" PROVE ProgramInv'
    BY <2>3, CallSteps
  <2>4. ASSUME LibraryStep, UNCHANGED programVars PROVE ProgramInv'
    BY <2>4, LibraryKeeps
  <2> QED BY <2>1, <2>2, <2>3, <2>4 DEF Next, Service, LibraryStep
<1> QED BY InitProgramInv, <1>1, PTL DEF Spec

-----------------------------------------------------------------------------
(***************************************************************************)
(* What the programs promise.                                              *)
(***************************************************************************)

\* The exit status of tacon, single_transaction and tls_client can be relied on:
\* they exit without an error only if every session they opened, and at least
\* one, has had the reply to its request.
THEOREM SuccessIsAnswered == Spec => []SuccessMeansAnswered
<1>1. ProgramInv => SuccessMeansAnswered
  <2> SUFFICES ASSUME ProgramInv, exit = "ok", Accounts, ~Many
               PROVE  sessions # <<>> /\ \A c \in InUse : outcome[c] = "reply" /\ phase[c] = "done"
    BY DEF SuccessMeansAnswered, Many
  <2>1. todo = <<>>
    BY DEF ProgramInv, TodoInv
  <2>2. sessions # <<>>
    BY <2>1 DEF ProgramInv, TodoInv, Left
  <2>3. \A c \in InUse : outcome[c] = "reply"
    BY <2>1 DEF ProgramInv, AnsweredInv
  <2> QED BY <2>2, <2>3, InUseClients DEF ProgramInv, InStep
<1> QED BY <1>1, ProgramInvariance, PTL

\* Whatever order the tasks of multiple_transactions end in, and however many of their
\* requests fail, main waits for each of them, unless one before it panicked.
THEOREM NoTaskCutOff == Spec => []OnlyPanicsCutOff
<1>1. ProgramInv => OnlyPanicsCutOff
  <2> SUFFICES ASSUME ProgramInv, Many, exit \in {"ok", "task"}, NEW k \in DOMAIN sessions,
                      ~Ended(sessions[k])
               PROVE  exit = "task" /\ \E j \in 1 .. k - 1 : outcome[sessions[j]] = "panicked"
    BY DEF OnlyPanicsCutOff, Many
  <2>1. /\ k \in 1 .. Len(sessions) /\ Len(sessions) \in Nat
        /\ awaited \in 0 .. Len(sessions) /\ \A j \in 1 .. awaited : Ended(sessions[j])
    BY DEF ProgramInv, SessionsInv, AwaitInv
  <2>2. exit = "task" /\ PanicNext
    BY <2>1 DEF ProgramInv, TodoInv, AwaitInv
  <2>3. awaited + 1 \in 1 .. k - 1
    <3>1. k \notin 1 .. awaited /\ k # awaited + 1
      BY <2>1, <2>2 DEF PanicNext
    <3> QED BY <2>1, <3>1
  <2> QED BY <2>2, <2>3 DEF PanicNext
<1> QED BY <1>1, ProgramInvariance, PTL

\* single_transaction opens the session of its STOP record only when it has had the
\* server's reply to the START.
THEOREM StopIsAfterStart == Spec => []StopFollowsStart
<1>1. ProgramInv => StopFollowsStart
  <2> SUFFICES ASSUME ProgramInv, invocation.program = "single_transaction", Len(sessions) = 2
               PROVE  outcome[sessions[1]] = "reply"
    BY DEF StopFollowsStart
  <2>1. Accounts /\ ~Many
    BY DEF Accounts, Many
  <2>2. sessions[1] \in InUse /\ sessions[1] # Newest
    BY DEF ProgramInv, SessionsInv, InUse, Newest
  <2> QED BY <2>1, <2>2 DEF ProgramInv, AnsweredInv
<1> QED BY <1>1, ProgramInvariance, PTL

-----------------------------------------------------------------------------
\* What main has left is always an end of its steps, or tacon's last request.
TodoIsSuffix ==
  \E k \in 0 .. Len(Steps(invocation)) :
    \/ todo = SubSeq(Steps(invocation), k + 1, Len(Steps(invocation)))
    \/ todo = <<"request">> /\ invocation.program = "tacon"

LEMMA TailIsSuffix ==
  ASSUME invocation \in Invocations, TodoIsSuffix, todo # <<>>, todo' = Tail(todo),
         UNCHANGED invocation
  PROVE  TodoIsSuffix'
<1> DEFINE S == Steps(invocation)
           n == Len(S)
<1>1. S \in Seq(StepNames) /\ n \in Nat
  BY StepsOrdered DEF WellOrdered
<1>2. PICK k \in 0 .. n :
        \/ todo = SubSeq(S, k + 1, n)
        \/ todo = <<"request">> /\ invocation.program = "tacon"
  BY DEF TodoIsSuffix
<1>3. ASSUME NEW j \in 0 .. n, todo' = SubSeq(S, j + 1, n) PROVE TodoIsSuffix'
  <2>1. Steps(invocation)' = S /\ Len(Steps(invocation))' = n
    OBVIOUS
  <2> QED BY <1>3, <2>1 DEF TodoIsSuffix
<1> HIDE DEF S, n
<1>4. CASE todo = SubSeq(S, k + 1, n)
  <2>1. k < n
    BY <1>1, <1>4, SubSeqEmpty
  <2>2. PICK j : j = k + 1
    OBVIOUS
  <2>3. j \in 0 .. n /\ j \in 1 .. n /\ n \in j .. n /\ todo = SubSeq(S, j, n)
    BY <1>1, <1>4, <2>1, <2>2
  <2>4. todo' = SubSeq(S, j + 1, n)
    BY <1>1, <2>3, HeadTailOfSubSeq DEF n
  <2> QED BY <1>3, <2>3, <2>4
<1>5. CASE todo = <<"request">>
  <2>1. todo' = <<>>
    BY <1>5
  <2>2. n \in Int /\ n + 1 \in Int /\ n < n + 1 /\ n \in 0 .. n
    BY <1>1
  <2>3. SubSeq(S, n + 1, n) = <<>>
    BY <2>2, SubSeqEmpty
  <2> QED BY <1>3, <2>1, <2>2, <2>3
<1> QED BY <1>2, <1>4, <1>5

MainTyped ==
  /\ invocation \in Invocations
  /\ TodoIsSuffix
  /\ addresses \in 0 .. MaxAddresses
  /\ Len(sessions) = Cardinality(InUse)
  /\ exit \in {"running", "ok", "panic", "options", "resolve", "connect", "locate", "files",
                "read", "build", "handshake", "session", "command", "request", "task"}

LEMMA PlanTyped ==
  ASSUME ProgramInv, MainTyped,
         \/ Options \/ Resolve \/ Connect \/ LocateFiles \/ CheckFiles \/ ReadFiles \/ BuildConfiguration
         \/ Handshake \/ Command \/ RequestReturns \/ AwaitTask \/ AllAwaited
         \/ ReturnOk
  PROVE  MainTyped'
<1>1. PlanStep
  BY PlanSteps
<1>2. TodoIsSuffix'
  <2>1. CASE GoesOn
    BY <1>1, <2>1, TailIsSuffix DEF MainTyped, GoesOn, PlanStep
  <2>2. CASE Asks
    <3>1. todo' = <<"request">> /\ invocation' = invocation /\ invocation.program = "tacon"
      BY <1>1, <2>2, TodoAsks DEF PlanStep, ProgramInv
    <3>2. \E k \in 0 .. Len(Steps(invocation)) : TRUE
      BY DEF MainTyped, TodoIsSuffix
    <3>3. Steps(invocation)' = Steps(invocation)
      BY <3>1
    <3> QED BY <3>1, <3>2, <3>3 DEF TodoIsSuffix
  <2>3. CASE UNCHANGED todo
    <3>1. invocation' = invocation /\ Steps(invocation)' = Steps(invocation)
      BY <1>1 DEF PlanStep
    <3> QED BY <2>3, <3>1 DEF MainTyped, TodoIsSuffix
  <2> QED BY <1>1, <2>1, <2>2, <2>3 DEF PlanStep, Stops, Ends
<1>3. addresses' \in 0 .. MaxAddresses
  BY ProgramsAssumption
     DEF ProgramsAssumption, MainTyped, Options, Resolve, Connect, LocateFiles, CheckFiles, ReadFiles,
         BuildConfiguration, Handshake, Command, RequestReturns, AwaitTask, AllAwaited, ReturnOk, Proceed
<1>4. exit' \in {"running", "ok", "panic", "options", "resolve", "connect", "locate", "files",
                 "read", "build", "handshake", "session", "command", "request", "task"}
  BY DEF MainTyped, Options, Resolve, Connect, LocateFiles, CheckFiles, ReadFiles, BuildConfiguration,
         Handshake, Command, RequestReturns, AwaitTask, AllAwaited, ReturnOk, Proceed, Exit
<1> QED BY <1>1, <1>2, <1>3, <1>4 DEF MainTyped, PlanStep, InUse

LEMMA MainStaysTyped == ASSUME ProgramInv, MainTyped, [Next]_vars PROVE MainTyped'
<1>1. CASE UNCHANGED <<invocation, todo, addresses, sessions>>
           /\ (UNCHANGED exit \/ exit' = "session")
  <2>1. Steps(invocation)' = Steps(invocation)
    BY <1>1
  <2> QED BY <1>1, <2>1 DEF MainTyped, TodoIsSuffix, InUse
<1>2. ASSUME NEW c \in Clients, OpenedSession(c) PROVE MainTyped'
  <2>1. c \notin InUse /\ InUse' = InUse \cup {c} /\ Len(sessions') = Len(sessions) + 1
    BY <1>2, OpenedSessionKeeps
  <2>2. IsFiniteSet(InUse)
    BY InUseClients, FS_Subset, ProgramsAssumption DEF ProgramInv, ProgramsAssumption
  <2>3. Cardinality(InUse') = Cardinality(InUse) + 1
    BY <2>1, <2>2, FS_AddElement
  <2>4. TodoIsSuffix'
    BY <1>2, TailIsSuffix DEF OpenedSession, Proceed, At, MainTyped
  <2> QED BY <1>2, <2>1, <2>3, <2>4 DEF MainTyped, OpenedSession, Proceed
<1> QED BY <1>1, <1>2, PlanTyped
        DEF Next, MainStep, BeginSession, RefusedSession, Exit, CallStep, Send, SendRefused,
            ReplyReceived, CallFailed, TaskEnds, TaskPanics, Becomes, Service, programVars, vars

\* Every state of a program is of the types TypeOK gives, however many clients
\* there are; main's steps are an end of those it began with.
THEOREM Typed == Spec => []TypeOK
<1>1. Init => MainTyped
  <2> SUFFICES ASSUME Init PROVE MainTyped
    OBVIOUS
  <2>1. Steps(invocation) \in Seq(StepNames) /\ Len(Steps(invocation)) \in Nat
    BY StepsOrdered DEF Init, WellOrdered
  <2>2. Steps(invocation) = SubSeq(Steps(invocation), 0 + 1, Len(Steps(invocation)))
    BY <2>1, SubSeqFull
  <2>3. TodoIsSuffix
    BY <2>1, <2>2 DEF Init, TodoIsSuffix
  <2>4. InUse = {} /\ Len(sessions) = 0
    BY DEF Init, InUse
  <2>5. Cardinality(InUse) = 0
    BY <2>4, FS_EmptySet
  <2> QED BY <2>3, <2>4, <2>5, ProgramsAssumption DEF Init, MainTyped, ProgramsAssumption
<1>2. ProgramInv /\ MainTyped => TypeOK
  BY InUseClients DEF ProgramInv, LibraryInv, AwaitInv, MainTyped, TypeOK, TodoIsSuffix
<1>3. ProgramInv /\ MainTyped /\ [Next]_vars => MainTyped'
  BY MainStaysTyped
<1> QED BY <1>1, <1>2, <1>3, ProgramInvariance, PTL DEF Spec
=============================================================================
