-------------------------- MODULE AccountingService --------------------------
(***************************************************************************)
(* What the networking library promises the programs that use it: a client *)
(* opens a session, asks the server to account for something and is        *)
(* answered. A request is taken by the server at most once, nothing of it  *)
(* is lost while the connection stands, a session is refused only after    *)
(* the connection has gone, and a client that was answered is done.        *)
(***************************************************************************)
CONSTANT Clients

VARIABLES
  phase,      \* how far the session of each client is
  connected,  \* the server has not closed the connection
  accepting   \* sessions are not refused

serviceVars == <<phase, connected, accepting>>

\* The phases of a call: the request is asked, taken by the server, answered
\* well or badly (the answer is not a reply), or it or its answer is lost.
Calling == {"asked", "taken", "good", "bad", "lost"}
InSession == {"idle", "done"} \cup Calling
Phases == {"none", "opening", "refused"} \cup InSession

ServiceInit ==
  /\ phase = [c \in Clients |-> "none"]
  /\ connected = TRUE
  /\ accepting = TRUE

\* A step of client c from one of the phases in From to the phase to.
Trans(c, From, to) ==
  /\ phase[c] \in From
  /\ phase' = [phase EXCEPT ![c] = to]
  /\ UNCHANGED <<connected, accepting>>

BeginOpen(c) == accepting /\ Trans(c, {"none"}, "opening")
Refuse(c) == ~accepting /\ Trans(c, {"none"}, "refused")
Opened(c) == Trans(c, {"opening"}, "idle")

Ask(c) == Trans(c, {"idle"}, "asked")
Take(c) == connected /\ Trans(c, {"asked"}, "taken")
AnswerWell(c) == connected /\ Trans(c, {"taken"}, "good")
AnswerBadly(c) == connected /\ Trans(c, {"taken"}, "bad")

\* The call returns: with the reply, with an error about a body that is none,
\* or with an error because the connection has gone.
Succeed(c) == Trans(c, {"good"}, "done")
ReturnBad(c) == Trans(c, {"bad"}, "idle")
Fail(c) == ~connected /\ Trans(c, {"asked", "lost"}, "idle")

\* The client drops its session, in the middle of a call too.
Leave(c) == Trans(c, InSession, "none")

\* The server closes the connection, and forgets what it had not answered.
Disconnect ==
  /\ connected
  /\ connected' = FALSE
  /\ phase' = [c \in Clients |-> IF phase[c] = "taken" THEN "lost" ELSE phase[c]]
  /\ UNCHANGED accepting

\* What was on its way when the connection went is lost, all of it or a part.
Lose(S) ==
  /\ ~connected
  /\ S # {}
  /\ \A c \in S : phase[c] \in {"asked", "good", "bad"}
  /\ phase' = [c \in Clients |-> IF c \in S THEN "lost" ELSE phase[c]]
  /\ UNCHANGED <<connected, accepting>>

Stop ==
  /\ ~connected /\ accepting
  /\ accepting' = FALSE
  /\ UNCHANGED <<phase, connected>>

ClientStep(c) ==
  \/ BeginOpen(c) \/ Refuse(c) \/ Opened(c)
  \/ Ask(c) \/ Take(c) \/ AnswerWell(c) \/ AnswerBadly(c)
  \/ Succeed(c) \/ ReturnBad(c) \/ Fail(c)
  \/ Leave(c)

ServiceNext ==
  \/ \E c \in Clients : ClientStep(c)
  \/ \E S \in SUBSET Clients : Lose(S)
  \/ Disconnect
  \/ Stop

ServiceSpec == ServiceInit /\ [][ServiceNext]_serviceVars
=============================================================================
