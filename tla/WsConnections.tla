---------------------------- MODULE WsConnections ----------------------------
(***************************************************************************)
(* The WebSocket connections of the kernel (ws/): each runs a select loop  *)
(* over what its client sends, the broadcasts of the host and a timer, and *)
(* may begin and settle workspace sessions, as the HTTP handlers do.       *)
(* Broadcasts are kept in a ring of the latest Capacity messages, for all  *)
(* connections together; here a message is its number.                     *)
(***************************************************************************)
EXTENDS Integers, Sequences, FiniteSets

CONSTANTS
    Clients,
    Capacity,       \* BROADCAST_CAPACITY
    MaxSent,        \* bound on the broadcasts,
    MaxTexts,       \* and on the text messages of a client
    SessionIds      \* the ids begin_session may draw

ASSUME SocketsAssumption ==
    /\ Capacity \in Nat \ {0} /\ MaxSent \in Nat /\ MaxTexts \in Nat
    /\ IsFiniteSet(Clients)

VARIABLES
    sent,       \* how many broadcasts have been sent
    conn,       \* connections, their place in the ring, what their client got
    count,      \* client_count
    session,    \* sessions as the host state sees them: none, open, gone
    settled     \* history: how often a commit or rollback of it said Ok

socketVars == <<sent, conn, count, session, settled>>

\* Where a connection is: not there yet, in select!, in the handler of a
\* message, after the loop, or dropped.
ConnRow == [at : {"none", "select", "handling", "closing", "closed"},
            since : 0..MaxSent, next : 0..MaxSent, got : Seq(1..MaxSent), texts : 0..MaxTexts]

SocketsInit ==
    /\ sent = 0 /\ count = 0
    /\ conn = [c \in Clients |-> [at |-> "none", since |-> 0, next |-> 0, got |-> <<>>, texts |-> 0]]
    /\ session = [s \in SessionIds |-> "none"]
    /\ settled = [s \in SessionIds |-> 0]

Receivers == {c \in Clients : conn[c].at \in {"select", "handling", "closing"}}

\* handle_ws_upgrade: the receiver starts behind the latest broadcast.
Connect(c) ==
    /\ conn[c].at = "none"
    /\ conn' = [conn EXCEPT ![c].at = "select", ![c].since = sent, ![c].next = sent]
    /\ count' = count + 1
    /\ UNCHANGED <<sent, session, settled>>

\* With no receiver the message is dropped, and broadcast says Ok.
Broadcast ==
    /\ IF Receivers = {} THEN sent' = sent ELSE sent < MaxSent /\ sent' = sent + 1
    /\ UNCHANGED <<conn, count, session, settled>>

Goto(c, at) == conn' = [conn EXCEPT ![c].at = at]

\* The connection is dropped, and its receiver with it.
Gone(c) == Goto(c, "closed") /\ count' = count - 1 /\ UNCHANGED <<sent, session, settled>>

\* Variant: a receiver that has lagged goes on with what the ring still has.
LaggedSkips(c) ==
    /\ conn' = [conn EXCEPT ![c].next = sent - Capacity]
    /\ UNCHANGED <<sent, count, session, settled>>

\* The receiver has lagged behind the ring: recv reports a closed channel,
\* which ends the loop.
Lagged(c) == Goto(c, "closing") /\ UNCHANGED <<sent, count, session, settled>>

\* The broadcast arm; a shutdown is sent on like every other message.
Receive(c) ==
    /\ conn[c].at = "select" /\ conn[c].next < sent
    /\ IF sent - conn[c].next > Capacity THEN Lagged(c)
       ELSE /\ conn' = [conn EXCEPT ![c].next = @ + 1, ![c].got = Append(@, conn[c].next + 1)]
            /\ UNCHANGED <<sent, count, session, settled>>

\* A text of the client: until its handler is done nothing else is received.
Text(c) ==
    /\ conn[c].at = "select" /\ conn[c].texts < MaxTexts
    /\ conn' = [conn EXCEPT ![c].at = "handling", ![c].texts = @ + 1]
    /\ UNCHANGED <<sent, count, session, settled>>

\* begin_session, commit_session and rollback_session, under the mutex: one
\* that fails leaves the session as it was, or has lost it (VfsSession).
BeginSession(s) ==
    session[s] = "none" /\ session' = [session EXCEPT ![s] = "open"] /\ UNCHANGED settled
Settle(s) ==
    /\ session[s] = "open"
    /\ session' = [session EXCEPT ![s] = "gone"]
    /\ settled' \in {settled, [settled EXCEPT ![s] = @ + 1]}
SessionAction == \E s \in SessionIds : BeginSession(s) \/ Settle(s)

\* Rows of a SELECT; any other statement is refused.
Query == UNCHANGED <<session, settled>>

\* Variant: a message that fails is not replied to.
ReplyToGoodOnly(c) ==
    conn[c].at = "handling" /\ Goto(c, "select") /\ SessionAction /\ UNCHANGED <<sent, count>>

\* The handler replies, whatever came of it: a task that was inserted, rows,
\* a session, or an error.
Reply(c) ==
    /\ conn[c].at = "handling"
    /\ Goto(c, "select")
    /\ SessionAction \/ Query
    /\ UNCHANGED <<sent, count>>

\* A binary message, a ping, a pong, or the ping of the timer
Chatter(c) == conn[c].at = "select" /\ UNCHANGED socketVars

\* The client has sent a close, or its stream has ended.
Leave(c) == conn[c].at = "select" /\ Goto(c, "closing") /\ UNCHANGED <<sent, count, session, settled>>

\* graceful_close, and a send that fails anywhere
Close(c) == conn[c].at = "closing" /\ Gone(c)
SendFails(c) == conn[c].at \in {"select", "handling"} /\ Gone(c)

\* create_session, delete_session and commit_session of the HTTP interface
HttpSession == SessionAction /\ UNCHANGED <<sent, conn, count>>

SocketsNext ==
    \/ Broadcast \/ HttpSession
    \/ \E c \in Clients : \/ Connect(c) \/ Receive(c) \/ Text(c) \/ Reply(c) \/ Chatter(c)
                          \/ Leave(c) \/ Close(c) \/ SendFails(c)

\* Messages of the client and broadcasts are served in random order by
\* select!, so neither waits for good; a handler and a close come to an end.
SocketsFairness ==
    \A c \in Clients : SF_socketVars(Receive(c)) /\ WF_socketVars(Reply(c)) /\ WF_socketVars(Close(c))

SocketsTypeOK ==
    /\ sent \in 0..MaxSent
    /\ conn \in [Clients -> ConnRow]
    /\ session \in [SessionIds -> {"none", "open", "gone"}]
    /\ settled \in [SessionIds -> Nat]
    /\ count = Cardinality(Receivers)

\* A session is committed or rolled back once, by whichever interface; the
\* calls that come later say that it is not there.
SettledOnce == \A s \in SessionIds : settled[s] <= IF session[s] = "gone" THEN 1 ELSE 0

\* What a client has received is every broadcast since it connected, up to
\* some point, in order and with none missing: a connection that cannot keep
\* up with the ring is ended and never skips (BroadcastReceiver::recv, run).
ReceivedInOrder ==
    \A c \in Clients :
        /\ conn[c].got = [i \in 1..Len(conn[c].got) |-> conn[c].since + i]
        /\ conn[c].next = conn[c].since + Len(conn[c].got)

\* Every broadcast sent while a client is connected reaches it, or its
\* connection ends (run, Broadcaster::broadcast).
Delivered ==
    \A c \in Clients, n \in 1..MaxSent :
        (c \in Receivers /\ conn[c].since < n /\ n <= sent)
            ~> (conn[c].next >= n \/ conn[c].at = "closed")
=============================================================================
