------------------------------ MODULE TuiClient ------------------------------
(***************************************************************************)
(* The terminal client (brio-tui): a task that holds the WebSocket, and    *)
(* the loop of the interface, with a bounded channel each way.  The loop   *)
(* waits for room when it sends a line that was typed, and the task waits  *)
(* for room when it reports what it has read.                              *)
(*                                                                         *)
(* Messages of the kernel are numbered, and so are the lines typed.        *)
(***************************************************************************)
EXTENDS Integers, Sequences, FiniteSets

CONSTANTS
    ChannelSize,    \* of both channels
    MaxRead,        \* bound on the messages of the kernel
    MaxTyped        \* bound on the lines typed

ASSUME ChannelAssumption == ChannelSize \in Nat \ {0} /\ MaxRead \in Nat /\ MaxTyped \in Nat

VARIABLES
    ui,         \* the loop: where it is, what it shows, its connection status
    typed,      \* lines entered so far
    net,        \* the task: where it is, and the event it has to report
    read,       \* messages read so far
    events, outgoing,   \* the channels
    written     \* lines written to the socket

tuiVars == <<ui, typed, net, read, events, outgoing, written>>

Nothing == [kind |-> "none", last |-> FALSE]

NewUi == [at |-> "poll", shown |-> <<>>, status |-> "Connecting"]
NewNet == [at |-> "connecting", event |-> Nothing]

TuiInit ==
    /\ ui = NewUi /\ net = NewNet
    /\ typed = 0 /\ read = 0
    /\ events = <<>> /\ outgoing = <<>> /\ written = <<>>

UiAt(at) == ui' = [ui EXCEPT !.at = at]

-----------------------------------------------------------------------------
(* The loop of the interface *)

\* A line is entered, or no key of any effect is pressed for a while.
Enter ==
    /\ ui.at = "poll" /\ typed < MaxTyped
    /\ UiAt("sending") /\ typed' = typed + 1
    /\ UNCHANGED <<net, read, events, outgoing, written>>
NoKey == ui.at = "poll" /\ UiAt("draining") /\ UNCHANGED <<typed, net, read, events, outgoing, written>>

\* With the task gone the line is lost, and the interface does not say so.
Enqueue ==
    /\ ui.at = "sending"
    /\ IF net.at = "over" THEN UNCHANGED outgoing
       ELSE Len(outgoing) < ChannelSize /\ outgoing' = Append(outgoing, typed)
    /\ UiAt("draining")
    /\ UNCHANGED <<typed, net, read, events, written>>

\* Every event in the channel is handled before the next key.
StatusAfter(kind) == CASE kind = "established" -> "Connected"
                       [] kind = "error" -> "Error"
                       [] kind = "closed" -> "Disconnected"
                       [] OTHER -> ui.status
HandleEvent ==
    /\ ui.at = "draining" /\ events # <<>>
    /\ LET event == Head(events)
       IN  ui' = [ui EXCEPT !.status = StatusAfter(event.kind),
                            !.shown = IF event.kind = "text" THEN Append(@, event.text) ELSE @]
    /\ events' = Tail(events)
    /\ UNCHANGED <<typed, net, read, outgoing, written>>
Drained == ui.at = "draining" /\ events = <<>> /\ UiAt("poll")
           /\ UNCHANGED <<typed, net, read, events, outgoing, written>>

\* The q key, and a user who closes the terminal: the task ends as well.
Leaves == UiAt("gone") /\ net' = [at |-> "over", event |-> Nothing]
          /\ UNCHANGED <<typed, read, events, outgoing, written>>
Quit == ui.at = "poll" /\ Leaves
Kill == ui.at # "gone" /\ Leaves
StartAgain ==
    /\ ui.at = "gone" /\ ui' = NewUi /\ net' = NewNet
    /\ typed' = 0 /\ read' = 0
    /\ events' = <<>> /\ outgoing' = <<>> /\ written' = <<>>

-----------------------------------------------------------------------------
(* The task with the socket *)

Reports(event) == net' = [at |-> "report", event |-> event]
Event(kind, last) == [kind |-> kind, last |-> last]

ConnectAsync ==
    /\ net.at = "connecting"
    /\ Reports(Event("established", FALSE)) \/ Reports(Event("error", TRUE))
    /\ UNCHANGED <<ui, typed, read, events, outgoing, written>>

ReadText ==
    /\ net.at = "select" /\ read < MaxRead
    /\ read' = read + 1
    /\ Reports([kind |-> "text", last |-> FALSE, text |-> read + 1])
    /\ UNCHANGED <<ui, typed, events, outgoing, written>>
ReadEnds ==
    /\ net.at = "select"
    /\ \E kind \in {"closed", "error"} : Reports(Event(kind, TRUE))
    /\ UNCHANGED <<ui, typed, read, events, outgoing, written>>

WriteLine ==
    /\ net.at = "select" /\ outgoing # <<>>
    /\ outgoing' = Tail(outgoing)
    /\ \/ written' = Append(written, Head(outgoing)) /\ UNCHANGED net
       \/ Reports(Event("error", TRUE)) /\ UNCHANGED written
    /\ UNCHANGED <<ui, typed, read, events>>

\* After a last event the task returns, and its end of the other channel goes.
Report ==
    /\ net.at = "report" /\ Len(events) < ChannelSize
    /\ events' = Append(events, net.event)
    /\ net' = [at |-> IF net.event.last THEN "over" ELSE "select", event |-> Nothing]
    /\ outgoing' = IF net.event.last THEN <<>> ELSE outgoing
    /\ UNCHANGED <<ui, typed, read, written>>

TuiNext ==
    \/ Enter \/ NoKey \/ Enqueue \/ HandleEvent \/ Drained \/ Quit \/ Kill \/ StartAgain
    \/ ConnectAsync \/ ReadText \/ ReadEnds \/ WriteLine \/ Report

-----------------------------------------------------------------------------

TuiTypeOK ==
    /\ ui.at \in {"poll", "sending", "draining", "gone"}
    /\ ui.status \in {"Connecting", "Connected", "Error", "Disconnected"}
    /\ net.at \in {"connecting", "select", "report", "over"}
    /\ Len(events) <= ChannelSize /\ Len(outgoing) <= ChannelSize

UpTo(n) == [i \in 1..n |-> i]
Pending == events \o IF net.at = "report" THEN <<net.event>> ELSE <<>>
\* The numbers of the messages among the events, in their order.
Texts(es) ==
    LET at == {i \in 1..Len(es) : es[i].kind = "text"}
        Nth(k) == CHOOSE i \in at : Cardinality({j \in at : j <= i}) = k
    IN  [k \in 1..Cardinality(at) |-> es[Nth(k)].text]

\* As long as the client runs, what the kernel has sent is shown, or on its way to
\* be shown, in order and with nothing missing; lines are written in the order
\* they were typed, none is lost while the connection stands, and once all is
\* handled the status is that of the connection (Network::connect, run_app:
\* also when both channels are full and each side waits for the other).
ShownInOrder ==
    ui.at # "gone" =>
        /\ ui.shown \o Texts(Pending) = UpTo(read)
        /\ written = UpTo(Len(written))
        /\ net.at \in {"connecting", "select"} =>
              written \o outgoing \o (IF ui.at = "sending" THEN <<typed>> ELSE <<>>) = UpTo(typed)
        /\ Pending = <<>> => (ui.status = "Connected" <=> net.at = "select")
=============================================================================
