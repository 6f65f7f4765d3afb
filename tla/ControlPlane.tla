---------------------------- MODULE ControlPlane ----------------------------
(***************************************************************************)
(* The kernel's interfaces to its clients: the HTTP handlers of branches   *)
(* (KernelBranches), the WebSocket connections (WsConnections), and the    *)
(* terminal client at the other end of one (TuiClient).  They share no     *)
(* variable, as a message is its number in each, so every behaviour of all *)
(* together is one of each: a behaviour here is about one of them.         *)
(***************************************************************************)
EXTENDS KernelBranches, WsConnections, TuiClient

VARIABLE about

vars == <<about, branchVars, socketVars, tuiVars>>

Init == /\ BranchesInit /\ SocketsInit /\ TuiInit
        /\ about \in {"branches", "sockets", "terminal"}

Next ==
    \/ about = "branches" /\ BranchesNext /\ UNCHANGED <<about, socketVars, tuiVars>>
    \/ about = "sockets" /\ SocketsNext /\ UNCHANGED <<about, branchVars, tuiVars>>
    \/ about = "terminal" /\ TuiNext /\ UNCHANGED <<about, branchVars, socketVars>>

Spec == Init /\ [][Next]_vars /\ SocketsFairness

\* Whatever clients ask at the same time, a branch is executed or aborted
\* once, and a session committed or rolled back once (the locks of
\* BranchStorage and of the session manager).
OneOutcome == BranchesTypeOK /\ SocketsTypeOK /\ TuiTypeOK /\ EndedOnce /\ SettledOnce

\* A client gets the broadcasts since it connected in order and with none
\* missing, and the terminal shows them so (BroadcastReceiver::recv, run,
\* Network::connect, run_app).
NoGaps == ReceivedInOrder /\ ShownInOrder
=============================================================================
