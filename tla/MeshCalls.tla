------------------------------ MODULE MeshCalls ------------------------------
(***************************************************************************)
(* Calls over the service mesh (host/mesh.rs, mesh/): a call finds its     *)
(* target among the components registered on its node, then on the node    *)
(* its target names, then among the plugins, which it runs by itself.  A   *)
(* component takes one message at a time from a bounded channel and may    *)
(* call others before it replies; the caller waits with no timeout.        *)
(*                                                                         *)
(* A target is a sequence of names, the string "node/component" split.     *)
(***************************************************************************)
EXTENDS Integers, Sequences, FiniteSets, SequencesExt

CONSTANTS
    Nodes,          \* kernels,
    Addresses,      \* where they may listen
    Instances,      \* components at work, registered at some time
    Serves,         \* instance -> the node and the name it is registered under
    Started,        \* the instances registered at the start
    Links,          \* the pairs of nodes of which the first may learn of the second
    Plugins,        \* names of the plugins every node has loaded
    Starts,         \* the calls made from outside: node, target, permission
    Mortal,         \* the instances that may end
    Rank,           \* name -> number: a layered system calls upwards only
    MaxCalls,       \* bound on the calls of a behaviour
    QueueSize,      \* of the channel of a component
    None

VARIABLES
    router,     \* mesh_router of a node: the instance behind a name
    known,      \* NodeRegistry of a node: the address of another,
    clients,    \* and the address its cached client goes to
    listens,    \* where a node listens
    comp,       \* instances: their channel and the message in hand
    call,
    layered     \* whether components keep to their rank

vars == <<router, known, clients, listens, comp, call, layered>>
network == <<router, known, clients, listens, layered>>

Calls == 1..MaxCalls
Names == {Serves[i][2] : i \in Instances} \cup Plugins
Row == [pc : {"idle", "routing", "sending", "waiting", "connecting", "requesting", "remote",
              "plugin", "done"},
        node : Nodes \cup {None}, target : Seq(Nodes \cup Names), parent : Calls \cup {None},
        may : BOOLEAN, to : Instances \cup Addresses \cup {None}]

\* A target names nodes, and in the end what is called there.
IsTarget(t) == t \in Seq(Nodes \cup Names) /\ t # <<>> /\ \A j \in 1..(Len(t) - 1) : t[j] \in Nodes

ASSUME MeshAssumption ==
    /\ MaxCalls \in Nat /\ None \notin Calls /\ Addresses # {}
    /\ \A i \in Instances : Serves[i][1] \in Nodes
    /\ Started \cup Mortal \subseteq Instances /\ Links \subseteq Nodes \X Nodes
    /\ \A start \in Starts : start.node \in Nodes /\ start.may \in BOOLEAN /\ IsTarget(start.target)

First == CHOOSE a \in Addresses : TRUE
Targets == {start.target : start \in Starts}
InFlight(k) == call[k].pc \notin {"idle", "done"}
Unused == [pc |-> "idle", node |-> None, target |-> <<>>, parent |-> None, may |-> FALSE, to |-> None]

Init ==
    /\ router = [n \in Nodes |-> [x \in Names |->
                    IF \E i \in Started : Serves[i] = <<n, x>>
                    THEN CHOOSE i \in Started : Serves[i] = <<n, x>> ELSE None]]
    /\ known = [n \in Nodes |-> [m \in Nodes |-> None]]
    /\ clients = known
    /\ listens \in [Nodes -> {First}]
    /\ comp = [i \in Instances |-> [alive |-> i \in Started, queue |-> <<>>, doing |-> None]]
    /\ call = [k \in Calls |-> Unused]
    /\ layered \in BOOLEAN

-----------------------------------------------------------------------------
(* What a call does *)

Set(k, row) == call' = [call EXCEPT ![k] = row]
Goto(k, pc, to) == Set(k, [call[k] EXCEPT !.pc = pc, !.to = to])
New(k) == call[k].pc = "idle" /\ \A j \in 1..(k - 1) : call[j].pc # "idle"
Begin(k, node, target, parent, may) ==
    New(k) /\ Set(k, [pc |-> "routing", node |-> node, target |-> target,
                      parent |-> parent, may |-> may, to |-> None])

\* The caller goes on, with a payload or an error: it depends on neither.
Done(parent) == [Unused EXCEPT !.pc = "done", !.parent = parent]
Returns(k) == Set(k, Done(call[k].parent))

\* The name a target has in the router of a node
Local(n, target) == IF Len(target) = 1 /\ target[1] \in Names THEN router[n][target[1]] ELSE None

\* A call looks for its target; no route at all is an error, as is a plugin
\* that is given a binary payload or bad JSON.
Route(k) ==
    LET target == call[k].target
        local == Local(call[k].node, target)
    IN  /\ call[k].pc = "routing"
        /\ \/ local # None /\ Goto(k, "sending", local)
           \/ local = None /\ Len(target) > 1 /\ Goto(k, "connecting", None)
           \/ local = None /\ target \in {<<p>> : p \in Plugins} /\ Goto(k, "plugin", None)
           \/ local = None /\ Len(target) = 1 /\ Returns(k)
        /\ UNCHANGED <<network, comp>>

\* Variant: a message for a component that has ended waits for it.
SendWaits(k) ==
    /\ call[k].pc = "sending" /\ comp[call[k].to].alive
    /\ Len(comp[call[k].to].queue) < QueueSize
    /\ comp' = [comp EXCEPT ![call[k].to].queue = Append(@, k)]
    /\ Goto(k, "waiting", call[k].to)
    /\ UNCHANGED network

\* Sender::send waits for room in the channel and fails when nobody receives.
Send(k) ==
    /\ call[k].pc = "sending"
    /\ LET i == call[k].to
       IN  \/ /\ ~comp[i].alive
              /\ Returns(k) /\ UNCHANGED comp
           \/ /\ comp[i].alive /\ Len(comp[i].queue) < QueueSize
              /\ comp' = [comp EXCEPT ![i].queue = Append(@, k)]
              /\ Goto(k, "waiting", i)
    /\ UNCHANGED network

\* connect_or_get takes the client it has, wherever the node listens now, and
\* otherwise connects to the address registered and keeps the client.
ConnectOrGet(k) ==
    LET n == call[k].node
        m == call[k].target[1]
        connected == clients[n][m]
        address == known[n][m]
    IN  /\ call[k].pc = "connecting"
        /\ \/ connected # None /\ Goto(k, "requesting", connected) /\ UNCHANGED clients
           \/ /\ connected = None /\ address # None /\ listens[m] = address
              /\ clients' = [clients EXCEPT ![n][m] = address]
              /\ Goto(k, "requesting", address)
           \/ connected = None /\ listens[m] # address /\ Returns(k) /\ UNCHANGED clients
        /\ UNCHANGED <<router, known, listens, layered, comp>>

\* MeshService::call makes the call on the node itself, for the kernel, which
\* holds no permission; what is left of the target may name a node again.
Request(k, child) ==
    /\ call[k].pc = "requesting" /\ listens[call[k].target[1]] = call[k].to
    /\ New(child)
    /\ call' = [call EXCEPT ![k].pc = "remote", ![k].to = None,
                            ![child] = [Unused EXCEPT !.pc = "routing", !.node = call[k].target[1],
                                        !.target = Tail(call[k].target), !.parent = k]]
    /\ UNCHANGED <<network, comp>>
RequestFails(k) ==
    /\ call[k].pc \in {"requesting", "remote"}
    /\ Returns(k)
    /\ UNCHANGED <<network, comp>>
Response(k, child) ==
    /\ call[k].pc = "remote" /\ call[child].parent = k /\ call[child].pc = "done"
    /\ Returns(k)
    /\ UNCHANGED <<network, comp>>

-----------------------------------------------------------------------------
(* Components and plugins *)

\* A handler that has called waits for the reply, its thread with it.
Blocked(k) == \E j \in Calls : call[j].parent = k /\ InFlight(j)

Takes(i) ==
    /\ comp[i].alive /\ comp[i].doing = None /\ comp[i].queue # <<>>
    /\ comp' = [comp EXCEPT ![i].doing = Head(comp[i].queue), ![i].queue = Tail(@)]
    /\ UNCHANGED <<network, call>>

Replies(i) ==
    /\ comp[i].doing # None /\ ~Blocked(comp[i].doing)
    /\ comp' = [comp EXCEPT ![i].doing = None]
    /\ Returns(comp[i].doing)
    /\ UNCHANGED network

\* run_agent: the plugin runs in the call itself, as its caller.
PluginEnds(k) ==
    /\ call[k].pc = "plugin" /\ ~Blocked(k)
    /\ Returns(k)
    /\ UNCHANGED <<network, comp>>

\* The host function service_mesh.call, of a component or a plugin at work on
\* a call: refused without the permission mesh:send.
Upwards(name, target) == layered => Rank[name] < Rank[Last(target)]
HostCall(k, parent, target) ==
    /\ ~Blocked(parent)
    /\ \/ \E i \in Instances :
             /\ comp[i].doing = parent /\ Upwards(Serves[i][2], target)
             /\ Begin(k, Serves[i][1], target, parent, TRUE)
       \/ /\ call[parent].pc = "plugin" /\ call[parent].may /\ Upwards(call[parent].target[1], target)
          /\ Begin(k, call[parent].node, target, parent, TRUE)
    /\ UNCHANGED <<network, comp>>

\* A call from outside, by a state with or without permissions
StartCall(k) ==
    /\ \E start \in Starts : Begin(k, start.node, start.target, None, start.may)
    /\ UNCHANGED <<network, comp>>

\* register_component: the name now leads to this instance; another one under
\* the same name goes on with what its channel holds.
Register(i) ==
    /\ ~comp[i].alive /\ \A n \in Nodes, x \in Names : router[n][x] # i
    /\ router' = [router EXCEPT ![Serves[i][1]][Serves[i][2]] = i]
    /\ comp' = [comp EXCEPT ![i].alive = TRUE]
    /\ UNCHANGED <<known, clients, listens, call, layered>>

Held(i) == Range(comp[i].queue) \cup ({comp[i].doing} \ {None})
MayEnd(i) == comp[i].alive /\ (comp[i].doing = None \/ ~Blocked(comp[i].doing))

\* Variant: the senders of the messages in the channel are not told.
DiesQuietly(i) ==
    /\ MayEnd(i)
    /\ comp' = [comp EXCEPT ![i] = [alive |-> FALSE, queue |-> <<>>, doing |-> None]]
    /\ call' = [k \in Calls |-> IF k = comp[i].doing
                                THEN Done(call[k].parent) ELSE call[k]]
    /\ UNCHANGED network

\* A component ends while it waits for nobody: the channel is dropped with
\* the messages it holds, and every sender of one of them gets an error.
Dies(i) ==
    /\ MayEnd(i)
    /\ comp' = [comp EXCEPT ![i] = [alive |-> FALSE, queue |-> <<>>, doing |-> None]]
    /\ call' = [k \in Calls |-> IF k \in Held(i)
                                THEN Done(call[k].parent) ELSE call[k]]
    /\ UNCHANGED network

\* register_remote_node, and a node that is moved, once
RegisterNode(n, m) ==
    /\ known' = [known EXCEPT ![n][m] = listens[m]]
    /\ UNCHANGED <<router, clients, listens, comp, call, layered>>
Moves(m, a) ==
    /\ listens[m] = First /\ a # First
    /\ listens' = [listens EXCEPT ![m] = a]
    /\ UNCHANGED <<router, known, clients, comp, call, layered>>

CallStep(k) == \/ Route(k) \/ Send(k) \/ ConnectOrGet(k) \/ PluginEnds(k)
               \/ \E child \in Calls : Request(k, child) \/ Response(k, child)
Next ==
    \/ \E k \in Calls : CallStep(k) \/ RequestFails(k) \/ StartCall(k)
    \/ \E k, parent \in Calls, target \in Targets : HostCall(k, parent, target)
    \/ \E i \in Instances : Takes(i) \/ Replies(i) \/ Register(i)
    \/ \E i \in Mortal : Dies(i)
    \/ \E link \in Links : \/ RegisterNode(link[1], link[2])
                         \/ \E a \in Addresses : Moves(link[2], a)

\* Tasks run, handlers end, and a request is sent or fails; one that has been
\* sent has no timeout and waits for the node, however long that takes.
Fairness == /\ \A k \in Calls :
                  WF_vars(CallStep(k)) /\ WF_vars(call[k].pc = "requesting" /\ RequestFails(k))
            /\ \A i \in Instances : WF_vars(Takes(i)) /\ WF_vars(Replies(i))
Spec == Init /\ [][Next]_vars /\ Fairness

-----------------------------------------------------------------------------
(* Properties *)

TypeOK ==
    /\ router \in [Nodes -> [Names -> Instances \cup {None}]]
    /\ {known, clients} \subseteq [Nodes -> [Nodes -> Addresses \cup {None}]]
    /\ listens \in [Nodes -> Addresses]
    /\ comp \in [Instances -> [alive : BOOLEAN, queue : Seq(Calls), doing : Calls \cup {None}]]
    /\ call \in [Calls -> Row]

\* A caller that waits for a reply has its message in one place, once: in the
\* channel of the instance it found, or in its hands; a channel that is gone,
\* or an instance registered anew, leaves nobody waiting (mesh_call).
WaitersHeld ==
    /\ TypeOK
    /\ \A k \in Calls : call[k].pc = "waiting" <=> \E i \in Instances : k \in Held(i)
    /\ \A i \in Instances : IsInjective(comp[i].queue) /\ comp[i].doing \notin Range(comp[i].queue)
    /\ \A k \in Calls, i \in Instances : k \in Held(i) => comp[i].alive /\ call[k].to = i

\* Where components call in one direction only, every call comes back, over
\* full channels, components that end and nodes that move; with a cycle of
\* calls they may all wait for each other (mesh_call has no timeout).
CallsReturn == \A k \in Calls : layered /\ InFlight(k) ~> ~InFlight(k)
=============================================================================
