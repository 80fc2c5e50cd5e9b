---------------------------- MODULE MdnsDiscovery ----------------------------
(***************************************************************************)
(* MdnsDiscoveryAgent and the DiscoveryService that owns it.  The main     *)
(* thread, the threads that bind the activities to their services and the  *)
(* pairing threads start and stop the discovery of an agent, without a     *)
(* lock, so their calls are modelled statement by statement.  Each start   *)
(* makes a discovery thread, and all of them share one resolver of the     *)
(* library jmDNS, which is opened and closed by a reference count.  The    *)
(* resolver calls one static listener, on a thread of its own, which       *)
(* passes the event on to the agents in a set.                             *)
(***************************************************************************)
EXTENDS Naturals, Sequences, FiniteSets

CONSTANTS
    Services,     \* how many instances of the service there are in turn
    Clients,      \* the threads that start and stop discovery
    Threads,      \* the discovery threads that can be there at a time
    Hosts,        \* the names under which machines announce themselves
    Keys(_),      \* the addresses by which the machine is kept in computers
    None,         \* no thread, no machine
    MaxCalls,     \* bound on the calls of startDiscovery() and stopDiscovery()
    MaxChanges    \* bound on how often a machine comes or goes

ASSUME HostsAssumption == \A h \in Hosts : Keys(h) # {}
ASSUME ThreadsAssumption == IsFiniteSet(Threads)
ASSUME BoundsAssumption ==
    /\ None \notin Threads \cup Hosts \cup Nat
    /\ Services \in Nat \ {0} /\ MaxCalls \in Nat /\ MaxChanges \in Nat

\* The agents, one of each instance.
Agents == 1 .. Services

VARIABLES
    service,             \* the number of the instance there is
    at,                  \* where in startDiscovery() or stopDiscovery() a client is,
    agent,               \* of which agent,
    starting,            \* and whether it is a start
    overlapped,          \* for the properties: the agents of which two such calls
                         \* have overlapped
    alive,               \* the process has not died of an exception
    discoveryThread,     \* the field of each agent
    computers,           \* the addresses in the map of each agent
    pendingResolution,   \* the names each agent could not resolve
    listeners,           \* the agents in the static set
    resolverRefCount,
    open,                \* is there a JmmDNS instance
    known,               \* the machines it knows of
    events,              \* the events it has not passed on
    dispatch,            \* the event passed on and the agents still to call
    pc,                  \* what each discovery thread does
    owner,               \* its agent
    using,               \* the threads whose resolver is that instance
    names,               \* its copy of pendingResolution
    resolved,            \* the machine it has just resolved
    interrupted,         \* its interrupt status
    present,             \* the machines on the network
    calls, changes

callVars     == <<at, agent, starting, overlapped, alive>>
agentVars    == <<service, discoveryThread, listeners, calls, callVars>>
foundVars    == <<computers, pendingResolution>>
resolverVars == <<resolverRefCount, open, known, events>>
threadVars   == <<pc, owner, using, names, resolved, interrupted>>
networkVars  == <<present, changes>>
vars == <<agentVars, foundVars, resolverVars, dispatch, threadVars, networkVars>>

NoDispatch == [kind |-> "none", host |-> None, to |-> {}]

TypeOK ==
    /\ service \in Agents
    /\ at \in [Clients -> {"idle", "test", "interrupt", "forget", "add", "assign", "name",
                           "start"}]
    /\ agent \in [Clients -> Agents \cup {None}]
    /\ starting \subseteq Clients
    /\ overlapped \subseteq Agents
    /\ alive \in BOOLEAN
    /\ discoveryThread \in [Agents -> Threads \cup {None}]
    /\ computers \in [Agents -> SUBSET UNION {Keys(h) : h \in Hosts}]
    /\ pendingResolution \in [Agents -> SUBSET Hosts]
    /\ listeners \subseteq Agents
    /\ resolverRefCount \in 0 .. Cardinality(Threads)
    /\ open \in BOOLEAN
    /\ known \subseteq Hosts
    /\ events \in Seq({"added", "removed"} \X Hosts)
    /\ dispatch \in [kind : {"none", "added", "removed"}, host : Hosts \cup {None},
                    to : SUBSET Agents]
    /\ dispatch.kind # "none" => dispatch.host # None
    /\ pc \in [Threads -> {"none", "new", "start", "request", "retry", "handle", "sleep",
                           "dereference"}]
    /\ owner \in [Threads -> Agents \cup {None}]
    /\ using \subseteq Threads
    /\ names \in [Threads -> SUBSET Hosts]
    /\ resolved \in [Threads -> Hosts \cup {None}]
    /\ interrupted \in [Threads -> BOOLEAN]
    /\ present \subseteq Hosts
    /\ calls \in 0 .. MaxCalls /\ changes \in 0 .. MaxChanges

Init ==
    /\ service = 1
    /\ at = [c \in Clients |-> "idle"]
    /\ agent = [c \in Clients |-> None]
    /\ starting = {}
    /\ overlapped = {}
    /\ alive = TRUE
    /\ discoveryThread = [a \in Agents |-> None]
    /\ computers = [a \in Agents |-> {}]
    /\ pendingResolution = [a \in Agents |-> {}]
    /\ listeners = {}
    /\ resolverRefCount = 0
    /\ open = FALSE
    /\ known = {}
    /\ events = <<>>
    /\ dispatch = NoDispatch
    /\ pc = [t \in Threads |-> "none"]
    /\ owner = [t \in Threads |-> None]
    /\ using = {}
    /\ names = [t \in Threads |-> {}]
    /\ resolved = [t \in Threads |-> None]
    /\ interrupted = [t \in Threads |-> FALSE]
    /\ present \in SUBSET Hosts
    /\ calls = 0
    /\ changes = 0

Goto(t, label) == pc' = [pc EXCEPT ![t] = label]

-----------------------------------------------------------------------------
(***************************************************************************)
(* startDiscovery() and stopDiscovery(), on any client's thread.  A read   *)
(* of the field discoveryThread and the call on what it holds are one      *)
(* step.                                                                   *)
(***************************************************************************)

\* Client c goes on with its call, or returns from it.
GoesOn(c, label) == at' = [at EXCEPT ![c] = label] /\ UNCHANGED <<agent, starting>>

Returns(c) ==
    /\ at' = [at EXCEPT ![c] = "idle"]
    /\ agent' = [agent EXCEPT ![c] = None]
    /\ starting' = starting \ {c}

\* A null pointer or an IllegalThreadStateException that nobody catches.
Dies(c) == alive' = FALSE /\ Returns(c)

\* What the field of c's agent holds.
Field(c) == discoveryThread[agent[c]]

\* A thread that was never started and that no field names any more is garbage.
Forsaken == {t \in Threads : pc[t] = "new" /\ \A a \in Agents : discoveryThread'[a] # t}

Without(f, v) == [t \in Threads |-> IF t \in Forsaken THEN v ELSE f[t]]

\* The call begins: stopDiscovery(), with which startDiscovery() begins as well,
\* takes the listener from the set.
Begin(c, a) ==
    /\ at[c] = "idle" /\ calls < MaxCalls
    /\ calls' = calls + 1
    /\ at' = [at EXCEPT ![c] = "test"]
    /\ agent' = [agent EXCEPT ![c] = a]
    /\ listeners' = listeners \ {a}
    /\ overlapped' = IF \E d \in Clients : agent[d] = a THEN overlapped \cup {a}
                     ELSE overlapped
    /\ UNCHANGED <<alive, discoveryThread, foundVars, resolverVars, dispatch, threadVars,
                   networkVars>>

\* A client may have kept the binder of a service that is gone.
StartDiscovery(c, a) ==
    /\ a <= service
    /\ Begin(c, a)
    /\ starting' = starting \cup {c}
    /\ UNCHANGED service

StopDiscovery(c, a) ==
    /\ a <= service
    /\ Begin(c, a)
    /\ UNCHANGED <<service, starting>>

\* The service is unbound and destroyed, and bound again.
OnUnbind(c) ==
    /\ service < Services
    /\ Begin(c, service)
    /\ service' = service + 1
    /\ UNCHANGED starting

StopEnds(c) == IF c \in starting THEN GoesOn(c, "add") ELSE Returns(c)

\* "If there's already a running thread, interrupt it" (:347):
TestThread(c) ==
    /\ at[c] = "test"
    /\ IF Field(c) = None THEN StopEnds(c) ELSE GoesOn(c, "interrupt")
    /\ UNCHANGED <<service, discoveryThread, listeners, calls, overlapped, alive, foundVars,
                   resolverVars, dispatch, threadVars, networkVars>>

\* or, as it would be if the interrupt was left out, go on to forget it,
ForgetOnly(c) ==
    /\ at[c] = "interrupt"
    /\ GoesOn(c, "forget")
    /\ UNCHANGED <<service, discoveryThread, listeners, calls, overlapped, alive, foundVars,
                   resolverVars, dispatch, threadVars, networkVars>>

\* interrupt() does nothing to a thread that is not started yet, or has ended;
InterruptThread(c) ==
    /\ at[c] = "interrupt"
    /\ IF Field(c) = None THEN Dies(c) /\ UNCHANGED interrupted
       ELSE /\ interrupted' = [interrupted EXCEPT ![Field(c)] =
                                  @ \/ pc[Field(c)] \notin {"none", "new"}]
            /\ GoesOn(c, "forget") /\ UNCHANGED alive
    /\ UNCHANGED <<service, discoveryThread, listeners, calls, overlapped, foundVars,
                   resolverVars, dispatch, pc, owner, using, names, resolved, networkVars>>

\* and then forget it.
ForgetThread(c) ==
    /\ at[c] = "forget"
    /\ discoveryThread' = [discoveryThread EXCEPT ![agent[c]] = None]
    /\ pc' = Without(pc, "none")
    /\ owner' = Without(owner, None)
    /\ StopEnds(c)
    /\ UNCHANGED <<service, listeners, calls, overlapped, alive, foundVars, resolverVars,
                   dispatch, using, names, resolved, interrupted, networkVars>>

\* startDiscovery() goes on: the listener first,
AddListener(c) ==
    /\ at[c] = "add"
    /\ listeners' = listeners \cup {agent[c]}
    /\ GoesOn(c, "assign")
    /\ UNCHANGED <<service, discoveryThread, calls, overlapped, alive, foundVars, resolverVars,
                   dispatch, threadVars, networkVars>>

\* then the field,
AssignThread(c) ==
    /\ at[c] = "assign"
    /\ \E t \in Threads :
          /\ pc[t] = "none" /\ \A a \in Agents : discoveryThread[a] # t
          /\ discoveryThread' = [discoveryThread EXCEPT ![agent[c]] = t]
          /\ pc' = [Without(pc, "none") EXCEPT ![t] = "new"]
          /\ owner' = [Without(owner, None) EXCEPT ![t] = agent[c]]
    /\ GoesOn(c, "name")
    /\ UNCHANGED <<service, listeners, calls, overlapped, alive, foundVars, resolverVars,
                   dispatch, using, names, resolved, interrupted, networkVars>>

\* setName(), and start() of what the field holds by then.
NameThread(c) ==
    /\ at[c] = "name"
    /\ IF Field(c) = None THEN Dies(c) ELSE GoesOn(c, "start") /\ UNCHANGED alive
    /\ UNCHANGED <<service, discoveryThread, listeners, calls, overlapped, foundVars,
                   resolverVars, dispatch, threadVars, networkVars>>

StartThread(c) ==
    /\ at[c] = "start"
    /\ IF Field(c) # None /\ pc[Field(c)] = "new"
       THEN Goto(Field(c), "start") /\ Returns(c) /\ UNCHANGED alive
       ELSE Dies(c) /\ UNCHANGED pc
    /\ UNCHANGED <<service, discoveryThread, listeners, calls, overlapped, foundVars,
                   resolverVars, dispatch, owner, using, names, resolved, interrupted,
                   networkVars>>

-----------------------------------------------------------------------------
(***************************************************************************)
(* The machines and the resolver, which is external.                       *)
(***************************************************************************)

ComeOrGo(h) ==
    /\ changes < MaxChanges
    /\ present' = IF h \in present THEN present \ {h} ELSE present \cup {h}
    /\ changes' = changes + 1
    /\ UNCHANGED <<agentVars, foundVars, resolverVars, dispatch, threadVars>>

\* An answer or a good-bye is received, and the static listener is to be called.
Announce(h) ==
    /\ open
    /\ \/ /\ h \in present \ known
          /\ known' = known \cup {h}
          /\ events' = Append(events, <<"added", h>>)
       \/ /\ h \in known \ present
          /\ known' = known \ {h}
          /\ events' = Append(events, <<"removed", h>>)
    /\ UNCHANGED <<agentVars, foundVars, resolverRefCount, open, dispatch, threadVars,
                   networkVars>>

\* The static listener: "Copy the listener set into a new set".
Dispatch ==
    /\ events # <<>> /\ dispatch = NoDispatch
    /\ dispatch' = IF listeners = {} THEN NoDispatch
                   ELSE [kind |-> Head(events)[1], host |-> Head(events)[2], to |-> listeners]
    /\ events' = Tail(events)
    /\ UNCHANGED <<agentVars, foundVars, resolverRefCount, open, known, threadVars,
                   networkVars>>

Called(a) ==
    dispatch' = IF dispatch.to = {a} THEN NoDispatch
                ELSE [dispatch EXCEPT !.to = @ \ {a}]

\* The same as it would be if the name stayed in the set.
KeepPending(a, h) ==
    /\ UNCHANGED pendingResolution
    /\ computers' = [computers EXCEPT ![a] = @ \cup Keys(h)]

\* handleResolvedServiceInfo(): a computer for each address.
HandleResolved(a, h) ==
    /\ pendingResolution' = [pendingResolution EXCEPT ![a] = @ \ {h}]
    /\ computers' = [computers EXCEPT ![a] = @ \cup Keys(h)]

\* serviceAdded(): a machine that does not resolve within 500 ms is pending.
ServiceAdded(a) ==
    /\ dispatch.kind = "added" /\ a \in dispatch.to
    /\ \/ dispatch.host \in known /\ HandleResolved(a, dispatch.host)
       \/ /\ pendingResolution' = [pendingResolution EXCEPT ![a] = @ \cup {dispatch.host}]
          /\ UNCHANGED computers
    /\ Called(a)
    /\ UNCHANGED <<agentVars, resolverVars, threadVars, networkVars>>

\* serviceRemoved() removes one address of the machine, and leaves
\* pendingResolution alone.
ServiceRemoved(a) ==
    /\ dispatch.kind = "removed" /\ a \in dispatch.to
    /\ LET there == computers[a] \cap Keys(dispatch.host) IN
          \/ there = {} /\ UNCHANGED computers
          \/ \E k \in there : computers' = [computers EXCEPT ![a] = @ \ {k}]
    /\ Called(a)
    /\ UNCHANGED <<agentVars, pendingResolution, resolverVars, threadVars, networkVars>>

-----------------------------------------------------------------------------
(***************************************************************************)
(* A discovery thread.                                                     *)
(***************************************************************************)

\* referenceResolver(): the first reference opens a resolver and registers the
\* static listener with it.
ReferenceResolver(t) ==
    /\ pc[t] = "start"
    /\ resolverRefCount' = resolverRefCount + 1
    /\ open' = TRUE
    /\ using' = using \cup {t}
    /\ Goto(t, "request")
    /\ UNCHANGED <<agentVars, foundVars, known, events, dispatch, owner, names, resolved,
                   interrupted, networkVars>>

\* "while (!Thread.interrupted())": a request, and the pending names.
Request(t) ==
    /\ pc[t] = "request"
    /\ IF interrupted[t]
       THEN /\ Goto(t, "dereference")
            /\ UNCHANGED names
       ELSE /\ Goto(t, "retry")
            /\ names' = [names EXCEPT ![t] = pendingResolution[owner[t]]]
    /\ interrupted' = [interrupted EXCEPT ![t] = FALSE]
    /\ UNCHANGED <<agentVars, foundVars, resolverVars, dispatch, owner, using, resolved,
                   networkVars>>

\* getServiceInfos() of a pending name answers, or does not within 500 ms.
Retry(t) ==
    /\ pc[t] = "retry"
    /\ \E h \in names[t] :
          /\ names' = [names EXCEPT ![t] = @ \ {h}]
          /\ \/ /\ h \in known
                /\ resolved' = [resolved EXCEPT ![t] = h]
                /\ Goto(t, "handle")
             \/ UNCHANGED <<pc, resolved>>
    /\ UNCHANGED <<agentVars, foundVars, resolverVars, dispatch, owner, using, interrupted,
                   networkVars>>

HandleRetried(t) ==
    /\ pc[t] = "handle"
    /\ HandleResolved(owner[t], resolved[t])
    /\ resolved' = [resolved EXCEPT ![t] = None]
    /\ Goto(t, "retry")
    /\ UNCHANGED <<agentVars, resolverVars, dispatch, owner, using, names, interrupted,
                   networkVars>>

RetriesEnd(t) ==
    /\ pc[t] = "retry" /\ names[t] = {}
    /\ Goto(t, "sleep")
    /\ UNCHANGED <<agentVars, foundVars, resolverVars, dispatch, owner, using, names,
                   resolved, interrupted, networkVars>>

\* The same as it would be if InterruptedException did not break the loop.
SleepOn(t) ==
    /\ pc[t] = "sleep"
    /\ Goto(t, "request")
    /\ interrupted' = [interrupted EXCEPT ![t] = FALSE]
    /\ UNCHANGED <<agentVars, foundVars, resolverVars, dispatch, owner, using, names,
                   resolved, networkVars>>

\* The sleep ends by itself or, at once, with InterruptedException.
Sleep(t) ==
    /\ pc[t] = "sleep"
    /\ Goto(t, IF interrupted[t] THEN "dereference" ELSE "request")
    /\ interrupted' = [interrupted EXCEPT ![t] = FALSE]
    /\ UNCHANGED <<agentVars, foundVars, resolverVars, dispatch, owner, using, names,
                   resolved, networkVars>>

\* The same as it would be if each thread closed the resolver.
CloseResolver(t) ==
    /\ pc[t] = "dereference"
    /\ resolverRefCount' = resolverRefCount - 1
    /\ open' = FALSE
    /\ using' = {}
    /\ known' = {} /\ events' = <<>>
    /\ Goto(t, "none")
    /\ owner' = [owner EXCEPT ![t] = None]
    /\ interrupted' = [interrupted EXCEPT ![t] = FALSE]
    /\ UNCHANGED <<agentVars, foundVars, dispatch, names, resolved, networkVars>>

\* dereferenceResolver(), and the thread ends.
DereferenceResolver(t) ==
    /\ pc[t] = "dereference"
    /\ resolverRefCount' = resolverRefCount - 1
    /\ IF resolverRefCount' = 0
       THEN /\ open' = FALSE
            /\ using' = {}
            /\ known' = {} /\ events' = <<>>
       ELSE /\ using' = using \ {t}
            /\ UNCHANGED <<open, known, events>>
    /\ Goto(t, "none")
    /\ owner' = [owner EXCEPT ![t] = None]
    /\ interrupted' = [interrupted EXCEPT ![t] = FALSE]
    /\ UNCHANGED <<agentVars, foundVars, dispatch, names, resolved, networkVars>>

-----------------------------------------------------------------------------
Loop(t) ==
    \/ ReferenceResolver(t) \/ Request(t) \/ Retry(t) \/ HandleRetried(t)
    \/ RetriesEnd(t) \/ Sleep(t) \/ DereferenceResolver(t)

Resolver ==
    \/ Dispatch
    \/ \E h \in Hosts : Announce(h)
    \/ \E a \in Agents : ServiceAdded(a) \/ ServiceRemoved(a)

Call(c) ==
    \/ TestThread(c) \/ InterruptThread(c) \/ ForgetThread(c) \/ AddListener(c)
    \/ AssignThread(c) \/ NameThread(c) \/ StartThread(c)

Next ==
    /\ alive
    /\ \/ \E c \in Clients : Call(c) \/ OnUnbind(c)
       \/ \E c \in Clients, a \in Agents : StartDiscovery(c, a) \/ StopDiscovery(c, a)
       \/ \E h \in Hosts : ComeOrGo(h)
       \/ \E t \in Threads : Loop(t)
       \/ Resolver

\* Threads are scheduled while there is the process, a query that is repeated is
\* answered in the end, and so is the resolution of a name that is tried for ever.
Resolves(t) == Retry(t) /\ pc'[t] = "handle"
Fairness ==
    /\ \A c \in Clients : WF_vars(alive /\ Call(c))
    /\ \A t \in Threads : WF_vars(alive /\ Loop(t)) /\ SF_vars(alive /\ Resolves(t))
    /\ WF_vars(alive /\ Resolver)

Spec == Init /\ [][Next]_vars /\ Fairness

-----------------------------------------------------------------------------
(***************************************************************************)
(* Correctness.                                                            *)
(***************************************************************************)

UsingResolver == {"request", "retry", "handle", "sleep", "dereference"}

\* The resolver is shared: however starts and stops overlap, each thread between
\* its reference and its dereference works with the one that is open, and it is
\* open only while there is such a thread.
SharedResolverIsOpen ==
    /\ TypeOK
    /\ resolverRefCount = Cardinality({t \in Threads : pc[t] \in UsingResolver})
    /\ open <=> resolverRefCount > 0
    /\ \A t \in Threads : pc[t] \in UsingResolver <=> t \in using

\* A client has interrupted the agent's thread and not forgotten it yet.
Forgetting(a) == \E c \in Clients : agent[c] = a /\ at[c] = "forget"

\* While the calls on an agent do not overlap, an agent that was started and not
\* stopped has one thread that is not told to stop, whatever threads of it are still
\* about to end; the others are told, and no call throws.
OneThreadGoesOn ==
    /\ \A t \in Threads :
          pc[t] \notin {"none", "new", "dereference"} /\ owner[t] \notin overlapped =>
              (interrupted[t] <=>
                  discoveryThread[owner[t]] # t \/ Forgetting(owner[t]))
    /\ overlapped = {} => alive

\* "Kill any existing discovery before starting a new one" (:287): an agent has one
\* thread at a time that was not told to stop.  The code does not keep this: a
\* binding worker's startDiscovery() and the main thread's can both find no thread,
\* and an interrupt between the assignment of the field and the start is lost.
OneAtATime ==
    \A t, u \in Threads :
        /\ pc[t] \in UsingResolver \ {"dereference"} /\ ~interrupted[t]
        /\ pc[u] \in UsingResolver \ {"dereference"} /\ ~interrupted[u]
        /\ owner[t] = owner[u]
        => t = u

\* A thread that was stopped ends, so that the sockets of the resolver are closed
\* when nobody discovers any more, if no calls overlapped.
StoppedCloses ==
    (<>[](\A a \in Agents : discoveryThread[a] = None /\ a \notin overlapped)) => <>[](~open)

\* "Run service resolution again for pending machines" (:307): a machine that
\* could not be resolved and stays known is found while discovery goes on.
PendingIsResolved ==
    \A a \in Agents : \A h \in Hosts :
        h \in pendingResolution[a] ~>
            \/ h \notin pendingResolution[a]
            \/ h \notin known
            \/ discoveryThread[a] = None
            \/ ~alive
=============================================================================
