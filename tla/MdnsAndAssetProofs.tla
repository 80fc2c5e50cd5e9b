--------------------------- MODULE MdnsAndAssetProofs --------------------------
(***************************************************************************)
(* The two components that work behind the lists of the screens, each for  *)
(* itself.  MdnsDiscovery for any agents, machines, clients and finite set *)
(* of threads: the reference count of the shared resolver balances however *)
(* the clients' calls overlap, and the interrupts while they do not.       *)
(* AppAssetLoader for any views, applications, tasks, workers and length  *)
(* of the queues: a view shows and awaits its own art.                     *)
(***************************************************************************)
EXTENDS MdnsDiscovery, AppAssetLoader, FiniteSetTheorems, TLAPS

\* The threads between their reference and their dereference.
Used == {t \in Threads : pc[t] \in UsingResolver}

\* How a thread, its agent and its interrupt status belong together.
ThreadInv == \A t \in Threads :
    /\ pc[t] = "none" <=> owner[t] = None
    /\ pc[t] = "new" => discoveryThread[owner[t]] = t
    /\ pc[t] \in {"none", "new"} => ~interrupted[t]
    /\ pc[t] = "handle" => resolved[t] \in Hosts

\* A field names a thread of its agent, or one that has ended.
FieldInv == \A a \in Agents :
    discoveryThread[a] # None => owner[discoveryThread[a]] \in {a, None}

\* What a client is in the middle of.  If calls on an agent do not overlap, the field
\* is as the client left it.
Alone(c) == agent[c] # None /\ agent[c] \notin overlapped

CallInv ==
    /\ \A c \in Clients : at[c] = "idle" <=> agent[c] = None
    /\ \A c, d \in Clients : Alone(c) /\ agent[d] = agent[c] => d = c
    /\ \A c \in Clients : Alone(c) =>
          /\ at[c] \in {"interrupt", "forget", "name", "start"} => Field(c) # None
          /\ at[c] \in {"add", "assign"} => Field(c) = None
    /\ overlapped = {} => alive

\* The thread that an agent knows is new only until the client that made it has
\* started it, and has not left its loop.
Starting(a) == \E c \in Clients : agent[c] = a /\ at[c] \in {"name", "start"}

AgentInv == \A a \in Agents \ overlapped :
    discoveryThread[a] # None /\ ~Forgetting(a) =>
        /\ pc[discoveryThread[a]] \notin {"none", "dereference"}
        /\ pc[discoveryThread[a]] = "new" <=> Starting(a)

\* Of the threads of an agent, those that are told to stop.
ToldInv == \A t \in Threads :
    pc[t] \notin {"none", "new", "dereference"} /\ owner[t] \notin overlapped =>
        (interrupted[t] <=> discoveryThread[owner[t]] # t \/ Forgetting(owner[t]))

ThreadsInv == ThreadInv /\ FieldInv /\ CallInv /\ AgentInv /\ ToldInv

IInv == SharedResolverIsOpen /\ ThreadsInv

\* What the reference count depends on is left alone.
ResolverQuiet ==
    /\ Used' = Used
    /\ UNCHANGED <<resolverRefCount, open, using>>

\* What ties threads and agents is left alone.
ThreadsQuiet == UNCHANGED <<discoveryThread, owner, pc, interrupted, resolved, callVars>>

USE HostsAssumption, ThreadsAssumption, BoundsAssumption

-----------------------------------------------------------------------------
(***************************************************************************)
(* Type correctness.                                                       *)
(***************************************************************************)

\* Before the first discovery every variable has its type.
LEMMA InitTypeOK == Init => TypeOK
<1> SUFFICES ASSUME Init PROVE TypeOK
  OBVIOUS
<1>1. 0 <= Cardinality(Threads) /\ Cardinality(Threads) \in Nat
  BY FS_CardinalityType
<1>2. NoDispatch \in [kind : {"none", "added", "removed"}, host : Hosts \cup {None},
                      to : SUBSET Agents]
  BY DEF NoDispatch
<1>3. service \in Agents
  BY DEF Init, Agents
<1>4. /\ computers \in [Agents -> SUBSET UNION {Keys(h) : h \in Hosts}]
      /\ pendingResolution \in [Agents -> SUBSET Hosts]
      /\ discoveryThread \in [Agents -> Threads \cup {None}]
  BY DEF Init
<1>5. events \in Seq({"added", "removed"} \X Hosts)
  BY DEF Init
<1>6. /\ resolverRefCount \in 0 .. Cardinality(Threads)
      /\ calls \in 0 .. MaxCalls /\ changes \in 0 .. MaxChanges
  BY <1>1 DEF Init
<1> QED
  BY <1>2, <1>3, <1>4, <1>5, <1>6 DEF Init, TypeOK, NoDispatch

\* What an agent is called for keeps the dispatch in its type.
LEMMA CalledType ==
    ASSUME TypeOK, NEW a \in Agents, Called(a)
    PROVE  /\ dispatch' \in [kind : {"none", "added", "removed"}, host : Hosts \cup {None},
                             to : SUBSET Agents]
           /\ dispatch'.kind # "none" => dispatch'.host # None
BY DEF TypeOK, Called, NoDispatch

\* An answer adds the keys of a machine and takes it from those that are pending.
LEMMA HandleResolvedType ==
    ASSUME TypeOK, NEW a \in Agents, NEW h \in Hosts, HandleResolved(a, h)
    PROVE  /\ computers' \in [Agents -> SUBSET UNION {Keys(i) : i \in Hosts}]
           /\ pendingResolution' \in [Agents -> SUBSET Hosts]
<1>1. Keys(h) \subseteq UNION {Keys(i) : i \in Hosts}
  OBVIOUS
<1> QED
  BY <1>1 DEF TypeOK, HandleResolved

\* A client that goes on, or returns: where it is, and what no other client notices.
LEMMA ClientGoes ==
    ASSUME TypeOK, NEW c \in Clients,
           NEW label \in {"test", "interrupt", "forget", "add", "assign", "name", "start"},
           GoesOn(c, label)
    PROVE  /\ \A d \in Clients : at'[d] = IF d = c THEN label ELSE at[d]
           /\ at' \in [Clients -> {"idle", "test", "interrupt", "forget", "add", "assign",
                                   "name", "start"}]
           /\ agent' = agent /\ starting' = starting
BY DEF TypeOK, GoesOn

LEMMA ClientReturns ==
    ASSUME TypeOK, NEW c \in Clients, Returns(c)
    PROVE  /\ \A d \in Clients : at'[d] = IF d = c THEN "idle" ELSE at[d]
           /\ \A d \in Clients : agent'[d] = IF d = c THEN None ELSE agent[d]
           /\ at' \in [Clients -> {"idle", "test", "interrupt", "forget", "add", "assign",
                                   "name", "start"}]
           /\ agent' \in [Clients -> Agents \cup {None}]
           /\ starting' \subseteq Clients
BY DEF TypeOK, Returns

\* Only a client whose call is under way has an agent.
LEMMA Caller ==
    ASSUME TypeOK, CallInv, NEW c \in Clients, at[c] # "idle"
    PROVE  agent[c] \in Agents /\ Field(c) \in Threads \cup {None}
BY DEF TypeOK, CallInv, Field

\* A call that begins, and the network, keep the types.
LEMMA BeginTypeOK ==
    ASSUME TypeOK, NEW c \in Clients,
           \/ \E a \in Agents : StartDiscovery(c, a) \/ StopDiscovery(c, a)
           \/ OnUnbind(c)
    PROVE  TypeOK'
<1> USE DEF TypeOK, agentVars, callVars, foundVars, resolverVars, threadVars, networkVars
<1>1. ASSUME NEW a \in Agents, Begin(c, a)
      PROVE  /\ at' \in [Clients -> {"idle", "test", "interrupt", "forget", "add", "assign",
                                     "name", "start"}]
             /\ agent' \in [Clients -> Agents \cup {None}]
             /\ listeners' \subseteq Agents /\ overlapped' \subseteq Agents
             /\ calls' \in 0 .. MaxCalls
             /\ UNCHANGED <<alive, discoveryThread, foundVars, resolverVars, dispatch,
                            threadVars, networkVars>>
  BY <1>1 DEF Begin
<1>2. ASSUME NEW a \in Agents, StartDiscovery(c, a) PROVE TypeOK'
  <2>1. service' = service /\ starting' \subseteq Clients /\ Begin(c, a)
    BY <1>2 DEF StartDiscovery
  <2> QED
    BY <1>1, <2>1
<1>3. ASSUME NEW a \in Agents, StopDiscovery(c, a) PROVE TypeOK'
  <2>1. UNCHANGED <<service, starting>> /\ Begin(c, a)
    BY <1>3 DEF StopDiscovery
  <2> QED
    BY <1>1, <2>1
<1>4. CASE OnUnbind(c)
  <2>1. service' \in Agents /\ service \in Agents /\ starting' = starting
        /\ Begin(c, service)
    BY <1>4 DEF OnUnbind, Agents
  <2> QED
    BY <1>1, <2>1
<1> QED
  BY <1>2, <1>3, <1>4

LEMMA ComeOrGoTypeOK == ASSUME TypeOK, NEW h \in Hosts, ComeOrGo(h) PROVE TypeOK'
BY DEF TypeOK, ComeOrGo, agentVars, callVars, foundVars, resolverVars, threadVars, networkVars

\* What becomes of a thread that no field names any more.
LEMMA WithoutType ==
    ASSUME TypeOK
    PROVE  /\ Without(pc, "none") \in [Threads -> {"none", "new", "start", "request", "retry",
                                                   "handle", "sleep", "dereference"}]
           /\ Without(owner, None) \in [Threads -> Agents \cup {None}]
           /\ \A t \in Threads :
                 \/ /\ Without(pc, "none")[t] = pc[t] /\ Without(owner, None)[t] = owner[t]
                    /\ t \notin Forsaken
                 \/ /\ Without(pc, "none")[t] = "none" /\ Without(owner, None)[t] = None
                    /\ t \in Forsaken
BY DEF TypeOK, Without

\* A call that goes on keeps the types.
LEMMA CallTypeOK ==
    ASSUME TypeOK, CallInv, NEW c \in Clients, Call(c)
    PROVE  TypeOK'
<1> DEFINE Places == {"idle", "test", "interrupt", "forget", "add", "assign", "name", "start"}
<1>0. at[c] # "idle"
  BY DEF Call, TestThread, InterruptThread, ForgetThread, AddListener, AssignThread,
         NameThread, StartThread
<1>1. agent[c] \in Agents /\ Field(c) \in Threads \cup {None}
  BY <1>0, Caller
<1>2. /\ at' \in [Clients -> Places] /\ agent' \in [Clients -> Agents \cup {None}]
      /\ starting' \subseteq Clients
  <2>1. \/ Returns(c)
        \/ \E label \in {"test", "interrupt", "forget", "add", "assign", "name", "start"} :
              GoesOn(c, label)
    BY DEF Call, TestThread, InterruptThread, ForgetThread, AddListener, AssignThread,
           NameThread, StartThread, StopEnds, Dies
  <2>2. agent \in [Clients -> Agents \cup {None}] /\ starting \subseteq Clients
    BY DEF TypeOK
  <2> QED
    BY <2>1, <2>2, ClientGoes, ClientReturns
<1>3. alive' \in BOOLEAN
  BY DEF TypeOK, Call, TestThread, InterruptThread, ForgetThread, AddListener, AssignThread,
         NameThread, StartThread, Dies
<1>4. /\ discoveryThread' \in [Agents -> Threads \cup {None}]
      /\ pc' \in [Threads -> {"none", "new", "start", "request", "retry", "handle", "sleep",
                              "dereference"}]
      /\ owner' \in [Threads -> Agents \cup {None}]
      /\ interrupted' \in [Threads -> BOOLEAN]
      /\ listeners' \subseteq Agents
  <2>1. CASE TestThread(c) \/ NameThread(c)
    BY <2>1 DEF TypeOK, TestThread, NameThread, threadVars
  <2>2. CASE InterruptThread(c)
    BY <1>1, <2>2 DEF TypeOK, InterruptThread
  <2>3. CASE ForgetThread(c)
    BY <1>1, <2>3, WithoutType DEF TypeOK, ForgetThread
  <2>4. CASE AddListener(c)
    BY <1>1, <2>4 DEF TypeOK, AddListener, threadVars
  <2>5. CASE AssignThread(c)
    BY <1>1, <2>5, WithoutType DEF TypeOK, AssignThread
  <2>6. CASE StartThread(c)
    BY <1>1, <2>6 DEF TypeOK, StartThread, Goto
  <2> QED
    BY <2>1, <2>2, <2>3, <2>4, <2>5, <2>6 DEF Call
<1>5. UNCHANGED <<service, calls, overlapped, foundVars, resolverRefCount, open, known, events,
                  dispatch, using, names, resolved, networkVars>>
  BY DEF Call, TestThread, InterruptThread, ForgetThread, AddListener, AssignThread,
         NameThread, StartThread, threadVars, resolverVars
<1> QED
  BY <1>2, <1>3, <1>4, <1>5 DEF TypeOK, foundVars, networkVars

\* So does the resolver's thread.
LEMMA ResolverTypeOK == ASSUME TypeOK, Resolver PROVE TypeOK'
<1> USE DEF TypeOK, Goto, agentVars, callVars, foundVars, resolverVars, threadVars, networkVars
<1>1. CASE Dispatch
  <2>1. events # <<>> /\ Head(events) \in {"added", "removed"} \X Hosts
    BY <1>1 DEF Dispatch
  <2>2. /\ dispatch' \in [kind : {"none", "added", "removed"}, host : Hosts \cup {None},
                          to : SUBSET Agents]
        /\ dispatch'.kind # "none" => dispatch'.host # None
    BY <1>1, <2>1 DEF Dispatch, NoDispatch
  <2>3. events' \in Seq({"added", "removed"} \X Hosts)
    BY <1>1, <2>1 DEF Dispatch
  <2> QED
    BY <1>1, <2>2, <2>3 DEF Dispatch
<1>2. ASSUME NEW h \in Hosts, Announce(h) PROVE TypeOK'
  <2> DEFINE Event == {"added", "removed"} \X Hosts
  <2>1. events \in Seq(Event) /\ <<"added", h>> \in Event /\ <<"removed", h>> \in Event
    OBVIOUS
  <2>2. \A e \in Event : Append(events, e) \in Seq(Event)
    BY <2>1
  <2>3. PICK e \in Event : events' = Append(events, e)
    BY <1>2, <2>1 DEF Announce
  <2>4. events' \in Seq(Event)
    BY <2>2, <2>3
  <2>5. known' \subseteq Hosts
    BY <1>2 DEF Announce
  <2> QED
    BY <1>2, <2>4, <2>5 DEF Announce
<1>3. ASSUME NEW a \in Agents, ServiceAdded(a) PROVE TypeOK'
  <2>1. dispatch.host \in Hosts
    BY <1>3 DEF ServiceAdded
  <2>2. /\ computers' \in [Agents -> SUBSET UNION {Keys(i) : i \in Hosts}]
        /\ pendingResolution' \in [Agents -> SUBSET Hosts]
    BY <1>3, <2>1, HandleResolvedType DEF ServiceAdded
  <2> QED
    BY <1>3, <2>2, CalledType DEF ServiceAdded
<1>4. ASSUME NEW a \in Agents, ServiceRemoved(a) PROVE TypeOK'
  <2>1. computers' \in [Agents -> SUBSET UNION {Keys(i) : i \in Hosts}]
    BY <1>4 DEF ServiceRemoved
  <2> QED
    BY <1>4, <2>1, CalledType DEF ServiceRemoved
<1> QED
  BY <1>1, <1>2, <1>3, <1>4 DEF Resolver

-----------------------------------------------------------------------------
(***************************************************************************)
(* The discovery threads: types, the count, and who goes on.               *)
(***************************************************************************)

\* The count and what hangs on it survive every step that leaves them alone.
LEMMA QuietShared ==
    ASSUME SharedResolverIsOpen, ResolverQuiet, TypeOK'
    PROVE  SharedResolverIsOpen'
BY DEF SharedResolverIsOpen, ResolverQuiet, Used

\* Who goes on depends on nothing else than what ThreadsQuiet names.
LEMMA QuietThreads ==
    ASSUME ThreadsInv, ThreadsQuiet
    PROVE  ThreadsInv'
BY DEF ThreadsInv, ThreadInv, FieldInv, CallInv, AgentInv, ToldInv, ThreadsQuiet, callVars,
       Agents, Alone, Field, Forgetting, Starting

\* A call begins: it has its agent to itself, or the agent counts as overlapped.
LEMMA BeginInv ==
    ASSUME TypeOK, ThreadsInv, NEW c \in Clients, NEW a \in Agents, Begin(c, a)
    PROVE  ThreadsInv'
<1> USE DEF ThreadsInv, threadVars
<1>1. /\ \A d \in Clients : at'[d] = IF d = c THEN "test" ELSE at[d]
      /\ \A d \in Clients : agent'[d] = IF d = c THEN a ELSE agent[d]
      /\ at[c] = "idle" /\ agent[c] = None
      /\ UNCHANGED <<discoveryThread, owner, pc, interrupted, resolved, alive>>
      /\ a # None
  BY DEF TypeOK, Begin, CallInv, Agents
<1>2. /\ overlapped \subseteq overlapped'
      /\ a \notin overlapped' => \A d \in Clients : agent[d] # a
  BY DEF Begin
<1>3. \A b \in Agents : /\ Forgetting(b)' <=> Forgetting(b)
                        /\ Starting(b)' <=> Starting(b)
  BY <1>1 DEF Forgetting, Starting, Agents
<1>4. ThreadInv' /\ FieldInv'
  BY <1>1 DEF ThreadInv, FieldInv, Agents
<1>5. CallInv'
  BY <1>1, <1>2 DEF CallInv, Alone, Field
<1>6. AgentInv'
  BY <1>1, <1>2, <1>3 DEF AgentInv, Agents
<1>7. ToldInv'
  <2> SUFFICES ASSUME NEW t \in Threads, pc[t] \notin {"none", "new", "dereference"},
                      owner[t] \notin overlapped
               PROVE  interrupted[t] <=>
                         \/ discoveryThread[owner[t]] # t
                         \/ \E d \in Clients : agent'[d] = owner[t] /\ at'[d] = "forget"
    BY <1>1, <1>2 DEF ToldInv, Forgetting
  <2>1. owner[t] \in Agents
    BY DEF ThreadInv, TypeOK
  <2>2. interrupted[t] <=> discoveryThread[owner[t]] # t \/ Forgetting(owner[t])
    BY <1>2 DEF ToldInv
  <2> QED
    BY <1>3, <2>1, <2>2 DEF Forgetting
<1> QED
  BY <1>4, <1>5, <1>6, <1>7

\* A client goes on from one place, at which only it is, to another, and no thread
\* notices.
LEMMA QuietCall ==
    ASSUME TypeOK, ThreadsInv, NEW c \in Clients, at[c] # "idle",
           at[c] \notin {"forget", "start"},
           \/ \E label \in {"interrupt", "add", "assign", "start"} :
                 /\ GoesOn(c, label) /\ UNCHANGED alive
                 /\ label = "start" <=> at[c] = "name"
                 /\ label = "interrupt" => Field(c) # None
                 /\ label \in {"add", "assign"} =>
                       at[c] = "add" \/ Field(c) = None
           \/ Returns(c) /\ at[c] = "test" /\ UNCHANGED alive,
           UNCHANGED <<discoveryThread, owner, pc, interrupted, resolved, overlapped>>
    PROVE  ThreadsInv'
<1> USE DEF ThreadsInv
<1>0. agent[c] \in Agents /\ agent[c] # None
  BY Caller DEF CallInv
<1>1. CASE Returns(c)
  <2>1. /\ \A d \in Clients : at'[d] = IF d = c THEN "idle" ELSE at[d]
        /\ \A d \in Clients : agent'[d] = IF d = c THEN None ELSE agent[d]
    BY <1>1, ClientReturns
  <2>2. at[c] = "test" /\ UNCHANGED alive
    BY <1>1 DEF GoesOn, Returns, TypeOK
  <2>3. \A b \in Agents : /\ Forgetting(b)' <=> Forgetting(b)
                          /\ Starting(b)' <=> Starting(b)
    BY <2>1, <2>2 DEF Forgetting, Starting, Agents
  <2>4. ThreadInv' /\ FieldInv'
    BY DEF ThreadInv, FieldInv, Agents
  <2>5. CallInv'
    BY <2>1, <2>2 DEF CallInv, Alone, Field
  <2>6. AgentInv'
    BY <2>3 DEF AgentInv, Agents
  <2>7. ToldInv'
    BY <2>3 DEF ToldInv, ThreadInv, TypeOK
  <2> QED
    BY <2>4, <2>5, <2>6, <2>7
<1>2. ASSUME NEW label \in {"interrupt", "add", "assign", "start"},
             GoesOn(c, label), UNCHANGED alive, label = "start" <=> at[c] = "name",
             label = "interrupt" => Field(c) # None,
             label \in {"add", "assign"} => at[c] = "add" \/ Field(c) = None
      PROVE  ThreadsInv'
  <2>1. (\A d \in Clients : at'[d] = IF d = c THEN label ELSE at[d]) /\ agent' = agent
    BY <1>2, ClientGoes
  <2>3. \A b \in Agents : /\ Forgetting(b)' <=> Forgetting(b)
                          /\ Starting(b)' <=> Starting(b)
    BY <1>2, <2>1 DEF Forgetting, Starting, Agents
  <2>4. ThreadInv' /\ FieldInv'
    BY DEF ThreadInv, FieldInv, Agents
  <2>5. CallInv'
    BY <1>0, <1>2, <2>1 DEF CallInv, Alone, Field
  <2>6. AgentInv'
    BY <2>3 DEF AgentInv, Agents
  <2>7. ToldInv'
    BY <2>3 DEF ToldInv, ThreadInv, TypeOK
  <2> QED
    BY <2>4, <2>5, <2>6, <2>7
<1> QED
  BY <1>1, <1>2

\* A client whose call dies was not alone.
LEMMA DiesInv ==
    ASSUME TypeOK, ThreadsInv, NEW c \in Clients, at[c] \in {"interrupt", "name", "start"},
           Dies(c), agent[c] \in overlapped,
           UNCHANGED <<discoveryThread, owner, pc, interrupted, resolved, overlapped>>
    PROVE  ThreadsInv'
<1> USE DEF ThreadsInv
<1>1. /\ \A d \in Clients : at'[d] = IF d = c THEN "idle" ELSE at[d]
      /\ \A d \in Clients : agent'[d] = IF d = c THEN None ELSE agent[d]
  BY ClientReturns DEF Dies
<1>2. \A b \in Agents \ overlapped : /\ Forgetting(b)' <=> Forgetting(b)
                                     /\ Starting(b)' <=> Starting(b)
  BY <1>1 DEF Forgetting, Starting, Agents
<1>3. ThreadInv' /\ FieldInv'
  BY DEF ThreadInv, FieldInv, Agents
<1>4. CallInv'
  BY <1>1 DEF CallInv, Alone, Field
<1>5. AgentInv'
  BY <1>2 DEF AgentInv, Agents
<1>6. ToldInv'
  BY <1>2 DEF ToldInv, ThreadInv, TypeOK
<1> QED
  BY <1>3, <1>4, <1>5, <1>6

\* It interrupts the thread, which is told from then on.
LEMMA InterruptInv ==
    ASSUME TypeOK, ThreadsInv, NEW c \in Clients, InterruptThread(c)
    PROVE  ThreadsInv'
<1> USE DEF ThreadsInv
<1>0. /\ at[c] = "interrupt" /\ agent[c] \in Agents /\ agent[c] # None
      /\ Field(c) \in Threads \cup {None}
      /\ UNCHANGED <<discoveryThread, owner, pc, resolved, overlapped>>
  BY Caller DEF InterruptThread, CallInv
<1>1. CASE Field(c) = None
  <2>1. agent[c] \in overlapped /\ Dies(c) /\ UNCHANGED interrupted
    BY <1>0, <1>1 DEF InterruptThread, CallInv, Alone
  <2> QED
    BY <1>0, <2>1, DiesInv
<1>2. CASE Field(c) # None
  <2> DEFINE f == Field(c)
  <2>1. /\ interrupted' = [interrupted EXCEPT ![f] = @ \/ pc[f] \notin {"none", "new"}]
        /\ GoesOn(c, "forget") /\ UNCHANGED alive
    BY <1>2 DEF InterruptThread
  <2>2. (\A d \in Clients : at'[d] = IF d = c THEN "forget" ELSE at[d]) /\ agent' = agent
    BY <2>1, ClientGoes
  <2>3. \A b \in Agents \ {agent[c]} : /\ Forgetting(b)' <=> Forgetting(b)
                                       /\ Starting(b)' <=> Starting(b)
    BY <1>0, <2>2 DEF Forgetting, Starting, Agents
  <2>5. f \in Threads /\ owner[f] \in {agent[c], None}
    BY <1>0, <1>2 DEF FieldInv, Field
  <2>6. interrupted'[f] = (interrupted[f] \/ pc[f] \notin {"none", "new"})
    BY <2>1, <2>5 DEF TypeOK
  <2>7. \A t \in Threads : t # f => interrupted'[t] = interrupted[t]
    BY <2>1, <2>5 DEF TypeOK
  <2> HIDE DEF f
  <2>8. ThreadInv'
    BY <1>0, <2>6, <2>7 DEF ThreadInv
  <2>9. FieldInv'
    BY <1>0 DEF FieldInv, Agents
  <2>10. CallInv'
    BY <1>0, <1>2, <2>1, <2>2 DEF CallInv, Alone, Field
  <2>11. AgentInv'
    <3> SUFFICES ASSUME NEW b \in Agents \ overlapped, discoveryThread[b] # None,
                        ~Forgetting(b)'
                 PROVE  /\ pc[discoveryThread[b]] \notin {"none", "dereference"}
                        /\ pc[discoveryThread[b]] = "new" <=> Starting(b)'
      BY <1>0 DEF AgentInv, Agents
    <3>1. b # agent[c]
      BY <2>2 DEF Forgetting
    <3> QED
      BY <2>3, <3>1 DEF AgentInv
  <2>12. ToldInv'
    <3> SUFFICES ASSUME NEW t \in Threads, pc[t] \notin {"none", "new", "dereference"},
                        owner[t] \notin overlapped
                 PROVE  interrupted'[t] <=>
                           \/ discoveryThread[owner[t]] # t
                           \/ \E d \in Clients : agent'[d] = owner[t] /\ at'[d] = "forget"
      BY <1>0 DEF ToldInv, Forgetting
    <3>1. owner[t] \in Agents /\ owner[t] # None
      BY DEF ThreadInv, TypeOK
    <3>2. interrupted[t] <=> discoveryThread[owner[t]] # t \/ Forgetting(owner[t])
      BY DEF ToldInv
    <3>3. CASE owner[t] # agent[c]
      <4>1. t # f
        BY <2>5, <3>1, <3>3
      <4> QED
        BY <2>3, <2>7, <3>1, <3>2, <3>3, <4>1 DEF Forgetting
    <3>4. CASE owner[t] = agent[c] /\ t = f
      <4>1. interrupted'[t]
        BY <2>6, <3>4
      <4>2. agent'[c] = owner[t] /\ at'[c] = "forget"
        BY <2>2, <3>4
      <4> QED
        BY <4>1, <4>2
    <3>5. CASE owner[t] = agent[c] /\ t # f
      <4>1. discoveryThread[owner[t]] = f
        BY <3>5 DEF f, Field
      <4>2. agent'[c] = owner[t] /\ at'[c] = "forget"
        BY <2>2, <3>5
      <4>3. interrupted'[t]
        BY <2>7, <3>2, <3>5, <4>1
      <4> QED
        BY <4>2, <4>3
    <3> QED
      BY <3>3, <3>4, <3>5
  <2> QED
    BY <2>8, <2>9, <2>10, <2>11, <2>12
<1> QED
  BY <1>1, <1>2

\* What is forsaken, when one field changes, was that field's, and not another's.
LEMMA ForsakenThreads ==
    ASSUME TypeOK, ThreadInv, FieldInv, NEW a \in Agents,
           \A b \in Agents : b # a => discoveryThread'[b] = discoveryThread[b]
    PROVE  \A t \in Threads :
              /\ t \in Forsaken <=>
                    /\ pc[t] = "new" /\ discoveryThread[a] = t /\ discoveryThread'[a] # t
              /\ t \in Forsaken => owner[t] = a
<1> SUFFICES ASSUME NEW t \in Threads
             PROVE  /\ t \in Forsaken <=>
                          /\ pc[t] = "new" /\ discoveryThread[a] = t
                          /\ discoveryThread'[a] # t
                    /\ t \in Forsaken => owner[t] = a
  OBVIOUS
<1>1. pc[t] = "new" => owner[t] \in Agents /\ discoveryThread[owner[t]] = t
  BY DEF ThreadInv, TypeOK
<1>2. \A b \in Agents : discoveryThread[b] = t /\ pc[t] = "new" => b = owner[t]
  <2> SUFFICES ASSUME NEW b \in Agents, discoveryThread[b] = t, pc[t] = "new"
               PROVE  b = owner[t]
    OBVIOUS
  <2>1. owner[t] \in {b, None} /\ owner[t] # None
    BY <1>1 DEF FieldInv, Agents
  <2> QED
    BY <2>1
<1> QED
  BY <1>1, <1>2 DEF Forsaken

\* It forgets the thread: all of the agent's threads are told.
LEMMA ForgetInv ==
    ASSUME TypeOK, ThreadsInv, NEW c \in Clients, ForgetThread(c)
    PROVE  ThreadsInv'
<1> USE DEF ThreadsInv
<1> DEFINE a == agent[c]
<1>0. /\ at[c] = "forget" /\ a \in Agents /\ a # None
      /\ UNCHANGED <<interrupted, resolved, overlapped, alive>>
      /\ StopEnds(c)
      /\ pc' = Without(pc, "none") /\ owner' = Without(owner, None)
  BY Caller DEF ForgetThread, CallInv
<1>1. \A b \in Agents : discoveryThread'[b] = IF b = a THEN None ELSE discoveryThread[b]
  BY <1>0 DEF ForgetThread, TypeOK
<1>2. \A t \in Threads : /\ t \in Forsaken <=> pc[t] = "new" /\ discoveryThread[a] = t
                         /\ t \in Forsaken => owner[t] = a
  BY <1>0, <1>1, ForsakenThreads
<1>3. \A t \in Threads :
         /\ t \in Forsaken => pc'[t] = "none" /\ owner'[t] = None
         /\ t \notin Forsaken => pc'[t] = pc[t] /\ owner'[t] = owner[t]
  BY <1>0, WithoutType
<1>4. /\ \A d \in Clients : d # c => at'[d] = at[d] /\ agent'[d] = agent[d]
      /\ (agent'[c] = None /\ at'[c] = "idle") \/ (agent'[c] = a /\ at'[c] = "add")
  BY <1>0, ClientGoes, ClientReturns DEF StopEnds
<1>5. \A b \in Agents \ {a} : /\ Forgetting(b)' <=> Forgetting(b)
                              /\ Starting(b)' <=> Starting(b)
  BY <1>0, <1>4 DEF Forgetting, Starting, Agents
<1>6. Forgetting(a)
  BY <1>0 DEF Forgetting
<1> HIDE DEF a
<1>7. ThreadInv'
  <2> SUFFICES ASSUME NEW t \in Threads
               PROVE  /\ pc'[t] = "none" <=> owner'[t] = None
                      /\ pc'[t] = "new" => discoveryThread'[owner'[t]] = t
                      /\ pc'[t] \in {"none", "new"} => ~interrupted[t]
                      /\ pc'[t] = "handle" => resolved[t] \in Hosts
    BY <1>0 DEF ThreadInv
  <2>1. CASE t \in Forsaken
    BY <1>2, <1>3, <2>1 DEF ThreadInv
  <2>2. CASE t \notin Forsaken
    <3>1. pc[t] = "new" => owner[t] \in Agents /\ owner[t] # a
      BY <1>2, <2>2 DEF ThreadInv, TypeOK
    <3> QED
      BY <1>1, <1>3, <2>2, <3>1 DEF ThreadInv
  <2> QED
    BY <2>1, <2>2
<1>8. FieldInv'
  <2> SUFFICES ASSUME NEW b \in Agents, discoveryThread'[b] # None
               PROVE  owner'[discoveryThread'[b]] \in {b, None}
    BY DEF FieldInv, Agents
  <2>1. /\ discoveryThread'[b] = discoveryThread[b] /\ discoveryThread[b] \in Threads
        /\ owner[discoveryThread[b]] \in {b, None}
    BY <1>1 DEF FieldInv, TypeOK
  <2> QED
    BY <1>3, <2>1
<1>9. CallInv'
  <2>1. \A d \in Clients : at'[d] = "idle" <=> agent'[d] = None
    BY <1>0, <1>4 DEF CallInv
  <2>2. \A d, e \in Clients : Alone(d)' /\ agent'[e] = agent'[d] => e = d
    BY <1>0, <1>4 DEF CallInv, Alone, a
  <2>3. \A d \in Clients : Alone(d)' =>
          /\ at'[d] \in {"interrupt", "forget", "name", "start"} => Field(d)' # None
          /\ at'[d] \in {"add", "assign"} => Field(d)' = None
    <3> SUFFICES ASSUME NEW d \in Clients, Alone(d)'
                 PROVE  /\ at'[d] \in {"interrupt", "forget", "name", "start"} => Field(d)' # None
                        /\ at'[d] \in {"add", "assign"} => Field(d)' = None
      OBVIOUS
    <3>1. CASE d = c
      BY <1>0, <1>1, <1>4, <3>1 DEF Alone, Field
    <3>2. CASE d # c
      <4>1. Alone(d) /\ agent[d] \in Agents /\ agent'[d] = agent[d] /\ at'[d] = at[d]
        BY <1>0, <1>4, <3>2 DEF Alone, TypeOK
      <4>2. agent[d] # a
        BY <3>2, <4>1 DEF CallInv, a
      <4> QED
        BY <1>1, <4>1, <4>2 DEF CallInv, Field
    <3> QED
      BY <3>1, <3>2
  <2> QED
    BY <1>0, <2>1, <2>2, <2>3 DEF CallInv
<1>10. AgentInv'
  <2> SUFFICES ASSUME NEW b \in Agents \ overlapped, discoveryThread'[b] # None,
                      ~Forgetting(b)'
               PROVE  /\ pc'[discoveryThread'[b]] \notin {"none", "dereference"}
                      /\ pc'[discoveryThread'[b]] = "new" <=> Starting(b)'
    BY <1>0 DEF AgentInv, Agents
  <2>1. b # a /\ discoveryThread'[b] = discoveryThread[b] /\ discoveryThread[b] \in Threads
    BY <1>1 DEF TypeOK
  <2>2. pc[discoveryThread[b]] \notin {"none"} /\ owner[discoveryThread[b]] \in {b, None}
    BY <1>5, <2>1 DEF AgentInv, FieldInv
  <2>3. discoveryThread[b] \notin Forsaken
    BY <1>2, <2>1, <2>2 DEF ThreadInv
  <2> QED
    BY <1>3, <1>5, <2>1, <2>3 DEF AgentInv
<1>11. ToldInv'
  <2> SUFFICES ASSUME NEW t \in Threads, pc'[t] \notin {"none", "new", "dereference"},
                      owner'[t] \notin overlapped
               PROVE  interrupted[t] <=>
                         \/ discoveryThread'[owner'[t]] # t
                         \/ \E d \in Clients : agent'[d] = owner'[t] /\ at'[d] = "forget"
    BY <1>0 DEF ToldInv, Forgetting
  <2>1. /\ pc'[t] = pc[t] /\ owner'[t] = owner[t]
        /\ interrupted[t] <=> discoveryThread[owner[t]] # t \/ Forgetting(owner[t])
    BY <1>3 DEF ToldInv
  <2>2. owner[t] \in Agents
    BY <2>1 DEF ThreadInv, TypeOK
  <2>3. CASE owner[t] = a
    BY <1>0, <1>1, <1>6, <2>1, <2>2, <2>3
  <2>4. CASE owner[t] # a
    BY <1>1, <1>5, <2>1, <2>2, <2>4 DEF Forgetting
  <2> QED
    BY <2>3, <2>4
<1> QED
  BY <1>7, <1>8, <1>9, <1>10, <1>11

\* It gives the agent a new thread, after it told the old one to stop.
LEMMA AssignInv ==
    ASSUME TypeOK, ThreadsInv, NEW c \in Clients, AssignThread(c)
    PROVE  ThreadsInv'
<1> USE DEF ThreadsInv
<1>a. PICK a \in Agents : a = agent[c]
  BY Caller DEF AssignThread
<1>0. /\ at[c] = "assign" /\ a \in Agents /\ a # None /\ a = agent[c]
      /\ UNCHANGED <<interrupted, resolved, overlapped, alive>>
      /\ GoesOn(c, "name")
  BY <1>a DEF AssignThread, Agents
<1>1. PICK n \in Threads :
        /\ pc[n] = "none" /\ \A b \in Agents : discoveryThread[b] # n
        /\ discoveryThread' = [discoveryThread EXCEPT ![a] = n]
        /\ pc' = [Without(pc, "none") EXCEPT ![n] = "new"]
        /\ owner' = [Without(owner, None) EXCEPT ![n] = a]
  BY <1>a DEF AssignThread
<1>2. \A b \in Agents : discoveryThread'[b] = IF b = a THEN n ELSE discoveryThread[b]
  BY <1>0, <1>1 DEF TypeOK
<1>3. \A t \in Threads : /\ t \in Forsaken <=> pc[t] = "new" /\ discoveryThread[a] = t
                         /\ t \in Forsaken => owner[t] = a
  BY <1>0, <1>1, <1>2, ForsakenThreads
<1>4. /\ pc'[n] = "new" /\ owner'[n] = a /\ ~interrupted[n] /\ n # None
      /\ \A t \in Threads : t # n =>
            /\ t \in Forsaken => pc'[t] = "none" /\ owner'[t] = None
            /\ t \notin Forsaken => pc'[t] = pc[t] /\ owner'[t] = owner[t]
  BY <1>1, WithoutType DEF ThreadInv
<1>5. (\A d \in Clients : at'[d] = IF d = c THEN "name" ELSE at[d]) /\ agent' = agent
  BY <1>0, ClientGoes
<1>6. /\ \A b \in Agents : Forgetting(b)' <=> Forgetting(b)
      /\ \A b \in Agents \ {a} : Starting(b)' <=> Starting(b)
      /\ Starting(a)'
  BY <1>0, <1>5 DEF Forgetting, Starting, Agents
<1>7. ThreadInv'
  <2> SUFFICES ASSUME NEW t \in Threads
               PROVE  /\ pc'[t] = "none" <=> owner'[t] = None
                      /\ pc'[t] = "new" => discoveryThread'[owner'[t]] = t
                      /\ pc'[t] \in {"none", "new"} => ~interrupted[t]
                      /\ pc'[t] = "handle" => resolved[t] \in Hosts
    BY <1>0 DEF ThreadInv
  <2>1. CASE t = n
    BY <1>0, <1>2, <1>4, <2>1
  <2>2. CASE t # n /\ t \in Forsaken
    BY <1>3, <1>4, <2>2 DEF ThreadInv
  <2>3. CASE t # n /\ t \notin Forsaken
    <3>1. pc[t] = "new" => owner[t] \in Agents /\ owner[t] # a
      BY <1>3, <2>3 DEF ThreadInv, TypeOK
    <3> QED
      BY <1>2, <1>4, <2>3, <3>1 DEF ThreadInv
  <2> QED
    BY <2>1, <2>2, <2>3
<1>8. FieldInv'
  <2> SUFFICES ASSUME NEW b \in Agents, discoveryThread'[b] # None
               PROVE  owner'[discoveryThread'[b]] \in {b, None}
    BY DEF FieldInv, Agents
  <2>1. CASE b = a
    BY <1>2, <1>4, <2>1
  <2>2. CASE b # a
    BY <1>1, <1>2, <1>3, <1>4, <2>2 DEF FieldInv, TypeOK
  <2> QED
    BY <2>1, <2>2
<1>9. CallInv'
  <2>1. \A d \in Clients : Alone(d) =>
          /\ at'[d] \in {"interrupt", "forget", "name", "start"} => Field(d)' # None
          /\ at'[d] \in {"add", "assign"} => Field(d)' = None
    <3> SUFFICES ASSUME NEW d \in Clients, Alone(d)
                 PROVE  /\ at'[d] \in {"interrupt", "forget", "name", "start"} => Field(d)' # None
                        /\ at'[d] \in {"add", "assign"} => Field(d)' = None
      OBVIOUS
    <3>1. CASE d = c
      BY <1>0, <1>2, <1>4, <1>5, <3>1 DEF Field
    <3>2. CASE d # c
      <4>1. agent[d] \in Agents /\ agent[d] # a /\ agent'[d] = agent[d] /\ at'[d] = at[d]
        BY <1>0, <1>5, <3>2 DEF Alone, TypeOK, CallInv
      <4> QED
        BY <1>2, <4>1 DEF CallInv, Field
    <3> QED
      BY <3>1, <3>2
  <2>2. \A d \in Clients : Alone(d)' <=> Alone(d)
    BY <1>0, <1>5 DEF Alone
  <2>3. \A d \in Clients : at'[d] = "idle" <=> agent'[d] = None
    BY <1>0, <1>5 DEF CallInv
  <2> QED
    BY <1>0, <1>5, <2>1, <2>2, <2>3 DEF CallInv
<1>10. AgentInv'
  <2> SUFFICES ASSUME NEW b \in Agents \ overlapped, discoveryThread'[b] # None,
                      ~Forgetting(b)'
               PROVE  /\ pc'[discoveryThread'[b]] \notin {"none", "dereference"}
                      /\ pc'[discoveryThread'[b]] = "new" <=> Starting(b)'
    BY <1>0 DEF AgentInv, Agents
  <2>1. CASE b = a
    BY <1>2, <1>4, <1>6, <2>1
  <2>2. CASE b # a
    <3>1. discoveryThread'[b] = discoveryThread[b] /\ discoveryThread[b] \in Threads
      BY <1>2, <2>2 DEF TypeOK
    <3>2. pc[discoveryThread[b]] # "none" /\ owner[discoveryThread[b]] \in {b, None}
      BY <1>6, <3>1 DEF AgentInv, FieldInv
    <3>3. discoveryThread[b] \notin Forsaken /\ discoveryThread[b] # n
      BY <1>1, <1>3, <2>2, <3>1, <3>2 DEF ThreadInv
    <3> QED
      BY <1>4, <1>6, <2>2, <3>1, <3>3 DEF AgentInv
  <2> QED
    BY <2>1, <2>2
<1>11. ToldInv'
  <2> SUFFICES ASSUME NEW t \in Threads, pc'[t] \notin {"none", "new", "dereference"},
                      owner'[t] \notin overlapped
               PROVE  interrupted[t] <=>
                         \/ discoveryThread'[owner'[t]] # t
                         \/ \E d \in Clients : agent'[d] = owner'[t] /\ at'[d] = "forget"
    BY <1>0 DEF ToldInv, Forgetting
  <2>1. t # n /\ pc'[t] = pc[t] /\ owner'[t] = owner[t]
    BY <1>4
  <2>2. owner[t] \in Agents
    BY <2>1 DEF ThreadInv, TypeOK
  <2>3. interrupted[t] <=> discoveryThread[owner[t]] # t \/ Forgetting(owner[t])
    BY <2>1 DEF ToldInv
  <2>4. CASE owner[t] = a
    <3>1. Alone(c)
      BY <1>0, <2>1, <2>4 DEF Alone
    <3>2. discoveryThread[a] = None
      BY <1>0, <3>1 DEF CallInv, Field
    <3> QED
      BY <1>2, <1>6, <2>1, <2>2, <2>3, <2>4, <3>2 DEF Forgetting
  <2>5. CASE owner[t] # a
    BY <1>2, <1>6, <2>1, <2>2, <2>3, <2>5 DEF Forgetting
  <2> QED
    BY <2>4, <2>5
<1> QED
  BY <1>7, <1>8, <1>9, <1>10, <1>11

\* It starts what it assigned; if it finds another thread, or none, it was not alone.
LEMMA StartInv ==
    ASSUME TypeOK, ThreadsInv, NEW c \in Clients, StartThread(c)
    PROVE  ThreadsInv'
<1> USE DEF ThreadsInv
<1>a. PICK a \in Agents, f \in Threads \cup {None} : a = agent[c] /\ f = Field(c)
  BY Caller DEF StartThread
<1>0. /\ at[c] = "start" /\ a # None /\ a = agent[c] /\ f = Field(c)
      /\ f = discoveryThread[a]
      /\ UNCHANGED <<discoveryThread, owner, interrupted, resolved, overlapped>>
  BY <1>a DEF StartThread, Agents, Field
<1>1. CASE f # None /\ pc[f] = "new"
  <2>1. /\ pc' = [pc EXCEPT ![f] = "start"] /\ Returns(c) /\ UNCHANGED alive
        /\ f \in Threads
    BY <1>0, <1>1 DEF StartThread, Goto
  <2>2. \A t \in Threads : pc'[t] = IF t = f THEN "start" ELSE pc[t]
    BY <2>1 DEF TypeOK
  <2>3. /\ \A d \in Clients : at'[d] = IF d = c THEN "idle" ELSE at[d]
        /\ \A d \in Clients : agent'[d] = IF d = c THEN None ELSE agent[d]
    BY <2>1, ClientReturns
  <2>4. owner[f] = a /\ ~interrupted[f]
    BY <1>0, <1>1, <2>1 DEF FieldInv, ThreadInv
  <2>5. /\ \A b \in Agents : Forgetting(b)' <=> Forgetting(b)
        /\ \A b \in Agents \ {a} : Starting(b)' <=> Starting(b)
    BY <1>0, <2>3 DEF Forgetting, Starting, Agents
  <2>6. a \notin overlapped =>
          ~Starting(a)' /\ ~Forgetting(a) /\ \A d \in Clients : agent[d] = a => d = c
    BY <1>0, <2>3 DEF CallInv, Alone, Forgetting, Starting
  <2>7. ThreadInv'
    BY <1>0, <2>2, <2>4 DEF ThreadInv
  <2>8. FieldInv'
    BY <1>0 DEF FieldInv, Agents
  <2>9. CallInv'
    BY <1>0, <2>1, <2>3 DEF CallInv, Alone, Field
  <2>10. AgentInv'
    <3> SUFFICES ASSUME NEW b \in Agents \ overlapped, discoveryThread[b] # None,
                        ~Forgetting(b)'
                 PROVE  /\ pc'[discoveryThread[b]] \notin {"none", "dereference"}
                        /\ pc'[discoveryThread[b]] = "new" <=> Starting(b)'
      BY <1>0 DEF AgentInv, Agents
    <3>1. discoveryThread[b] \in Threads
      BY DEF TypeOK
    <3>2. CASE b = a
      BY <1>0, <2>2, <2>6, <3>1, <3>2
    <3>3. CASE b # a
      <4>1. discoveryThread[b] # f
        BY <1>0, <2>4, <3>1, <3>3 DEF FieldInv
      <4> QED
        BY <2>2, <2>5, <3>1, <3>3, <4>1 DEF AgentInv
    <3> QED
      BY <3>2, <3>3
  <2>11. ToldInv'
    <3> SUFFICES ASSUME NEW t \in Threads, pc'[t] \notin {"none", "new", "dereference"},
                        owner[t] \notin overlapped
                 PROVE  interrupted[t] <=>
                           \/ discoveryThread[owner[t]] # t
                           \/ \E d \in Clients : agent'[d] = owner[t] /\ at'[d] = "forget"
      BY <1>0 DEF ToldInv, Forgetting
    <3>1. CASE t = f
      BY <1>0, <2>4, <2>5, <2>6, <3>1 DEF Forgetting
    <3>2. CASE t # f
      <4>1. pc'[t] = pc[t]
        BY <2>2, <3>2
      <4>2. owner[t] \in Agents
        BY <4>1 DEF ThreadInv, TypeOK
      <4>3. interrupted[t] <=> discoveryThread[owner[t]] # t \/ Forgetting(owner[t])
        BY <4>1 DEF ToldInv
      <4> QED
        BY <2>5, <4>2, <4>3 DEF Forgetting
    <3> QED
      BY <3>1, <3>2
  <2> QED
    BY <2>7, <2>8, <2>9, <2>10, <2>11
<1>2. CASE ~(f # None /\ pc[f] = "new")
  <2>1. Dies(c) /\ UNCHANGED pc
    BY <1>0, <1>2 DEF StartThread
  <2>2. a \in overlapped
    <3> SUFFICES ASSUME a \notin overlapped PROVE FALSE
      OBVIOUS
    <3>1. f # None
      BY <1>0 DEF CallInv, Alone
    <3>2. ~Forgetting(a) /\ Starting(a)
      BY <1>0 DEF CallInv, Alone, Forgetting, Starting
    <3>3. pc[f] = "new"
      BY <1>0, <3>1, <3>2 DEF AgentInv
    <3> QED
      BY <1>2, <3>1, <3>3
  <2> QED
    BY <1>0, <2>1, <2>2, DiesInv
<1> QED
  BY <1>1, <1>2

\* So every step of a call keeps the invariant.
LEMMA CallThreads ==
    ASSUME TypeOK, ThreadsInv, NEW c \in Clients, Call(c)
    PROVE  ThreadsInv'
<1>1. CASE TestThread(c)
  <2>1. /\ at[c] = "test"
        /\ UNCHANGED <<discoveryThread, owner, pc, interrupted, resolved, overlapped, alive>>
    BY <1>1 DEF TestThread, threadVars
  <2>2. \/ Returns(c)
        \/ GoesOn(c, "add") /\ Field(c) = None
        \/ GoesOn(c, "interrupt") /\ Field(c) # None
    BY <1>1 DEF TestThread, StopEnds
  <2> QED
    BY <2>1, <2>2, QuietCall
<1>2. CASE AddListener(c)
  <2>1. /\ at[c] = "add" /\ GoesOn(c, "assign")
        /\ UNCHANGED <<discoveryThread, owner, pc, interrupted, resolved, overlapped, alive>>
    BY <1>2 DEF AddListener, threadVars
  <2> QED
    BY <2>1, QuietCall
<1>3. CASE NameThread(c)
  <2>1. /\ at[c] = "name"
        /\ UNCHANGED <<discoveryThread, owner, pc, interrupted, resolved, overlapped>>
    BY <1>3 DEF NameThread, threadVars
  <2>2. CASE Field(c) = None
    <3>1. agent[c] \in overlapped
      BY <2>1, <2>2, Caller DEF ThreadsInv, CallInv, Alone
    <3>2. Dies(c)
      BY <1>3, <2>2 DEF NameThread
    <3> QED
      BY <2>1, <3>1, <3>2, DiesInv
  <2>3. CASE Field(c) # None
    <3>1. GoesOn(c, "start") /\ UNCHANGED alive
      BY <1>3, <2>3 DEF NameThread
    <3> QED
      BY <2>1, <3>1, QuietCall
  <2> QED
    BY <2>2, <2>3
<1> QED
  BY <1>1, <1>2, <1>3, InterruptInv, ForgetInv, AssignInv, StartInv DEF Call

\* The loop of a thread: types.
LEMMA LoopTypeOK ==
    ASSUME IInv, NEW t \in Threads, Loop(t)
    PROVE  TypeOK'
<1> USE DEF TypeOK, Goto, agentVars, callVars, foundVars, resolverVars, threadVars, networkVars
<1>0. TypeOK /\ ThreadInv /\ resolverRefCount = Cardinality(Used)
  BY DEF IInv, ThreadsInv, SharedResolverIsOpen, Used
<1>1. CASE ReferenceResolver(t)
  <2>1. Used \in SUBSET Threads /\ t \notin Used /\ Used \cup {t} \in SUBSET Threads
    BY <1>1 DEF Used, UsingResolver, ReferenceResolver
  <2>2. IsFiniteSet(Used) /\ Cardinality(Used) \in Nat /\ Cardinality(Threads) \in Nat
    BY <2>1, FS_Subset, FS_CardinalityType
  <2>3. Cardinality(Used \cup {t}) = Cardinality(Used) + 1
    BY <2>1, <2>2, FS_AddElement
  <2>4. Cardinality(Used \cup {t}) <= Cardinality(Threads)
    BY <2>1, FS_Subset
  <2>5. resolverRefCount' \in 0 .. Cardinality(Threads)
    BY <1>0, <1>1, <2>2, <2>3, <2>4 DEF ReferenceResolver
  <2> QED
    BY <1>0, <1>1, <2>5 DEF ReferenceResolver
<1>2. CASE Request(t)
  BY <1>0, <1>2 DEF Request, ThreadInv
<1>3. CASE Retry(t)
  <2>1. PICK h \in names[t] :
          /\ names' = [names EXCEPT ![t] = @ \ {h}]
          /\ \/ /\ resolved' = [resolved EXCEPT ![t] = h]
                /\ pc' = [pc EXCEPT ![t] = "handle"]
             \/ UNCHANGED <<pc, resolved>>
    BY <1>3 DEF Retry
  <2>2. h \in Hosts /\ names' \in [Threads -> SUBSET Hosts]
    BY <1>0, <2>1
  <2>3. resolved' \in [Threads -> Hosts \cup {None}]
    BY <1>0, <2>1, <2>2
  <2>4. pc' \in [Threads -> {"none", "new", "start", "request", "retry", "handle",
                             "sleep", "dereference"}]
    BY <1>0, <2>1
  <2> QED
    BY <1>0, <1>3, <2>2, <2>3, <2>4 DEF Retry
<1>4. CASE HandleRetried(t)
  <2>1. owner[t] \in Agents /\ resolved[t] \in Hosts
    BY <1>0, <1>4 DEF HandleRetried, ThreadInv
  <2> QED
    BY <1>0, <1>4, <2>1, HandleResolvedType DEF HandleRetried
<1>5. CASE RetriesEnd(t)
  BY <1>0, <1>5 DEF RetriesEnd
<1>6. CASE Sleep(t)
  BY <1>0, <1>6 DEF Sleep
<1>7. CASE DereferenceResolver(t)
  <2>1. Used \in SUBSET Threads /\ t \in Used
    BY <1>7 DEF Used, UsingResolver, DereferenceResolver
  <2>2. IsFiniteSet(Used) /\ Cardinality(Used) \in Nat /\ Cardinality(Threads) \in Nat
    BY <2>1, FS_Subset, FS_CardinalityType
  <2>3. Cardinality(Used) # 0 /\ Cardinality(Used) <= Cardinality(Threads)
    BY <2>1, <2>2, FS_EmptySet, FS_Subset
  <2>4. resolverRefCount' \in 0 .. Cardinality(Threads)
    BY <1>0, <1>7, <2>2, <2>3 DEF DereferenceResolver
  <2>5. /\ open' \in BOOLEAN /\ using' \subseteq Threads /\ known' \subseteq Hosts
        /\ events' \in Seq({"added", "removed"} \X Hosts)
    <3>1. CASE resolverRefCount' = 0
      <4>1. open' = FALSE /\ using' = {} /\ known' = {} /\ events' = <<>>
        BY <1>7, <3>1 DEF DereferenceResolver
      <4> QED
        BY <4>1, <<>> \in Seq({"added", "removed"} \X Hosts)
    <3>2. CASE resolverRefCount' # 0
      <4>1. using' = using \ {t} /\ UNCHANGED <<open, known, events>>
        BY <1>7, <3>2 DEF DereferenceResolver
      <4> QED
        BY <1>0, <4>1
    <3> QED
      BY <3>1, <3>2
  <2> QED
    BY <1>0, <1>7, <2>4, <2>5 DEF DereferenceResolver
<1> QED
  BY <1>1, <1>2, <1>3, <1>4, <1>5, <1>6, <1>7 DEF Loop

\* The loop of a thread: the count.
LEMMA LoopShared ==
    ASSUME IInv, NEW t \in Threads, Loop(t)
    PROVE  SharedResolverIsOpen'
<1>0. /\ TypeOK /\ TypeOK' /\ resolverRefCount = Cardinality(Used)
      /\ open <=> resolverRefCount > 0
      /\ \A s \in Threads : s \in Used <=> s \in using
  BY LoopTypeOK DEF IInv, SharedResolverIsOpen, Used
<1>1. CASE ReferenceResolver(t)
  <2>1. Used \in SUBSET Threads /\ t \notin Used /\ Used' = Used \cup {t}
    BY <1>0, <1>1 DEF Used, UsingResolver, ReferenceResolver, Goto, TypeOK
  <2>2. IsFiniteSet(Used) /\ Cardinality(Used) \in Nat
    BY <2>1, FS_Subset, FS_CardinalityType
  <2>3. Cardinality(Used') = Cardinality(Used) + 1
    BY <2>1, <2>2, FS_AddElement
  <2>4. resolverRefCount' = Cardinality(Used') /\ resolverRefCount' > 0
    BY <1>0, <1>1, <2>2, <2>3 DEF ReferenceResolver
  <2>5. open' = TRUE /\ \A s \in Threads : s \in Used' <=> s \in using'
    BY <1>0, <1>1, <2>1 DEF ReferenceResolver
  <2> QED
    BY <1>0, <2>4, <2>5 DEF SharedResolverIsOpen, Used
<1>2. CASE DereferenceResolver(t)
  <2>1. Used \in SUBSET Threads /\ t \in Used /\ Used' = Used \ {t}
    BY <1>0, <1>2 DEF Used, UsingResolver, DereferenceResolver, Goto, TypeOK
  <2>2. IsFiniteSet(Used) /\ IsFiniteSet(Used') /\ Cardinality(Used) \in Nat
    BY <2>1, FS_Subset, FS_RemoveElement, FS_CardinalityType
  <2>3. Cardinality(Used') = Cardinality(Used) - 1 /\ Cardinality(Used') \in Nat
    BY <2>1, <2>2, FS_RemoveElement, FS_CardinalityType
  <2>4. Cardinality(Used') = 0 <=> Used' = {}
    BY <2>2, FS_EmptySet
  <2>5. resolverRefCount' = Cardinality(Used') /\ resolverRefCount > 0
    BY <1>0, <1>2, <2>2, <2>3 DEF DereferenceResolver
  <2>6. CASE resolverRefCount' = 0
    <3>1. open' = FALSE
      BY <1>2, <2>6 DEF DereferenceResolver
    <3>2. using' = {}
      BY <1>2, <2>6 DEF DereferenceResolver
    <3>3. Used' = {}
      BY <2>4, <2>5, <2>6
    <3>4. ~(resolverRefCount' > 0)
      BY <2>6
    <3>5. open' <=> resolverRefCount' > 0
      BY <3>1, <3>4
    <3> QED
      BY <1>0, <2>5, <3>2, <3>3, <3>5 DEF SharedResolverIsOpen, Used
  <2>7. CASE resolverRefCount' # 0
    <3>1. open' = open /\ using' = using \ {t}
      BY <1>2, <2>7 DEF DereferenceResolver
    <3>2. resolverRefCount' \in Nat
      BY <2>3, <2>5
    <3>3. open' <=> resolverRefCount' > 0
      BY <1>0, <2>5, <2>7, <3>1, <3>2
    <3> QED
      BY <1>0, <2>1, <2>5, <3>1, <3>3 DEF SharedResolverIsOpen, Used
  <2> QED
    BY <2>6, <2>7
<1>3. CASE Request(t) \/ Retry(t) \/ HandleRetried(t) \/ RetriesEnd(t) \/ Sleep(t)
  <2>1. UNCHANGED <<resolverRefCount, open, using>>
    BY <1>3 DEF Request, Retry, HandleRetried, RetriesEnd, Sleep, resolverVars
  <2>2. Used' = Used
    BY <1>0, <1>3 DEF Used, UsingResolver, Request, Retry, HandleRetried, RetriesEnd, Sleep,
                      Goto, TypeOK
  <2> QED
    BY <1>0, <2>1, <2>2, QuietShared DEF ResolverQuiet, IInv
<1> QED
  BY <1>1, <1>2, <1>3 DEF Loop

\* Each move of a thread that is told neither more nor less than before.
LEMMA Moves ==
    ASSUME TypeOK, ThreadsInv, NEW t \in Threads,
           pc[t] \notin {"none", "new", "dereference"},
           NEW label \in {"request", "retry", "handle", "sleep", "dereference"},
           pc' = [pc EXCEPT ![t] = label],
           \/ interrupted' = interrupted /\ label # "dereference"
           \/ /\ interrupted' = [interrupted EXCEPT ![t] = FALSE]
              /\ label = "dereference" <=> interrupted[t],
           UNCHANGED <<discoveryThread, owner, callVars>>,
           IF label = "handle" THEN resolved'[t] \in Hosts ELSE TRUE,
           \A s \in Threads : s # t => resolved'[s] = resolved[s]
    PROVE  ThreadsInv'
<1> USE DEF ThreadsInv, callVars
<1>1. \A s \in Threads : /\ pc'[s] = IF s = t THEN label ELSE pc[s]
                         /\ s # t => interrupted'[s] = interrupted[s]
  BY DEF TypeOK
<1>2. label # "dereference" => interrupted'[t] = interrupted[t]
  <2>1. CASE interrupted' = interrupted
    BY <2>1
  <2>2. CASE /\ interrupted' = [interrupted EXCEPT ![t] = FALSE]
             /\ label = "dereference" <=> interrupted[t]
    <3>1. interrupted'[t] = FALSE /\ interrupted[t] \in BOOLEAN
      BY <2>2 DEF TypeOK
    <3> QED
      BY <2>2, <3>1
  <2> QED
    BY <2>1, <2>2
<1>3. owner[t] \in Agents /\ owner[t] # None
  BY DEF TypeOK, ThreadInv
<1>4. \A b \in Agents : /\ Forgetting(b)' <=> Forgetting(b)
                        /\ Starting(b)' <=> Starting(b)
  BY DEF Forgetting, Starting
<1>5. ThreadInv'
  BY <1>1, <1>2, <1>3 DEF ThreadInv
<1>6. FieldInv' /\ CallInv'
  BY DEF FieldInv, CallInv, Alone, Field, Agents
<1>7. AgentInv'
  <2> SUFFICES ASSUME NEW b \in Agents \ overlapped, discoveryThread[b] # None,
                      ~Forgetting(b)
               PROVE  /\ pc'[discoveryThread[b]] \notin {"none", "dereference"}
                      /\ pc'[discoveryThread[b]] = "new" <=> Starting(b)
    BY <1>4 DEF AgentInv, Agents
  <2>1. /\ discoveryThread[b] \in Threads
        /\ pc[discoveryThread[b]] \notin {"none", "dereference"}
        /\ pc[discoveryThread[b]] = "new" <=> Starting(b)
    BY DEF AgentInv, TypeOK
  <2>2. CASE discoveryThread[b] = t
    <3>1. owner[t] = b
      BY <1>3, <2>2 DEF FieldInv
    <3>2. ~interrupted[t]
      BY <2>2, <3>1 DEF ToldInv
    <3>3. label # "dereference"
      BY <3>2
    <3> QED
      BY <1>1, <2>1, <2>2, <3>3
  <2>3. CASE discoveryThread[b] # t
    BY <1>1, <2>1, <2>3
  <2> QED
    BY <2>2, <2>3
<1>8. ToldInv'
  <2> SUFFICES ASSUME NEW s \in Threads, pc'[s] \notin {"none", "new", "dereference"},
                      owner[s] \notin overlapped
               PROVE  interrupted'[s] <=> discoveryThread[owner[s]] # s \/ Forgetting(owner[s])'
    BY DEF ToldInv
  <2>1. pc[s] \notin {"none", "new", "dereference"} /\ interrupted'[s] = interrupted[s]
    BY <1>1, <1>2
  <2>2. owner[s] \in Agents
    BY <2>1 DEF ThreadInv, TypeOK
  <2> QED
    BY <1>4, <2>1, <2>2 DEF ToldInv
<1> QED
  BY <1>5, <1>6, <1>7, <1>8

\* The loop of a thread: it leaves the loop exactly when it was told to.
LEMMA LoopThreads ==
    ASSUME IInv, NEW t \in Threads, Loop(t)
    PROVE  ThreadsInv'
<1>0. TypeOK /\ ThreadsInv
  BY DEF IInv, SharedResolverIsOpen
<1> USE <1>0 DEF Goto, agentVars
<1>1. CASE ReferenceResolver(t)
  BY <1>1, Moves DEF ReferenceResolver
<1>2. CASE Request(t)
  BY <1>2, Moves DEF Request
<1>3. CASE Retry(t)
  <2>1. PICK h \in names[t] :
           \/ resolved' = [resolved EXCEPT ![t] = h] /\ Goto(t, "handle")
           \/ UNCHANGED <<pc, resolved>>
    BY <1>3 DEF Retry
  <2>2. pc[t] = "retry" /\ UNCHANGED <<agentVars, owner, interrupted>>
    BY <1>3 DEF Retry
  <2>3. CASE resolved' = [resolved EXCEPT ![t] = h] /\ Goto(t, "handle")
    <3>1. resolved'[t] \in Hosts /\ \A s \in Threads : s # t => resolved'[s] = resolved[s]
      BY <2>3 DEF TypeOK
    <3> QED
      BY <2>2, <2>3, <3>1, Moves
  <2>4. CASE UNCHANGED <<pc, resolved>>
    BY <2>2, <2>4, QuietThreads DEF ThreadsQuiet
  <2> QED
    BY <2>1, <2>3, <2>4
<1>4. CASE HandleRetried(t)
  <2>1. \A s \in Threads : s # t => resolved'[s] = resolved[s]
    BY <1>4 DEF HandleRetried, TypeOK
  <2> QED
    BY <1>4, <2>1, Moves DEF HandleRetried
<1>5. CASE RetriesEnd(t)
  BY <1>5, Moves DEF RetriesEnd
<1>6. CASE Sleep(t)
  BY <1>6, Moves DEF Sleep
<1>7. CASE DereferenceResolver(t)
  <2>1. /\ pc[t] = "dereference" /\ pc' = [pc EXCEPT ![t] = "none"]
        /\ owner' = [owner EXCEPT ![t] = None]
        /\ interrupted' = [interrupted EXCEPT ![t] = FALSE]
        /\ UNCHANGED <<discoveryThread, resolved, callVars>>
    BY <1>7 DEF DereferenceResolver
  <2>2. /\ pc'[t] = "none" /\ owner'[t] = None /\ ~interrupted'[t]
        /\ \A s \in Threads : s # t => /\ pc'[s] = pc[s] /\ owner'[s] = owner[s]
                                       /\ interrupted'[s] = interrupted[s]
    BY <2>1 DEF TypeOK
  <2>3. \A b \in Agents : /\ Forgetting(b)' <=> Forgetting(b)
                          /\ Starting(b)' <=> Starting(b)
    BY <2>1 DEF Forgetting, Starting, callVars
  <2>4. ThreadInv'
    BY <2>1, <2>2 DEF ThreadInv, ThreadsInv
  <2>5. FieldInv' /\ CallInv'
    BY <2>1, <2>2 DEF ThreadsInv, FieldInv, CallInv, Alone, Field, Agents, callVars, TypeOK
  <2>6. AgentInv'
    <3> SUFFICES ASSUME NEW b \in Agents \ overlapped, discoveryThread[b] # None,
                        ~Forgetting(b)
                 PROVE  /\ pc'[discoveryThread[b]] \notin {"none", "dereference"}
                        /\ pc'[discoveryThread[b]] = "new" <=> Starting(b)
      BY <2>1, <2>3 DEF AgentInv, Agents, callVars
    <3>1. /\ discoveryThread[b] \in Threads
          /\ pc[discoveryThread[b]] \notin {"none", "dereference"}
          /\ pc[discoveryThread[b]] = "new" <=> Starting(b)
      BY DEF ThreadsInv, AgentInv, TypeOK
    <3> QED
      BY <2>1, <2>2, <3>1
  <2>7. ToldInv'
    <3> SUFFICES ASSUME NEW s \in Threads, pc'[s] \notin {"none", "new", "dereference"},
                        owner'[s] \notin overlapped
                 PROVE  interrupted'[s] <=>
                           \/ discoveryThread[owner'[s]] # s
                           \/ \E d \in Clients : agent'[d] = owner'[s] /\ at'[d] = "forget"
      BY <2>1 DEF ToldInv, callVars, Forgetting
    <3>1. s # t /\ pc'[s] = pc[s] /\ owner'[s] = owner[s] /\ interrupted'[s] = interrupted[s]
      BY <2>2
    <3>2. owner[s] \in Agents
      BY <3>1 DEF ThreadsInv, ThreadInv, TypeOK
    <3> QED
      BY <2>3, <3>1, <3>2 DEF ThreadsInv, ToldInv, Forgetting
  <2> QED
    BY <2>4, <2>5, <2>6, <2>7 DEF ThreadsInv
<1> QED
  BY <1>1, <1>2, <1>3, <1>4, <1>5, <1>6, <1>7 DEF Loop

-----------------------------------------------------------------------------
\* No thread uses the resolver before the first discovery.
LEMMA InitIInv == Init => IInv
<1> SUFFICES ASSUME Init PROVE IInv
  OBVIOUS
<1>1. {t \in Threads : pc[t] \in UsingResolver} = {}
  BY DEF Init, UsingResolver
<1>2. SharedResolverIsOpen
  <2>1. open = FALSE /\ resolverRefCount = 0 /\ ~(resolverRefCount > 0)
    BY DEF Init
  <2>2. \A t \in Threads : pc[t] \in UsingResolver <=> t \in using
    BY <1>1 DEF Init
  <2>3. open <=> resolverRefCount > 0
    BY <2>1
  <2> QED
    BY <1>1, <2>1, <2>2, <2>3, InitTypeOK, FS_EmptySet DEF SharedResolverIsOpen
<1>3. ThreadsInv
  BY DEF Init, ThreadsInv, ThreadInv, FieldInv, CallInv, AgentInv, ToldInv, Alone, Field
<1> QED
  BY <1>2, <1>3 DEF IInv

\* Every step keeps the reference count, the threads and the agents together.
LEMMA NextIInv == IInv /\ [Next]_vars => IInv'
<1> SUFFICES ASSUME IInv, [Next]_vars PROVE IInv'
  OBVIOUS
<1>0. TypeOK /\ SharedResolverIsOpen /\ ThreadsInv /\ CallInv
  BY DEF IInv, SharedResolverIsOpen, ThreadsInv
<1>1. ASSUME NEW c \in Clients, NEW a \in Agents,
             StartDiscovery(c, a) \/ StopDiscovery(c, a) \/ (a = service /\ OnUnbind(c))
      PROVE  IInv'
  <2>1. TypeOK' /\ Begin(c, a)
    BY <1>0, <1>1, BeginTypeOK DEF StartDiscovery, StopDiscovery, OnUnbind
  <2>2. SharedResolverIsOpen'
    BY <1>0, <2>1, QuietShared DEF ResolverQuiet, Used, Begin, resolverVars, threadVars
  <2> QED
    BY <1>0, <2>1, <2>2, BeginInv DEF IInv
<1>2. ASSUME NEW c \in Clients, Call(c) PROVE IInv'
  <2>1. TypeOK' /\ ThreadsInv'
    BY <1>0, <1>2, CallTypeOK, CallThreads
  <2>2. Used' = Used
    <3>1. \A t \in Threads : pc'[t] = pc[t] \/
              (pc[t] \notin UsingResolver /\ pc'[t] \notin UsingResolver)
      <4>1. CASE ForgetThread(c)
        BY <1>0, <4>1, WithoutType DEF ForgetThread, UsingResolver, Forsaken
      <4>2. CASE AssignThread(c)
        BY <1>0, <4>2, WithoutType DEF AssignThread, UsingResolver, Forsaken
      <4>3. CASE StartThread(c)
        BY <1>0, <4>3 DEF StartThread, Goto, UsingResolver, TypeOK
      <4>4. CASE TestThread(c) \/ InterruptThread(c) \/ AddListener(c) \/ NameThread(c)
        BY <4>4 DEF TestThread, InterruptThread, AddListener, NameThread, threadVars
      <4> QED
        BY <1>2, <4>1, <4>2, <4>3, <4>4 DEF Call
    <3> QED
      BY <3>1 DEF Used
  <2>3. UNCHANGED <<resolverRefCount, open, using>>
    BY <1>2 DEF Call, TestThread, InterruptThread, ForgetThread, AddListener, AssignThread,
                NameThread, StartThread, resolverVars, threadVars
  <2> QED
    BY <1>0, <2>1, <2>2, <2>3, QuietShared DEF ResolverQuiet, IInv
<1>3. CASE \E c \in Clients : OnUnbind(c)
  BY <1>0, <1>1, <1>3 DEF TypeOK
<1>4. ASSUME NEW h \in Hosts, ComeOrGo(h) PROVE IInv'
  <2>1. SharedResolverIsOpen'
    BY <1>0, <1>4, ComeOrGoTypeOK, QuietShared
       DEF ResolverQuiet, Used, ComeOrGo, resolverVars, threadVars
  <2> QED
    BY <1>0, <1>4, <2>1, QuietThreads DEF IInv, ThreadsQuiet, ComeOrGo, threadVars, agentVars
<1>5. ASSUME NEW t \in Threads, Loop(t) PROVE IInv'
  BY <1>5, LoopShared, LoopThreads DEF IInv
<1>6. CASE Resolver
  <2>1. /\ UNCHANGED <<resolverRefCount, open>>
        /\ UNCHANGED <<discoveryThread, owner, pc, using, interrupted, resolved, callVars>>
    BY <1>6 DEF Resolver, Dispatch, Announce, ServiceAdded, ServiceRemoved,
                resolverVars, threadVars, agentVars
  <2>2. SharedResolverIsOpen'
    BY <1>0, <1>6, <2>1, ResolverTypeOK, QuietShared DEF ResolverQuiet, Used
  <2> QED
    BY <1>0, <2>1, <2>2, QuietThreads DEF IInv, ThreadsQuiet
<1>7. CASE UNCHANGED vars
  <2>1. UNCHANGED <<agentVars, foundVars, resolverVars, dispatch, threadVars, networkVars>>
    BY <1>7 DEF vars
  <2>2. TypeOK'
    BY <1>0, <2>1
       DEF TypeOK, agentVars, callVars, foundVars, resolverVars, threadVars, networkVars
  <2>3. SharedResolverIsOpen'
    BY <1>0, <2>1, <2>2, QuietShared DEF ResolverQuiet, Used, resolverVars, threadVars
  <2> QED
    BY <1>0, <2>1, <2>3, QuietThreads DEF IInv, ThreadsQuiet, threadVars, agentVars
<1> QED
  BY <1>1, <1>2, <1>3, <1>4, <1>5, <1>6, <1>7 DEF Next

-----------------------------------------------------------------------------
\* The resolver is open exactly while a thread uses it, and the reference count
\* is the number of those threads, even if the calls of the clients overlap.
THEOREM SharedResolverIsOpenHolds == Spec => []SharedResolverIsOpen
<1>1. IInv => SharedResolverIsOpen
  BY DEF IInv
<1> QED
  BY InitIInv, NextIInv, <1>1, PTL DEF Spec

\* While the calls on an agent do not overlap, of all its threads the one that its
\* field holds goes on, every other one is told to stop, and no call throws.
THEOREM OneThreadGoesOnHolds == Spec => []OneThreadGoesOn
<1>1. IInv => OneThreadGoesOn
  BY DEF IInv, ThreadsInv, ToldInv, CallInv, OneThreadGoesOn
<1> QED
  BY InitIInv, NextIInv, <1>1, PTL DEF Spec

-----------------------------------------------------------------------------
(***************************************************************************)
(* AppAssetLoader.                                                         *)
(***************************************************************************)

\* A bitmap that is shown is the view's own, or a fade-out put it there too late.
ShownInv == \A v \in Views :
    drawable[v] \in Apps => drawable[v] = bound[v] \/ v \in overtaken

\* The task that a view waits for was made for this view and its application.
AttachedInv == \A v \in Views : drawable[v] \in Tasks =>
    /\ task[drawable[v]].state # "none"
    /\ task[drawable[v]].view = v
    /\ task[drawable[v]].app = bound[v]

\* A queue holds tasks that wait, of its own executor, and each of them once.
Waiting(q, x, tasks) == \A i \in 1 .. Len(q) :
    /\ tasks[q[i]].state = "queued"
    /\ tasks[q[i]].diskOnly <=> x = "foreground"
    /\ \A j \in 1 .. Len(q) : q[i] = q[j] => i = j

QueueInv == \A x \in Executors : Waiting(queue[x], x, task)

\* A task was made for a view and an application, knows its tuple once it has
\* begun, and asks for the network when its load has ended.
TaskInv == \A t \in Tasks :
    /\ task[t].state # "none" => task[t].view \in Views /\ task[t].app \in Apps
    /\ task[t].state \in {"none", "queued", "dropped"} => ~task[t].tuple
    /\ t \in progress => task[t].state = "posted"

\* A disk task that a view still waits for, and that has ended, found the bitmap:
\* otherwise it asked for a network task, which took its place.
LoadInv == \A v \in Views : \A t \in Tasks :
    drawable[v] = t /\ ~task[t].cancelled /\ task[t].diskOnly =>
        /\ task[t].state = "posted" /\ t \notin progress => task[t].found
        /\ task[t].state = "done" => fading[v] = bound[v]

LoaderInv == LoaderTypeOK /\ ShownInv /\ AttachedInv /\ QueueInv /\ TaskInv /\ LoadInv

-----------------------------------------------------------------------------
\* The first task of a queue and the others.
LEMMA HeadAndTail ==
    ASSUME NEW S, NEW q \in Seq(S), q # <<>>
    PROVE  /\ Head(q) \in S /\ Head(q) = q[1] /\ Len(q) \in Nat \ {0}
           /\ Tail(q) \in Seq(S) /\ Len(Tail(q)) = Len(q) - 1
           /\ \A i \in 1 .. Len(Tail(q)) : i + 1 \in 1 .. Len(q) /\ Tail(q)[i] = q[i + 1]
OBVIOUS

\* A queue and its new last task.
LEMMA AppendedTask ==
    ASSUME NEW S, NEW q \in Seq(S), NEW n \in S
    PROVE  /\ Append(q, n) \in Seq(S) /\ Len(Append(q, n)) = Len(q) + 1
           /\ \A i \in 1 .. Len(Append(q, n)) :
                 IF i = Len(q) + 1 THEN Append(q, n)[i] = n
                 ELSE i \in 1 .. Len(q) /\ Append(q, n)[i] = q[i]
OBVIOUS

\* What is left of a queue waits still, without the first task.
LEMMA TailWaits ==
    ASSUME NEW q \in Seq(Tasks), q # <<>>, NEW x, NEW tasks, Waiting(q, x, tasks)
    PROVE  /\ Waiting(Tail(q), x, tasks)
           /\ \A i \in 1 .. Len(Tail(q)) : Tail(q)[i] # Head(q)
<1>1. /\ Head(q) = q[1] /\ 1 \in 1 .. Len(q)
      /\ Len(q) \in Nat /\ Len(Tail(q)) = Len(q) - 1
      /\ \A i \in 1 .. Len(Tail(q)) : i + 1 \in 1 .. Len(q) /\ Tail(q)[i] = q[i + 1]
  BY HeadAndTail
<1>2. \A i \in 1 .. Len(Tail(q)) : Tail(q)[i] # Head(q)
  BY <1>1 DEF Waiting
<1>3. Waiting(Tail(q), x, tasks)
  BY <1>1 DEF Waiting
<1> QED
  BY <1>2, <1>3

\* A task that is queued and was not there before joins those that wait.
LEMMA AppendWaits ==
    ASSUME NEW q \in Seq(Tasks), NEW x, NEW tasks, NEW n \in Tasks, Waiting(q, x, tasks),
           tasks[n].state = "queued", tasks[n].diskOnly <=> x = "foreground",
           \A i \in 1 .. Len(q) : q[i] # n
    PROVE  Waiting(Append(q, n), x, tasks)
<1>1. /\ Len(q) \in Nat /\ Len(Append(q, n)) = Len(q) + 1
      /\ \A i \in 1 .. Len(Append(q, n)) :
            IF i = Len(q) + 1 THEN Append(q, n)[i] = n
            ELSE i \in 1 .. Len(q) /\ Append(q, n)[i] = q[i]
  BY AppendedTask
<1> QED
  BY <1>1 DEF Waiting

\* Those that wait do so while their own records stay.
LEMMA WaitingSame ==
    ASSUME NEW q \in Seq(Tasks), NEW x, NEW tasks, NEW tasks2, Waiting(q, x, tasks),
           \A i \in 1 .. Len(q) : /\ tasks2[q[i]].state = tasks[q[i]].state
                                  /\ tasks2[q[i]].diskOnly = tasks[q[i]].diskOnly
    PROVE  Waiting(q, x, tasks2)
BY DEF Waiting

\* A task waits in one queue only.
LEMMA OneQueue ==
    ASSUME LoaderTypeOK, QueueInv, NEW x \in Executors, NEW y \in Executors,
           NEW i \in 1 .. Len(queue[x]), NEW j \in 1 .. Len(queue[y]),
           queue[x][i] = queue[y][j]
    PROVE  x = y /\ i = j
BY DEF QueueInv, Waiting, Executors

\* What becomes of a task's record when a worker takes it and when it is dropped.
LEMMA TaskRecords ==
    ASSUME NEW r \in LoaderTask
    PROVE  /\ [r EXCEPT !.state = "dropped"] \in LoaderTask
           /\ [r EXCEPT !.state = "running", !.tuple = TRUE] \in LoaderTask
BY DEF LoaderTask

\* What may happen to a waiting task that another one pushes out of its queue.
KeptOrDropped(old, new) ==
    new = old \/ (old.state = "queued" /\ new = [old EXCEPT !.state = "dropped"])

\* Putting the new task n into a queue keeps the queues in order, and does not
\* do more to the other tasks than to drop one that waits.
LEMMA Executed ==
    ASSUME LoaderTypeOK, QueueInv, NEW x \in Executors, NEW n \in Tasks,
           NEW tasks \in [Tasks -> LoaderTask], task[n].state = "none",
           tasks[n].state = "queued", tasks[n].diskOnly <=> x = "foreground",
           \A t \in Tasks : t # n => /\ tasks[t].state = task[t].state
                                     /\ tasks[t].diskOnly = task[t].diskOnly,
           Execute(x, n, tasks)
    PROVE  /\ queue' \in [Executors -> Seq(Tasks)]
           /\ \A y \in Executors : Len(queue'[y]) <= QueueLength
           /\ task' \in [Tasks -> LoaderTask]
           /\ QueueInv'
           /\ task'[n] = tasks[n]
           /\ \A t \in Tasks : KeptOrDropped(tasks[t], task'[t])
<1> USE QueuesAssumption
<1>a. queue \in [Executors -> Seq(Tasks)] /\ \A y \in Executors : Len(queue[y]) <= QueueLength
  BY DEF LoaderTypeOK
<1>n. \A y \in Executors : \A i \in 1 .. Len(queue[y]) : queue[y][i] # n /\ queue[y][i] \in Tasks
  <2> SUFFICES ASSUME NEW y \in Executors, NEW i \in 1 .. Len(queue[y])
               PROVE  queue[y][i] # n /\ queue[y][i] \in Tasks
    OBVIOUS
  <2>1. queue[y] \in Seq(Tasks)
    BY <1>a
  <2>2. task[queue[y][i]].state = "queued"
    BY DEF QueueInv, Waiting
  <2> QED
    BY <2>1, <2>2
<1>w. \A y \in Executors : Waiting(queue[y], y, tasks)
  <2> SUFFICES ASSUME NEW y \in Executors
               PROVE  Waiting(queue[y], y, tasks)
    OBVIOUS
  <2>1. queue[y] \in Seq(Tasks) /\ Waiting(queue[y], y, task)
    BY <1>a DEF QueueInv
  <2>2. \A i \in 1 .. Len(queue[y]) : /\ tasks[queue[y][i]].state = task[queue[y][i]].state
                                      /\ tasks[queue[y][i]].diskOnly = task[queue[y][i]].diskOnly
    BY <1>n
  <2> QED
    BY <2>1, <2>2, WaitingSame
<1>q. queue[x] \in Seq(Tasks) /\ Len(queue[x]) \in Nat
  BY <1>a
<1>1. CASE Len(queue[x]) < QueueLength
  <2>1. queue' = [queue EXCEPT ![x] = Append(queue[x], n)] /\ task' = tasks
    BY <1>1 DEF Execute
  <2>2. Append(queue[x], n) \in Seq(Tasks) /\ Len(Append(queue[x], n)) = Len(queue[x]) + 1
    BY <1>q, AppendedTask
  <2>3. Waiting(Append(queue[x], n), x, tasks)
    BY <1>q, <1>w, <1>n, AppendWaits
  <2>4. queue' \in [Executors -> Seq(Tasks)] /\ \A y \in Executors : Len(queue'[y]) <= QueueLength
    BY <2>1, <2>2, <1>1, <1>a, <1>q
  <2>5. \A y \in Executors : Waiting(queue'[y], y, tasks)
    BY <2>1, <2>3, <1>w, <1>a
  <2>6. QueueInv'
    BY <2>1, <2>5 DEF QueueInv
  <2>7. \A t \in Tasks : KeptOrDropped(tasks[t], task'[t])
    BY <2>1 DEF KeptOrDropped
  <2> QED
    BY <2>1, <2>4, <2>6, <2>7
<1>2. CASE ~(Len(queue[x]) < QueueLength)
  <2> DEFINE h == Head(queue[x])
  <2>1. queue' = [queue EXCEPT ![x] = Append(Tail(queue[x]), n)] /\ task' = [tasks EXCEPT ![h].state = "dropped"]
    BY <1>2 DEF Execute
  <2>2. queue[x] # <<>>
    BY <1>2, <1>q
  <2>3. /\ h \in Tasks /\ h = queue[x][1] /\ Len(queue[x]) \in Nat \ {0}
        /\ Tail(queue[x]) \in Seq(Tasks) /\ Len(Tail(queue[x])) = Len(queue[x]) - 1
        /\ \A i \in 1 .. Len(Tail(queue[x])) :
              i + 1 \in 1 .. Len(queue[x]) /\ Tail(queue[x])[i] = queue[x][i + 1]
    BY <2>2, <1>q, HeadAndTail
  <2>4. 1 \in 1 .. Len(queue[x])
    BY <2>3
  <2>5. h # n /\ tasks[h].state = "queued"
    BY <2>3, <2>4, <1>n, <1>w DEF Waiting
  <2>6. /\ Waiting(Tail(queue[x]), x, tasks)
        /\ \A i \in 1 .. Len(Tail(queue[x])) : Tail(queue[x])[i] # h
    BY <1>q, <2>2, <1>w, TailWaits
  <2>7. \A i \in 1 .. Len(Tail(queue[x])) : Tail(queue[x])[i] # n
    BY <2>3, <1>n
  <2>8. Append(Tail(queue[x]), n) \in Seq(Tasks) /\ Len(Append(Tail(queue[x]), n)) = Len(queue[x])
    BY <2>3, AppendedTask
  <2>9. /\ task' \in [Tasks -> LoaderTask] /\ task'[n] = tasks[n]
        /\ \A t \in Tasks : t # h => task'[t] = tasks[t]
        /\ task'[h] = [tasks[h] EXCEPT !.state = "dropped"]
    <3> HIDE DEF h
    <3>1. [tasks[h] EXCEPT !.state = "dropped"] \in LoaderTask
      BY <2>3, TaskRecords
    <3>2. task' = [tasks EXCEPT ![h] = [tasks[h] EXCEPT !.state = "dropped"]]
      BY <2>1
    <3> QED
      BY <2>3, <2>5, <3>1, <3>2
  <2>10. \A t \in Tasks : KeptOrDropped(tasks[t], task'[t])
    BY <2>9, <2>5 DEF KeptOrDropped
  <2>11. queue' \in [Executors -> Seq(Tasks)] /\ \A y \in Executors : Len(queue'[y]) <= QueueLength
    BY <2>1, <2>8, <1>a
  <2>12. Waiting(Append(Tail(queue[x]), n), x, task')
    <3>1. \A i \in 1 .. Len(Tail(queue[x])) : Tail(queue[x])[i] \in Tasks
      BY <2>3
    <3>2. Waiting(Tail(queue[x]), x, task')
      BY <2>3, <2>6, <2>9, <3>1, WaitingSame
    <3> QED
      BY <2>3, <2>7, <2>9, <3>2, AppendWaits
  <2>13. \A y \in Executors : y # x => Waiting(queue[y], y, task')
    <3> SUFFICES ASSUME NEW y \in Executors, y # x
                 PROVE  Waiting(queue[y], y, task')
      OBVIOUS
    <3>1. \A i \in 1 .. Len(queue[y]) : queue[y][i] # h /\ queue[y][i] \in Tasks
      <4> SUFFICES ASSUME NEW i \in 1 .. Len(queue[y])
                   PROVE  queue[y][i] # h /\ queue[y][i] \in Tasks
        OBVIOUS
      <4>1. queue[y][i] # queue[x][1]
        BY <2>4, OneQueue
      <4> QED
        BY <4>1, <2>3, <1>n
    <3>2. queue[y] \in Seq(Tasks) /\ Waiting(queue[y], y, tasks)
      BY <1>a, <1>w
    <3> QED
      BY <3>1, <3>2, <2>9, WaitingSame
  <2>14. \A y \in Executors : queue'[y] = IF y = x THEN Append(Tail(queue[x]), n) ELSE queue[y]
    BY <2>1, <1>a
  <2>15. \A y \in Executors : Waiting(queue'[y], y, task')
    BY <2>12, <2>13, <2>14
  <2>16. QueueInv'
    BY <2>15 DEF QueueInv
  <2> QED
    BY <2>9, <2>10, <2>11, <2>16
<1> QED
  BY <1>1, <1>2

\* A new object is one that nothing refers to.
LEMMA NewObjectIsFree ==
    ASSUME LoaderInv, NEW n \in NewObject
    PROVE  /\ n \in Tasks /\ task[n].state = "none" /\ n \notin progress
           /\ \A v \in Views : drawable[v] # n
<1>1. n \in Tasks /\ task[n].state = "none"
  BY DEF NewObject, Unused
<1>2. n \notin progress
  BY <1>1 DEF LoaderInv, TaskInv
<1>3. \A v \in Views : drawable[v] # n
  BY <1>1 DEF LoaderInv, AttachedInv
<1> QED
  BY <1>1, <1>2, <1>3

\* The record of a new task.
LEMMA NewTaskIsTask ==
    ASSUME NEW v \in Views, NEW a \in Apps, NEW d \in BOOLEAN
    PROVE  /\ NewTask(v, a, d) \in LoaderTask
           /\ NewTask(v, a, d).state = "queued" /\ NewTask(v, a, d).view = v
           /\ NewTask(v, a, d).app = a /\ NewTask(v, a, d).diskOnly = d
           /\ ~NewTask(v, a, d).tuple
BY DEF NewTask, NoTask, LoaderTask

\* cancelPendingLoad() sets the mark of the task that the view waits for.
LEMMA CancelledTasks ==
    ASSUME LoaderTypeOK, NEW v \in Views
    PROVE  /\ Cancelled(v) \in [Tasks -> LoaderTask]
           /\ \A t \in Tasks : /\ Cancelled(v)[t].state = task[t].state
                               /\ Cancelled(v)[t].view = task[t].view
                               /\ Cancelled(v)[t].app = task[t].app
                               /\ Cancelled(v)[t].diskOnly = task[t].diskOnly
                               /\ Cancelled(v)[t].tuple = task[t].tuple
           /\ \A t \in Tasks : drawable[v] # t => Cancelled(v)[t] = task[t]
<1>1. \A t \in Tasks : task[t] \in LoaderTask
  BY DEF LoaderTypeOK
<1>2. \A t \in Tasks : Cancelled(v)[t] = IF drawable[v] = t THEN [task[t] EXCEPT !.cancelled = TRUE]
                                         ELSE task[t]
  BY DEF Cancelled, IsLoaderTask
<1>3. \A t \in Tasks : [task[t] EXCEPT !.cancelled = TRUE] \in LoaderTask
  BY <1>1 DEF LoaderTask
<1>4. Cancelled(v) \in [Tasks -> LoaderTask]
  BY <1>1, <1>3 DEF Cancelled, IsLoaderTask
<1>5. \A t \in Tasks : /\ Cancelled(v)[t].state = task[t].state
                       /\ Cancelled(v)[t].view = task[t].view
                       /\ Cancelled(v)[t].app = task[t].app
                       /\ Cancelled(v)[t].diskOnly = task[t].diskOnly
                       /\ Cancelled(v)[t].tuple = task[t].tuple
  BY <1>1, <1>2 DEF LoaderTask
<1> QED
  BY <1>2, <1>4, <1>5

\* The invariant holds at the start.
LEMMA LoaderInitInv == LoaderInit => LoaderInv
<1> SUFFICES ASSUME LoaderInit PROVE LoaderInv
  OBVIOUS
<1> USE NothingAssumption, QueuesAssumption
<1>1. NoTask \in LoaderTask /\ NoTask.state = "none" /\ ~NoTask.tuple
  BY DEF NoTask, LoaderTask
<1>2. LoaderTypeOK
  BY <1>1 DEF LoaderInit, LoaderTypeOK
<1>3. ShownInv /\ AttachedInv
  BY DEF LoaderInit, ShownInv, AttachedInv
<1>4. QueueInv
  BY DEF LoaderInit, QueueInv, Waiting
<1>5. TaskInv
  BY <1>1 DEF LoaderInit, TaskInv
<1>6. LoadInv
  BY DEF LoaderInit, LoadInv
<1> QED
  BY <1>2, <1>3, <1>4, <1>5, <1>6 DEF LoaderInv

\* populateImageView() with a bitmap in memory.
LEMMA PopulateFromMemory ==
    ASSUME LoaderInv, NEW v \in Views, NEW a \in Apps,
           PopulateImageView(v, a), PendingLoad(v, a) = {}, UNCHANGED queue,
           drawable' = [drawable EXCEPT ![v] = a],
           visible' = [visible EXCEPT ![v] = TRUE],
           task' = Cancelled(v)
    PROVE  LoaderInv'
<1> USE NothingAssumption
<1> DEFINE c == Cancelled(v)
<1>1. /\ bound' = [bound EXCEPT ![v] = a] /\ overtaken' = overtaken \ {v}
      /\ populates < MaxPopulates /\ populates' = populates + 1
      /\ UNCHANGED <<fading, progress, pauses>>
  BY DEF PopulateImageView
<1>2. LoaderTypeOK
  BY DEF LoaderInv
<1>3. /\ c \in [Tasks -> LoaderTask]
      /\ \A t \in Tasks : /\ c[t].state = task[t].state /\ c[t].view = task[t].view
                          /\ c[t].app = task[t].app /\ c[t].diskOnly = task[t].diskOnly
                          /\ c[t].tuple = task[t].tuple
      /\ \A t \in Tasks : drawable[v] # t => c[t] = task[t]
  BY <1>2, CancelledTasks
<1>4. task' = c
  OBVIOUS
<1> HIDE DEF c
<1>5. LoaderTypeOK'
  BY <1>1, <1>2, <1>3, <1>4, QueuesAssumption DEF LoaderTypeOK
<1>6. \A w \in Views : w # v => /\ drawable'[w] = drawable[w] /\ bound'[w] = bound[w]
                                /\ fading'[w] = fading[w] /\ (w \in overtaken' <=> w \in overtaken)
  BY <1>1, <1>2 DEF LoaderTypeOK
<1>7. drawable'[v] = a /\ bound'[v] = a /\ a \notin Tasks
  BY <1>1, <1>2 DEF LoaderTypeOK
<1>8. ShownInv'
  BY <1>6, <1>7 DEF LoaderInv, ShownInv
<1>9. AttachedInv'
  BY <1>3, <1>4, <1>6, <1>7 DEF LoaderInv, AttachedInv
<1>10. QueueInv'
  <2> SUFFICES ASSUME NEW x \in Executors PROVE Waiting(queue[x], x, c)
    BY <1>4 DEF QueueInv
  <2>1. queue[x] \in Seq(Tasks) /\ Waiting(queue[x], x, task)
    BY <1>2 DEF LoaderInv, QueueInv, LoaderTypeOK
  <2>2. \A i \in 1 .. Len(queue[x]) : queue[x][i] \in Tasks
    BY <2>1
  <2> QED
    BY <1>3, <2>1, <2>2, WaitingSame
<1>11. TaskInv'
  BY <1>1, <1>3, <1>4 DEF LoaderInv, TaskInv
<1>12. LoadInv'
  <2> SUFFICES ASSUME NEW w \in Views, NEW t \in Tasks, drawable'[w] = t, ~task'[t].cancelled,
                      task'[t].diskOnly
               PROVE  /\ task'[t].state = "posted" /\ t \notin progress' => task'[t].found
                      /\ task'[t].state = "done" => fading'[w] = bound'[w]
    BY DEF LoadInv
  <2>1. w # v /\ drawable[w] = t
    BY <1>6, <1>7
  <2>2. drawable[v] # t
    BY <2>1 DEF LoaderInv, AttachedInv
  <2>3. task'[t] = task[t]
    BY <1>3, <1>4, <2>2
  <2> QED
    BY <1>1, <1>6, <2>1, <2>3 DEF LoaderInv, LoadInv
<1> QED
  BY <1>5, <1>8, <1>9, <1>10, <1>11, <1>12 DEF LoaderInv

\* A view waits for the new task n in the place of what it showed or waited for.
\* The tasks are otherwise as before, save that those of this view may be cancelled.
LEMMA ViewWaitsForNewTask ==
    ASSUME LoaderInv, NEW v \in Views, NEW a \in Apps, NEW n \in NewObject,
           NEW x \in Executors, NEW d \in BOOLEAN, d <=> x = "foreground",
           NEW before \in [Tasks -> LoaderTask],
           \A t \in Tasks : /\ before[t].state = task[t].state /\ before[t].view = task[t].view
                            /\ before[t].app = task[t].app /\ before[t].diskOnly = task[t].diskOnly
                            /\ before[t].tuple = task[t].tuple,
           \A t \in Tasks : drawable[v] # t => before[t] = task[t],
           Execute(x, n, [before EXCEPT ![n] = NewTask(v, a, d)]),
           drawable' = [drawable EXCEPT ![v] = n],
           bound' = [bound EXCEPT ![v] = a],
           visible' \in [Views -> BOOLEAN],
           fading' \in [Views -> Apps \cup {Nothing}],
           \A w \in Views : w # v => fading'[w] = fading[w],
           overtaken' \subseteq overtaken, overtaken \ {v} \subseteq overtaken',
           progress' \subseteq progress,
           \A w \in Views : w # v => (drawable[w] \in progress' <=> drawable[w] \in progress),
           populates' \in 0 .. MaxPopulates, pauses' \in 0 .. MaxPauses
    PROVE  LoaderInv'
<1> USE NothingAssumption
<1> DEFINE new == NewTask(v, a, d)
           tasks == [before EXCEPT ![n] = new]
<1>1. n \in Tasks /\ task[n].state = "none" /\ n \notin progress /\ \A w \in Views : drawable[w] # n
  BY NewObjectIsFree
<1>2. /\ new \in LoaderTask /\ new.state = "queued" /\ new.view = v /\ new.app = a
      /\ new.diskOnly = d /\ ~new.tuple
  BY NewTaskIsTask
<1> HIDE DEF new
<1>3. LoaderTypeOK /\ QueueInv
  BY DEF LoaderInv
<1>4. tasks \in [Tasks -> LoaderTask] /\ tasks[n] = new /\ \A t \in Tasks : t # n => tasks[t] = before[t]
  BY <1>1, <1>2
<1>5. Execute(x, n, tasks)
  BY DEF new
<1> HIDE DEF tasks
<1>6. \A t \in Tasks : t # n => tasks[t].state = task[t].state /\ tasks[t].diskOnly = task[t].diskOnly
  BY <1>4
<1>7. /\ queue' \in [Executors -> Seq(Tasks)]
      /\ \A y \in Executors : Len(queue'[y]) <= QueueLength
      /\ task' \in [Tasks -> LoaderTask]
      /\ QueueInv'
      /\ task'[n] = new
      /\ \A t \in Tasks : KeptOrDropped(tasks[t], task'[t])
  <2>1. tasks[n].state = "queued" /\ (tasks[n].diskOnly <=> x = "foreground")
    BY <1>2, <1>4
  <2> QED
    BY <1>1, <1>3, <1>4, <1>5, <1>6, <2>1, Executed
<1>8. \A t \in Tasks : t # n => KeptOrDropped(before[t], task'[t])
  BY <1>4, <1>7
<1>9. \A t \in Tasks : t # n =>
         /\ task'[t].state = task[t].state \/ (task[t].state = "queued" /\ task'[t].state = "dropped")
         /\ task'[t].view = task[t].view /\ task'[t].app = task[t].app
         /\ task'[t].tuple = task[t].tuple
  <2> SUFFICES ASSUME NEW t \in Tasks, t # n
               PROVE  /\ \/ task'[t].state = task[t].state
                         \/ task[t].state = "queued" /\ task'[t].state = "dropped"
                      /\ task'[t].view = task[t].view /\ task'[t].app = task[t].app
                      /\ task'[t].tuple = task[t].tuple
    OBVIOUS
  <2>1. KeptOrDropped(before[t], task'[t]) /\ before[t] \in LoaderTask
    BY <1>8
  <2>2. /\ \/ task'[t].state = before[t].state
           \/ before[t].state = "queued" /\ task'[t].state = "dropped"
        /\ task'[t].view = before[t].view /\ task'[t].app = before[t].app
        /\ task'[t].tuple = before[t].tuple
    BY <2>1 DEF KeptOrDropped, LoaderTask
  <2> QED
    BY <2>2
<1>10. LoaderTypeOK'
  BY <1>1, <1>3, <1>7 DEF LoaderTypeOK
<1>11. drawable'[v] = n /\ bound'[v] = a /\ n \notin Apps
  BY <1>1, <1>3 DEF LoaderTypeOK
<1>12. \A w \in Views : w # v => /\ drawable'[w] = drawable[w] /\ bound'[w] = bound[w]
                                 /\ (w \in overtaken' <=> w \in overtaken)
  BY <1>3 DEF LoaderTypeOK
<1>13. ShownInv'
  BY <1>11, <1>12 DEF LoaderInv, ShownInv
<1>14. AttachedInv'
  <2> SUFFICES ASSUME NEW w \in Views, drawable'[w] \in Tasks
               PROVE  /\ task'[drawable'[w]].state # "none"
                      /\ task'[drawable'[w]].view = w
                      /\ task'[drawable'[w]].app = bound'[w]
    BY DEF AttachedInv
  <2>1. CASE w = v
    BY <2>1, <1>2, <1>7, <1>11
  <2>2. CASE w # v
    <3>1. /\ drawable'[w] = drawable[w] /\ bound'[w] = bound[w] /\ drawable[w] \in Tasks
          /\ drawable[w] # n
      BY <2>2, <1>1, <1>12
    <3>2. /\ task[drawable[w]].state # "none" /\ task[drawable[w]].view = w
          /\ task[drawable[w]].app = bound[w]
      BY <3>1 DEF LoaderInv, AttachedInv
    <3> QED
      BY <3>1, <3>2, <1>9
  <2> QED
    BY <2>1, <2>2
<1>15. TaskInv'
  <2> SUFFICES ASSUME NEW t \in Tasks
               PROVE  /\ task'[t].state # "none" => task'[t].view \in Views /\ task'[t].app \in Apps
                      /\ task'[t].state \in {"none", "queued", "dropped"} => ~task'[t].tuple
                      /\ t \in progress' => task'[t].state = "posted"
    BY DEF TaskInv
  <2>1. CASE t = n
    BY <2>1, <1>1, <1>2, <1>7
  <2>2. CASE t # n
    BY <2>2, <1>9 DEF LoaderInv, TaskInv
  <2> QED
    BY <2>1, <2>2
<1>16. LoadInv'
  <2> SUFFICES ASSUME NEW w \in Views, NEW t \in Tasks, drawable'[w] = t, ~task'[t].cancelled,
                      task'[t].diskOnly
               PROVE  /\ task'[t].state = "posted" /\ t \notin progress' => task'[t].found
                      /\ task'[t].state = "done" => fading'[w] = bound'[w]
    BY DEF LoadInv
  <2>1. CASE w = v
    BY <2>1, <1>2, <1>7, <1>11
  <2>2. CASE w # v
    <3>1. drawable[w] = t /\ bound'[w] = bound[w] /\ t # n /\ fading'[w] = fading[w]
      BY <2>2, <1>1, <1>12
    <3>2. drawable[v] # t
      BY <3>1, <2>2 DEF LoaderInv, AttachedInv
    <3>3. before[t] = task[t]
      BY <3>2
    <3>4. task'[t] = task[t] \/ task'[t].state = "dropped"
      BY <3>1, <3>3, <1>8, <1>7 DEF KeptOrDropped, LoaderTask
    <3>5. t \in progress' <=> t \in progress
      BY <3>1, <2>2
    <3> QED
      BY <3>1, <3>4, <3>5 DEF LoaderInv, LoadInv
  <2> QED
    BY <2>1, <2>2
<1> QED
  BY <1>7, <1>10, <1>13, <1>14, <1>15, <1>16 DEF LoaderInv

\* The queues stay in order when the record of a task changes that waits in none.
LEMMA OtherTaskChanges ==
    ASSUME LoaderTypeOK, QueueInv, NEW t \in Tasks, task[t].state # "queued",
           \A u \in Tasks : u # t => task'[u] = task[u], queue' = queue
    PROVE  QueueInv'
<1> SUFFICES ASSUME NEW x \in Executors PROVE Waiting(queue[x], x, task')
  BY DEF QueueInv
<1>1. queue[x] \in Seq(Tasks) /\ Waiting(queue[x], x, task)
  BY DEF QueueInv, LoaderTypeOK
<1>2. \A i \in 1 .. Len(queue[x]) : task'[queue[x][i]] = task[queue[x][i]]
  BY <1>1 DEF Waiting
<1> QED
  BY <1>1, <1>2, WaitingSame

\* populateImageView(): a load that is under way already is one of the view's own
\* application, and the view is bound to that application again.
LEMMA PopulateImageViewInv ==
    ASSUME LoaderInv, NEW v \in Views, NEW a \in Apps, PopulateImageView(v, a)
    PROVE  LoaderInv'
<1> USE NothingAssumption, QueuesAssumption
<1>1. /\ bound' = [bound EXCEPT ![v] = a] /\ populates < MaxPopulates
      /\ populates' = populates + 1 /\ UNCHANGED <<fading, progress, pauses>>
  BY DEF PopulateImageView
<1>2. LoaderTypeOK
  BY DEF LoaderInv
<1>3. populates' \in 0 .. MaxPopulates /\ pauses' \in 0 .. MaxPauses
  BY <1>1, <1>2 DEF LoaderTypeOK
<1>4. CASE PendingLoad(v, a) # {}
  <2>1. UNCHANGED <<drawable, visible, overtaken, task, queue>>
    BY <1>4 DEF PopulateImageView
  <2>2. PICK t \in Tasks : drawable[v] = t /\ task[t].app = a
    BY <1>4 DEF PendingLoad, IsLoaderTask
  <2>3. bound[v] = a
    BY <2>2 DEF LoaderInv, AttachedInv
  <2>4. bound' = bound
    BY <1>1, <1>2, <2>3 DEF LoaderTypeOK
  <2>5. LoaderTypeOK'
    BY <1>1, <1>2, <1>3, <2>1, <2>4 DEF LoaderTypeOK
  <2>6. ShownInv' /\ AttachedInv'
    BY <2>1, <2>4 DEF LoaderInv, ShownInv, AttachedInv
  <2>7. QueueInv'
    BY <2>1 DEF LoaderInv, QueueInv, Waiting
  <2>8. TaskInv' /\ LoadInv'
    BY <1>1, <2>1, <2>4 DEF LoaderInv, TaskInv, LoadInv
  <2> QED
    BY <2>5, <2>6, <2>7, <2>8 DEF LoaderInv
<1>5. CASE PendingLoad(v, a) = {} /\ drawable' = [drawable EXCEPT ![v] = a]
           /\ visible' = [visible EXCEPT ![v] = TRUE] /\ task' = Cancelled(v) /\ UNCHANGED queue
  BY <1>5, PopulateFromMemory
<1>6. ASSUME PendingLoad(v, a) = {}, NEW n \in NewObject,
             drawable' = [drawable EXCEPT ![v] = n],
             visible' = [visible EXCEPT ![v] = FALSE],
             Execute("foreground", n, [Cancelled(v) EXCEPT ![n] = NewTask(v, a, TRUE)])
      PROVE  LoaderInv'
  <2>1. overtaken' = overtaken \ {v}
    BY <1>6 DEF PopulateImageView
  <2>2. visible' \in [Views -> BOOLEAN] /\ fading' \in [Views -> Apps \cup {Nothing}]
    BY <1>1, <1>2, <1>6 DEF LoaderTypeOK
  <2>3. /\ overtaken' \subseteq overtaken /\ overtaken \ {v} \subseteq overtaken'
        /\ progress' \subseteq progress
        /\ \A w \in Views : w # v => (drawable[w] \in progress' <=> drawable[w] \in progress)
        /\ \A w \in Views : w # v => fading'[w] = fading[w]
    BY <1>1, <2>1
  <2> DEFINE c == Cancelled(v)
  <2>4. /\ c \in [Tasks -> LoaderTask]
        /\ \A t \in Tasks : /\ c[t].state = task[t].state /\ c[t].view = task[t].view
                            /\ c[t].app = task[t].app /\ c[t].diskOnly = task[t].diskOnly
                            /\ c[t].tuple = task[t].tuple
        /\ \A t \in Tasks : drawable[v] # t => c[t] = task[t]
    BY <1>2, CancelledTasks
  <2>5. "foreground" \in Executors /\ TRUE \in BOOLEAN /\ (TRUE <=> "foreground" = "foreground")
    BY DEF Executors
  <2>6. Execute("foreground", n, [c EXCEPT ![n] = NewTask(v, a, TRUE)])
    BY <1>6
  <2> HIDE DEF c
  <2> QED
    BY <1>1, <1>3, <1>6, <2>2, <2>3, <2>4, <2>5, <2>6, ViewWaitsForNewTask
<1>7. \/ PendingLoad(v, a) # {}
      \/ PendingLoad(v, a) = {} /\ drawable' = [drawable EXCEPT ![v] = a]
         /\ visible' = [visible EXCEPT ![v] = TRUE] /\ task' = Cancelled(v) /\ UNCHANGED queue
      \/ PendingLoad(v, a) = {} /\ \E n \in NewObject :
            /\ drawable' = [drawable EXCEPT ![v] = n]
            /\ visible' = [visible EXCEPT ![v] = FALSE]
            /\ Execute("foreground", n, [Cancelled(v) EXCEPT ![n] = NewTask(v, a, TRUE)])
  BY DEF PopulateImageView
<1> QED
  BY <1>4, <1>5, <1>6, <1>7

\* onProgressUpdate(): the disk task that found nothing is no view's task any more.
LEMMA OnProgressUpdateInv ==
    ASSUME LoaderInv, NEW t \in Tasks, OnProgressUpdate(t)
    PROVE  LoaderInv'
<1> USE NothingAssumption, QueuesAssumption
<1> DEFINE v == task[t].view
           a == task[t].app
<1>1. /\ t \in progress /\ progress' = progress \ {t}
      /\ UNCHANGED <<bound, overtaken, populates, pauses>>
  BY DEF OnProgressUpdate, countVars
<1>2. LoaderTypeOK
  BY DEF LoaderInv
<1>3. v \in Views /\ a \in Apps
  BY <1>1 DEF LoaderInv, TaskInv
<1>4. CASE task[t].cancelled \/ ~IsLoaderTask(v, t)
  <2>1. UNCHANGED <<drawable, visible, fading, task, queue>>
    BY <1>4 DEF OnProgressUpdate
  <2>2. LoaderTypeOK'
    BY <1>1, <1>2, <2>1 DEF LoaderTypeOK
  <2>3. ShownInv' /\ AttachedInv'
    BY <1>1, <2>1 DEF LoaderInv, ShownInv, AttachedInv
  <2>4. QueueInv'
    BY <2>1 DEF LoaderInv, QueueInv, Waiting
  <2>5. TaskInv'
    BY <1>1, <2>1 DEF LoaderInv, TaskInv
  <2>6. LoadInv'
    <3> SUFFICES ASSUME NEW w \in Views, NEW u \in Tasks, drawable[w] = u, ~task[u].cancelled,
                        task[u].diskOnly
                 PROVE  /\ task[u].state = "posted" /\ u \notin progress' => task[u].found
                        /\ task[u].state = "done" => fading[w] = bound[w]
      BY <1>1, <2>1 DEF LoadInv
    <3>1. u # t
      BY <1>4 DEF LoaderInv, AttachedInv, IsLoaderTask
    <3> QED
      BY <1>1, <3>1 DEF LoaderInv, LoadInv
  <2> QED
    BY <2>2, <2>3, <2>4, <2>5, <2>6 DEF LoaderInv
<1>5. ASSUME ~task[t].cancelled, IsLoaderTask(v, t), NEW n \in NewObject,
             drawable' = [drawable EXCEPT ![v] = n],
             visible' = [visible EXCEPT ![v] = TRUE],
             fading' = [fading EXCEPT ![v] = Nothing],
             Execute("network", n, [task EXCEPT ![n] = NewTask(v, a, FALSE)])
      PROVE  LoaderInv'
  <2>1. drawable[v] = t
    BY <1>5 DEF IsLoaderTask
  <2>2. bound[v] = a
    BY <1>3, <2>1 DEF LoaderInv, AttachedInv
  <2>3. bound' = [bound EXCEPT ![v] = a]
    BY <1>1, <1>2, <2>2 DEF LoaderTypeOK
  <2>4. visible' \in [Views -> BOOLEAN] /\ fading' \in [Views -> Apps \cup {Nothing}]
    BY <1>2, <1>5 DEF LoaderTypeOK
  <2>5. \A w \in Views : w # v => drawable[w] # t
    BY <1>3 DEF LoaderInv, AttachedInv
  <2>6. /\ overtaken' \subseteq overtaken /\ overtaken \ {v} \subseteq overtaken'
        /\ progress' \subseteq progress
        /\ \A w \in Views : w # v => (drawable[w] \in progress' <=> drawable[w] \in progress)
        /\ \A w \in Views : w # v => fading'[w] = fading[w]
    BY <1>1, <1>2, <1>5, <2>5 DEF LoaderTypeOK
  <2>7. "network" \in Executors /\ FALSE \in BOOLEAN /\ (FALSE <=> "network" = "foreground")
    BY DEF Executors
  <2>8. populates' \in 0 .. MaxPopulates /\ pauses' \in 0 .. MaxPauses
    BY <1>1, <1>2 DEF LoaderTypeOK
  <2>9. task \in [Tasks -> LoaderTask]
    BY <1>2 DEF LoaderTypeOK
  <2> HIDE DEF v, a
  <2> QED
    BY <1>3, <1>5, <2>3, <2>4, <2>6, <2>7, <2>8, <2>9, ViewWaitsForNewTask
<1>6. \/ task[t].cancelled \/ ~IsLoaderTask(v, t)
      \/ ~task[t].cancelled /\ IsLoaderTask(v, t) /\ \E n \in NewObject :
            /\ drawable' = [drawable EXCEPT ![v] = n]
            /\ visible' = [visible EXCEPT ![v] = TRUE]
            /\ fading' = [fading EXCEPT ![v] = Nothing]
            /\ Execute("network", n, [task EXCEPT ![n] = NewTask(v, a, FALSE)])
  BY DEF OnProgressUpdate
<1> QED
  BY <1>4, <1>5, <1>6

\* A worker takes the first task of its queue.
LEMMA DoInBackgroundInv ==
    ASSUME LoaderInv, NEW x \in Executors, DoInBackground(x)
    PROVE  LoaderInv'
<1> DEFINE t == Head(queue[x])
<1>1. /\ queue[x] # <<>> /\ queue' = [queue EXCEPT ![x] = Tail(queue[x])]
      /\ UNCHANGED <<bound, drawable, visible, fading, overtaken, progress, populates, pauses>>
      /\ task' = IF task[t].cancelled THEN [task EXCEPT ![t].state = "done"]
                 ELSE [task EXCEPT ![t].state = "running", ![t].tuple = TRUE]
  BY DEF DoInBackground, viewVars, countVars
<1>2. LoaderTypeOK /\ QueueInv
  BY DEF LoaderInv
<1>3. queue[x] \in Seq(Tasks) /\ queue \in [Executors -> Seq(Tasks)]
      /\ \A y \in Executors : Len(queue[y]) <= QueueLength
  BY <1>2 DEF LoaderTypeOK
<1>4. /\ t \in Tasks /\ t = queue[x][1] /\ Len(queue[x]) \in Nat \ {0}
      /\ Tail(queue[x]) \in Seq(Tasks) /\ Len(Tail(queue[x])) = Len(queue[x]) - 1
      /\ \A i \in 1 .. Len(Tail(queue[x])) :
            i + 1 \in 1 .. Len(queue[x]) /\ Tail(queue[x])[i] = queue[x][i + 1]
  BY <1>1, <1>3, HeadAndTail
<1>5. 1 \in 1 .. Len(queue[x])
  BY <1>4
<1>6. task[t].state = "queued" /\ task[t] \in LoaderTask /\ t \notin progress
  BY <1>2, <1>4, <1>5 DEF LoaderInv, QueueInv, Waiting, TaskInv, LoaderTypeOK
<1>7. /\ task' \in [Tasks -> LoaderTask]
      /\ \A u \in Tasks : u # t => task'[u] = task[u]
      /\ \/ task[t].cancelled /\ task'[t] = [task[t] EXCEPT !.state = "done"]
         \/ task'[t] = [task[t] EXCEPT !.state = "running", !.tuple = TRUE]
  <2>1. task \in [Tasks -> LoaderTask]
    BY <1>2 DEF LoaderTypeOK
  <2>2. CASE task[t].cancelled
    <3>1. task' = [task EXCEPT ![t].state = "done"]
      BY <1>1, <2>2
    <3>2. /\ task' \in [Tasks -> LoaderTask] /\ task'[t] = [task[t] EXCEPT !.state = "done"]
          /\ \A u \in Tasks : u # t => task'[u] = task[u]
      BY <1>4, <2>1, <3>1 DEF LoaderTask
    <3> QED
      BY <2>2, <3>2
  <2>3. CASE ~task[t].cancelled
    <3>1. task' = [task EXCEPT ![t].state = "running", ![t].tuple = TRUE]
      BY <1>1, <2>3
    <3> HIDE DEF t
    <3>2. [task[t] EXCEPT !.state = "running", !.tuple = TRUE] \in LoaderTask
      BY <1>6, TaskRecords
    <3>3. task' = [task EXCEPT ![t] = [task[t] EXCEPT !.state = "running", !.tuple = TRUE]]
      BY <3>1
    <3> QED
      BY <1>4, <2>1, <3>2, <3>3
  <2> QED
    BY <2>2, <2>3
<1> HIDE DEF t
<1>8. /\ task'[t].state \in {"done", "running"} /\ task'[t].view = task[t].view
      /\ task'[t].app = task[t].app
      /\ task'[t].state = "done" => task'[t].cancelled
  <2>1. CASE task[t].cancelled /\ task'[t] = [task[t] EXCEPT !.state = "done"]
    <3>1. /\ task'[t].state = "done" /\ task'[t].view = task[t].view
          /\ task'[t].app = task[t].app /\ task'[t].cancelled = task[t].cancelled
      BY <1>6, <2>1 DEF LoaderTask
    <3> QED
      BY <2>1, <3>1
  <2>2. CASE task'[t] = [task[t] EXCEPT !.state = "running", !.tuple = TRUE]
    <3>1. /\ task'[t].state = "running" /\ task'[t].view = task[t].view
          /\ task'[t].app = task[t].app
      BY <1>6, <2>2 DEF LoaderTask
    <3> QED
      BY <3>1
  <2> QED
    BY <1>7, <2>1, <2>2
<1>9. LoaderTypeOK'
  <2>1. queue' \in [Executors -> Seq(Tasks)]
    BY <1>1, <1>3, <1>4
  <2>2. \A y \in Executors : Len(queue'[y]) <= QueueLength
    BY <1>1, <1>3, <1>4, QueuesAssumption
  <2> QED
    BY <1>1, <1>2, <1>7, <2>1, <2>2 DEF LoaderTypeOK
<1>10. ShownInv'
  BY <1>1 DEF LoaderInv, ShownInv
<1>11. AttachedInv'
  BY <1>1, <1>7, <1>8 DEF LoaderInv, AttachedInv
<1>12. QueueInv'
  <2> SUFFICES ASSUME NEW y \in Executors PROVE Waiting(queue'[y], y, task')
    BY DEF QueueInv
  <2>1. CASE y = x
    <3>1. /\ Waiting(Tail(queue[x]), x, task)
          /\ \A i \in 1 .. Len(Tail(queue[x])) : Tail(queue[x])[i] # t
      BY <1>1, <1>2, <1>3, TailWaits DEF QueueInv, t
    <3>2. \A i \in 1 .. Len(Tail(queue[x])) : Tail(queue[x])[i] \in Tasks
      BY <1>4
    <3>3. Waiting(Tail(queue[x]), x, task')
      BY <1>4, <1>7, <3>1, <3>2, WaitingSame
    <3> QED
      BY <1>1, <1>3, <2>1, <3>3
  <2>2. CASE y # x
    <3>1. queue'[y] = queue[y] /\ queue[y] \in Seq(Tasks) /\ Waiting(queue[y], y, task)
      BY <1>1, <1>2, <1>3, <2>2 DEF QueueInv
    <3>2. \A i \in 1 .. Len(queue[y]) : queue[y][i] # t /\ queue[y][i] \in Tasks
      <4> SUFFICES ASSUME NEW i \in 1 .. Len(queue[y])
                   PROVE  queue[y][i] # t /\ queue[y][i] \in Tasks
        OBVIOUS
      <4>1. queue[y][i] # queue[x][1]
        BY <1>2, <1>5, <2>2, OneQueue
      <4> QED
        BY <4>1, <1>4, <3>1
    <3> QED
      BY <1>7, <3>1, <3>2, WaitingSame
  <2> QED
    BY <2>1, <2>2
<1>13. TaskInv'
  BY <1>1, <1>6, <1>7, <1>8 DEF LoaderInv, TaskInv
<1>14. LoadInv'
  BY <1>1, <1>7, <1>8 DEF LoaderInv, LoadInv
<1> QED
  BY <1>9, <1>10, <1>11, <1>12, <1>13, <1>14 DEF LoaderInv

\* A load ends: with the bitmap, or with the request for a network task, unless
\* the task was cancelled.
LEMMA LoadEndsInv ==
    ASSUME LoaderInv, NEW t \in Tasks, LoadEnds(t)
    PROVE  LoaderInv'
<1>1. /\ task[t].state = "running"
      /\ UNCHANGED <<bound, drawable, visible, fading, overtaken, queue, populates, pauses>>
  BY DEF LoadEnds, viewVars, countVars
<1>2. LoaderTypeOK /\ task \in [Tasks -> LoaderTask] /\ progress \subseteq Tasks
  BY DEF LoaderInv, LoaderTypeOK
<1>3. /\ task' \in [Tasks -> LoaderTask]
      /\ \A u \in Tasks : u # t => task'[u] = task[u]
      /\ task'[t].state = "posted" /\ task'[t].view = task[t].view /\ task'[t].app = task[t].app
      /\ progress' \in {progress, progress \cup {t}}
  BY <1>1, <1>2 DEF LoadEnds, LoaderTask
<1>4. task'[t].found \/ (task'[t].diskOnly => t \in progress') \/ task'[t].cancelled
  <2>1. CASE task' = [task EXCEPT ![t].state = "posted", ![t].found = TRUE]
    BY <1>2, <2>1 DEF LoaderTask
  <2>2. CASE task' = [task EXCEPT ![t].state = "posted"]
             /\ progress' = IF task[t].diskOnly THEN progress \cup {t} ELSE progress
    BY <1>2, <2>2 DEF LoaderTask
  <2>3. CASE task[t].cancelled /\ task' = [task EXCEPT ![t].state = "posted"]
    BY <1>2, <2>3 DEF LoaderTask
  <2> QED
    BY <2>1, <2>2, <2>3 DEF LoadEnds
<1>5. LoaderTypeOK'
  BY <1>1, <1>2, <1>3 DEF LoaderTypeOK
<1>6. ShownInv'
  BY <1>1 DEF LoaderInv, ShownInv
<1>7. AttachedInv'
  BY <1>1, <1>3 DEF LoaderInv, AttachedInv
<1>8. QueueInv'
  BY <1>1, <1>2, <1>3, OtherTaskChanges DEF LoaderInv
<1>9. TaskInv'
  BY <1>1, <1>3 DEF LoaderInv, TaskInv
<1>10. LoadInv'
  BY <1>1, <1>3, <1>4 DEF LoaderInv, LoadInv
<1> QED
  BY <1>5, <1>6, <1>7, <1>8, <1>9, <1>10 DEF LoaderInv

\* onPostExecute(): the task that the view waits for brings the view's own bitmap.
LEMMA OnPostExecuteInv ==
    ASSUME LoaderInv, NEW t \in Tasks, OnPostExecute(t)
    PROVE  LoaderInv'
<1> USE NothingAssumption
<1> DEFINE v == task[t].view
           a == task[t].app
<1>1. /\ task[t].state = "posted" /\ t \notin progress
      /\ task' = [task EXCEPT ![t].state = "done"]
      /\ UNCHANGED <<bound, overtaken, queue, progress, populates, pauses>>
  BY DEF OnPostExecute, countVars
<1>2. LoaderTypeOK /\ task \in [Tasks -> LoaderTask]
  BY DEF LoaderInv, LoaderTypeOK
<1>3. v \in Views /\ a \in Apps
  BY <1>1 DEF LoaderInv, TaskInv
<1>4. /\ task' \in [Tasks -> LoaderTask]
      /\ \A u \in Tasks : u # t => task'[u] = task[u]
      /\ task'[t].state = "done" /\ task'[t].view = v /\ task'[t].app = a
      /\ task'[t].diskOnly = task[t].diskOnly /\ task'[t].cancelled = task[t].cancelled
  BY <1>1, <1>2 DEF LoaderTask
<1>5. QueueInv'
  BY <1>1, <1>2, <1>4, OtherTaskChanges DEF LoaderInv
<1>6. TaskInv'
  BY <1>1, <1>3, <1>4 DEF LoaderInv, TaskInv
<1>7. \/ /\ task[t].cancelled \/ ~IsLoaderTask(v, t) \/ ~task[t].found
         /\ UNCHANGED <<drawable, visible, fading>>
      \/ /\ IsLoaderTask(v, t)
         /\ fading' = [fading EXCEPT ![v] = a] /\ UNCHANGED <<drawable, visible>>
      \/ /\ IsLoaderTask(v, t)
         /\ drawable' = [drawable EXCEPT ![v] = a]
         /\ visible' = [visible EXCEPT ![v] = TRUE]
         /\ fading' = [fading EXCEPT ![v] = Nothing]
  BY DEF OnPostExecute
<1>8. IsLoaderTask(v, t) => drawable[v] = t /\ bound[v] = a
  BY <1>3 DEF IsLoaderTask, LoaderInv, AttachedInv
<1> HIDE DEF v, a
<1>9. LoaderTypeOK'
  BY <1>1, <1>2, <1>3, <1>4, <1>7 DEF LoaderTypeOK
<1>10. \A w \in Views : \/ drawable'[w] = drawable[w]
                        \/ w = v /\ drawable'[w] = a /\ bound[w] = a
  BY <1>2, <1>3, <1>7, <1>8 DEF LoaderTypeOK
<1>11. a \notin Tasks
  BY <1>3
<1>12. ShownInv'
  BY <1>1, <1>10 DEF LoaderInv, ShownInv
<1>13. AttachedInv'
  BY <1>1, <1>4, <1>10, <1>11 DEF LoaderInv, AttachedInv, v, a
<1>14. LoadInv'
  <2> SUFFICES ASSUME NEW w \in Views, NEW u \in Tasks, drawable'[w] = u, ~task'[u].cancelled,
                      task'[u].diskOnly
               PROVE  /\ task'[u].state = "posted" /\ u \notin progress' => task'[u].found
                      /\ task'[u].state = "done" => fading'[w] = bound'[w]
    BY DEF LoadInv
  <2>1. drawable[w] = u
    BY <1>10, <1>11
  <2>2. CASE u = t
    <3>1. w = v
      BY <2>1, <2>2, <1>3 DEF LoaderInv, AttachedInv, v
    <3>2. ~task[t].cancelled /\ task[t].diskOnly /\ IsLoaderTask(v, t)
      BY <2>1, <2>2, <3>1, <1>4 DEF IsLoaderTask
    <3>3. task[t].found
      BY <1>1, <2>1, <2>2, <3>2 DEF LoaderInv, LoadInv
    <3>4. drawable'[v] = t
      BY <2>2, <3>1
    <3>5. fading' = [fading EXCEPT ![v] = a]
      BY <1>2, <1>3, <1>7, <1>11, <3>2, <3>3, <3>4 DEF LoaderTypeOK
    <3>6. fading'[w] = bound'[w]
      BY <1>1, <1>2, <1>3, <1>8, <3>1, <3>2, <3>5 DEF LoaderTypeOK
    <3> QED
      BY <2>2, <3>6, <1>4
  <2>3. CASE u # t
    <3>1. fading'[w] = fading[w]
      BY <1>2, <1>3, <1>7, <1>8, <2>1, <2>3 DEF LoaderTypeOK
    <3> QED
      BY <1>1, <1>4, <2>1, <2>3, <3>1 DEF LoaderInv, LoadInv
  <2> QED
    BY <2>2, <2>3
<1> QED
  BY <1>5, <1>6, <1>9, <1>12, <1>13, <1>14 DEF LoaderInv

\* onAnimationEnd(): the bitmap is the view's own, or the view is marked.
LEMMA FadeOutEndsInv ==
    ASSUME LoaderInv, NEW v \in Views, FadeOutEnds(v)
    PROVE  LoaderInv'
<1> USE NothingAssumption
<1>1. /\ fading[v] # Nothing
      /\ drawable' = [drawable EXCEPT ![v] = fading[v]]
      /\ fading' = [fading EXCEPT ![v] = Nothing]
      /\ \/ overtaken' = overtaken /\ fading[v] = bound[v]
         \/ overtaken' = overtaken \cup {v}
      /\ UNCHANGED <<bound, visible, task, queue, progress, populates, pauses>>
  BY DEF FadeOutEnds, countVars
<1>2. LoaderTypeOK /\ fading[v] \in Apps
  BY <1>1 DEF LoaderInv, LoaderTypeOK
<1>3. /\ drawable'[v] = fading[v] /\ drawable'[v] \notin Tasks
      /\ \A w \in Views : w # v => drawable'[w] = drawable[w] /\ fading'[w] = fading[w]
                                   /\ (w \in overtaken' <=> w \in overtaken)
  BY <1>1, <1>2 DEF LoaderTypeOK
<1>4. LoaderTypeOK'
  BY <1>1, <1>2 DEF LoaderTypeOK
<1>5. ShownInv'
  BY <1>1, <1>3 DEF LoaderInv, ShownInv
<1>6. AttachedInv'
  BY <1>1, <1>3 DEF LoaderInv, AttachedInv
<1>7. QueueInv' /\ TaskInv'
  BY <1>1 DEF LoaderInv, QueueInv, Waiting, TaskInv
<1>8. LoadInv'
  BY <1>1, <1>3 DEF LoaderInv, LoadInv
<1> QED
  BY <1>4, <1>5, <1>6, <1>7, <1>8 DEF LoaderInv

\* cancelForegroundLoads() empties the queues.
LEMMA CancelForegroundLoadsInv ==
    ASSUME LoaderInv, CancelForegroundLoads
    PROVE  LoaderInv'
<1> USE QueuesAssumption
<1>1. /\ pauses < MaxPauses /\ pauses' = pauses + 1
      /\ queue' = [x \in Executors |-> <<>>]
      /\ task' = [t \in Tasks |-> IF task[t].state = "queued"
                                  THEN [task[t] EXCEPT !.state = "dropped"] ELSE task[t]]
      /\ UNCHANGED <<bound, drawable, visible, fading, overtaken, progress, populates>>
  BY DEF CancelForegroundLoads, viewVars
<1>2. LoaderTypeOK
  BY DEF LoaderInv
<1>3. \A t \in Tasks : /\ task'[t] \in LoaderTask /\ KeptOrDropped(task[t], task'[t])
                       /\ task'[t].view = task[t].view /\ task'[t].app = task[t].app
                       /\ task'[t].tuple = task[t].tuple
  <2>1. \A t \in Tasks : task[t] \in LoaderTask
    BY <1>2 DEF LoaderTypeOK
  <2>2. \A t \in Tasks : task'[t] = IF task[t].state = "queued"
                                    THEN [task[t] EXCEPT !.state = "dropped"] ELSE task[t]
    BY <1>1
  <2> QED
    BY <2>1, <2>2 DEF KeptOrDropped, LoaderTask
<1>4. LoaderTypeOK'
  <2>1. task' \in [Tasks -> LoaderTask]
    BY <1>1, <1>3
  <2>2. queue' \in [Executors -> Seq(Tasks)] /\ \A x \in Executors : Len(queue'[x]) <= QueueLength
    BY <1>1
  <2> QED
    BY <1>1, <1>2, <2>1, <2>2 DEF LoaderTypeOK
<1>5. ShownInv'
  BY <1>1 DEF LoaderInv, ShownInv
<1>6. \A t \in Tasks : task'[t] = task[t] \/ (task[t].state = "queued" /\ task'[t].state = "dropped")
  BY <1>2, <1>3 DEF KeptOrDropped, LoaderTypeOK, LoaderTask
<1>7. AttachedInv'
  BY <1>1, <1>3, <1>6 DEF LoaderInv, AttachedInv
<1>8. QueueInv'
  BY <1>1 DEF QueueInv, Waiting
<1>9. TaskInv'
  BY <1>1, <1>3, <1>6 DEF LoaderInv, TaskInv
<1>10. LoadInv'
  BY <1>1, <1>6 DEF LoaderInv, LoadInv
<1> QED
  BY <1>4, <1>5, <1>7, <1>8, <1>9, <1>10 DEF LoaderInv

\* The garbage collector leaves no view that waits for a task that is gone.
LEMMA CollectInv ==
    ASSUME LoaderInv, NEW t \in Tasks, Collect(t)
    PROVE  LoaderInv'
<1> USE NothingAssumption
<1>1. /\ task[t].state \in {"done", "dropped"} /\ t \notin progress
      /\ task' = [task EXCEPT ![t] = NoTask]
      /\ drawable' = [v \in Views |-> IF drawable[v] = t THEN Nothing ELSE drawable[v]]
      /\ UNCHANGED <<bound, visible, fading, overtaken, queue, progress, populates, pauses>>
  BY DEF Collect, countVars
<1>2. LoaderTypeOK /\ task \in [Tasks -> LoaderTask]
  BY DEF LoaderInv, LoaderTypeOK
<1>3. NoTask \in LoaderTask /\ NoTask.state = "none" /\ ~NoTask.tuple
  BY DEF NoTask, LoaderTask
<1>4. /\ task' \in [Tasks -> LoaderTask] /\ task'[t] = NoTask
      /\ \A u \in Tasks : u # t => task'[u] = task[u]
  BY <1>1, <1>2, <1>3
<1>5. \A v \in Views : IF drawable[v] = t THEN drawable'[v] = Nothing
                       ELSE drawable'[v] = drawable[v]
  BY <1>1
<1>6. LoaderTypeOK'
  <2>1. drawable' \in [Views -> Apps \cup Tasks \cup {Nothing}]
    BY <1>1, <1>2 DEF LoaderTypeOK
  <2> QED
    BY <1>1, <1>2, <1>4, <2>1 DEF LoaderTypeOK
<1>7. ShownInv'
  BY <1>1, <1>5 DEF LoaderInv, ShownInv
<1>8. AttachedInv'
  BY <1>1, <1>4, <1>5 DEF LoaderInv, AttachedInv
<1>9. QueueInv'
  BY <1>1, <1>2, <1>4, OtherTaskChanges DEF LoaderInv
<1>10. TaskInv'
  BY <1>1, <1>3, <1>4 DEF LoaderInv, TaskInv
<1>11. LoadInv'
  <2> SUFFICES ASSUME NEW w \in Views, NEW u \in Tasks, drawable'[w] = u, ~task'[u].cancelled,
                      task'[u].diskOnly
               PROVE  /\ task'[u].state = "posted" /\ u \notin progress' => task'[u].found
                      /\ task'[u].state = "done" => fading'[w] = bound'[w]
    BY DEF LoadInv
  <2>1. u # t /\ drawable[w] = u
    BY <1>5
  <2> QED
    BY <1>1, <1>4, <2>1 DEF LoaderInv, LoadInv
<1> QED
  BY <1>6, <1>7, <1>8, <1>9, <1>10, <1>11 DEF LoaderInv

\* Every step of the loader keeps the invariant.
LEMMA LoaderStepInv == LoaderInv /\ [LoaderNext]_loaderVars => LoaderInv'
<1> SUFFICES ASSUME LoaderInv, [LoaderNext]_loaderVars PROVE LoaderInv'
  OBVIOUS
<1>1. CASE UNCHANGED loaderVars
  <2>1. UNCHANGED <<bound, drawable, visible, fading, overtaken, task, queue, progress, populates, pauses>>
    BY <1>1 DEF loaderVars, viewVars, countVars
  <2>2. LoaderTypeOK'
    BY <2>1 DEF LoaderInv, LoaderTypeOK
  <2>3. ShownInv' /\ AttachedInv'
    BY <2>1 DEF LoaderInv, ShownInv, AttachedInv
  <2>4. QueueInv'
    BY <2>1 DEF LoaderInv, QueueInv, Waiting
  <2>5. TaskInv' /\ LoadInv'
    BY <2>1 DEF LoaderInv, TaskInv, LoadInv
  <2> QED
    BY <2>2, <2>3, <2>4, <2>5 DEF LoaderInv
<1>2. CASE \E v \in Views, a \in Apps : PopulateImageView(v, a)
  BY <1>2, PopulateImageViewInv
<1>3. CASE \E v \in Views : FadeOutEnds(v)
  BY <1>3, FadeOutEndsInv
<1>4. CASE \E x \in Executors : DoInBackground(x)
  BY <1>4, DoInBackgroundInv
<1>5. CASE \E t \in Tasks : TaskStep(t) \/ Collect(t)
  BY <1>5, LoadEndsInv, OnProgressUpdateInv, OnPostExecuteInv, CollectInv DEF TaskStep
<1>6. CASE CancelForegroundLoads
  BY <1>6, CancelForegroundLoadsInv
<1> QED
  BY <1>1, <1>2, <1>3, <1>4, <1>5, <1>6 DEF LoaderNext

\* The invariant holds in every state of the loader.
LEMMA LoaderInvHolds == LoaderSpec => []LoaderInv
BY LoaderInitInv, LoaderStepInv, PTL DEF LoaderSpec

\* Whatever the number of views, applications, tasks and workers and the length of
\* the queues: a view shows and waits for the art of its own application, save
\* what a fade-out put into it too late (CachedAppAssetLoader.populateImageView(),
\* onPostExecute() and onProgressUpdate()).
THEOREM ViewsShowTheirArtHolds == LoaderSpec => []ViewsShowTheirArt
<1>1. LoaderInv => ViewsShowTheirArt
  BY DEF LoaderInv, ShownInv, AttachedInv, ViewsShowTheirArt
<1> QED
  BY <1>1, LoaderInvHolds, PTL

\* Whatever the sizes: cancelPendingLoad() trusts no load that was discarded from a
\* queue and none that ended without the bitmap and without asking the network.
THEOREM TrustedLoadsAreRealHolds == LoaderSpec => []TrustedLoadsAreReal
<1>1. LoaderInv => TrustedLoadsAreReal
  <2> SUFFICES ASSUME LoaderInv, NEW v \in Views, NEW t \in PendingLoad(v, bound[v])
               PROVE  \/ task[t].state \in {"running", "posted"}
                      \/ task[t].state = "done" /\ (fading[v] = bound[v] \/ ~task[t].diskOnly)
    BY DEF TrustedLoadsAreReal
  <2>1. t \in Tasks /\ drawable[v] = t /\ ~task[t].cancelled /\ task[t].tuple
    BY DEF PendingLoad, IsLoaderTask
  <2>2. task[t].state \notin {"none", "queued", "dropped"}
    BY <2>1 DEF LoaderInv, TaskInv
  <2>3. task[t].state \in {"running", "posted", "done"}
    BY <2>1, <2>2 DEF LoaderInv, LoaderTypeOK, LoaderTask
  <2>4. task[t].state = "done" /\ task[t].diskOnly => fading[v] = bound[v]
    BY <2>1 DEF LoaderInv, LoadInv
  <2> QED
    BY <2>3, <2>4
<1> QED
  BY <1>1, LoaderInvHolds, PTL
=============================================================================
