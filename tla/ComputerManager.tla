--------------------------- MODULE ComputerManager ---------------------------
(***************************************************************************)
(* ComputerManagerService for one computer (one UUID): the polling thread  *)
(* of its PollingTuple, the threads that add it (mDNS callbacks and        *)
(* AddComputerManually), and the clients: the main thread, and the threads *)
(* of activities that start polling once the service is bound or stop it   *)
(* for pairing.  They share the tuple list, the tuple's network lock, the  *)
(* database row and the database's reference count.  startPolling(),       *)
(* onUnbind() and each runPoll() are modelled statement by statement where *)
(* another thread can come between.                                        *)
(***************************************************************************)
EXTENDS Integers, FiniteSets

CONSTANTS
    Pollers,              \* polling Thread objects; an ended one may be reused
    Adders,               \* threads that run addComputerBlocking()
    Clients,              \* threads that call the binder
    Main,                 \* the main thread, one of them
    Tuples,               \* PollingTuple objects; an unreferenced one may be reused
    OFFLINE_POLL_TRIES,
    INITIAL_POLL_TRIES,
    None

ASSUME TriesAssumption ==
    OFFLINE_POLL_TRIES \in Nat /\ INITIAL_POLL_TRIES \in 0 .. OFFLINE_POLL_TRIES
ASSUME ThreadsAssumption ==
    /\ Main \in Clients
    /\ IsFiniteSet(Pollers) /\ IsFiniteSet(Adders)
    /\ Pollers \cap Adders = {}
    /\ None \notin Pollers \cup Adders \cup Tuples

Threads == Pollers \cup Adders
States  == {"UNKNOWN", "ONLINE", "OFFLINE"}

VARIABLES
    service,        \* is the service alive; it holds one database reference
    call,           \* what a client is in the middle of
    pollingActive,  \* the field
    tuple,          \* the tuple in pollingTuples for this UUID
    tupleThread,    \* PollingTuple.thread
    tupleState,     \* PollingTuple.computer.state
    networkLock,    \* who holds PollingTuple.networkLock
    dbRow,          \* is the computer in the database
    dbRefs,         \* dbRefCount
    dbClosed,       \* dbManager was closed
    activePolls,    \* the counter
    pc,             \* program counter of polling and adding threads
    of,             \* the tuple a polling thread was created for
    interrupted,    \* its interrupt flag
    offlineCount,   \* its local
    tries,          \* pollTriesBeforeOffline of the poll in progress
    found,          \* the state of the adding thread's fakeDetails
    alone,          \* for the properties: the stopPolling() calls that no
                    \* startPolling() overlapped so far, and
    settled         \* has none overlapped since one of those ended

dbVars     == <<dbRow, dbRefs, dbClosed>>
tupleVars  == <<tuple, tupleThread, tupleState>>
threadVars == <<of, interrupted, offlineCount>>
clientVars == <<service, call, pollingActive, alone, settled>>
vars == <<clientVars, tupleVars, networkLock, dbVars, activePolls, pc, threadVars,
          tries, found>>

\* "ref" and "count": between the test and the increment of dbRefCount.
Pcs == {"idle", "loop", "lock", "ref", "count", "poll", "read",
        "update", "insert", "notify", "sleep", "add"}

\* The thread holds a database reference; it is inside runPoll().
Referencing == {"poll", "read", "update", "insert", "notify"}
InRunPoll   == Referencing \cup {"ref", "count"}

TypeOK ==
    /\ service \in BOOLEAN
    /\ call \in [Clients -> {"idle", "called", "starting", "stopping", "unbound",
                            "removing", "invalidating"}]
    /\ call[Main] \notin {"called", "invalidating"}
    /\ \A c \in Clients \ {Main} : call[c] \notin {"unbound", "removing"}
    /\ pollingActive \in BOOLEAN
    /\ tuple \in Tuples \cup {None}
    /\ tupleThread \in [Tuples -> Pollers \cup {None}]
    /\ tupleState \in [Tuples -> States]
    /\ networkLock \in [Tuples -> Pollers \cup {None}]
    /\ dbRow \in BOOLEAN
    /\ dbRefs \in Nat
    /\ dbClosed \in BOOLEAN
    /\ activePolls \in Nat
    /\ pc \in [Threads -> Pcs]
    /\ of \in [Pollers -> Tuples \cup {None}]
    /\ interrupted \in [Pollers -> BOOLEAN]
    /\ offlineCount \in [Pollers -> 0 .. OFFLINE_POLL_TRIES]
    /\ tries \in [Pollers -> {OFFLINE_POLL_TRIES, INITIAL_POLL_TRIES}]
    /\ found \in [Adders -> States]
    /\ alone \subseteq Clients /\ settled \in BOOLEAN

\* onCreate() has run; the database may hold the computer, and a tuple with it.
Init ==
    /\ service = TRUE
    /\ call = [c \in Clients |-> "idle"]
    /\ pollingActive = FALSE
    /\ dbRow \in BOOLEAN
    /\ tuple \in IF dbRow THEN Tuples ELSE {None}
    /\ tupleThread = [k \in Tuples |-> None]
    /\ tupleState = [k \in Tuples |-> "UNKNOWN"]
    /\ networkLock = [k \in Tuples |-> None]
    /\ dbRefs = 1
    /\ dbClosed = FALSE
    /\ activePolls = 0
    /\ pc = [p \in Threads |-> "idle"]
    /\ of = [t \in Pollers |-> None]
    /\ interrupted = [t \in Pollers |-> FALSE]
    /\ offlineCount = [t \in Pollers |-> 0]
    /\ tries = [t \in Pollers |-> INITIAL_POLL_TRIES]
    /\ found = [a \in Adders |-> "UNKNOWN"]
    /\ alone = {} /\ settled = TRUE

-----------------------------------------------------------------------------
(***************************************************************************)
(* Helpers.                                                                *)
(***************************************************************************)

\* Nobody is in the monitor of pollingTuples: of those who are in it only
\* invalidateStateForComputer() waits for another lock.
ListIsFree == \A c \in Clients : call[c] # "invalidating"

Are(what) == \E c \in Clients : call[c] = what

\* releaseLocalDatabaseReference().
ReleaseRef ==
    /\ dbRefs' = dbRefs - 1
    /\ dbClosed' = (dbClosed \/ dbRefs = 1)

\* createPollingThread(tuple k).start(): a new thread of that tuple, with its
\* locals reset; the other threads' program counters become pcs.
StartThread(k, pcs) == \E t \in Pollers :
    /\ pc[t] = "idle"
    /\ tupleThread' = [tupleThread EXCEPT ![k] = t]
    /\ pc' = [pcs EXCEPT ![t] = "loop"]
    /\ of' = [of EXCEPT ![t] = k]
    /\ interrupted' = [interrupted EXCEPT ![t] = FALSE]
    /\ offlineCount' = [offlineCount EXCEPT ![t] = 0]

\* tuple.thread.interrupt(); tuple.thread = null.
DropThread(k) ==
    /\ interrupted' = [t \in Pollers |-> interrupted[t] \/ tupleThread[k] = t]
    /\ tupleThread' = [tupleThread EXCEPT ![k] = None]

\* A polling thread ends; its locals are gone.
End(t) ==
    /\ pc' = [pc EXCEPT ![t] = "idle"]
    /\ of' = [of EXCEPT ![t] = None]
    /\ interrupted' = [interrupted EXCEPT ![t] = FALSE]
    /\ offlineCount' = [offlineCount EXCEPT ![t] = 0]

\* runPoll() returned true: lastSuccessfulPollMs is now, offlineCount is 0.
\* Or false: one more try failed (capped: no larger count is told apart).
\* An adding thread goes on with addTuple() if its details are ONLINE.  For a
\* polling thread the monitor of the network lock is left.
PollReturns(p, modified) ==
    IF p \in Pollers
    THEN /\ offlineCount' = [offlineCount EXCEPT ![p] =
               IF modified THEN 0
               ELSE IF @ < OFFLINE_POLL_TRIES THEN @ + 1 ELSE @]
         /\ networkLock' = [networkLock EXCEPT ![of[p]] = None]
         /\ tries' = [tries EXCEPT ![p] = INITIAL_POLL_TRIES]
         /\ pc' = [pc EXCEPT ![p] = "sleep"]
         /\ UNCHANGED found
    ELSE /\ IF found[p] = "ONLINE"
            THEN pc' = [pc EXCEPT ![p] = "add"] /\ UNCHANGED found
            ELSE /\ pc' = [pc EXCEPT ![p] = "idle"]
                 /\ found' = [found EXCEPT ![p] = "UNKNOWN"]
         /\ UNCHANGED <<offlineCount, networkLock, tries>>

-----------------------------------------------------------------------------
(***************************************************************************)
(* The polling thread's loop (createPollingThread).                        *)
(***************************************************************************)

\* The loop condition without "tuple.thread == this".
LoopIgnoresOwner(t) ==
    /\ pc[t] = "loop"
    /\ IF ~interrupted[t] /\ pollingActive
       THEN pc' = [pc EXCEPT ![t] = "lock"] /\ UNCHANGED threadVars
       ELSE End(t)
    /\ UNCHANGED <<clientVars, tupleVars, networkLock,
                   dbVars, activePolls, tries, found>>

Loop(t) ==
    /\ pc[t] = "loop"
    /\ IF ~interrupted[t] /\ pollingActive /\ tupleThread[of[t]] = t
       THEN pc' = [pc EXCEPT ![t] = "lock"] /\ UNCHANGED threadVars
       ELSE End(t)
    /\ UNCHANGED <<clientVars, tupleVars, networkLock,
                   dbVars, activePolls, tries, found>>

LockNetwork(t) ==
    /\ pc[t] = "lock"
    /\ networkLock[of[t]] = None
    /\ networkLock' = [networkLock EXCEPT ![of[t]] = t]
    /\ pc' = [pc EXCEPT ![t] = "ref"]
    /\ UNCHANGED <<clientVars, tupleVars, dbVars,
                   activePolls, threadVars, tries, found>>

\* Thread.sleep() between polls throws if the flag is set.
Sleep(t) ==
    /\ pc[t] = "sleep"
    /\ IF interrupted[t] THEN End(t)
       ELSE pc' = [pc EXCEPT ![t] = "loop"] /\ UNCHANGED threadVars
    /\ UNCHANGED <<clientVars, tupleVars, networkLock,
                   dbVars, activePolls, tries, found>>

-----------------------------------------------------------------------------
(***************************************************************************)
(* runPoll(), on either kind of thread.  A polling thread's details are    *)
(* the tuple's; an adding thread's are its own fakeDetails (newPc).        *)
(***************************************************************************)

\* runPoll() as it would be if it released even a reference it was refused.
TestRefReleasesAnyway(p) ==
    /\ pc[p] = "ref"
    /\ IF dbRefs = 0
       THEN PollReturns(p, FALSE) /\ dbRefs' = dbRefs - 1
       ELSE /\ pc' = [pc EXCEPT ![p] = "count"]
            /\ UNCHANGED <<dbRefs, offlineCount, networkLock, tries, found>>
    /\ UNCHANGED <<clientVars, tupleVars, dbRow, dbClosed,
                   activePolls, of, interrupted>>

\* getLocalDatabaseReference(): the test,
TestRef(p) ==
    /\ pc[p] = "ref"
    /\ IF dbRefs = 0
       THEN PollReturns(p, FALSE)
       ELSE /\ pc' = [pc EXCEPT ![p] = "count"]
            /\ UNCHANGED <<offlineCount, networkLock, tries, found>>
    /\ UNCHANGED <<clientVars, tupleVars, dbVars,
                   activePolls, of, interrupted>>

\* and the increment, after which the database may turn out to be closed.
CountRef(p) ==
    /\ pc[p] = "count"
    /\ dbRefs' = dbRefs + 1
    /\ activePolls' = activePolls + 1
    /\ IF p \in Pollers
       THEN tries' = [tries EXCEPT ![p] = IF tupleState[of[p]] = "UNKNOWN"
                                         THEN INITIAL_POLL_TRIES ELSE OFFLINE_POLL_TRIES]
       ELSE UNCHANGED tries
    /\ pc' = [pc EXCEPT ![p] = "poll"]
    /\ UNCHANGED <<clientVars, tupleVars, networkLock,
                   dbRow, dbClosed, threadVars, found>>

\* An interrupt of a polling thread stays pending, or the HTTP client swallowed
\* it.  No one interrupts an adding thread.
InterruptMayBeSwallowed(p) ==
    interrupted' \in {interrupted, [t \in Pollers |-> interrupted[t] /\ t # p]}

\* pollComputer() returned false: unless the tries are used up, return.
PollFails(p) ==
    /\ pc[p] = "poll"
    /\ activePolls' = activePolls - 1
    /\ InterruptMayBeSwallowed(p)
    /\ IF p \in Pollers /\ offlineCount[p] < tries[p]
       THEN /\ UNCHANGED tupleState
            /\ ReleaseRef
            /\ PollReturns(p, FALSE)
       ELSE /\ IF p \in Pollers
               THEN /\ tupleState' = [tupleState EXCEPT ![of[p]] = "OFFLINE"]
                    /\ UNCHANGED found
               ELSE /\ found' = [found EXCEPT ![p] = "OFFLINE"]
                    /\ UNCHANGED tupleState
            /\ pc' = [pc EXCEPT ![p] = "notify"]
            /\ UNCHANGED <<dbRefs, dbClosed, offlineCount, networkLock, tries>>
    /\ UNCHANGED <<clientVars, tuple, tupleThread, dbRow, of>>

\* pollComputer() returned true and updated the details.
PollSucceeds(p) ==
    /\ pc[p] = "poll"
    /\ activePolls' = activePolls - 1
    /\ InterruptMayBeSwallowed(p)
    /\ IF p \in Pollers
       THEN /\ tupleState' = [tupleState EXCEPT ![of[p]] = "ONLINE"]
            /\ tries' = [tries EXCEPT ![p] = INITIAL_POLL_TRIES]
            /\ UNCHANGED found
       ELSE /\ found' = [found EXCEPT ![p] = "ONLINE"]
            /\ UNCHANGED <<tupleState, tries>>
    /\ pc' = [pc EXCEPT ![p] = "read"]
    /\ UNCHANGED <<clientVars, tuple, tupleThread,
                   networkLock, dbVars, of, offlineCount>>

\* An InterruptedException leaves the network lock and the loop of a polling
\* thread, or addComputerBlocking().
PollThrows(p) ==
    IF p \in Pollers
    THEN /\ networkLock' = [networkLock EXCEPT ![of[p]] = None]
         /\ tries' = [tries EXCEPT ![p] = INITIAL_POLL_TRIES]
         /\ End(p)
         /\ UNCHANGED found
    ELSE /\ pc' = [pc EXCEPT ![p] = "idle"]
         /\ found' = [found EXCEPT ![p] = "UNKNOWN"]
         /\ UNCHANGED <<networkLock, tries, threadVars>>

\* The interrupted poll as it would be if the reference were kept.
PollInterruptedKeepsRef(p) ==
    /\ pc[p] = "poll"
    /\ p \in Pollers => interrupted[p]
    /\ activePolls' = activePolls - 1
    /\ PollThrows(p)
    /\ UNCHANGED <<clientVars, tupleVars, dbVars>>

\* pollComputer() threw InterruptedException.
PollInterrupted(p) ==
    /\ pc[p] = "poll"
    /\ p \in Pollers => interrupted[p]
    /\ ReleaseRef
    /\ activePolls' = activePolls - 1
    /\ PollThrows(p)
    /\ UNCHANGED <<clientVars, tupleVars, dbRow>>

\* getComputerByUUID().  A computer that is not new and has no row is gone.
ReadRow(p) ==
    /\ pc[p] = "read"
    /\ IF ~dbRow /\ p \in Pollers
       THEN ReleaseRef /\ PollReturns(p, FALSE)
       ELSE /\ pc' = [pc EXCEPT ![p] = IF dbRow THEN "update" ELSE "insert"]
            /\ UNCHANGED <<dbRefs, dbClosed, offlineCount, networkLock, tries, found>>
    /\ UNCHANGED <<clientVars, tupleVars, dbRow,
                   activePolls, of, interrupted>>

\* updateComputer(): an insert that replaces the row if there is one.
WriteRow(p) ==
    /\ pc[p] \in {"update", "insert"}
    /\ dbRow' = TRUE
    /\ pc' = [pc EXCEPT ![p] = "notify"]
    /\ UNCHANGED <<clientVars, tupleVars, networkLock,
                   dbRefs, dbClosed, activePolls, threadVars, tries, found>>

\* The listener is called, if it is set; the poll is over.
Notify(p) ==
    /\ pc[p] = "notify"
    /\ ReleaseRef
    /\ PollReturns(p, TRUE)
    /\ UNCHANGED <<clientVars, tupleVars, dbRow,
                   activePolls, of, interrupted>>

-----------------------------------------------------------------------------
(***************************************************************************)
(* addComputerBlocking().                                                  *)
(***************************************************************************)

\* The computer was discovered, or its address was typed in, and the first
\* pollComputer(), outside runPoll(), succeeded.  If it fails nothing is left of it.
Discover(a) ==
    /\ service
    /\ pc[a] = "idle"
    /\ pc' = [pc EXCEPT ![a] = "ref"]
    /\ found' = [found EXCEPT ![a] = "ONLINE"]
    /\ UNCHANGED <<clientVars, tupleVars, networkLock, dbVars, activePolls, threadVars,
                   tries>>

\* addTuple(), under the monitor of pollingTuples, which invalidateState...()
\* keeps while it waits for the network lock: update the computer's tuple or
\* make one, and start its thread if polling is active.
AddTuple(a) ==
    /\ pc[a] = "add"
    /\ ListIsFree
    /\ \E k \in Tuples :
         /\ IF tuple = None
            THEN k \notin {of[t] : t \in Pollers}
            ELSE k = tuple
         /\ tuple' = k
         /\ tupleState' = [tupleState EXCEPT ![k] = found[a]]
         /\ IF pollingActive /\ tupleThread[k] = None
            THEN StartThread(k, [pc EXCEPT ![a] = "idle"])
            ELSE /\ pc' = [pc EXCEPT ![a] = "idle"]
                 /\ UNCHANGED <<tupleThread, threadVars>>
    /\ found' = [found EXCEPT ![a] = "UNKNOWN"]
    /\ UNCHANGED <<clientVars, networkLock, dbVars,
                   activePolls, tries>>

-----------------------------------------------------------------------------
(***************************************************************************)
(* The binder and service callbacks on the client threads.                 *)
(***************************************************************************)

\* The client c goes on with what, or is done ("idle").
Goes(c, what) == call' = [call EXCEPT ![c] = what]

\* A binding thread is about to call startPolling(): its activity is in the
\* foreground and has the binder.  By the time the call is made the main thread may
\* have paused the activity and the service may be gone.
CallStartPolling(c) ==
    /\ c # Main /\ service /\ call[c] = "idle"
    /\ Goes(c, "called")
    /\ UNCHANGED <<service, pollingActive, alone, settled, tupleVars, networkLock, dbVars,
                   activePolls, pc, threadVars, tries, found>>

\* startPolling() up to its synchronized block.
StartPolling(c) ==
    /\ call[c] = IF c = Main THEN "idle" ELSE "called"
    /\ c = Main => service
    /\ Goes(c, "starting")
    /\ pollingActive' = TRUE
    /\ alone' = {}
    /\ settled' = (settled /\ ~Are("stopping"))
    /\ UNCHANGED <<service, tupleVars, networkLock, dbVars, activePolls, pc,
                   threadVars, tries, found>>

\* The block: a state older than POLL_DATA_TTL_MS becomes UNKNOWN, and a tuple
\* with no thread gets one.
StartTuples(c) ==
    /\ call[c] = "starting" /\ ListIsFree
    /\ Goes(c, "idle")
    /\ IF tuple = None
       THEN UNCHANGED <<tupleState, tupleThread, pc, threadVars>>
       ELSE /\ tupleState' \in {tupleState, [tupleState EXCEPT ![tuple] = "UNKNOWN"]}
            /\ IF tupleThread[tuple] = None
               THEN StartThread(tuple, pc)
               ELSE UNCHANGED <<tupleThread, pc, threadVars>>
    /\ UNCHANGED <<service, pollingActive, alone, settled, tuple, networkLock, dbVars,
                   activePolls, tries, found>>

\* stopPolling() and onUnbind(): first the flag,
StopPolling(c) ==
    /\ service \/ c # Main
    /\ call[c] = "idle"
    /\ Goes(c, "stopping")
    /\ pollingActive' = FALSE
    /\ alone' = IF Are("starting") THEN alone ELSE alone \cup {c}
    /\ settled' = (settled /\ ~Are("starting"))
    /\ UNCHANGED <<service, tupleVars, networkLock, dbVars, activePolls,
                   pc, threadVars, tries, found>>

\* The block as it would be if the thread was interrupted but not forgotten.
KeepThread(c) ==
    /\ call[c] = "stopping" /\ ListIsFree
    /\ Goes(c, "idle")
    /\ interrupted' = [t \in Pollers |->
                         interrupted[t] \/ (tuple # None /\ tupleThread[tuple] = t)]
    /\ alone' = alone \ {c}
    /\ settled' = (settled \/ c \in alone)
    /\ UNCHANGED <<service, pollingActive, tuple, tupleState, tupleThread, networkLock,
                   dbVars, activePolls, pc, of, offlineCount, tries, found>>

\* then, in the synchronized block, the tuples' threads.  (The listener field,
\* cleared last, is not modelled.)  Android calls onUnbind() when the last activity
\* has let go of the service.
StopTuples(c) ==
    /\ call[c] = "stopping" /\ ListIsFree
    /\ Goes(c, "idle") \/ (c = Main /\ Goes(c, "unbound"))
    /\ IF tuple = None THEN UNCHANGED <<tupleThread, interrupted>> ELSE DropThread(tuple)
    /\ alone' = alone \ {c}
    /\ settled' = (settled \/ c \in alone)
    /\ UNCHANGED <<service, pollingActive, tuple, tupleState, networkLock,
                   dbVars, activePolls, pc, of, offlineCount, tries, found>>

\* removeComputer(): take a reference and delete the row,
RemoveRow ==
    /\ call[Main] = "idle" /\ tuple # None
    /\ dbRefs # 0
    /\ Goes(Main, "removing")
    /\ dbRefs' = dbRefs + 1
    /\ dbRow' = FALSE
    /\ UNCHANGED <<service, pollingActive, alone, settled, tupleVars, networkLock,
                   dbClosed, activePolls, pc, threadVars, tries, found>>

\* then interrupt the thread, remove the tuple and release the reference.
RemoveTuple ==
    /\ call[Main] = "removing" /\ ListIsFree
    /\ Goes(Main, "idle")
    /\ IF tuple = None THEN UNCHANGED <<tupleThread, interrupted>> ELSE DropThread(tuple)
    /\ tuple' = None
    /\ ReleaseRef
    /\ UNCHANGED <<service, pollingActive, alone, settled, tupleState, networkLock, dbRow,
                   activePolls, pc, of, offlineCount, tries, found>>

\* invalidateStateForComputer(), on a pairing or binding thread: wait, inside
\* pollingTuples, for the network lock,
Invalidate(c) ==
    /\ c # Main /\ call[c] = "idle" /\ tuple # None /\ ListIsFree
    /\ Goes(c, "invalidating")
    /\ UNCHANGED <<service, pollingActive, alone, settled, tupleVars, networkLock, dbVars,
                   activePolls, pc, threadVars, tries, found>>

\* or not wait: a poll may be in progress.
InvalidateUnlocked(c) ==
    /\ call[c] = "invalidating"
    /\ Goes(c, "idle")
    /\ tupleState' = [tupleState EXCEPT ![tuple] = "UNKNOWN"]
    /\ UNCHANGED <<service, pollingActive, alone, settled, tuple, tupleThread, networkLock,
                   dbVars, activePolls, pc, threadVars, tries, found>>

\* and set the state to UNKNOWN.
InvalidateLocked(c) ==
    /\ call[c] = "invalidating"
    /\ networkLock[tuple] = None
    /\ Goes(c, "idle")
    /\ tupleState' = [tupleState EXCEPT ![tuple] = "UNKNOWN"]
    /\ UNCHANGED <<service, pollingActive, alone, settled, tuple, tupleThread, networkLock,
                   dbVars, activePolls, pc, threadVars, tries, found>>

\* onDestroy(), after onUnbind(), whatever the other clients are doing.
Destroy ==
    /\ service /\ call[Main] = "unbound"
    /\ service' = FALSE
    /\ ReleaseRef
    /\ UNCHANGED <<call, pollingActive, alone, settled, tupleVars, networkLock, dbRow,
                   activePolls, pc, threadVars, tries, found>>

-----------------------------------------------------------------------------
RunPoll(p) ==
    \/ TestRef(p) \/ CountRef(p) \/ PollFails(p) \/ PollSucceeds(p)
    \/ PollInterrupted(p) \/ ReadRow(p) \/ WriteRow(p) \/ Notify(p)

Poller(t) == Loop(t) \/ LockNetwork(t) \/ Sleep(t) \/ RunPoll(t)

Adder(a) == AddTuple(a) \/ RunPoll(a)

ClientContinues(c) ==
    \/ (c # Main /\ StartPolling(c))
    \/ StartTuples(c) \/ StopTuples(c) \/ InvalidateLocked(c)
    \/ (c = Main /\ RemoveTuple)

ClientBegins(c) ==
    \/ CallStartPolling(c) \/ StopPolling(c) \/ Invalidate(c)
    \/ (c = Main /\ (StartPolling(c) \/ RemoveRow \/ Destroy))

Next ==
    \/ \E t \in Pollers : Poller(t)
    \/ \E a \in Adders : Adder(a) \/ Discover(a)
    \/ \E c \in Clients : ClientContinues(c) \/ ClientBegins(c)

Spec == Init /\ [][Next]_vars

\* Threads run, polls return, and a client finishes what it began.  A polling
\* thread that has waited for the network lock long enough gets it.
Fairness ==
    /\ \A t \in Pollers : WF_vars(Poller(t)) /\ SF_vars(LockNetwork(t))
    /\ \A a \in Adders : WF_vars(Adder(a))
    /\ \A c \in Clients : WF_vars(ClientContinues(c))

FairSpec == Spec /\ Fairness

-----------------------------------------------------------------------------
(***************************************************************************)
(* Correctness.                                                            *)
(***************************************************************************)

\* Every path through runPoll(), removeComputer() and onDestroy() gives back the
\* database reference it took, and takes itself off activePolls, on which
\* waitForPollingStopped() waits.
CountsMatch ==
    /\ dbRefs = Cardinality({p \in Threads : pc[p] \in Referencing})
                + (IF service THEN 1 ELSE 0) + (IF call[Main] = "removing" THEN 1 ELSE 0)
    /\ activePolls = Cardinality({p \in Threads : pc[p] = "poll"})

\* The computer has a polling thread of its own that was not told to stop.
IsPolled ==
    \E t \in Pollers : /\ tupleThread[tuple] = t
                       /\ pc[t] # "idle" /\ of[t] = tuple
                       /\ ~interrupted[t]

\* A stopPolling() that no startPolling() overlaps puts things straight, whatever
\* threads raced before it: from then on, until two such calls overlap again, the
\* computer is polled when polling is active and no client is in the middle of a
\* call, and has no thread when it is not, whatever adding threads and removals
\* did meanwhile.
ThreadFollowsPolling ==
    settled /\ ~Are("starting") /\ ~Are("stopping") /\ tuple # None =>
        IF pollingActive THEN IsPolled ELSE tupleThread[tuple] = None

\* "This polling thread might already be there" (ComputerManagerService.java:219):
\* a thread that startPolling() finds is one that goes on polling.  The code does not
\* keep this when a pause overlaps the call: the thread that was started after the
\* flag was cleared ends at once, stays in the tuple, and the computer is polled
\* no more until the next pause.
ThreadIsThere ==
    [][ \A c \in Clients : /\ call[c] = "starting" /\ call'[c] = "idle"
                           /\ tuple # None /\ tupleThread[tuple] # None
          => IsPolled ]_vars

\* "We need the network lock to prevent a concurrent poll from wiping this
\* change out" (ComputerManagerService.java:285): when the state is invalidated
\* no thread of the tuple is polling with a result still to be stored.
InvalidateNotWiped ==
    [][ Are("invalidating") /\ ~Are("invalidating")' =>
          \A t \in Pollers : of[t] = tuple => pc[t] \notin InRunPoll ]_vars

\* A polling thread that its tuple no longer names ends: no two threads go on
\* polling one computer, even if an HTTP request swallowed the interrupt.
ReplacedPollersEnd ==
    \A t \in Pollers :
        (pc[t] # "idle" /\ tupleThread[of[t]] # t) ~> pc[t] = "idle"

\* Once the service is destroyed the database is closed.
DestroyedCloses == ~service ~> dbClosed

\* "Check if it's in the database because it could have been removed after this
\* was issued" (ComputerManagerService.java:121): a poll of a known computer
\* never puts a removed computer back.  The code does not keep this: nothing is
\* locked between the read of the row and the write.
PollNeverResurrects ==
    [][ \A t \in Pollers : pc[t] = "update" /\ pc'[t] = "notify" => dbRow ]_vars
=============================================================================
