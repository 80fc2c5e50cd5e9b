------------------------ MODULE ComputerManagerProofs ------------------------
(***************************************************************************)
(* ComputerManager for any finite sets of threads and any tuples: the      *)
(* database references and the poll counter balance, the network lock keeps  *)
(* polls away from an invalidation, and the tuple's thread follows          *)
(* pollingActive again after every pause that no start overlaps.           *)
(***************************************************************************)
EXTENDS ComputerManager, FiniteSetTheorems, TLAPS

\* The threads that hold a database reference, and those inside pollComputer().
Refs  == {p \in Threads : pc[p] \in Referencing}
Polls == {p \in Threads : pc[p] = "poll"}

\* Each kind of thread keeps to its own program, and a polling thread has a tuple
\* while it runs.
ProgramInv ==
    /\ \A t \in Pollers : pc[t] # "add"
    /\ \A a \in Adders : pc[a] \notin {"loop", "lock", "sleep"}
    /\ \A t \in Pollers : pc[t] = "idle" <=> of[t] = None

\* The network lock of a tuple is held by the thread of it that is in runPoll().
LockInv == \A t \in Pollers, k \in Tuples :
    networkLock[k] = t <=> pc[t] \in InRunPoll /\ of[t] = k

\* Only the tuple in the list names a thread.  When calls have not overlapped, that
\* thread goes on while polling is active, and is about to be dropped otherwise; and
\* a tuple has none while polling is active only while a client is starting it.
NamedInv == \A k \in Tuples : tupleThread[k] # None => k = tuple

TupleInv == settled /\ tuple # None =>
    IF pollingActive
    THEN IF tupleThread[tuple] = None THEN Are("starting")
         ELSE LET t == tupleThread[tuple] IN
              pc[t] # "idle" /\ of[t] = tuple /\ ~interrupted[t]
    ELSE tupleThread[tuple] # None => Are("stopping")

\* What the clients are in the middle of: no start and no later stop can be under way
\* beside a stopPolling() that is alone.
ClientInv ==
    /\ settled => /\ Are("starting") => pollingActive
                  /\ Are("stopping") => ~pollingActive
    /\ \A c \in alone : call[c] = "stopping" /\ ~Are("starting") /\ ~pollingActive
    /\ Are("invalidating") => tuple # None

IInv == TypeOK /\ CountsMatch /\ ProgramInv /\ LockInv /\ NamedInv /\ TupleInv /\ ClientInv

USE DEF Threads, dbVars, tupleVars, threadVars, clientVars

-----------------------------------------------------------------------------
(***************************************************************************)
(* Counting.                                                               *)
(***************************************************************************)
Ref(l)  == IF l \in Referencing THEN 1 ELSE 0
Poll(l) == IF l = "poll" THEN 1 ELSE 0
Held    == (IF service THEN 1 ELSE 0) + (IF call[Main] = "removing" THEN 1 ELSE 0)

\* There are finitely many threads.
LEMMA CountsType ==
    /\ IsFiniteSet(Refs) /\ Cardinality(Refs) \in Nat
    /\ IsFiniteSet(Polls) /\ Cardinality(Polls) \in Nat
<1>1. IsFiniteSet(Threads)
  BY ThreadsAssumption, FS_Union
<1>2. Refs \in SUBSET Threads /\ Polls \in SUBSET Threads
  BY DEF Refs, Polls
<1> QED
  BY <1>1, <1>2, FS_Subset, FS_CardinalityType

\* What CountsMatch says, in terms of the two sets.
LEMMA CountsSets ==
    CountsMatch <=> /\ dbRefs = Cardinality(Refs) + Held
                    /\ activePolls = Cardinality(Polls)
BY CountsType DEF CountsMatch, Refs, Polls, Held

\* The same after a step.
LEMMA CountsSetsNext ==
    CountsMatch' <=> /\ dbRefs' = Cardinality(Refs') + Held'
                     /\ activePolls' = Cardinality(Polls')
<1>1. Refs' \in SUBSET Threads
  BY DEF Refs
<1>2. Cardinality(Refs') \in Nat
  BY <1>1, ThreadsAssumption, FS_Union, FS_Subset, FS_CardinalityType
<1> QED
  BY <1>2 DEF CountsMatch, Refs, Polls, Held

\* A thread that moves takes its count with it.
LEMMA MoveCounts ==
    ASSUME pc \in [Threads -> Pcs], NEW p \in Threads, NEW l, pc' = [pc EXCEPT ![p] = l]
    PROVE  /\ Cardinality(Refs') = Cardinality(Refs) - Ref(pc[p])
                                                     + Ref(l)
           /\ Cardinality(Polls') = Cardinality(Polls) - Poll(pc[p]) + Poll(l)
           /\ Cardinality(Refs) >= Ref(pc[p])
           /\ Cardinality(Polls) >= Poll(pc[p])
<1>1. /\ pc[p] \in Referencing <=> p \in Refs
      /\ pc[p] = "poll" <=> p \in Polls
  BY DEF Refs, Polls
<1>2. /\ Refs' = IF l \in Referencing THEN Refs \cup {p} ELSE Refs \ {p}
      /\ Polls' = IF l = "poll" THEN Polls \cup {p} ELSE Polls \ {p}
  BY DEF Refs, Polls
<1>3. \A S : IsFiniteSet(S) /\ p \in S => Cardinality(S) >= 1
  <2> SUFFICES ASSUME NEW S, IsFiniteSet(S), p \in S PROVE Cardinality(S) >= 1
    OBVIOUS
  <2>1. Cardinality(S) \in Nat /\ Cardinality(S) # 0
    BY FS_EmptySet, FS_CardinalityType
  <2> QED
    BY <2>1
<1>4. ASSUME NEW S, IsFiniteSet(S), Cardinality(S) \in Nat
      PROVE  /\ Cardinality(S \cup {p}) = Cardinality(S) - (IF p \in S THEN 1 ELSE 0) + 1
             /\ Cardinality(S \ {p}) = Cardinality(S) - (IF p \in S THEN 1 ELSE 0)
  <2>1. Cardinality(S \cup {p}) = IF p \in S THEN Cardinality(S) ELSE Cardinality(S) + 1
    BY <1>4, FS_AddElement
  <2>2. Cardinality(S \ {p}) = IF p \in S THEN Cardinality(S) - 1 ELSE Cardinality(S)
    BY <1>4, FS_RemoveElement
  <2> QED
    BY <1>4, <2>1, <2>2 DEF Ref, Poll
<1>5. Cardinality(Refs') = Cardinality(Refs) - (IF p \in Refs THEN 1 ELSE 0) + Ref(l)
  <2>1. /\ Cardinality(Refs \cup {p}) = Cardinality(Refs) - (IF p \in Refs THEN 1 ELSE 0) + 1
        /\ Cardinality(Refs \ {p}) = Cardinality(Refs) - (IF p \in Refs THEN 1 ELSE 0)
    BY <1>4, CountsType
  <2> QED
    BY <1>2, <2>1, CountsType DEF Ref, Poll
<1>6. Cardinality(Polls') = Cardinality(Polls) - (IF p \in Polls THEN 1 ELSE 0) + Poll(l)
  <2>1. /\ Cardinality(Polls \cup {p}) = Cardinality(Polls) - (IF p \in Polls THEN 1 ELSE 0) + 1
        /\ Cardinality(Polls \ {p}) = Cardinality(Polls) - (IF p \in Polls THEN 1 ELSE 0)
    BY <1>4, CountsType
  <2> QED
    BY <1>2, <2>1, CountsType DEF Ref, Poll
<1>7. Cardinality(Refs) >= (IF p \in Refs THEN 1 ELSE 0) /\ Cardinality(Polls) >= (IF p \in Polls THEN 1 ELSE 0)
  BY <1>3, CountsType DEF Ref, Poll
<1> QED
  BY <1>1, <1>5, <1>6, <1>7 DEF Ref, Poll

\* A step in which no thread enters or leaves runPoll() leaves both sets alone.
LEMMA SameCounts ==
    ASSUME \A p \in Threads : /\ pc'[p] \in Referencing <=> pc[p] \in Referencing
                              /\ pc'[p] = "poll" <=> pc[p] = "poll"
    PROVE  Cardinality(Refs') = Cardinality(Refs) /\ Cardinality(Polls') = Cardinality(Polls)
BY DEF Refs, Polls

\* After runPoll() a thread holds no reference.
LEMMA PollReturnsPc ==
    ASSUME NEW p \in Threads, NEW modified, PollReturns(p, modified)
    PROVE  \E l \in {"sleep", "add", "idle"} : pc' = [pc EXCEPT ![p] = l]
BY DEF PollReturns

\* Thread p moves, and the counters follow.
Moves(p, l) ==
    /\ pc' = [pc EXCEPT ![p] = l]
    /\ dbRefs' = dbRefs - Ref(pc[p]) + Ref(l)
    /\ activePolls' = activePolls - Poll(pc[p]) + Poll(l)

\* A move that changes the counters as the thread's place says keeps them right.
LEMMA MovesCounts ==
    ASSUME TypeOK, CountsMatch, NEW p \in Threads, NEW l, Moves(p, l), UNCHANGED clientVars
    PROVE  CountsMatch' /\ dbRefs' \in Nat /\ activePolls' \in Nat
<1>1. Held \in Nat /\ Held' = Held
  BY DEF Held
<1>2. dbRefs = Cardinality(Refs) + Held /\ activePolls = Cardinality(Polls)
  BY CountsSets
<1>3. /\ Cardinality(Refs') = Cardinality(Refs) - Ref(pc[p]) + Ref(l)
      /\ Cardinality(Polls') = Cardinality(Polls) - Poll(pc[p]) + Poll(l)
      /\ Cardinality(Refs) >= Ref(pc[p])
      /\ Cardinality(Polls) >= Poll(pc[p])
  BY MoveCounts DEF TypeOK, Moves
<1>4. Cardinality(Refs) \in Nat /\ Cardinality(Polls) \in Nat
  BY CountsType
<1>5. Ref(pc[p]) \in {0, 1} /\ Ref(l) \in {0, 1} /\ Poll(pc[p]) \in {0, 1} /\ Poll(l) \in {0, 1}
  BY DEF Ref, Poll
<1>6. dbRefs' = Cardinality(Refs') + Held /\ dbRefs' \in Nat
  BY <1>1, <1>2, <1>3, <1>4, <1>5 DEF Moves
<1>7. activePolls' = Cardinality(Polls') /\ activePolls' \in Nat
  BY <1>2, <1>3, <1>4, <1>5 DEF Moves
<1> QED
  BY <1>1, <1>6, <1>7, CountsSetsNext

\* Each path through runPoll() gives back what it took.
LEMMA RunPollMoves ==
    ASSUME IInv, NEW p \in Threads, RunPoll(p)
    PROVE  \E l \in Pcs : Moves(p, l)
<1>1. dbRefs \in Nat /\ activePolls \in Nat
  BY DEF IInv, TypeOK
<1>2. \A l \in {"idle", "sleep", "add", "ref", "count"} : l \in Pcs /\ Ref(l) = 0 /\ Poll(l) = 0
  BY DEF Ref, Poll, Referencing, Pcs
<1>3. \A l \in {"read", "update", "insert", "notify"} : l \in Pcs /\ Ref(l) = 1 /\ Poll(l) = 0
  BY DEF Ref, Poll, Referencing, Pcs
<1>4. Ref("poll") = 1 /\ Poll("poll") = 1 /\ "poll" \in Pcs
  BY DEF Ref, Poll, Referencing, Pcs
\* runPoll() returns, or throws: the thread had a reference or not.
<1>5. ASSUME NEW l \in {"sleep", "add", "idle"}, pc' = [pc EXCEPT ![p] = l],
             dbRefs' = dbRefs - Ref(pc[p]), activePolls' = activePolls - Poll(pc[p])
      PROVE  \E m \in Pcs : Moves(p, m)
  <2>1. Ref(l) = 0 /\ Poll(l) = 0 /\ l \in Pcs
    BY <1>2
  <2>2. Moves(p, l)
    BY <1>1, <1>5, <2>1 DEF Moves, Ref, Poll
  <2> QED
    BY <2>1, <2>2
<1> USE DEF ReleaseRef
<1>6. CASE TestRef(p)
  <2>1. dbRefs' = dbRefs /\ activePolls' = activePolls /\ pc[p] = "ref"
    BY <1>6 DEF TestRef
  <2>2. Ref(pc[p]) = 0 /\ Poll(pc[p]) = 0
    BY <1>2, <2>1
  <2>3. CASE dbRefs = 0
    <3>1. PICK l \in {"sleep", "add", "idle"} : pc' = [pc EXCEPT ![p] = l]
      BY <1>6, <2>3, PollReturnsPc DEF TestRef
    <3>2. dbRefs' = dbRefs - Ref(pc[p]) /\ activePolls' = activePolls - Poll(pc[p])
      BY <1>1, <2>1, <2>2
    <3> QED
      BY <1>5, <3>1, <3>2
  <2>4. CASE dbRefs # 0
    <3>1. Moves(p, "count")
      BY <1>1, <1>2, <1>6, <2>1, <2>2, <2>4 DEF TestRef, Moves
    <3> QED
      BY <1>2, <3>1
  <2> QED
    BY <2>3, <2>4
<1>7. CASE CountRef(p)
  <2>1. Ref(pc[p]) = 0 /\ Poll(pc[p]) = 0
    BY <1>2, <1>7 DEF CountRef
  <2>2. Moves(p, "poll")
    BY <1>1, <1>4, <1>7, <2>1 DEF CountRef, Moves
  <2> QED
    BY <1>4, <2>2
<1>8. CASE PollFails(p)
  <2>1. activePolls' = activePolls - 1 /\ pc[p] = "poll"
    BY <1>8 DEF PollFails
  <2>2. Ref(pc[p]) = 1 /\ Poll(pc[p]) = 1
    BY <1>4, <2>1
  <2>3. CASE p \in Pollers /\ offlineCount[p] < tries[p]
    <3>1. dbRefs' = dbRefs - 1 /\ PollReturns(p, FALSE)
      BY <1>8, <2>3 DEF PollFails
    <3>2. PICK l \in {"sleep", "add", "idle"} : pc' = [pc EXCEPT ![p] = l]
      BY <3>1, PollReturnsPc
    <3>3. dbRefs' = dbRefs - Ref(pc[p]) /\ activePolls' = activePolls - Poll(pc[p])
      BY <1>1, <2>1, <2>2, <3>1
    <3> QED
      BY <1>5, <3>2, <3>3
  <2>4. CASE ~(p \in Pollers /\ offlineCount[p] < tries[p])
    <3>1. pc' = [pc EXCEPT ![p] = "notify"] /\ dbRefs' = dbRefs
      BY <1>8, <2>4 DEF PollFails
    <3>2. Moves(p, "notify")
      BY <1>1, <1>3, <2>1, <2>2, <3>1 DEF Moves
    <3> QED
      BY <1>3, <3>2
  <2> QED
    BY <2>3, <2>4
<1>9. CASE PollSucceeds(p)
  <2>1. Ref(pc[p]) = 1 /\ Poll(pc[p]) = 1
    BY <1>4, <1>9 DEF PollSucceeds
  <2>2. Moves(p, "read")
    BY <1>1, <1>3, <1>9, <2>1 DEF PollSucceeds, Moves
  <2> QED
    BY <1>3, <2>2
<1>10. CASE PollInterrupted(p)
  <2>1. pc' = [pc EXCEPT ![p] = "idle"]
    BY <1>10 DEF PollInterrupted, PollThrows, End
  <2>2. pc[p] = "poll" /\ dbRefs' = dbRefs - 1 /\ activePolls' = activePolls - 1
    BY <1>10 DEF PollInterrupted
  <2> QED
    BY <1>4, <1>5, <2>1, <2>2
<1>11. CASE ReadRow(p)
  <2>1. activePolls' = activePolls /\ pc[p] = "read"
    BY <1>11 DEF ReadRow
  <2>2. Ref(pc[p]) = 1 /\ Poll(pc[p]) = 0
    BY <1>3, <2>1
  <2>3. CASE ~dbRow /\ p \in Pollers
    <3>1. dbRefs' = dbRefs - 1 /\ PollReturns(p, FALSE)
      BY <1>11, <2>3 DEF ReadRow
    <3>2. PICK l \in {"sleep", "add", "idle"} : pc' = [pc EXCEPT ![p] = l]
      BY <3>1, PollReturnsPc
    <3>3. dbRefs' = dbRefs - Ref(pc[p]) /\ activePolls' = activePolls - Poll(pc[p])
      BY <1>1, <2>1, <2>2, <3>1
    <3> QED
      BY <1>5, <3>2, <3>3
  <2>4. CASE ~(~dbRow /\ p \in Pollers)
    <3>1. dbRefs' = dbRefs
      BY <1>11, <2>4 DEF ReadRow
    <3>2. PICK l \in {"update", "insert"} : pc' = [pc EXCEPT ![p] = l]
      BY <1>11, <2>4 DEF ReadRow
    <3>3. Moves(p, l)
      BY <1>1, <1>3, <2>1, <2>2, <3>1, <3>2 DEF Moves
    <3> QED
      BY <1>3, <3>3
  <2> QED
    BY <2>3, <2>4
<1>12. CASE WriteRow(p)
  <2>1. Ref(pc[p]) = 1 /\ Poll(pc[p]) = 0
    BY <1>3, <1>12 DEF WriteRow
  <2>2. Moves(p, "notify")
    BY <1>1, <1>3, <1>12, <2>1 DEF WriteRow, Moves
  <2> QED
    BY <1>3, <2>2
<1>13. CASE Notify(p)
  <2>1. PICK l \in {"sleep", "add", "idle"} : pc' = [pc EXCEPT ![p] = l]
    BY <1>13, PollReturnsPc DEF Notify
  <2>2. dbRefs' = dbRefs - 1 /\ activePolls' = activePolls /\ pc[p] = "notify"
    BY <1>13 DEF Notify
  <2>3. dbRefs' = dbRefs - Ref(pc[p]) /\ activePolls' = activePolls - Poll(pc[p])
    BY <1>1, <1>3, <2>2
  <2> QED
    BY <1>5, <2>1, <2>3
<1> QED
  BY <1>6, <1>7, <1>8, <1>9, <1>10, <1>11, <1>12, <1>13 DEF RunPoll

-----------------------------------------------------------------------------
(***************************************************************************)
(* A thread in runPoll().                                                  *)
(***************************************************************************)

\* What a step of runPoll() does to the threads and the network locks: it goes on,
\* returns or, on an interrupted polling thread, ends the loop.
GoesOn(p) ==
    /\ \E l \in InRunPoll : pc' = [pc EXCEPT ![p] = l]
    /\ UNCHANGED <<networkLock, of>>

Returns(p) ==
    IF p \in Pollers
    THEN /\ pc' = [pc EXCEPT ![p] = "sleep"]
         /\ networkLock' = [networkLock EXCEPT ![of[p]] = None]
         /\ UNCHANGED of
    ELSE /\ \E l \in {"add", "idle"} : pc' = [pc EXCEPT ![p] = l]
         /\ UNCHANGED <<networkLock, of>>

Throws(p) ==
    /\ p \in Pollers /\ interrupted[p]
    /\ pc' = [pc EXCEPT ![p] = "idle"]
    /\ of' = [of EXCEPT ![p] = None]
    /\ networkLock' = [networkLock EXCEPT ![of[p]] = None]

\* Every step of runPoll() is one of the three, and leaves the tuple alone.
LEMMA RunPollEffect ==
    ASSUME TypeOK, NEW p \in Threads, RunPoll(p)
    PROVE  /\ pc[p] \in InRunPoll
           /\ UNCHANGED <<clientVars, tuple, tupleThread>>
           /\ \A t \in Pollers : interrupted'[t] => interrupted[t]
           /\ GoesOn(p) \/ Returns(p) \/ Throws(p)
<1> USE DEF TypeOK, GoesOn, Returns, Throws, PollReturns, InRunPoll, Referencing
<1>1. CASE TestRef(p)
  BY <1>1 DEF TestRef
<1>2. CASE CountRef(p)
  BY <1>2 DEF CountRef
<1>3. CASE PollFails(p)
  BY <1>3 DEF PollFails, InterruptMayBeSwallowed
<1>4. CASE PollSucceeds(p)
  BY <1>4 DEF PollSucceeds, InterruptMayBeSwallowed
<1>5. CASE PollInterrupted(p)
  BY <1>5 DEF PollInterrupted, PollThrows, End
<1>6. CASE ReadRow(p)
  BY <1>6 DEF ReadRow
<1>7. CASE WriteRow(p)
  BY <1>7 DEF WriteRow
<1>8. CASE Notify(p)
  BY <1>8 DEF Notify
<1> QED
  BY <1>1, <1>2, <1>3, <1>4, <1>5, <1>6, <1>7, <1>8 DEF RunPoll

\* The states that runPoll() keeps keep their types.
LEMMA PollReturnsType ==
    ASSUME TypeOK, NEW p \in Threads, NEW modified \in BOOLEAN, PollReturns(p, modified),
           p \in Pollers => of[p] \in Tuples
    PROVE  /\ offlineCount' \in [Pollers -> 0 .. OFFLINE_POLL_TRIES]
           /\ networkLock' \in [Tuples -> Pollers \cup {None}]
           /\ tries' \in [Pollers -> {OFFLINE_POLL_TRIES, INITIAL_POLL_TRIES}]
           /\ pc' \in [Threads -> Pcs]
           /\ found' \in [Adders -> States]
<1>1. CASE p \in Pollers
  <2>1. offlineCount' \in [Pollers -> 0 .. OFFLINE_POLL_TRIES]
    BY <1>1, TriesAssumption DEF TypeOK, PollReturns
  <2> QED
    BY <1>1, <2>1 DEF TypeOK, PollReturns, Pcs
<1>2. CASE p \notin Pollers
  BY <1>2 DEF TypeOK, PollReturns, Pcs, States
<1> QED
  BY <1>1, <1>2

\* So does a polling thread that ends, or is started.
LEMMA EndType ==
    ASSUME TypeOK, NEW t \in Pollers, End(t)
    PROVE  /\ pc' \in [Threads -> Pcs]
           /\ of' \in [Pollers -> Tuples \cup {None}]
           /\ interrupted' \in [Pollers -> BOOLEAN]
           /\ offlineCount' \in [Pollers -> 0 .. OFFLINE_POLL_TRIES]
<1>1. 0 \in 0 .. OFFLINE_POLL_TRIES
  BY TriesAssumption
<1>2. pc' \in [Threads -> Pcs]
  BY DEF TypeOK, End, Pcs
<1> QED
  BY <1>1, <1>2 DEF TypeOK, End

\* A step of runPoll() keeps the types and the counters.
LEMMA RunPollTypeOK ==
    ASSUME IInv, NEW p \in Threads, RunPoll(p)
    PROVE  TypeOK' /\ CountsMatch'
<1>1. UNCHANGED <<clientVars, tuple, tupleThread>> /\ pc[p] \in InRunPoll
  BY RunPollEffect DEF IInv
<1>2. TypeOK /\ CountsMatch /\ (p \in Pollers => of[p] \in Tuples)
  BY <1>1 DEF IInv, TypeOK, ProgramInv, InRunPoll, Referencing
<1>3. dbRefs' \in Nat /\ activePolls' \in Nat /\ CountsMatch'
  BY <1>1, <1>2, RunPollMoves, MovesCounts
<1>4. TypeOK'
  <2> USE DEF TypeOK, Pcs, States
  <2>1. CASE TestRef(p)
    BY <1>2, <1>3, <2>1, PollReturnsType DEF TestRef
  <2>2. CASE CountRef(p)
    BY <1>2, <1>3, <2>2 DEF CountRef
  <2>3. CASE PollFails(p)
    <3>1. /\ UNCHANGED <<clientVars, tuple, tupleThread, dbRow, of>>
          /\ interrupted' \in [Pollers -> BOOLEAN]
      BY <1>2, <2>3 DEF PollFails, InterruptMayBeSwallowed
    <3>2. CASE p \in Pollers /\ offlineCount[p] < tries[p]
      BY <1>2, <1>3, <2>3, <3>1, <3>2, PollReturnsType DEF PollFails, ReleaseRef
    <3>3. CASE ~(p \in Pollers /\ offlineCount[p] < tries[p])
      BY <1>2, <1>3, <2>3, <3>1, <3>3 DEF PollFails
    <3> QED
      BY <3>2, <3>3
  <2>4. CASE PollSucceeds(p)
    BY <1>2, <1>3, <2>4 DEF PollSucceeds, InterruptMayBeSwallowed
  <2>5. CASE PollInterrupted(p)
    <3>1. PollThrows(p) /\ UNCHANGED <<clientVars, tupleVars, dbRow>>
          /\ dbClosed' \in BOOLEAN
      BY <1>2, <2>5 DEF PollInterrupted, ReleaseRef
    <3>2. CASE p \in Pollers
      BY <1>2, <1>3, <3>1, <3>2, EndType DEF PollThrows
    <3>3. CASE p \notin Pollers
      BY <1>2, <1>3, <3>1, <3>3 DEF PollThrows
    <3> QED
      BY <3>2, <3>3
  <2>6. CASE ReadRow(p)
    BY <1>2, <1>3, <2>6, PollReturnsType DEF ReadRow, ReleaseRef
  <2>7. CASE WriteRow(p)
    BY <1>2, <1>3, <2>7 DEF WriteRow
  <2>8. CASE Notify(p)
    BY <1>2, <1>3, <2>8, PollReturnsType DEF Notify, ReleaseRef
  <2> QED
    BY <2>1, <2>2, <2>3, <2>4, <2>5, <2>6, <2>7, <2>8 DEF RunPoll
<1> QED
  BY <1>3, <1>4

\* runPoll() leaves the network lock on every path, and ends only a thread that was
\* told to.
LEMMA RunPollInv ==
    ASSUME IInv, NEW p \in Threads, RunPoll(p)
    PROVE  ProgramInv' /\ LockInv' /\ NamedInv' /\ TupleInv' /\ ClientInv'
<1>1. /\ pc[p] \in InRunPoll
      /\ UNCHANGED <<clientVars, tuple, tupleThread>>
      /\ \A t \in Pollers : interrupted'[t] => interrupted[t]
      /\ GoesOn(p) \/ Returns(p) \/ Throws(p)
  BY RunPollEffect DEF IInv
<1>2. TypeOK /\ ProgramInv /\ LockInv /\ NamedInv /\ TupleInv /\ ClientInv
  BY DEF IInv
<1>3. ClientInv' /\ NamedInv'
  BY <1>1, <1>2 DEF ClientInv, NamedInv, Are
<1> USE ThreadsAssumption DEF InRunPoll, Referencing
<1>4. ProgramInv'
  BY <1>1, <1>2 DEF TypeOK, ProgramInv, GoesOn, Returns, Throws
<1>5. LockInv'
  BY <1>1, <1>2 DEF TypeOK, ProgramInv, LockInv, GoesOn, Returns, Throws
<1>6. TupleInv'
  BY <1>1, <1>2 DEF TypeOK, ProgramInv, TupleInv, Are, GoesOn, Returns, Throws
<1> QED
  BY <1>3, <1>4, <1>5, <1>6

-----------------------------------------------------------------------------
(***************************************************************************)
(* The other steps.                                                        *)
(***************************************************************************)

\* Nothing changes of what is counted.
LEMMA QuietCounts ==
    ASSUME CountsMatch, UNCHANGED <<dbRefs, activePolls, service>>,
           (call'[Main] = "removing") = (call[Main] = "removing"),
           \A p \in Threads : /\ pc'[p] \in Referencing <=> pc[p] \in Referencing
                              /\ pc'[p] = "poll" <=> pc[p] = "poll"
    PROVE  CountsMatch'
<1>1. Cardinality(Refs') = Cardinality(Refs) /\ Cardinality(Polls') = Cardinality(Polls)
  BY SameCounts
<1>2. Held' = Held
  BY DEF Held
<1> QED
  BY <1>1, <1>2, CountsSets, CountsSetsNext

\* The loop of a polling thread.
LEMMA LoopInv ==
    ASSUME IInv, NEW t \in Pollers, Loop(t) \/ LockNetwork(t) \/ Sleep(t)
    PROVE  IInv'
<1>1. TypeOK /\ CountsMatch /\ ProgramInv /\ LockInv /\ NamedInv /\ TupleInv /\ ClientInv
  BY DEF IInv
<1>2. UNCHANGED <<dbRefs, activePolls, clientVars>>
  BY DEF Loop, LockNetwork, Sleep
<1>3. TypeOK'
  <2> USE <1>1, EndType DEF TypeOK
  <2>1. CASE Loop(t)
    BY <2>1 DEF Loop, Pcs
  <2>2. CASE LockNetwork(t)
    BY <2>2 DEF LockNetwork, ProgramInv, Pcs
  <2>3. CASE Sleep(t)
    BY <2>3 DEF Sleep, Pcs
  <2> QED
    BY <2>1, <2>2, <2>3
<1>4. CountsMatch'
  <2>1. \A p \in Threads : /\ pc'[p] \in Referencing <=> pc[p] \in Referencing
                           /\ pc'[p] = "poll" <=> pc[p] = "poll"
    BY <1>1 DEF TypeOK, Loop, LockNetwork, Sleep, End, Referencing
  <2> QED
    BY <1>1, <1>2, <2>1, QuietCounts
<1>5. ProgramInv' /\ LockInv' /\ NamedInv' /\ TupleInv' /\ ClientInv'
  <2> USE <1>1, ThreadsAssumption
      DEF TypeOK, ProgramInv, LockInv, NamedInv, TupleInv, ClientInv, Are, End,
          InRunPoll, Referencing
  <2>1. CASE Loop(t)
    BY <2>1 DEF Loop
  <2>2. CASE LockNetwork(t)
    BY <2>2 DEF LockNetwork
  <2>3. CASE Sleep(t)
    BY <2>3 DEF Sleep
  <2> QED
    BY <2>1, <2>2, <2>3
<1> QED
  BY <1>3, <1>4, <1>5 DEF IInv

\* The steps of an adding thread outside runPoll().
LEMMA DiscoverInv ==
    ASSUME IInv, NEW a \in Adders, Discover(a)
    PROVE  IInv'
<1>1. TypeOK /\ CountsMatch /\ ProgramInv /\ LockInv /\ NamedInv /\ TupleInv /\ ClientInv
  BY DEF IInv
<1>2. TypeOK'
  BY <1>1 DEF TypeOK, Discover, Pcs, States
<1>3. CountsMatch'
  <2>1. UNCHANGED <<dbRefs, activePolls, clientVars>>
    BY DEF Discover
  <2>2. \A p \in Threads : /\ pc'[p] \in Referencing <=> pc[p] \in Referencing
                           /\ pc'[p] = "poll" <=> pc[p] = "poll"
    BY <1>1 DEF TypeOK, Discover, Referencing
  <2> QED
    BY <1>1, <2>1, <2>2, QuietCounts
<1>4. ProgramInv' /\ LockInv' /\ NamedInv' /\ TupleInv' /\ ClientInv'
  BY <1>1, ThreadsAssumption
     DEF TypeOK, ProgramInv, LockInv, NamedInv, TupleInv, ClientInv, Are, Discover
<1> QED
  BY <1>2, <1>3, <1>4 DEF IInv

\* A thread is started for a tuple without one: its types, and what it needs of the
\* program counters that the caller set.
LEMMA StartThreadType ==
    ASSUME TypeOK, NEW k \in Tuples, NEW pcs \in [Threads -> Pcs], StartThread(k, pcs)
    PROVE  /\ tupleThread' \in [Tuples -> Pollers \cup {None}]
           /\ pc' \in [Threads -> Pcs]
           /\ of' \in [Pollers -> Tuples \cup {None}]
           /\ interrupted' \in [Pollers -> BOOLEAN]
           /\ offlineCount' \in [Pollers -> 0 .. OFFLINE_POLL_TRIES]
<1>1. 0 \in 0 .. OFFLINE_POLL_TRIES
  BY TriesAssumption
<1> QED
  BY <1>1 DEF TypeOK, StartThread, Pcs

\* A thread that is started for the tuple of the list, while polling is active, keeps
\* the invariant.
LEMMA StartThreadInv ==
    ASSUME IInv, NEW k \in Tuples, NEW pcs \in [Threads -> Pcs],
           tuple \in {k, None}, tuple' = k, settled => pollingActive,
           tupleThread[k] = None, StartThread(k, pcs),
           pcs = pc \/ \E a \in Adders : pc[a] = "add" /\ pcs = [pc EXCEPT ![a] = "idle"],
           UNCHANGED <<networkLock, pollingActive, settled>>
    PROVE  /\ ProgramInv' /\ LockInv' /\ NamedInv' /\ TupleInv'
           /\ \A p \in Threads : /\ pc'[p] \in Referencing <=> pc[p] \in Referencing
                                 /\ pc'[p] = "poll" <=> pc[p] = "poll"
<1>1. TypeOK /\ ProgramInv /\ LockInv /\ NamedInv /\ TupleInv /\ ClientInv
  BY DEF IInv
<1>2. PICK t \in Pollers :
        /\ pc[t] = "idle"
        /\ tupleThread' = [tupleThread EXCEPT ![k] = t]
        /\ pc' = [pcs EXCEPT ![t] = "loop"]
        /\ of' = [of EXCEPT ![t] = k]
        /\ interrupted' = [interrupted EXCEPT ![t] = FALSE]
  BY DEF StartThread
<1>3. \A p \in Threads : p # t =>
           pc'[p] = pc[p] \/ (pc[p] = "add" /\ pc'[p] = "idle" /\ p \in Adders)
  <2>1. \A p \in Threads : p # t => pc'[p] = pcs[p]
    BY <1>2
  <2>2. CASE pcs = pc
    BY <2>1, <2>2
  <2>3. ASSUME NEW a \in Adders, pc[a] = "add", pcs = [pc EXCEPT ![a] = "idle"]
        PROVE  \A p \in Threads : p # t =>
                  pc'[p] = pc[p] \/ (pc[p] = "add" /\ pc'[p] = "idle" /\ p \in Adders)
    <3> TAKE p \in Threads
    <3> HAVE p # t
    <3>1. pcs[p] = IF p = a THEN "idle" ELSE pc[p]
      BY <1>1, <2>3 DEF TypeOK
    <3>2. pc'[p] = IF p = a THEN "idle" ELSE pc[p]
      BY <2>1, <3>1
    <3> QED
      BY <2>3, <3>2
  <2> QED
    BY <2>2, <2>3
<1>4. pc'[t] = "loop" /\ pc' \in [Threads -> Pcs]
  BY <1>1, <1>2 DEF TypeOK, Pcs
<1> USE ThreadsAssumption DEF InRunPoll, Referencing
<1>5. ProgramInv'
  BY <1>1, <1>2, <1>3, <1>4 DEF TypeOK, ProgramInv
<1>6. LockInv'
  BY <1>1, <1>2, <1>3, <1>4 DEF TypeOK, ProgramInv, LockInv
<1>7. NamedInv'
  BY <1>1, <1>2 DEF TypeOK, NamedInv
<1>8. TupleInv'
  BY <1>1, <1>2, <1>3, <1>4 DEF TypeOK, ProgramInv, TupleInv
<1>9. \A p \in Threads : /\ pc'[p] \in Referencing <=> pc[p] \in Referencing
                         /\ pc'[p] = "poll" <=> pc[p] = "poll"
  BY <1>1, <1>2, <1>3, <1>4
<1> QED
  BY <1>5, <1>6, <1>7, <1>8, <1>9

\* The new computer gets its thread while polling is active.
LEMMA AddTupleInv ==
    ASSUME IInv, NEW a \in Adders, AddTuple(a)
    PROVE  IInv'
<1>1. TypeOK /\ CountsMatch /\ ProgramInv /\ LockInv /\ NamedInv /\ TupleInv /\ ClientInv
  BY DEF IInv
<1>2. PICK k \in Tuples :
         /\ IF tuple = None THEN k \notin {of[t] : t \in Pollers} ELSE k = tuple
         /\ tuple' = k
         /\ tupleState' = [tupleState EXCEPT ![k] = found[a]]
         /\ IF pollingActive /\ tupleThread[k] = None
            THEN StartThread(k, [pc EXCEPT ![a] = "idle"])
            ELSE /\ pc' = [pc EXCEPT ![a] = "idle"]
                 /\ UNCHANGED <<tupleThread, threadVars>>
  BY DEF AddTuple
<1>3. /\ pc[a] = "add" /\ ~Are("invalidating")
      /\ found' = [found EXCEPT ![a] = "UNKNOWN"]
      /\ UNCHANGED <<clientVars, networkLock, dbVars, activePolls, tries>>
  BY DEF AddTuple, ListIsFree, Are
<1>c. ClientInv' /\ CountsMatch
  BY <1>1, <1>2, <1>3 DEF ClientInv, Are
<1>4. tupleState' \in [Tuples -> States] /\ found' \in [Adders -> States]
  BY <1>1, <1>2, <1>3 DEF TypeOK, States
<1>5. [pc EXCEPT ![a] = "idle"] \in [Threads -> Pcs]
  BY <1>1 DEF TypeOK, Pcs
<1>6. CASE pollingActive /\ tupleThread[k] = None
  <2>1. TypeOK'
    BY <1>1, <1>2, <1>3, <1>4, <1>5, <1>6, StartThreadType DEF TypeOK
  <2>2. /\ ProgramInv' /\ LockInv' /\ NamedInv' /\ TupleInv'
        /\ \A p \in Threads : /\ pc'[p] \in Referencing <=> pc[p] \in Referencing
                              /\ pc'[p] = "poll" <=> pc[p] = "poll"
    BY <1>1, <1>2, <1>3, <1>5, <1>6, StartThreadInv
  <2> QED
    BY <1>c, <1>3, <2>1, <2>2, QuietCounts DEF IInv
<1>7. CASE ~(pollingActive /\ tupleThread[k] = None)
  <2>1. pc' = [pc EXCEPT ![a] = "idle"] /\ UNCHANGED <<tupleThread, threadVars>>
    BY <1>2, <1>7
  <2>2. TypeOK'
    BY <1>1, <1>2, <1>3, <1>4, <1>5, <2>1 DEF TypeOK
  <2>3. \A p \in Threads : /\ pc'[p] \in Referencing <=> pc[p] \in Referencing
                           /\ pc'[p] = "poll" <=> pc[p] = "poll"
    BY <1>1, <1>3, <2>1 DEF TypeOK, Referencing
  <2>4. ProgramInv' /\ LockInv' /\ NamedInv'
    BY <1>1, <1>2, <1>3, <2>1, ThreadsAssumption
       DEF TypeOK, ProgramInv, LockInv, NamedInv
  <2>5. TupleInv'
    <3>1. tupleThread[k] # None => k = tuple
      BY <1>1 DEF NamedInv
    <3> QED
      BY <1>1, <1>2, <1>3, <1>7, <2>1, <3>1, ThreadsAssumption
         DEF TypeOK, TupleInv, Are
  <2> QED
    BY <1>c, <1>3, <2>2, <2>3, <2>4, <2>5, QuietCounts DEF IInv
<1> QED
  BY <1>6, <1>7

\* A client goes on with its call, or ends it.
LEMMA ClientGoes ==
    ASSUME TypeOK, NEW c \in Clients,
           NEW what \in {"idle", "called", "starting", "stopping", "unbound", "removing",
                         "invalidating"},
           Goes(c, what),
           c = Main => what \notin {"called", "invalidating"},
           c # Main => what \notin {"unbound", "removing"}
    PROVE  /\ \A d \in Clients : call'[d] = IF d = c THEN what ELSE call[d]
           /\ call' \in [Clients -> {"idle", "called", "starting", "stopping", "unbound",
                                     "removing", "invalidating"}]
           /\ call'[Main] \notin {"called", "invalidating"}
           /\ \A d \in Clients \ {Main} : call'[d] \notin {"unbound", "removing"}
BY ThreadsAssumption DEF TypeOK, Goes

\* What no call of a client changes.
LEMMA SameThreads ==
    ASSUME IInv, UNCHANGED <<tuple, tupleThread, networkLock, pc, of, interrupted>>
    PROVE  ProgramInv' /\ LockInv' /\ NamedInv'
BY DEF IInv, ProgramInv, LockInv, NamedInv

\* A client starts polling.
LEMMA StartPollingInv ==
    ASSUME IInv, NEW c \in Clients, CallStartPolling(c) \/ StartPolling(c)
    PROVE  IInv'
<1>1. TypeOK /\ CountsMatch /\ ProgramInv /\ LockInv /\ NamedInv /\ TupleInv /\ ClientInv
  BY DEF IInv
<1>2. UNCHANGED <<service, tupleVars, networkLock, dbVars, activePolls, pc, threadVars,
                  tries, found>>
  BY DEF CallStartPolling, StartPolling
<1>3. ProgramInv' /\ LockInv' /\ NamedInv'
  BY <1>2, SameThreads
<1>4. CASE CallStartPolling(c)
  <2>1. /\ call[c] = "idle" /\ c # Main /\ UNCHANGED <<pollingActive, alone, settled>>
        /\ Goes(c, "called")
    BY <1>4 DEF CallStartPolling
  <2>2. /\ \A d \in Clients : call'[d] = IF d = c THEN "called" ELSE call[d]
        /\ TypeOK'
    BY <1>1, <1>2, <2>1, ClientGoes DEF TypeOK
  <2>3. CountsMatch'
    BY <1>1, <1>2, <2>1, <2>2, QuietCounts, ThreadsAssumption
  <2>4. /\ \A what \in {"starting", "stopping", "invalidating"} : Are(what)' = Are(what)
        /\ \A d \in Clients : call[d] = "stopping" => call'[d] = "stopping"
    BY <2>1, <2>2 DEF Are
  <2>5. TupleInv' /\ ClientInv'
    BY <1>1, <1>2, <2>1, <2>4 DEF TupleInv, ClientInv, TypeOK
  <2> QED
    BY <1>3, <2>2, <2>3, <2>5 DEF IInv
<1>5. CASE StartPolling(c)
  <2>1. /\ call[c] \in {"idle", "called"} /\ pollingActive' = TRUE /\ alone' = {}
        /\ settled' = (settled /\ ~Are("stopping")) /\ Goes(c, "starting")
    BY <1>5 DEF StartPolling
  <2>2. /\ \A d \in Clients : call'[d] = IF d = c THEN "starting" ELSE call[d]
        /\ TypeOK'
    BY <1>1, <1>2, <2>1, ClientGoes DEF TypeOK
  <2>3. CountsMatch'
    BY <1>1, <1>2, <2>1, <2>2, QuietCounts, ThreadsAssumption
  <2>4. /\ Are("starting")' /\ Are("stopping")' = Are("stopping")
        /\ Are("invalidating")' = Are("invalidating")
    BY <2>1, <2>2 DEF Are
  <2>5. TupleInv'
    BY <1>1, <1>2, <2>1, <2>4 DEF TupleInv, TypeOK
  <2>6. ClientInv'
    BY <1>1, <1>2, <2>1, <2>4 DEF ClientInv, TypeOK
  <2> QED
    BY <1>3, <2>2, <2>3, <2>5, <2>6 DEF IInv
<1> QED
  BY <1>4, <1>5

\* It starts the tuple's thread.
LEMMA StartTuplesInv ==
    ASSUME IInv, NEW c \in Clients, StartTuples(c)
    PROVE  IInv'
<1>1. TypeOK /\ CountsMatch /\ ProgramInv /\ LockInv /\ NamedInv /\ TupleInv /\ ClientInv
  BY DEF IInv
<1>2. /\ call[c] = "starting" /\ Goes(c, "idle")
      /\ UNCHANGED <<service, pollingActive, alone, settled, tuple, networkLock, dbVars,
                     activePolls, tries, found>>
  BY DEF StartTuples
<1>3. /\ Are("starting") /\ alone = {} /\ (settled => pollingActive)
      /\ (settled => ~Are("stopping"))
  BY <1>1, <1>2 DEF ClientInv, Are, TypeOK
<1>4. \A d \in Clients : call'[d] = IF d = c THEN "idle" ELSE call[d]
  BY <1>1, <1>2, ClientGoes
<1>5. /\ call' \in [Clients -> {"idle", "called", "starting", "stopping", "unbound",
                                "removing", "invalidating"}]
      /\ call'[Main] \notin {"called", "invalidating"}
      /\ \A d \in Clients \ {Main} : call'[d] \notin {"unbound", "removing"}
  BY <1>1, <1>2, ClientGoes
<1>6. ClientInv'
  BY <1>1, <1>2, <1>3, <1>4 DEF ClientInv, Are
<1>7. CASE tuple # None /\ tupleThread[tuple] = None
  <2>1. /\ tuple \in Tuples /\ pc \in [Threads -> Pcs] /\ StartThread(tuple, pc)
        /\ tupleState' \in [Tuples -> States]
    BY <1>1, <1>7 DEF StartTuples, TypeOK, States
  <2>2. TypeOK'
    BY <1>1, <1>2, <1>5, <2>1, StartThreadType DEF TypeOK
  <2>3. /\ ProgramInv' /\ LockInv' /\ NamedInv' /\ TupleInv'
        /\ \A p \in Threads : /\ pc'[p] \in Referencing <=> pc[p] \in Referencing
                              /\ pc'[p] = "poll" <=> pc[p] = "poll"
    BY <1>2, <1>3, <1>7, <2>1, StartThreadInv
  <2>4. CountsMatch'
    BY <1>1, <1>2, <1>4, <2>3, QuietCounts, ThreadsAssumption
  <2> QED
    BY <1>6, <2>2, <2>3, <2>4 DEF IInv
<1>8. CASE ~(tuple # None /\ tupleThread[tuple] = None)
  <2>1. /\ UNCHANGED <<tupleThread, pc, threadVars>>
        /\ tupleState' \in {tupleState, [tupleState EXCEPT ![tuple] = "UNKNOWN"]}
    BY <1>8 DEF StartTuples
  <2>2. TypeOK'
    BY <1>1, <1>2, <1>5, <2>1 DEF TypeOK, States
  <2>3. CountsMatch'
    BY <1>1, <1>2, <1>4, <2>1, QuietCounts, ThreadsAssumption
  <2>4. ProgramInv' /\ LockInv' /\ NamedInv'
    BY <1>2, <2>1, SameThreads
  <2>5. TupleInv'
    BY <1>1, <1>2, <1>3, <1>8, <2>1 DEF TupleInv
  <2> QED
    BY <1>6, <2>2, <2>3, <2>4, <2>5 DEF IInv
<1> QED
  BY <1>7, <1>8

\* A client stops polling.
LEMMA StopPollingInv ==
    ASSUME IInv, NEW c \in Clients, StopPolling(c)
    PROVE  IInv'
<1>1. TypeOK /\ CountsMatch /\ ProgramInv /\ LockInv /\ NamedInv /\ TupleInv /\ ClientInv
  BY DEF IInv
<1>2. /\ call[c] = "idle" /\ Goes(c, "stopping") /\ pollingActive' = FALSE
      /\ alone' = IF Are("starting") THEN alone ELSE alone \cup {c}
      /\ settled' = (settled /\ ~Are("starting"))
      /\ UNCHANGED <<service, tupleVars, networkLock, dbVars, activePolls, pc,
                     threadVars, tries, found>>
  BY DEF StopPolling
<1>3. /\ \A d \in Clients : call'[d] = IF d = c THEN "stopping" ELSE call[d]
      /\ TypeOK'
  BY <1>1, <1>2, ClientGoes DEF TypeOK
<1>4. CountsMatch'
  BY <1>1, <1>2, <1>3, QuietCounts, ThreadsAssumption
<1>5. /\ Are("stopping")' /\ Are("starting")' = Are("starting")
      /\ Are("invalidating")' = Are("invalidating")
  BY <1>2, <1>3 DEF Are
<1>6. ProgramInv' /\ LockInv' /\ NamedInv'
  BY <1>2, SameThreads
<1>7. TupleInv'
  BY <1>2, <1>5 DEF TupleInv
<1>8. ClientInv'
  <2>1. \A d \in alone' : call'[d] = "stopping" /\ ~Are("starting")'
    BY <1>1, <1>2, <1>3, <1>5 DEF ClientInv, TypeOK
  <2> QED
    BY <1>1, <1>2, <1>5, <2>1 DEF ClientInv
<1> QED
  BY <1>3, <1>4, <1>6, <1>7, <1>8 DEF IInv

\* It drops the tuple's thread; if no start overlapped the call, all is settled.
LEMMA StopTuplesInv ==
    ASSUME IInv, NEW c \in Clients, StopTuples(c)
    PROVE  IInv'
<1>1. TypeOK /\ CountsMatch /\ ProgramInv /\ LockInv /\ NamedInv /\ TupleInv /\ ClientInv
  BY DEF IInv
<1>2. PICK what \in {"idle", "unbound"} : Goes(c, what) /\ (what = "unbound" => c = Main)
  BY DEF StopTuples
<1>3. /\ call[c] = "stopping" /\ ~Are("invalidating")
      /\ IF tuple = None THEN UNCHANGED <<tupleThread, interrupted>> ELSE DropThread(tuple)
      /\ alone' = alone \ {c} /\ settled' = (settled \/ c \in alone)
      /\ UNCHANGED <<service, pollingActive, tuple, tupleState, networkLock,
                     dbVars, activePolls, pc, of, offlineCount, tries, found>>
  BY DEF StopTuples, ListIsFree, Are
<1>4. Are("stopping") /\ (settled' => ~pollingActive /\ ~Are("starting"))
  BY <1>1, <1>3 DEF ClientInv, Are
<1>5. \A d \in Clients : call'[d] = IF d = c THEN what ELSE call[d]
  BY <1>1, <1>2, ClientGoes
<1>6. /\ Are("starting")' = Are("starting") /\ ~Are("invalidating")'
      /\ call'[Main] = "removing" <=> call[Main] = "removing"
  BY <1>3, <1>5, ThreadsAssumption DEF Are
<1>7. TypeOK'
  <2>1. /\ call' \in [Clients -> {"idle", "called", "starting", "stopping", "unbound",
                                  "removing", "invalidating"}]
        /\ call'[Main] \notin {"called", "invalidating"}
        /\ \A d \in Clients \ {Main} : call'[d] \notin {"unbound", "removing"}
    BY <1>1, <1>2, ClientGoes
  <2> QED
    BY <1>1, <1>3, <2>1 DEF TypeOK, DropThread
<1>8. CountsMatch'
  BY <1>1, <1>3, <1>6, QuietCounts
<1>9. ProgramInv' /\ LockInv' /\ NamedInv'
  BY <1>1, <1>3 DEF ProgramInv, LockInv, NamedInv, DropThread, TypeOK
<1>10. TupleInv'
  BY <1>1, <1>3, <1>4 DEF TypeOK, TupleInv, DropThread
<1>11. ClientInv'
  <2>1. \A d \in alone' : call'[d] = "stopping" /\ ~Are("starting")'
    BY <1>1, <1>3, <1>5, <1>6 DEF ClientInv, TypeOK
  <2> QED
    BY <1>1, <1>3, <1>4, <1>6, <2>1 DEF ClientInv
<1> QED
  BY <1>7, <1>8, <1>9, <1>10, <1>11 DEF IInv

\* The main thread removes the computer: the reference that it takes in the first
\* step is the one it gives back in the second.
LEMMA RemoveInv ==
    ASSUME IInv, RemoveRow \/ RemoveTuple
    PROVE  IInv'
<1>1. TypeOK /\ CountsMatch /\ ProgramInv /\ LockInv /\ NamedInv /\ TupleInv /\ ClientInv
  BY DEF IInv
<1>2. UNCHANGED <<service, activePolls, pc, pollingActive, networkLock, of, alone, settled>>
  BY DEF RemoveRow, RemoveTuple
<1>3. /\ dbRefs = Cardinality(Refs) + Held
      /\ Cardinality(Refs') = Cardinality(Refs) /\ Cardinality(Polls') = Cardinality(Polls)
  BY <1>1, <1>2, CountsSets, SameCounts
<1>4. Cardinality(Refs) \in Nat /\ Main \in Clients
  BY CountsType, ThreadsAssumption
<1>5. CASE RemoveRow
  <2>1. /\ call[Main] = "idle" /\ Goes(Main, "removing")
        /\ UNCHANGED <<tupleVars, dbClosed, threadVars, tries, found>>
    BY <1>5 DEF RemoveRow
  <2>2. /\ \A d \in Clients : call'[d] = IF d = Main THEN "removing" ELSE call[d]
        /\ call' \in [Clients -> {"idle", "called", "starting", "stopping", "unbound",
                                  "removing", "invalidating"}]
        /\ call'[Main] \notin {"called", "invalidating"}
        /\ \A d \in Clients \ {Main} : call'[d] \notin {"unbound", "removing"}
    BY <1>1, <1>4, <2>1, ClientGoes
  <2>3. Held \in Nat /\ Held' = Held + 1
    BY <1>2, <1>4, <2>1, <2>2 DEF Held
  <2>4. dbRefs' = Cardinality(Refs') + Held' /\ dbRefs' \in Nat
    BY <1>3, <1>4, <1>5, <2>3 DEF RemoveRow
  <2>5. CountsMatch'
    BY <1>1, <1>2, <1>3, <2>4, CountsSets, CountsSetsNext
  <2>6. TypeOK'
    BY <1>1, <1>5, <2>2, <2>4 DEF RemoveRow, TypeOK
  <2>7. ProgramInv' /\ LockInv' /\ NamedInv'
    BY <1>2, <2>1, SameThreads
  <2>8. /\ \A what \in {"starting", "stopping", "invalidating"} : Are(what)' = Are(what)
        /\ \A d \in Clients : call[d] = "stopping" => call'[d] = "stopping"
    BY <2>1, <2>2 DEF Are
  <2>9. TupleInv' /\ ClientInv'
    BY <1>1, <1>2, <2>1, <2>8 DEF TupleInv, ClientInv, TypeOK
  <2> QED
    BY <2>5, <2>6, <2>7, <2>9 DEF IInv
<1>6. CASE RemoveTuple
  <2>1. /\ call[Main] = "removing" /\ Goes(Main, "idle") /\ ~Are("invalidating")
        /\ IF tuple = None THEN UNCHANGED <<tupleThread, interrupted>> ELSE DropThread(tuple)
        /\ tuple' = None
        /\ UNCHANGED <<tupleState, dbRow, offlineCount, tries, found>>
    BY <1>6 DEF RemoveTuple, ListIsFree, Are
  <2>2. /\ \A d \in Clients : call'[d] = IF d = Main THEN "idle" ELSE call[d]
        /\ call' \in [Clients -> {"idle", "called", "starting", "stopping", "unbound",
                                  "removing", "invalidating"}]
        /\ call'[Main] \notin {"called", "invalidating"}
        /\ \A d \in Clients \ {Main} : call'[d] \notin {"unbound", "removing"}
    BY <1>1, <1>4, <2>1, ClientGoes
  <2>3. Held \in Nat \ {0} /\ Held' = Held - 1
    BY <1>2, <1>4, <2>1, <2>2 DEF Held
  <2>4. dbRefs' = Cardinality(Refs') + Held' /\ dbRefs' \in Nat
    BY <1>3, <1>4, <1>6, <2>3 DEF RemoveTuple, ReleaseRef
  <2>5. CountsMatch'
    BY <1>1, <1>2, <1>3, <2>4, CountsSets, CountsSetsNext
  <2>6. TypeOK'
    <3>1. dbClosed' \in BOOLEAN
      BY <1>1, <1>6 DEF RemoveTuple, ReleaseRef, TypeOK
    <3> QED
      BY <1>1, <1>2, <2>1, <2>2, <2>4, <3>1 DEF TypeOK, DropThread
  <2>7. ProgramInv' /\ LockInv'
    BY <1>1, <1>2, <2>1 DEF ProgramInv, LockInv
  <2>8. NamedInv' /\ TupleInv'
    BY <1>1, <2>1, ThreadsAssumption DEF TypeOK, NamedInv, TupleInv, DropThread
  <2>9. /\ \A what \in {"starting", "stopping", "invalidating"} : Are(what)' = Are(what)
        /\ \A d \in Clients : call[d] = "stopping" => call'[d] = "stopping"
    BY <2>1, <2>2 DEF Are
  <2>10. ClientInv'
    BY <1>1, <1>2, <2>1, <2>9 DEF ClientInv, TypeOK
  <2> QED
    BY <2>5, <2>6, <2>7, <2>8, <2>10 DEF IInv
<1> QED
  BY <1>5, <1>6

\* A pairing or binding thread invalidates the state.
LEMMA InvalidateInv ==
    ASSUME IInv, NEW c \in Clients \ {Main}, Invalidate(c) \/ InvalidateLocked(c)
    PROVE  IInv'
<1>1. TypeOK /\ CountsMatch /\ ProgramInv /\ LockInv /\ NamedInv /\ TupleInv /\ ClientInv
  BY DEF IInv
<1>2. /\ call[c] \in {"idle", "invalidating"}
      /\ UNCHANGED <<service, pollingActive, alone, settled, tuple, tupleThread, networkLock,
                     dbVars, activePolls, pc, threadVars, tries, found>>
  BY DEF Invalidate, InvalidateLocked
<1>3. PICK what \in {"idle", "invalidating"} :
          Goes(c, what) /\ (what = "invalidating" => tuple # None)
  BY DEF Invalidate, InvalidateLocked
<1>4. \A d \in Clients : call'[d] = IF d = c THEN what ELSE call[d]
  BY <1>1, <1>3, ClientGoes
<1>5. TypeOK'
  <2>1. /\ call' \in [Clients -> {"idle", "called", "starting", "stopping", "unbound",
                                  "removing", "invalidating"}]
        /\ call'[Main] \notin {"called", "invalidating"}
        /\ \A d \in Clients \ {Main} : call'[d] \notin {"unbound", "removing"}
    BY <1>1, <1>3, ClientGoes
  <2>2. tupleState' \in [Tuples -> States]
    BY <1>1 DEF Invalidate, InvalidateLocked, TypeOK, States
  <2> QED
    BY <1>1, <1>2, <2>1, <2>2 DEF TypeOK
<1>6. CountsMatch'
  BY <1>1, <1>2, <1>3, <1>4, QuietCounts, ThreadsAssumption
<1>7. ProgramInv' /\ LockInv' /\ NamedInv'
  BY <1>2, SameThreads
<1>8. /\ \A w \in {"starting", "stopping"} : Are(w)' = Are(w)
      /\ \A d \in Clients : call[d] = "stopping" => call'[d] = "stopping"
      /\ Are("invalidating")' => Are("invalidating") \/ tuple # None
  BY <1>2, <1>3, <1>4 DEF Are
<1>9. TupleInv' /\ ClientInv'
  BY <1>1, <1>2, <1>8 DEF TupleInv, ClientInv, TypeOK
<1> QED
  BY <1>5, <1>6, <1>7, <1>9 DEF IInv

\* The service is destroyed and gives back its own reference.
LEMMA DestroyInv ==
    ASSUME IInv, Destroy
    PROVE  IInv'
<1>1. TypeOK /\ CountsMatch /\ ProgramInv /\ LockInv /\ NamedInv /\ TupleInv /\ ClientInv
  BY DEF IInv
<1>2. /\ dbRefs = Cardinality(Refs) + Held
      /\ Cardinality(Refs') = Cardinality(Refs) /\ Cardinality(Polls') = Cardinality(Polls)
  BY <1>1, CountsSets, SameCounts DEF Destroy
<1>3. Held \in Nat \ {0} /\ Held' = Held - 1
  BY DEF Destroy, Held
<1>4. dbRefs' = Cardinality(Refs') + Held' /\ dbRefs' \in Nat
  BY <1>2, <1>3, CountsType DEF Destroy, ReleaseRef
<1>5. CountsMatch'
  BY <1>1, <1>2, <1>4, CountsSets, CountsSetsNext DEF Destroy
<1>6. TypeOK'
  BY <1>1, <1>4 DEF Destroy, ReleaseRef, TypeOK
<1>7. ProgramInv' /\ LockInv' /\ NamedInv' /\ TupleInv' /\ ClientInv'
  BY <1>1 DEF Destroy, ProgramInv, LockInv, NamedInv, TupleInv, ClientInv, Are
<1> QED
  BY <1>5, <1>6, <1>7 DEF IInv

-----------------------------------------------------------------------------
(***************************************************************************)
(* The theorems.                                                           *)
(***************************************************************************)

\* onCreate() leaves one database reference, that of the service.
LEMMA InitIInv == Init => IInv
<1> SUFFICES ASSUME Init PROVE IInv
  OBVIOUS
<1>1. TypeOK
  <2>1. tuple \in Tuples \cup {None} /\ dbRow \in BOOLEAN
    BY DEF Init
  <2>2. 0 \in 0 .. OFFLINE_POLL_TRIES
    BY TriesAssumption
  <2>3. pc \in [Threads -> Pcs]
    BY DEF Init, Pcs
  <2>4. /\ call[Main] \notin {"called", "invalidating"}
        /\ \A c \in Clients \ {Main} : call[c] \notin {"unbound", "removing"}
        /\ call \in [Clients -> {"idle", "called", "starting", "stopping", "unbound",
                                 "removing", "invalidating"}]
    BY ThreadsAssumption DEF Init
  <2> QED
    BY <2>1, <2>2, <2>3, <2>4 DEF Init, TypeOK, States
<1>2. CountsMatch
  <2>1. Refs = {} /\ Polls = {}
    BY DEF Init, Refs, Polls, Referencing
  <2>2. Held = 1 /\ dbRefs = 1 /\ activePolls = 0
    BY ThreadsAssumption DEF Init, Held
  <2>3. Cardinality({}) = 0
    BY FS_EmptySet
  <2> QED
    BY <2>1, <2>2, <2>3, CountsSets
<1>3. ProgramInv /\ LockInv /\ NamedInv /\ TupleInv /\ ClientInv
  BY ThreadsAssumption
     DEF Init, ProgramInv, LockInv, NamedInv, TupleInv, ClientInv, Are, InRunPoll,
         Referencing
<1> QED
  BY <1>1, <1>2, <1>3 DEF IInv

\* Every step, of any thread, keeps the invariant.
LEMMA NextIInv == IInv /\ [Next]_vars => IInv'
<1> SUFFICES ASSUME IInv, [Next]_vars PROVE IInv'
  OBVIOUS
<1>1. ASSUME NEW t \in Pollers, Poller(t) PROVE IInv'
  <2>1. CASE RunPoll(t)
    BY <2>1, RunPollTypeOK, RunPollInv DEF IInv
  <2> QED
    BY <1>1, <2>1, LoopInv DEF Poller
<1>2. ASSUME NEW a \in Adders, Adder(a) \/ Discover(a) PROVE IInv'
  <2>1. CASE RunPoll(a)
    BY <2>1, RunPollTypeOK, RunPollInv DEF IInv
  <2> QED
    BY <1>2, <2>1, DiscoverInv, AddTupleInv DEF Adder
<1>3. ASSUME NEW c \in Clients, ClientContinues(c) PROVE IInv'
  <2>1. CASE InvalidateLocked(c)
    <3>1. c # Main
      BY <2>1 DEF InvalidateLocked, IInv, TypeOK
    <3> QED
      BY <2>1, <3>1, InvalidateInv
  <2> QED
    BY <1>3, <2>1, StartPollingInv, StartTuplesInv, StopTuplesInv, RemoveInv
       DEF ClientContinues
<1>4. ASSUME NEW c \in Clients, ClientBegins(c) PROVE IInv'
  <2>1. CASE Invalidate(c)
    BY <2>1, InvalidateInv DEF Invalidate
  <2> QED
    BY <1>4, <2>1, StartPollingInv, StopPollingInv, RemoveInv, DestroyInv DEF ClientBegins
<1>5. CASE UNCHANGED vars
  <2>1. CountsMatch'
    BY <1>5, QuietCounts DEF vars, IInv
  <2> QED
    BY <1>5, <2>1 DEF vars, IInv, TypeOK, ProgramInv, LockInv, NamedInv,
                      TupleInv, ClientInv, Are
<1> QED
  BY <1>1, <1>2, <1>3, <1>4, <1>5 DEF Next

\* The invariant holds in every reachable state.
THEOREM Invariant == Spec => []IInv
BY InitIInv, NextIInv, PTL DEF Spec

\* Every variable keeps its type; of the counters this says that neither
\* dbRefCount nor activePolls is ever decremented below zero.
THEOREM TypeCorrect == Spec => []TypeOK
<1>1. IInv => TypeOK
  BY DEF IInv
<1> QED
  BY <1>1, Invariant, PTL

\* The database's reference count is the number of those who use it, and the poll
\* counter that of the polls in progress, for any number of threads: every path
\* through runPoll(), removeComputer() and onDestroy() gives back what it took.
THEOREM ReferencesBalance == Spec => []CountsMatch
<1>1. IInv => CountsMatch
  BY DEF IInv
<1> QED
  BY <1>1, Invariant, PTL

\* However starts and pauses of several threads raced before, a stopPolling() that no
\* startPolling() overlaps puts things straight: from then on, until two such calls
\* overlap again, the computer has a live polling thread of its own exactly while
\* polling is active.
THEOREM ThreadFollows == Spec => []ThreadFollowsPolling
<1>1. IInv => ThreadFollowsPolling
  <2> SUFFICES ASSUME IInv, settled, ~Are("starting"), ~Are("stopping"), tuple # None
               PROVE  IF pollingActive THEN IsPolled ELSE tupleThread[tuple] = None
    BY DEF ThreadFollowsPolling
  <2>1. tupleThread[tuple] \in Pollers \cup {None}
    BY DEF IInv, TypeOK
  <2> QED
    BY <2>1 DEF IInv, TupleInv, IsPolled
<1> QED
  BY <1>1, Invariant, PTL

\* Invalidating the computer's state is never undone by the result of a poll that
\* began before: the network lock keeps every thread of the tuple out of runPoll().
THEOREM InvalidationHolds == Spec => InvalidateNotWiped
<1>1. ASSUME IInv, [Next]_vars
      PROVE  [ Are("invalidating") /\ ~Are("invalidating")' =>
                 \A t \in Pollers : of[t] = tuple => pc[t] \notin InRunPoll ]_vars
  <2> SUFFICES ASSUME Next, Are("invalidating"), ~Are("invalidating")',
                      NEW t \in Pollers, of[t] = tuple
               PROVE  pc[t] \notin InRunPoll
    BY <1>1
  <2>1. PICK c \in Clients : call[c] = "invalidating" /\ call'[c] # "invalidating"
    BY DEF Are
  <2>2. call' # call
    BY <2>1
  <2>3. \E d \in Clients : InvalidateLocked(d)
    <3>1. \A p \in Threads : RunPoll(p) => call' = call
      BY <1>1, RunPollEffect DEF IInv
    <3>2. \E d \in Clients : ClientContinues(d) \/ ClientBegins(d)
      BY <2>2, <3>1 DEF Next, Poller, Adder, Loop, LockNetwork, Sleep, AddTuple,
                        Discover
    <3>3. PICK d \in Clients : ClientContinues(d) \/ ClientBegins(d)
      BY <3>2
    <3>4. ASSUME Goes(d, "idle") \/ Goes(d, "called") \/ Goes(d, "starting")
                 \/ Goes(d, "stopping") \/ Goes(d, "unbound") \/ Goes(d, "removing")
                 \/ Goes(d, "invalidating"), call[d] # "invalidating"
          PROVE  FALSE
      BY <1>1, <2>1, <3>4 DEF Goes, IInv, TypeOK
    <3> QED
      BY <2>2, <3>3, <3>4, ThreadsAssumption
         DEF ClientContinues, ClientBegins, CallStartPolling, StartPolling, StartTuples,
             StopTuples, StopPolling, RemoveRow, RemoveTuple, Invalidate, Destroy
  <2>4. networkLock[tuple] = None /\ tuple \in Tuples
    BY <1>1, <2>1, <2>3 DEF InvalidateLocked, IInv, ClientInv, Are, TypeOK
  <2> QED
    BY <1>1, <2>4, ThreadsAssumption DEF IInv, LockInv
<1> QED
  BY <1>1, Invariant, PTL DEF Spec, InvalidateNotWiped
=============================================================================
