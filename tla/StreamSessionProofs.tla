------------------------- MODULE StreamSessionProofs -------------------------
(***************************************************************************)
(* Proofs about StreamSession, for any set of sessions.                    *)
(***************************************************************************)
EXTENDS StreamSession, TLAPS

\* The inductive invariant, in parts.

\* One permit: held by at most one session, and free when none holds it.
PermitInv ==
    /\ permits \in {0, 1}
    /\ permits = 1 => \A s \in Sessions : ~Holder(s)
    /\ permits = 0 => \E s \in Sessions : Holder(s)
    /\ \A s, t \in Sessions : Holder(s) /\ Holder(t) => s = t

\* How far a session's two threads and its flags can be apart.
ThreadInv == \A s \in Sessions :
    /\ ~connecting[s]
    /\ startPc[s] # "none" => attemptedConnection[s]
    /\ stopPc[s] # "none" => /\ startPc[s] \in {"started", "up"}
                             /\ ~connected[s] /\ "started" \notin posts[s]
    /\ stopPc[s] \in {"stopping", "release", "done"} => startPc[s] = "up"
    /\ connected[s] \/ "started" \in posts[s] => startPc[s] \in {"started", "up"}
    /\ connected[s] => "started" \notin posts[s]

\* Who is inside the monitor.
MonitorInv ==
    /\ \A s \in Sessions :
         /\ startPc[s] \in {"starting", "started"} <=> (monitor = "start" /\ Holder(s))
         /\ stopPc[s] = "stopping" => monitor = "stop"
    /\ monitor = "start" => \E s \in Sessions : Holder(s)

\* Whose connection the library and the bridge serve.
OwnerInv ==
    /\ \A s \in Sessions :
         (startPc[s] \in {"starting", "started"} \/
          (startPc[s] = "up" /\ stopPc[s] \notin {"release", "done"}))
            <=> native = s
    /\ native # None => bridge = native

IInv == TypeOK /\ PermitInv /\ ThreadInv /\ MonitorInv /\ OwnerInv

-----------------------------------------------------------------------------
LEMMA InitIInv == Init => IInv
<1> SUFFICES ASSUME Init PROVE IInv
  OBVIOUS
<1> USE NoneAssumption DEF Init, Holder
<1>1. TypeOK
  BY DEF TypeOK, StartPcs, StopPcs
<1>2. PermitInv
  BY DEF PermitInv
<1>3. ThreadInv
  BY DEF ThreadInv
<1>4. MonitorInv
  BY DEF MonitorInv
<1>5. OwnerInv
  BY DEF OwnerInv
<1> QED
  BY <1>1, <1>2, <1>3, <1>4, <1>5 DEF IInv

\* Type correctness needs no other invariant.
LEMMA NextTypeOK == TypeOK /\ [Next]_vars => TypeOK'
<1> SUFFICES ASSUME TypeOK, [Next]_vars PROVE TypeOK'
  OBVIOUS
<1> USE DEF TypeOK, StartPcs, StopPcs, uiVars, gameVars, nativeVars
<1>1. ASSUME NEW s \in Sessions, Create(s) PROVE TypeOK'
  BY <1>1 DEF Create
<1>2. ASSUME NEW s \in Sessions, Finish(s) PROVE TypeOK'
  BY <1>2 DEF Finish
<1>3. ASSUME NEW s \in Sessions, OnStop(s) PROVE TypeOK'
  <2>1. /\ connecting' \in [Sessions -> BOOLEAN]
        /\ connected' \in [Sessions -> BOOLEAN]
        /\ stopPc' \in [Sessions -> StopPcs]
    BY <1>3 DEF OnStop, StopConnection
  <2> QED
    BY <1>3, <2>1 DEF OnStop
<1>4. ASSUME NEW s \in Sessions, OnDestroy(s) PROVE TypeOK'
  <2>1. /\ connecting' \in [Sessions -> BOOLEAN]
        /\ connected' \in [Sessions -> BOOLEAN]
        /\ stopPc' \in [Sessions -> StopPcs]
    BY <1>4 DEF OnDestroy, StopConnection
  <2> QED
    BY <1>4, <2>1 DEF OnDestroy
<1>5. ASSUME NEW s \in Sessions, SurfaceCreated(s) PROVE TypeOK'
  BY <1>5 DEF SurfaceCreated
<1>6. ASSUME NEW s \in Sessions, SurfaceChanged(s) PROVE TypeOK'
  BY <1>6 DEF SurfaceChanged
<1>7. ASSUME NEW s \in Sessions, SurfaceDestroyed(s) PROVE TypeOK'
  <2>1. /\ connecting' \in [Sessions -> BOOLEAN]
        /\ connected' \in [Sessions -> BOOLEAN]
        /\ stopPc' \in [Sessions -> StopPcs]
    BY <1>7 DEF SurfaceDestroyed, StopConnection
  <2> QED
    BY <1>7, <2>1 DEF SurfaceDestroyed
<1>8. ASSUME NEW s \in Sessions, UiConnectionStarted(s) PROVE TypeOK'
  BY <1>8 DEF UiConnectionStarted
<1>9. ASSUME NEW s \in Sessions, UiStageFailed(s) PROVE TypeOK'
  BY <1>9 DEF UiStageFailed
<1>10. ASSUME NEW s \in Sessions, UiConnectionTerminated(s) PROVE TypeOK'
  <2>1. /\ connecting' \in [Sessions -> BOOLEAN]
        /\ connected' \in [Sessions -> BOOLEAN]
        /\ stopPc' \in [Sessions -> StopPcs]
    BY <1>10 DEF UiConnectionTerminated, StopConnection
  <2>2. /\ activity' \in [Sessions -> {"none", "active", "finishing", "stopped", "destroyed"}]
        /\ failureShown' \in [Sessions -> BOOLEAN]
    <3>1. CASE failureShown[s]
      BY <1>10, <3>1 DEF UiConnectionTerminated
    <3>2. CASE ~failureShown[s]
      BY <1>10, <3>2 DEF UiConnectionTerminated
    <3> QED
      BY <3>1, <3>2
  <2> QED
    BY <1>10, <2>1, <2>2 DEF UiConnectionTerminated
<1>11. ASSUME NEW s \in Sessions, LaunchSucceeds(s) PROVE TypeOK'
  BY <1>11 DEF LaunchSucceeds
<1>12. ASSUME NEW s \in Sessions, LaunchFails(s) PROVE TypeOK'
  BY <1>12 DEF LaunchFails
<1>13. ASSUME NEW s \in Sessions, AcquirePermit(s) PROVE TypeOK'
  BY <1>13 DEF AcquirePermit
<1>14. ASSUME NEW s \in Sessions, BeginStart(s) PROVE TypeOK'
  BY <1>14 DEF BeginStart
<1>15. ASSUME NEW s \in Sessions, NativeStarted(s) PROVE TypeOK'
  BY <1>15 DEF NativeStarted
<1>16. ASSUME NEW s \in Sessions, StartReturns(s) PROVE TypeOK'
  BY <1>16 DEF StartReturns
<1>17. ASSUME NEW s \in Sessions, StartFails(s) PROVE TypeOK'
  BY <1>17 DEF StartFails
<1>18. ASSUME NEW s \in Sessions, TerminationChecked(s) PROVE TypeOK'
  BY <1>18 DEF TerminationChecked
<1>19. ASSUME NEW s \in Sessions, TerminationCalled(s) PROVE TypeOK'
  BY <1>19 DEF TerminationCalled
<1>20. ASSUME NEW s \in Sessions, InterruptConnection(s) PROVE TypeOK'
  BY <1>20 DEF InterruptConnection
<1>21. ASSUME NEW s \in Sessions, BeginStop(s) PROVE TypeOK'
  BY <1>21 DEF BeginStop
<1>22. ASSUME NEW s \in Sessions, StopReturns(s) PROVE TypeOK'
  BY <1>22 DEF StopReturns
<1>23. ASSUME NEW s \in Sessions, ReleasePermit(s) PROVE TypeOK'
  BY <1>23 DEF ReleasePermit
<1>24. CASE UNCHANGED vars
  BY <1>24 DEF vars
<1> QED
  BY <1>1, <1>2, <1>3, <1>4, <1>5, <1>6, <1>7, <1>8, <1>9, <1>10, <1>11, <1>12, <1>13, <1>14, <1>15, <1>16, <1>17, <1>18, <1>19, <1>20, <1>21, <1>22, <1>23, <1>24
     DEF Next, Lifecycle, RunPosted, StartThread, Termination, StopThread

\* Every step preserves the inductive invariant.
LEMMA NextIInv == IInv /\ [Next]_vars => IInv'
<1> SUFFICES ASSUME IInv, [Next]_vars PROVE IInv'
  OBVIOUS
<1> TypeOK'
  BY NextTypeOK DEF IInv
<1> USE NoneAssumption DEF IInv, TypeOK, PermitInv, ThreadInv, MonitorInv, OwnerInv, Holder,
        StartPcs, StopPcs, uiVars, gameVars, nativeVars
<1>1. ASSUME NEW s \in Sessions, Create(s) PROVE IInv'
  BY <1>1 DEF Create
<1>2. ASSUME NEW s \in Sessions, Finish(s) PROVE IInv'
  BY <1>2 DEF Finish
<1>3. ASSUME NEW s \in Sessions, OnStop(s) PROVE IInv'
  <2> USE <1>3 DEF OnStop
  <2>1. CASE connected[s] /\ stopPc' # stopPc
    <3> USE <2>1 DEF StopConnection
    <3>1. PermitInv'
      OBVIOUS
    <3>2. ThreadInv'
      OBVIOUS
    <3>3. MonitorInv'
      OBVIOUS
    <3>4. OwnerInv'
      OBVIOUS
    <3> QED
      BY <3>1, <3>2, <3>3, <3>4
  <2>2. CASE UNCHANGED <<connecting, connected, stopPc>>
    BY <2>2
  <2> QED
    BY <2>1, <2>2 DEF StopConnection
<1>4. ASSUME NEW s \in Sessions, OnDestroy(s) PROVE IInv'
  <2> USE <1>4 DEF OnDestroy
  <2>1. CASE connected[s] /\ stopPc' # stopPc
    <3> USE <2>1 DEF StopConnection
    <3>1. PermitInv'
      OBVIOUS
    <3>2. ThreadInv'
      OBVIOUS
    <3>3. MonitorInv'
      OBVIOUS
    <3>4. OwnerInv'
      OBVIOUS
    <3> QED
      BY <3>1, <3>2, <3>3, <3>4
  <2>2. CASE UNCHANGED <<connecting, connected, stopPc>>
    BY <2>2
  <2> QED
    BY <2>1, <2>2 DEF StopConnection
<1>5. ASSUME NEW s \in Sessions, SurfaceCreated(s) PROVE IInv'
  BY <1>5 DEF SurfaceCreated
<1>6. ASSUME NEW s \in Sessions, SurfaceChanged(s) PROVE IInv'
  BY <1>6 DEF SurfaceChanged
<1>7. ASSUME NEW s \in Sessions, SurfaceDestroyed(s) PROVE IInv'
  <2> USE <1>7 DEF SurfaceDestroyed
  <2>1. CASE connected[s] /\ stopPc' # stopPc
    <3> USE <2>1 DEF StopConnection
    <3>1. PermitInv'
      OBVIOUS
    <3>2. ThreadInv'
      OBVIOUS
    <3>3. MonitorInv'
      OBVIOUS
    <3>4. OwnerInv'
      OBVIOUS
    <3> QED
      BY <3>1, <3>2, <3>3, <3>4
  <2>2. CASE UNCHANGED <<connecting, connected, stopPc>>
    BY <2>2
  <2> QED
    BY <2>1, <2>2 DEF StopConnection
<1>8. ASSUME NEW s \in Sessions, UiConnectionStarted(s) PROVE IInv'
  BY <1>8 DEF UiConnectionStarted
<1>9. ASSUME NEW s \in Sessions, UiStageFailed(s) PROVE IInv'
  BY <1>9 DEF UiStageFailed
<1>10. ASSUME NEW s \in Sessions, UiConnectionTerminated(s) PROVE IInv'
  <2> USE <1>10 DEF UiConnectionTerminated
  <2>1. CASE connected[s] /\ stopPc' # stopPc
    <3> USE <2>1 DEF StopConnection
    <3>1. PermitInv'
      OBVIOUS
    <3>2. ThreadInv'
      OBVIOUS
    <3>3. MonitorInv'
      OBVIOUS
    <3>4. OwnerInv'
      OBVIOUS
    <3> QED
      BY <3>1, <3>2, <3>3, <3>4
  <2>2. CASE UNCHANGED <<connecting, connected, stopPc>>
    BY <2>2
  <2> QED
    BY <2>1, <2>2 DEF StopConnection
<1>11. ASSUME NEW s \in Sessions, LaunchSucceeds(s) PROVE IInv'
  BY <1>11 DEF LaunchSucceeds
<1>12. ASSUME NEW s \in Sessions, LaunchFails(s) PROVE IInv'
  BY <1>12 DEF LaunchFails
<1>13. ASSUME NEW s \in Sessions, AcquirePermit(s) PROVE IInv'
  <2> USE <1>13 DEF AcquirePermit
  <2>1. PermitInv'
    OBVIOUS
  <2>2. ThreadInv'
    OBVIOUS
  <2>3. MonitorInv'
    OBVIOUS
  <2>4. OwnerInv'
    OBVIOUS
  <2> QED
    BY <2>1, <2>2, <2>3, <2>4
<1>14. ASSUME NEW s \in Sessions, BeginStart(s) PROVE IInv'
  <2> USE <1>14 DEF BeginStart
  <2>1. PermitInv'
    OBVIOUS
  <2>2. ThreadInv'
    OBVIOUS
  <2>3. MonitorInv'
    OBVIOUS
  <2>4. OwnerInv'
    OBVIOUS
  <2> QED
    BY <2>1, <2>2, <2>3, <2>4
<1>15. ASSUME NEW s \in Sessions, NativeStarted(s) PROVE IInv'
  BY <1>15 DEF NativeStarted
<1>16. ASSUME NEW s \in Sessions, StartReturns(s) PROVE IInv'
  BY <1>16 DEF StartReturns
<1>17. ASSUME NEW s \in Sessions, StartFails(s) PROVE IInv'
  BY <1>17 DEF StartFails
<1>18. ASSUME NEW s \in Sessions, TerminationChecked(s) PROVE IInv'
  BY <1>18 DEF TerminationChecked
<1>19. ASSUME NEW s \in Sessions, TerminationCalled(s) PROVE IInv'
  BY <1>19 DEF TerminationCalled
<1>20. ASSUME NEW s \in Sessions, InterruptConnection(s) PROVE IInv'
  BY <1>20 DEF InterruptConnection
<1>21. ASSUME NEW s \in Sessions, BeginStop(s) PROVE IInv'
  BY <1>21 DEF BeginStop
<1>22. ASSUME NEW s \in Sessions, StopReturns(s) PROVE IInv'
  BY <1>22 DEF StopReturns
<1>23. ASSUME NEW s \in Sessions, ReleasePermit(s) PROVE IInv'
  BY <1>23 DEF ReleasePermit
<1>24. CASE UNCHANGED vars
  BY <1>24 DEF vars
<1> QED
  BY <1>1, <1>2, <1>3, <1>4, <1>5, <1>6, <1>7, <1>8, <1>9, <1>10, <1>11, <1>12, <1>13, <1>14, <1>15, <1>16, <1>17, <1>18, <1>19, <1>20, <1>21, <1>22, <1>23, <1>24 DEF Next, Lifecycle, RunPosted, StartThread, Termination, StopThread

\* TypeOK is the type invariant the runs check.
THEOREM TypeCorrect == Spec => []TypeOK
<1>1. Init => TypeOK
  BY InitIInv DEF IInv
<1> QED
  BY <1>1, NextTypeOK, PTL DEF Spec

\* The inductive invariant holds in every reachable state.
THEOREM Invariance == Spec => []IInv
  BY InitIInv, NextIInv, PTL DEF Spec

-----------------------------------------------------------------------------
\* The properties of StreamSession follow from the inductive invariant.

\* NvConnection's semaphore admits one connection: the permit is free exactly
\* when no session holds it, whatever the number of sessions.
THEOREM OneConnectionHolds == Spec => []OneConnection
<1>1. IInv => OneConnection
  <2> SUFFICES ASSUME IInv PROVE OneConnection
    OBVIOUS
  <2>1. permits = 1 => Holders = {}
    BY DEF IInv, PermitInv, Holders
  <2>2. ASSUME permits = 0 PROVE \E s \in Sessions : Holders = {s}
    <3>1. PICK s \in Sessions : Holder(s)
      BY <2>2 DEF IInv, PermitInv
    <3>2. Holders = {s}
      BY <3>1 DEF IInv, PermitInv, Holders
    <3> QED
      BY <3>2
  <2> QED
    BY <2>1, <2>2 DEF IInv, PermitInv, OneConnection
<1> QED
  BY <1>1, Invariance, PTL

\* NvConnection.stop() interrupts and stops only the connection of its session.
THEOREM StopsOwnConnectionHolds == Spec => []StopsOwnConnection
<1>1. IInv => StopsOwnConnection
  BY DEF IInv, ThreadInv, OwnerInv, StopsOwnConnection
<1> QED
  BY <1>1, Invariance, PTL

\* MoonBridge's static pointers are those of the connection the library holds.
THEOREM BridgeFollowsConnectionHolds == Spec => []BridgeFollowsConnection
<1>1. IInv => BridgeFollowsConnection
  BY DEF IInv, OwnerInv, BridgeFollowsConnection
<1> QED
  BY <1>1, Invariance, PTL

\* Game.connected is true only of a connection that is up and not being stopped,
\* so stopConnection() makes at most one stop thread.
THEOREM ConnectedIsStoppableHolds == Spec => []ConnectedIsStoppable
<1>1. IInv => ConnectedIsStoppable
  BY DEF IInv, ThreadInv, ConnectedIsStoppable
<1> QED
  BY <1>1, Invariance, PTL

-----------------------------------------------------------------------------
(***************************************************************************)
(* StreamSession implements StreamSlot: acquire() takes the slot, a failed *)
(* start and the end of stop() give it back, all other steps leave it.     *)
(***************************************************************************)

\* The step moves no session into or out of the slot.
SlotQuiet == \A s \in Sessions :
    /\ Holder(s)' = Holder(s)
    /\ Released(s)' = Released(s)

LEMMA SlotUntouched == SlotQuiet => UNCHANGED Slot!vars
<1> SUFFICES ASSUME SlotQuiet PROVE UNCHANGED Slot!vars
  OBVIOUS
<1>1. Holders' = Holders
  BY DEF Holders, SlotQuiet
<1>2. Served' = Served
  BY DEF Served, SlotQuiet
<1> QED
  BY <1>1, <1>2 DEF Slot!vars

LEMMA SlotStep == IInv /\ [Next]_vars => [Slot!Next]_(Slot!vars)
<1> SUFFICES ASSUME IInv, [Next]_vars PROVE [Slot!Next]_(Slot!vars)
  OBVIOUS
<1>1. SlotQuiet => [Slot!Next]_(Slot!vars)
  BY SlotUntouched
<1>2. ASSUME NEW s \in Sessions, Create(s) PROVE SlotQuiet
  BY <1>2 DEF SlotQuiet, Holder, Released, IInv, TypeOK, ThreadInv, Create
<1>3. ASSUME NEW s \in Sessions, Finish(s) PROVE SlotQuiet
  BY <1>3 DEF SlotQuiet, Holder, Released, IInv, TypeOK, ThreadInv, Finish
<1>4. ASSUME NEW s \in Sessions, OnStop(s) PROVE SlotQuiet
  BY <1>4 DEF SlotQuiet, Holder, Released, IInv, TypeOK, ThreadInv, OnStop, StopConnection
<1>5. ASSUME NEW s \in Sessions, OnDestroy(s) PROVE SlotQuiet
  BY <1>5 DEF SlotQuiet, Holder, Released, IInv, TypeOK, ThreadInv, OnDestroy, StopConnection
<1>6. ASSUME NEW s \in Sessions, SurfaceCreated(s) PROVE SlotQuiet
  BY <1>6 DEF SlotQuiet, Holder, Released, IInv, TypeOK, ThreadInv, SurfaceCreated
<1>7. ASSUME NEW s \in Sessions, SurfaceChanged(s) PROVE SlotQuiet
  BY <1>7 DEF SlotQuiet, Holder, Released, IInv, TypeOK, ThreadInv, SurfaceChanged
<1>8. ASSUME NEW s \in Sessions, SurfaceDestroyed(s) PROVE SlotQuiet
  BY <1>8 DEF SlotQuiet, Holder, Released, IInv, TypeOK, ThreadInv, SurfaceDestroyed, StopConnection
<1>9. ASSUME NEW s \in Sessions, UiConnectionStarted(s) PROVE SlotQuiet
  BY <1>9 DEF SlotQuiet, Holder, Released, IInv, TypeOK, ThreadInv, UiConnectionStarted
<1>10. ASSUME NEW s \in Sessions, UiStageFailed(s) PROVE SlotQuiet
  BY <1>10 DEF SlotQuiet, Holder, Released, IInv, TypeOK, ThreadInv, UiStageFailed
<1>11. ASSUME NEW s \in Sessions, UiConnectionTerminated(s) PROVE SlotQuiet
  BY <1>11 DEF SlotQuiet, Holder, Released, IInv, TypeOK, ThreadInv, UiConnectionTerminated, StopConnection
<1>12. ASSUME NEW s \in Sessions, LaunchSucceeds(s) PROVE SlotQuiet
  BY <1>12 DEF SlotQuiet, Holder, Released, IInv, TypeOK, ThreadInv, LaunchSucceeds
<1>13. ASSUME NEW s \in Sessions, LaunchFails(s) PROVE SlotQuiet
  BY <1>13 DEF SlotQuiet, Holder, Released, IInv, TypeOK, ThreadInv, LaunchFails
<1>14. ASSUME NEW s \in Sessions, BeginStart(s) PROVE SlotQuiet
  BY <1>14 DEF SlotQuiet, Holder, Released, IInv, TypeOK, ThreadInv, BeginStart
<1>15. ASSUME NEW s \in Sessions, NativeStarted(s) PROVE SlotQuiet
  BY <1>15 DEF SlotQuiet, Holder, Released, IInv, TypeOK, ThreadInv, NativeStarted
<1>16. ASSUME NEW s \in Sessions, StartReturns(s) PROVE SlotQuiet
  BY <1>16 DEF SlotQuiet, Holder, Released, IInv, TypeOK, ThreadInv, StartReturns
<1>17. ASSUME NEW s \in Sessions, TerminationChecked(s) PROVE SlotQuiet
  BY <1>17 DEF SlotQuiet, Holder, Released, IInv, TypeOK, ThreadInv, TerminationChecked
<1>18. ASSUME NEW s \in Sessions, TerminationCalled(s) PROVE SlotQuiet
  BY <1>18 DEF SlotQuiet, Holder, Released, IInv, TypeOK, ThreadInv, TerminationCalled
<1>19. ASSUME NEW s \in Sessions, InterruptConnection(s) PROVE SlotQuiet
  BY <1>19 DEF SlotQuiet, Holder, Released, IInv, TypeOK, ThreadInv, InterruptConnection
<1>20. ASSUME NEW s \in Sessions, BeginStop(s) PROVE SlotQuiet
  BY <1>20 DEF SlotQuiet, Holder, Released, IInv, TypeOK, ThreadInv, BeginStop
<1>21. ASSUME NEW s \in Sessions, StopReturns(s) PROVE SlotQuiet
  BY <1>21 DEF SlotQuiet, Holder, Released, IInv, TypeOK, ThreadInv, StopReturns
<1>22. ASSUME NEW s \in Sessions, AcquirePermit(s) PROVE Slot!Take(s)
  <2>1. Holders = {} /\ s \notin Served
    BY <1>22 DEF AcquirePermit, IInv, TypeOK, PermitInv, ThreadInv, Holders, Served, Released, Holder
  <2>2. Holders' = {s} /\ Served' = Served
    BY <1>22, <2>1 DEF AcquirePermit, IInv, TypeOK, Holders, Holder, Served, Released
  <2> QED
    BY <2>1, <2>2 DEF Slot!Take
<1>23. ASSUME NEW s \in Sessions, StartFails(s) PROVE Slot!Give(s)
  <2>1. Holders = {s}
    BY <1>23 DEF StartFails, IInv, TypeOK, PermitInv, ThreadInv, Holders, Holder
  <2>2. Holders' = {} /\ Served' = Served \cup {s}
    BY <1>23, <2>1 DEF StartFails, IInv, TypeOK, ThreadInv, Holders, Holder, Served, Released
  <2> QED
    BY <2>1, <2>2 DEF Slot!Give
<1>24. ASSUME NEW s \in Sessions, ReleasePermit(s) PROVE Slot!Give(s)
  <2>1. Holders = {s}
    BY <1>24 DEF ReleasePermit, IInv, TypeOK, PermitInv, ThreadInv, Holders, Holder
  <2>2. Holders' = {} /\ Served' = Served \cup {s}
    BY <1>24, <2>1 DEF ReleasePermit, IInv, TypeOK, ThreadInv, Holders, Holder, Served, Released
  <2> QED
    BY <2>1, <2>2 DEF Slot!Give
<1>25. ASSUME UNCHANGED vars PROVE SlotQuiet
  BY <1>25 DEF SlotQuiet, Holder, Released, vars
<1> QED
  BY <1>1, <1>2, <1>3, <1>4, <1>5, <1>6, <1>7, <1>8, <1>9, <1>10, <1>11, <1>12, <1>13, <1>14, <1>15, <1>16, <1>17, <1>18, <1>19, <1>20, <1>21, <1>22, <1>23, <1>24, <1>25
     DEF Next, Lifecycle, RunPosted, StartThread, Termination, StopThread, Slot!Next

\* NvConnection's semaphore implements a slot that is given to one session at a
\* time and at most once to each.
THEOREM SlotImplemented == Spec => ImplementsSlot
<1>1. Init => Slot!Init
  BY DEF Init, Slot!Init, Holders, Holder, Served, Released
<1> QED
  BY <1>1, Invariance, SlotStep, PTL DEF Spec, Slot!Spec, ImplementsSlot
=============================================================================
