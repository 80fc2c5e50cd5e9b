----------------------------- MODULE StreamSlot -----------------------------
(***************************************************************************)
(* What the static semaphore of NvConnection promises its callers: there   *)
(* is one stream slot in the process, a session is given it at most once,  *)
(* and the slot is free again before another session is given it.          *)
(* StreamSession is shown to implement this specification.                 *)
(***************************************************************************)
CONSTANT Sessions

VARIABLES slot,    \* the set of sessions that hold the slot
          used     \* the sessions that were given the slot and gave it back

vars == <<slot, used>>

Init == slot = {} /\ used = {}

\* A session takes the slot: it is free, and this session never had it.
Take(s) ==
    /\ slot = {}
    /\ s \notin used
    /\ slot' = {s}
    /\ UNCHANGED used

\* The session that holds the slot gives it back.
Give(s) ==
    /\ slot = {s}
    /\ slot' = {}
    /\ used' = used \cup {s}

Next == \E s \in Sessions : Take(s) \/ Give(s)

Spec == Init /\ [][Next]_vars
=============================================================================
