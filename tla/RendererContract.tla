--------------------------- MODULE RendererContract ---------------------------
(***************************************************************************)
(* What a VideoDecoderRenderer or AudioRenderer may count on during a      *)
(* connection: its methods are called in the order set up, start, stop,    *)
(* clean up, it is handed data only after start() and before cleanup(),    *)
(* and once it is set up the connection does not end before the clean-up.  *)
(* An audio renderer for which there is no decoder is cleaned up right     *)
(* after its set-up.  Nothing is promised after an exception that nobody   *)
(* handled.                                                                *)
(***************************************************************************)
CONSTANT
    UndoneAtOnce  \* may it be cleaned up without having been started

VARIABLES
    connection,   \* is the library in use
    phase,        \* what was called last
    handed        \* is a thread inside a call that hands over data

vars == <<connection, phase, handed>>

Init == connection = FALSE /\ phase = "down" /\ handed = FALSE

Begin == ~connection /\ phase = "down" /\ connection' = TRUE /\ UNCHANGED <<phase, handed>>
End   == phase \in {"down", "void"} /\ connection' = FALSE /\ UNCHANGED <<phase, handed>>

Call(before, after) ==
    /\ connection /\ phase = before
    /\ phase' = after
    /\ UNCHANGED <<connection, handed>>

SetUp   == Call("down", "up")
Start   == Call("up", "started")
Stop    == Call("started", "stopped")
CleanUp ==
    /\ ~handed
    /\ Call("stopped", "down") \/ (UndoneAtOnce /\ Call("up", "down"))

HandOver ==
    /\ phase \in {"started", "stopped"}
    /\ handed' = ~handed
    /\ UNCHANGED <<connection, phase>>

Void == connection /\ phase' = "void" /\ handed' = FALSE /\ UNCHANGED connection

Next == Begin \/ End \/ SetUp \/ Start \/ Stop \/ CleanUp \/ HandOver \/ Void

Spec == Init /\ [][Next]_vars
=============================================================================
