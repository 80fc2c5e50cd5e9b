------------------------------ MODULE TouchInput ------------------------------
(***************************************************************************)
(* Fingers on the stream view: the branch of Game.handleMotionEvent() for  *)
(* fingers and the two touch contexts it drives, which are both            *)
(* AbsoluteTouchContext or both RelativeTouchContext (the preference       *)
(* touchscreenTrackpad).  The main thread handles the events; every timer  *)
(* runs its task on a thread of its own, under the monitor of its context. *)
(* The main thread takes the monitor only to start or cancel a timer, so   *)
(* tasks run between its steps: main is the step it has reached.           *)
(*                                                                         *)
(* Context c follows the finger with pointer index c.  Only context 0 has  *)
(* timers and holds buttons down.  Positions and times are reduced to the  *)
(* outcomes of the comparisons the code makes with them, which are chosen. *)
(***************************************************************************)
EXTENDS Integers, FiniteSets

CONSTANTS MaxFingers,   \* bound on the fingers that are down
          MaxTasks      \* bound on the tasks of one kind that have not run

ASSUME BoundsAssumption == MaxFingers \in Nat \ {0} /\ MaxTasks \in Nat \ {0}

Contexts == {0, 1}
Timers   == {"drag", "tap", "long"}
Buttons  == {"left", "right"}
Clicks   == Buttons \cup {"x"}     \* "x": X1 or X2

\* Where the main thread is: between two events, or before the call that cancels
\* the long press timer, that cancels the other timer, that taps and counts the
\* fingers after a release, that clears the flags of a context, or all but the
\* first one, that starts the first or the long press timer, that presses the
\* secondary button, or that confirms a tap.
Steps == {"idle", "long", "timer", "lift", "reset", "resetTap", "start",
          "startLong", "secondary", "confirm"}

VARIABLES
    relative,         \* touchscreenTrackpad
    grabbed,          \* grabbedInput
    pointers,         \* the pointer ids of the fingers that are down
    threeFingers,     \* threeFingerDownTime is within THREE_FINGER_TAP_THRESHOLD
    maxPointers,      \* maxPointerCountInGesture
    cancelled,
    confirmedMove,
    confirmedDrag,    \* this and the next three: of context 0
    confirmedTap,
    confirmedLongPress,
    timer,            \* dragTimer, tapDownTimer, longPressTimer: not null
    tasks,            \* the tasks of each timer that have not run
    main,             \* the step the main thread has reached
    after,            \* the step that follows the cancelling of the timers
    down,             \* the buttons the host holds down
    clicked,          \* history: the buttons clicked since the first finger went down
    dropped,          \* history: an event was dropped since then
    mayStay           \* history: the buttons that no one may be left to raise

confirmVars == <<confirmedMove, confirmedDrag, confirmedTap, confirmedLongPress>>
timerVars   == <<timer, tasks>>
mainVars    == <<main, after>>
pastVars    == <<clicked, dropped, mayStay>>
vars == <<relative, grabbed, pointers, threeFingers, maxPointers, cancelled,
          confirmVars, timerVars, mainVars, down, pastVars>>

TypeOK ==
    /\ relative \in BOOLEAN
    /\ grabbed \in BOOLEAN
    /\ pointers \subseteq 0 .. MaxFingers - 1
    /\ threeFingers \in BOOLEAN
    /\ maxPointers \in [Contexts -> 0 .. MaxFingers]
    /\ cancelled \in [Contexts -> BOOLEAN]
    /\ confirmedMove \in [Contexts -> BOOLEAN]
    /\ confirmedDrag \in BOOLEAN
    /\ confirmedTap \in BOOLEAN
    /\ confirmedLongPress \in BOOLEAN
    /\ timer \in [Timers -> BOOLEAN]
    /\ tasks \in [Timers -> 0 .. MaxTasks]
    /\ main \in Steps
    /\ after \in {"idle", "lift", "reset", "secondary"}
    /\ down \subseteq Buttons
    /\ clicked \subseteq Clicks
    /\ dropped \in BOOLEAN
    /\ mayStay \subseteq Buttons

Init ==
    /\ relative \in BOOLEAN
    /\ grabbed = TRUE
    /\ pointers = {}
    /\ threeFingers = FALSE
    /\ maxPointers = [c \in Contexts |-> 0]
    /\ cancelled = [c \in Contexts |-> FALSE]
    /\ confirmedMove = [c \in Contexts |-> FALSE]
    /\ confirmedDrag = FALSE
    /\ confirmedTap = FALSE
    /\ confirmedLongPress = FALSE
    /\ timer = [x \in Timers |-> FALSE]
    /\ tasks = [x \in Timers |-> 0]
    /\ main = "idle"
    /\ after = "idle"
    /\ down = {}
    /\ clicked = {}
    /\ dropped = FALSE
    /\ mayStay = {}

-----------------------------------------------------------------------------
(***************************************************************************)
(* Timers.  A task that has begun to run, and waits for the monitor, is    *)
(* not stopped by cancel().                                                *)
(***************************************************************************)

\* cancel...Timer() of x.
CancelTimer(x) ==
    /\ timer' = [timer EXCEPT ![x] = FALSE]
    /\ tasks' \in {tasks, IF timer[x] /\ tasks[x] > 0 THEN [tasks EXCEPT ![x] = @ - 1] ELSE tasks}

\* startDragTimer() cancels an existing timer; the absolute context's start...()
\* overwrite it, and its task stays.
StartTimer(x) ==
    /\ timer' = [timer EXCEPT ![x] = TRUE]
    /\ \E n \in {tasks[x]} \cup (IF x = "drag" /\ timer[x] /\ tasks[x] > 0 THEN {tasks[x] - 1} ELSE {}) :
         /\ n < MaxTasks
         /\ tasks' = [tasks EXCEPT ![x] = n + 1]

-----------------------------------------------------------------------------
(***************************************************************************)
(* The events, on the main thread.  While the input is not grabbed, they   *)
(* are dropped.                                                            *)
(***************************************************************************)

\* The pointers of an event are in the order of their ids, and a finger gets the
\* least id that is free: its action index is its id.
fingers  == Cardinality(pointers)
Index(p) == Cardinality({q \in pointers : q < p})
Free(p)  == p \notin pointers /\ \A q \in 0 .. p - 1 : q \in pointers

NoTimers == \A x \in Timers : ~timer[x]

\* The main thread begins to cancel the timers of context 0, for cancelTouch()
\* or for touchUpEvent().
BeginCancel(next) ==
    /\ main' = IF relative THEN "timer" ELSE "long"
    /\ after' = next

\* setPointerCount(count) of both contexts, and the count a context c that is
\* touched starts its gesture with.
Counted(count, c) ==
    [d \in Contexts |-> IF d = c \/ count > maxPointers[d] THEN count ELSE maxPointers[d]]

\* An event that is dropped.
DropDown(p) ==
    /\ ~grabbed
    /\ main = "idle"
    /\ Free(p)
    /\ pointers' = pointers \cup {p}
    /\ dropped' = TRUE
    /\ clicked' = IF fingers = 0 THEN {} ELSE clicked
    /\ UNCHANGED <<relative, grabbed, threeFingers, maxPointers, cancelled, confirmVars,
                   timerVars, mainVars, down, mayStay>>

\* A dropped release, of one finger or of all: if context 0 loses its finger, and
\* is not cancelled, its timers and buttons are left to themselves.
DropUp(ps) ==
    /\ ~grabbed
    /\ main = "idle"
    /\ pointers' = pointers \ ps
    /\ dropped' = TRUE
    /\ mayStay' = IF ~cancelled[0] /\ (\A p \in pointers \ ps : Index(p) # 0) THEN Buttons ELSE mayStay
    /\ UNCHANGED <<relative, grabbed, threeFingers, maxPointers, cancelled, confirmVars,
                   timerVars, mainVars, down, clicked>>

\* ACTION_DOWN and ACTION_POINTER_DOWN, but of a third finger.  A finger with
\* no context is ignored.  In an absolute context 0 setPointerCount() cancels
\* the touch when there are two fingers or more.
FingerDown(p) ==
    LET count == fingers + 1 IN
    /\ grabbed
    /\ main = "idle"
    /\ Free(p) /\ count # 3
    /\ pointers' = pointers \cup {p}
    /\ clicked' = IF fingers = 0 THEN {} ELSE clicked
    /\ dropped' = (dropped /\ fingers > 0)
    /\ \/ /\ p \notin Contexts
          /\ UNCHANGED <<maxPointers, cancelled, confirmedMove, mainVars>>
       \/ /\ p \in Contexts
          /\ maxPointers' = Counted(count, p)
          /\ IF p = 1 THEN confirmedMove' = [confirmedMove EXCEPT ![1] = FALSE]
             ELSE UNCHANGED confirmedMove
          /\ cancelled' = [cancelled EXCEPT ![0] = @ \/ (~relative /\ count > 1),
                                            ![1] = @ /\ p # 1]
          /\ LET next == IF p = 0 THEN "reset" ELSE "secondary" IN
             IF ~relative /\ count > 1 THEN BeginCancel(next)
             ELSE main' = next /\ UNCHANGED after
    /\ UNCHANGED <<relative, grabbed, threeFingers, confirmedDrag, confirmedTap,
                   confirmedLongPress, timerVars, down, mayStay>>

\* touchDownEvent() of context 0 clears its flags, an absolute one that of the
\* long press first, ...
ResetLong ==
    /\ main = "reset" /\ ~relative
    /\ main' = "resetTap"
    /\ confirmedLongPress' = FALSE
    /\ UNCHANGED <<relative, grabbed, pointers, threeFingers, maxPointers, cancelled,
                   confirmedMove, confirmedDrag, confirmedTap, timerVars, after, down, pastVars>>

Reset ==
    /\ main = IF relative THEN "reset" ELSE "resetTap"
    /\ main' = "start"
    /\ cancelled' = [cancelled EXCEPT ![0] = FALSE]
    /\ confirmedMove' = [confirmedMove EXCEPT ![0] = FALSE]
    /\ confirmedDrag' = FALSE
    /\ confirmedTap' = FALSE
    /\ UNCHANGED <<relative, grabbed, pointers, threeFingers, maxPointers,
                   confirmedLongPress, timerVars, after, down, pastVars>>

\* ... and starts its timers.
Start ==
    /\ \/ main = "start" /\ relative /\ StartTimer("drag") /\ main' = "secondary"
       \/ main = "start" /\ ~relative /\ StartTimer("tap") /\ main' = "startLong"
       \/ main = "startLong" /\ StartTimer("long") /\ main' = "secondary"
    /\ UNCHANGED <<relative, grabbed, pointers, threeFingers, maxPointers, cancelled,
                   confirmVars, after, down, pastVars>>

\* A stylus with its button pressed: only a release raises the right button.
SecondaryButton ==
    /\ main = "secondary"
    /\ main' = "idle"
    /\ \/ down' = down \cup {"right"} /\ mayStay' = mayStay \cup {"right"}
       \/ UNCHANGED <<down, mayStay>>
    /\ UNCHANGED <<relative, grabbed, pointers, threeFingers, maxPointers, cancelled,
                   confirmVars, timerVars, after, clicked, dropped>>

\* ACTION_POINTER_DOWN of a third finger cancels both contexts.
ThirdFingerDown(p) ==
    /\ grabbed
    /\ main = "idle"
    /\ Free(p) /\ fingers = 2
    /\ pointers' = pointers \cup {p}
    /\ threeFingers' = TRUE
    /\ cancelled' = [c \in Contexts |-> TRUE]
    /\ BeginCancel("idle")
    /\ UNCHANGED <<relative, grabbed, maxPointers, confirmVars, timerVars, down, pastVars>>

\* ACTION_CANCEL.
Cancel ==
    /\ grabbed
    /\ main = "idle"
    /\ fingers > 0
    /\ pointers' = {}
    /\ cancelled' = [c \in Contexts |-> TRUE]
    /\ BeginCancel("idle")
    /\ UNCHANGED <<relative, grabbed, threeFingers, maxPointers, confirmVars, timerVars,
                   down, pastVars>>

\* The buttons that cancelTouch() or touchUpEvent() of context 0 raises.
Raised ==
    IF relative THEN IF confirmedDrag THEN {"left"} ELSE {}
    ELSE IF confirmedLongPress THEN {"right"}
    ELSE IF confirmedTap THEN {"left"}
    ELSE {}

\* cancelLongPressTimer(), the first thing an absolute context 0 does, ...
CancelLong ==
    /\ main = "long"
    /\ main' = "timer"
    /\ CancelTimer("long")
    /\ UNCHANGED <<relative, grabbed, pointers, threeFingers, maxPointers, cancelled,
                   confirmVars, after, down, pastVars>>

\* The next step as it would be if it left the timer running.
CancelTimersKeepsTimer ==
    /\ main = "timer"
    /\ main' = after
    /\ after' = "idle"
    /\ down' = down \ Raised
    /\ UNCHANGED <<relative, grabbed, pointers, threeFingers, maxPointers, cancelled,
                   confirmVars, timerVars, pastVars>>

\* ... then the other timer is cancelled, no task can do anything any more, and
\* the buttons of the touch are raised.
CancelTimers ==
    /\ main = "timer"
    /\ main' = after
    /\ after' = "idle"
    /\ CancelTimer(IF relative THEN "drag" ELSE "tap")
    /\ down' = down \ Raised
    /\ UNCHANGED <<relative, grabbed, pointers, threeFingers, maxPointers, cancelled,
                   confirmVars, pastVars>>

\* isTap() as it would be if every finger of a gesture could tap.
CanTapEveryFinger(c) == ~confirmedMove[c] /\ ~(c = 0 /\ confirmedDrag)

\* isTap() of context c: nothing was confirmed and c is the last finger that
\* went down; the time and the distance are chosen.
CanTap(c) == ~confirmedMove[c] /\ ~(c = 0 /\ confirmedDrag) /\ c + 1 = maxPointers[c]

\* ACTION_UP and ACTION_POINTER_UP of a finger with a context.  Game clicks X1 or
\* X2 if one of two fingers is lifted far from where they began, and raises both
\* buttons.  The release of the last finger soon after a third finger went down
\* shows the keyboard and is not passed on, so the timers go on.  Otherwise
\* context 0 goes on to cancel its timers, and context 1 may tap.
FingerUp(p) ==
    LET c == Index(p) IN
    /\ grabbed
    /\ main = "idle"
    /\ c \in Contexts
    /\ pointers' = pointers \ {p}
    /\ down' = {}
    /\ \E far \in {{}} \cup (IF fingers = 2 THEN {{"x"}} ELSE {}),
          tap \in {{}} \cup (IF relative /\ c = 1 /\ ~cancelled[1] /\ CanTap(1) THEN {{"right"}} ELSE {}) :
         clicked' = clicked \cup far \cup tap
    /\ \/ /\ fingers = 1 /\ threeFingers
          /\ mayStay' = IF cancelled[0] THEN {} ELSE Buttons
          /\ UNCHANGED <<maxPointers, cancelled, mainVars>>
       \/ /\ ~(fingers = 1 /\ threeFingers)
          /\ mayStay' = IF c = 0 \/ NoTimers THEN {} ELSE mayStay
          /\ IF c = 0 /\ ~cancelled[0]
             THEN BeginCancel("lift") /\ UNCHANGED <<maxPointers, cancelled>>
             ELSE /\ maxPointers' = Counted(fingers - 1, -1)
                  /\ cancelled' = [cancelled EXCEPT ![0] = @ \/ (~relative /\ fingers > 2)]
                  /\ IF ~relative /\ fingers > 2 THEN BeginCancel("idle") ELSE UNCHANGED mainVars
    /\ UNCHANGED <<relative, grabbed, threeFingers, confirmVars, timerVars, dropped>>

\* The rest of touchUpEvent() of context 0, which may tap, and setPointerCount()
\* of the fingers that are left.
Lift ==
    /\ main = "lift"
    /\ \/ /\ relative /\ CanTap(0)
          /\ clicked' = clicked \cup {"left"}
          /\ UNCHANGED confirmedTap
       \/ /\ ~relative /\ ~confirmedTap /\ ~confirmedLongPress
          /\ clicked' = clicked \cup {"left"}
          /\ confirmedTap' = TRUE
       \/ /\ relative \/ confirmedTap \/ confirmedLongPress
          /\ UNCHANGED <<clicked, confirmedTap>>
    /\ maxPointers' = Counted(fingers, -1)
    /\ cancelled' = [cancelled EXCEPT ![0] = @ \/ (~relative /\ fingers > 1)]
    /\ IF ~relative /\ fingers > 1 THEN BeginCancel("idle") ELSE main' = "idle" /\ UNCHANGED after
    /\ UNCHANGED <<relative, grabbed, pointers, threeFingers, confirmedMove, confirmedDrag,
                   confirmedLongPress, timerVars, down, dropped, mayStay>>

\* The release of a finger that has no context: nothing is done.
OtherFingerUp(p) ==
    /\ grabbed
    /\ main = "idle"
    /\ Index(p) \notin Contexts
    /\ pointers' = pointers \ {p}
    /\ UNCHANGED <<relative, grabbed, threeFingers, maxPointers, cancelled, confirmVars,
                   timerVars, mainVars, down, pastVars>>

\* ACTION_MOVE at a relative context: the finger leaves the tap bounds, and it
\* is a move, unless a drag was confirmed before.
RelativeMove(c) ==
    /\ grabbed /\ relative
    /\ main = "idle"
    /\ c < fingers /\ ~cancelled[c]
    /\ ~confirmedMove[c] /\ ~(c = 0 /\ confirmedDrag)
    /\ confirmedMove' = [confirmedMove EXCEPT ![c] = TRUE]
    /\ IF c = 0 THEN CancelTimer("drag") ELSE UNCHANGED timerVars
    /\ UNCHANGED <<relative, grabbed, pointers, threeFingers, maxPointers, cancelled,
                   confirmedDrag, confirmedTap, confirmedLongPress, mainVars, down, pastVars>>

\* ACTION_MOVE at absolute context 0 that leaves the dead zone: tapConfirmed(),
\* not under the monitor, tests the two flags, after the long press timer was
\* cancelled if the finger went farther.
AbsoluteMove ==
    /\ grabbed /\ ~relative
    /\ main = "idle"
    /\ fingers > 0 /\ ~cancelled[0]
    /\ CancelTimer("long") \/ UNCHANGED timerVars
    /\ main' = IF confirmedTap \/ confirmedLongPress THEN "idle" ELSE "confirm"
    /\ UNCHANGED <<relative, grabbed, pointers, threeFingers, maxPointers, cancelled,
                   confirmVars, after, down, pastVars>>

\* The rest of tapConfirmed().  If a long press came between, cancelTouch() would
\* raise its button only.
ConfirmTap ==
    /\ main = "confirm"
    /\ main' = "idle"
    /\ confirmedTap' = TRUE
    /\ CancelTimer("tap")
    /\ down' = down \cup {"left"}
    /\ mayStay' = IF confirmedLongPress THEN mayStay \cup {"left"} ELSE mayStay
    /\ UNCHANGED <<relative, grabbed, pointers, threeFingers, maxPointers, cancelled,
                   confirmedMove, confirmedDrag, confirmedLongPress, after, clicked, dropped>>

\* toggleGrab, which a key combination posts to the main thread.
ToggleGrab ==
    /\ main = "idle"
    /\ grabbed' = ~grabbed
    /\ UNCHANGED <<relative, pointers, threeFingers, maxPointers, cancelled, confirmVars,
                   timerVars, mainVars, down, pastVars>>

\* THREE_FINGER_TAP_THRESHOLD passes.
ThresholdPasses ==
    /\ threeFingers
    /\ threeFingers' = FALSE
    /\ UNCHANGED <<relative, grabbed, pointers, maxPointers, cancelled, confirmVars,
                   timerVars, mainVars, down, pastVars>>

-----------------------------------------------------------------------------
(***************************************************************************)
(* The timers' tasks.  A task takes the field it was started from, whoever *)
(* set it since.                                                           *)
(***************************************************************************)

\* A task that finds its timer cancelled, and the drag's also if the finger
\* moved or is not the only one.
TaskIgnored(x) ==
    /\ tasks[x] > 0
    /\ \/ ~timer[x]
       \/ x = "drag" /\ (confirmedMove[0] \/ maxPointers[0] # 1)
    /\ tasks' = [tasks EXCEPT ![x] = @ - 1]
    /\ UNCHANGED <<relative, grabbed, pointers, threeFingers, maxPointers, cancelled,
                   confirmVars, timer, mainVars, down, pastVars>>

\* The drag's task as it would be if it did not look at the move.
DragTaskIgnoresMove ==
    /\ tasks["drag"] > 0
    /\ maxPointers[0] = 1
    /\ tasks' = [tasks EXCEPT !["drag"] = @ - 1]
    /\ timer' = [timer EXCEPT !["drag"] = FALSE]
    /\ confirmedDrag' = TRUE
    /\ down' = down \cup {"left"}
    /\ UNCHANGED <<relative, grabbed, pointers, threeFingers, maxPointers, cancelled,
                   confirmedMove, confirmedTap, confirmedLongPress, mainVars, pastVars>>

DragTask ==
    /\ tasks["drag"] > 0 /\ timer["drag"]
    /\ ~confirmedMove[0] /\ maxPointers[0] = 1
    /\ tasks' = [tasks EXCEPT !["drag"] = @ - 1]
    /\ timer' = [timer EXCEPT !["drag"] = FALSE]
    /\ confirmedDrag' = TRUE
    /\ down' = down \cup {"left"}
    /\ UNCHANGED <<relative, grabbed, pointers, threeFingers, maxPointers, cancelled,
                   confirmedMove, confirmedTap, confirmedLongPress, mainVars, pastVars>>

TapTask ==
    /\ tasks["tap"] > 0 /\ timer["tap"]
    /\ tasks' = [tasks EXCEPT !["tap"] = @ - 1]
    /\ timer' = [timer EXCEPT !["tap"] = FALSE]
    /\ IF confirmedTap \/ confirmedLongPress
       THEN UNCHANGED <<confirmedTap, down>>
       ELSE confirmedTap' = TRUE /\ down' = down \cup {"left"}
    /\ UNCHANGED <<relative, grabbed, pointers, threeFingers, maxPointers, cancelled,
                   confirmedMove, confirmedDrag, confirmedLongPress, mainVars, pastVars>>

\* The long press also cancels the tap's timer.
LongPressTask ==
    /\ tasks["long"] > 0 /\ timer["long"]
    /\ timer' = [timer EXCEPT !["long"] = FALSE, !["tap"] = FALSE]
    /\ \E n \in {tasks["tap"]} \cup (IF timer["tap"] /\ tasks["tap"] > 0 THEN {tasks["tap"] - 1} ELSE {}) :
         tasks' = [tasks EXCEPT !["long"] = @ - 1, !["tap"] = n]
    /\ confirmedLongPress' = TRUE
    /\ down' = (IF confirmedTap THEN down \ {"left"} ELSE down) \cup {"right"}
    /\ UNCHANGED <<relative, grabbed, pointers, threeFingers, maxPointers, cancelled,
                   confirmedMove, confirmedDrag, confirmedTap, mainVars, pastVars>>

MainStep ==
    \/ \E p \in 0 .. MaxFingers - 1 : DropDown(p) \/ FingerDown(p) \/ ThirdFingerDown(p)
    \/ \E p \in pointers : DropUp({p}) \/ FingerUp(p) \/ OtherFingerUp(p)
    \/ pointers # {} /\ DropUp(pointers)
    \/ \E c \in Contexts : RelativeMove(c)
    \/ AbsoluteMove \/ Cancel \/ ToggleGrab
    \/ ResetLong \/ Reset \/ Start \/ SecondaryButton \/ CancelLong \/ CancelTimers \/ Lift \/ ConfirmTap

Task ==
    \/ \E x \in Timers : TaskIgnored(x)
    \/ DragTask \/ TapTask \/ LongPressTask

Next == MainStep \/ Task \/ ThresholdPasses

Spec == Init /\ [][Next]_vars

-----------------------------------------------------------------------------
(***************************************************************************)
(* Correctness.                                                            *)
(***************************************************************************)

\* Between two events, when no finger is on the screen or a second or third one
\* has cancelled the touch, the host holds no button down but those the code
\* gives up: after a release that was dropped or taken for a three-finger tap,
\* whose timers go on; the right button of a stylus, and the left one of a tap
\* confirmed while the long press came, which only a release raises.  Whenever
\* the timers fire, between any two steps of the main thread.
NoButtonWithoutFinger ==
    /\ TypeOK
    /\ main = "idle" /\ (fingers = 0 \/ cancelled[0]) => down \subseteq mayStay

\* Once cancelTouch() has ended, no task presses a button for the cancelled
\* finger, however late it runs: while it cancels the timers one still may, and
\* the second finger may be a stylus with its button pressed.
CancelledFingersStayUp ==
    [][ down' \ down # {} /\ cancelled[0] => main \in {"long", "timer", "secondary"} ]_vars

\* A touch is a move or a drag, never both: the timer's task and the move event
\* decide it between them.
MoveOrDrag == relative => ~(confirmedMove[0] /\ confirmedDrag)

\* "This ensures we don't report duplicate taps for each finger on a multi-finger
\* tap gesture" (RelativeTouchContext.java:74): in one gesture, from the first
\* finger down to the last one up, the contexts tap one button only, if no event
\* of it was dropped.  Game's clicks of X1 and X2 come on top.
OneTapPerGesture == dropped \/ Cardinality(clicked \cap Buttons) <= 1

-----------------------------------------------------------------------------
(***************************************************************************)
(* What the code does not keep; no run checks these.                       *)
(***************************************************************************)

\* A button never outlives the fingers.
NoButtonLeft == main = "idle" /\ fingers = 0 => down = {}

\* A gesture clicks one button, Game's clicks included.
OneClickPerGesture == dropped \/ Cardinality(clicked) <= 1
=============================================================================
