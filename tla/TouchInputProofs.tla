--------------------------- MODULE TouchInputProofs ---------------------------
(***************************************************************************)
(* TouchInput for any number of fingers and waiting tasks: however late a  *)
(* timer's task runs, and between whichever steps of the main thread, only *)
(* the buttons that the code gives up outlive the fingers, no task presses *)
(* one for a cancelled touch, a touch is a move or a drag, and the         *)
(* contexts tap one button in a gesture.                                   *)
(***************************************************************************)
EXTENDS TouchInput, FiniteSetTheorems, TLAPS

\* A context has its own timers, and the absolute one alone cancels, starts and
\* confirms in more steps than one.
KindInv ==
    /\ relative => /\ ~timer["tap"] /\ ~timer["long"]
                   /\ main \notin {"long", "resetTap", "startLong", "confirm"}
    /\ ~relative => ~timer["drag"]
    /\ main = "timer" /\ ~relative => ~timer["long"]

\* What the main thread is in the middle of: the press or the release of the
\* finger of context 0, or a tap of a touch that was not cancelled.
MainInv ==
    /\ main \notin {"long", "timer"} => after = "idle"
    /\ "reset" \in {main, after} => 0 \in pointers
    /\ main \in {"resetTap", "start", "startLong"} => 0 \in pointers
    /\ "secondary" \in {main, after} => 0 \in pointers
    /\ "lift" \in {main, after} => 0 \notin pointers
    /\ main = "confirm" => pointers # {} /\ ~cancelled[0]
    /\ main \in {"start", "startLong"} => ~cancelled[0]

\* No task can press a button, and what is down was given up.
Quiet == NoTimers /\ down \subseteq mayStay

\* When that is so: after cancelTouch(), between the cancelling of the timers and
\* the tap of a release, and, unless both buttons were given up with the timers
\* running, whenever the finger of context 0 has left.
QuietInv ==
    /\ cancelled[0] /\ main \notin {"long", "timer"} => Quiet
    /\ main = "lift" => Quiet
    /\ main \in {"reset", "resetTap"} => Quiet \/ mayStay = Buttons
    /\ main = "idle" /\ (pointers = {} \/ (relative /\ 0 \notin pointers)) =>
          Quiet \/ mayStay = Buttons

\* What is down was given up, or context 0 would raise it.
DownInv == down \subseteq mayStay \cup Raised

\* The taps of a gesture of which no event was dropped: an absolute context has
\* the left button alone; a relative one taps left only at the end of a gesture
\* with one finger.
TapInv == ~dropped =>
    /\ ~relative => "right" \notin clicked
    /\ relative =>
          /\ ~(pointers \subseteq {0}) => maxPointers[0] >= 2
          /\ "right" \in clicked => maxPointers[0] >= 2 /\ "left" \notin clicked
          /\ "left" \in clicked => pointers = {}

IInv ==
    /\ TypeOK /\ KindInv /\ MainInv /\ QuietInv /\ DownInv
    /\ MoveOrDrag /\ TapInv

USE DEF confirmVars, timerVars, mainVars, pastVars

-----------------------------------------------------------------------------
(***************************************************************************)
(* Fingers.                                                                *)
(***************************************************************************)

\* The fingers are a finite set, and its count says whether there are any.
LEMMA FingersFacts ==
    ASSUME TypeOK
    PROVE  /\ IsFiniteSet(pointers) /\ pointers \subseteq Nat
           /\ MaxFingers \in Nat
           /\ fingers \in Nat /\ fingers <= MaxFingers
           /\ fingers = 0 <=> pointers = {}
           /\ fingers = 1 <=> \E p : pointers = {p}
<1>1. MaxFingers \in Nat \ {0} /\ pointers \subseteq 0 .. MaxFingers - 1
  BY BoundsAssumption DEF TypeOK
<1>2. IsFiniteSet(0 .. MaxFingers - 1) /\ Cardinality(0 .. MaxFingers - 1) = MaxFingers
  BY <1>1, FS_Interval
<1>3. IsFiniteSet(pointers) /\ Cardinality(pointers) <= MaxFingers
  BY <1>1, <1>2, FS_Subset
<1>4. Cardinality(pointers) \in Nat
  BY <1>3, FS_CardinalityType
<1>5. Cardinality(pointers) = 0 <=> pointers = {}
  BY <1>3, FS_EmptySet
<1>6. Cardinality(pointers) = 1 <=> \E p : pointers = {p}
  BY <1>3, FS_Singleton
<1>7. pointers \subseteq Nat
  BY <1>1
<1> QED
  BY <1>1, <1>3, <1>4, <1>5, <1>6, <1>7 DEF fingers

\* Two fingers are not both finger 0.
LEMMA TwoFingers ==
    ASSUME TypeOK, fingers >= 2
    PROVE  ~(pointers \subseteq {0})
<1>1. fingers # 0 /\ fingers # 1
  BY FingersFacts
<1>2. pointers # {} /\ ~(\E p : pointers = {p})
  BY <1>1, FingersFacts
<1> QED
  BY <1>2

\* The finger with index 0 is finger 0, unless finger 0 is up, and the one with
\* index 1 is not finger 0.
LEMMA IndexFacts ==
    ASSUME TypeOK, NEW p \in pointers
    PROVE  /\ Index(p) \in Nat
           /\ Index(p) = 0 => p = 0 \/ 0 \notin pointers
           /\ p = 0 => Index(p) = 0
           /\ Index(p) # 0 => pointers \ {p} # {}
<1> DEFINE Below == {q \in pointers : q < p}
<1>1. IsFiniteSet(Below)
  BY FingersFacts, FS_Subset
<1>2. Cardinality(Below) \in Nat /\ (Cardinality(Below) = 0 <=> Below = {})
  BY <1>1, FS_CardinalityType, FS_EmptySet
<1>3. Index(p) = Cardinality(Below)
  BY DEF Index
<1>4. p \in Nat /\ pointers \subseteq Nat
  BY FingersFacts
<1>5. Below = {} /\ 0 \in pointers => p = 0
  <2> SUFFICES ASSUME Below = {}, 0 \in pointers PROVE p = 0
    OBVIOUS
  <2>1. ~(0 < p)
    OBVIOUS
  <2> QED
    BY <1>4, <2>1
<1>6. p = 0 => Below = {}
  <2> SUFFICES ASSUME p = 0, NEW q \in pointers, q < p PROVE FALSE
    OBVIOUS
  <2> QED
    BY <1>4
<1>7. Below # {} => pointers \ {p} # {}
  <2> SUFFICES ASSUME NEW q \in pointers, q < p PROVE q # p
    OBVIOUS
  <2> QED
    BY <1>4
<1> QED
  BY <1>2, <1>3, <1>5, <1>6, <1>7

\* A new finger and its count.
LEMMA FreeFacts ==
    ASSUME TypeOK, NEW p \in 0 .. MaxFingers - 1, Free(p)
    PROVE  /\ pointers \cup {p} \subseteq 0 .. MaxFingers - 1
           /\ fingers + 1 \in 1 .. MaxFingers
           /\ p = 0 <=> 0 \notin pointers
           /\ p > 1 => 1 \in pointers
           /\ pointers = {} => p = 0
<1>1. pointers \cup {p} \subseteq 0 .. MaxFingers - 1 /\ MaxFingers \in Nat \ {0}
  BY BoundsAssumption DEF TypeOK
<1>2. IsFiniteSet(pointers) /\ p \notin pointers /\ fingers \in Nat
  BY FingersFacts DEF Free
<1>3. /\ IsFiniteSet(pointers \cup {p})
      /\ Cardinality(pointers \cup {p}) = fingers + 1
  BY <1>2, FS_AddElement DEF fingers
<1>4. IsFiniteSet(0 .. MaxFingers - 1) /\ Cardinality(0 .. MaxFingers - 1) = MaxFingers
  BY <1>1, FS_Interval
<1>5. fingers + 1 <= MaxFingers
  BY <1>1, <1>3, <1>4, FS_Subset
<1>6. fingers + 1 \in 1 .. MaxFingers
  BY <1>1, <1>2, <1>5
<1>7. \A q \in 0 .. p - 1 : q \in pointers
  BY DEF Free
<1>8. p # 0 => 0 \in pointers
  <2> SUFFICES ASSUME p # 0 PROVE 0 \in 0 .. p - 1
    BY <1>7
  <2> QED
    BY <1>1
<1>9. p > 1 => 1 \in pointers
  <2> SUFFICES ASSUME p > 1 PROVE 1 \in 0 .. p - 1
    BY <1>7
  <2> QED
    BY <1>1
<1> QED
  BY <1>1, <1>2, <1>6, <1>8, <1>9

\* setPointerCount() and the count a touch starts with.
LEMMA CountedFacts ==
    ASSUME TypeOK, NEW count \in 0 .. MaxFingers, NEW c
    PROVE  /\ Counted(count, c) \in [Contexts -> 0 .. MaxFingers]
           /\ Counted(count, c)[0] = IF c = 0 \/ count > maxPointers[0] THEN count
                                     ELSE maxPointers[0]
           /\ c # 0 => Counted(count, c)[0] >= maxPointers[0] /\ Counted(count, c)[0] >= count
           /\ maxPointers[0] \in Nat
<1>1. maxPointers \in [Contexts -> 0 .. MaxFingers] /\ 0 \in Contexts
  BY DEF TypeOK, Contexts
<1>2. maxPointers[0] \in 0 .. MaxFingers /\ MaxFingers \in Nat
  BY <1>1, BoundsAssumption
<1>3. Counted(count, c) \in [Contexts -> 0 .. MaxFingers]
  BY <1>1 DEF Counted
<1>4. Counted(count, c)[0] = IF c = 0 \/ count > maxPointers[0] THEN count
                             ELSE maxPointers[0]
  BY <1>1 DEF Counted
<1> QED
  BY <1>2, <1>3, <1>4

-----------------------------------------------------------------------------
(***************************************************************************)
(* Timers.                                                                 *)
(***************************************************************************)

\* A timer that is cancelled is not set, and its task is gone or had begun.
LEMMA CancelEffect ==
    ASSUME TypeOK, NEW x \in Timers, CancelTimer(x)
    PROVE  /\ timer' \in [Timers -> BOOLEAN]
           /\ tasks' \in [Timers -> 0 .. MaxTasks]
           /\ ~timer'[x]
           /\ \A y \in Timers : y # x => timer'[y] = timer[y]
<1>1. timer \in [Timers -> BOOLEAN] /\ tasks \in [Timers -> 0 .. MaxTasks]
  BY DEF TypeOK
<1>2. timer' = [timer EXCEPT ![x] = FALSE]
  BY DEF CancelTimer
<1>3. tasks[x] \in 0 .. MaxTasks /\ MaxTasks \in Nat
  BY <1>1, BoundsAssumption
<1>4. CASE tasks' = tasks
  BY <1>1, <1>2, <1>4
<1>5. CASE tasks[x] > 0 /\ tasks' = [tasks EXCEPT ![x] = tasks[x] - 1]
  <2>1. tasks[x] - 1 \in 0 .. MaxTasks
    BY <1>3, <1>5
  <2>2. tasks' \in [Timers -> 0 .. MaxTasks]
    BY <1>1, <1>5, <2>1
  <2> QED
    BY <1>1, <1>2, <2>2
<1> QED
  BY <1>4, <1>5 DEF CancelTimer

\* A timer that is started leaves the others alone, and its count is bounded.
LEMMA StartEffect ==
    ASSUME TypeOK, NEW x \in Timers, StartTimer(x)
    PROVE  /\ timer' \in [Timers -> BOOLEAN]
           /\ tasks' \in [Timers -> 0 .. MaxTasks]
           /\ \A y \in Timers : y # x => timer'[y] = timer[y]
<1>1. timer \in [Timers -> BOOLEAN] /\ tasks \in [Timers -> 0 .. MaxTasks]
  BY DEF TypeOK
<1>2. timer' = [timer EXCEPT ![x] = TRUE]
  BY DEF StartTimer
<1>3. tasks[x] \in 0 .. MaxTasks /\ MaxTasks \in Nat
  BY <1>1, BoundsAssumption
<1>4. PICK n \in {tasks[x]} \cup (IF x = "drag" /\ timer[x] /\ tasks[x] > 0 THEN {tasks[x] - 1} ELSE {}) :
        n < MaxTasks /\ tasks' = [tasks EXCEPT ![x] = n + 1]
  BY DEF StartTimer
<1>5. n + 1 \in 0 .. MaxTasks
  BY <1>3, <1>4
<1>6. tasks' \in [Timers -> 0 .. MaxTasks]
  BY <1>1, <1>4, <1>5
<1> QED
  BY <1>1, <1>2, <1>6

\* A task that has run is one less.
LEMMA TaskDone ==
    ASSUME TypeOK, NEW x \in Timers, tasks[x] > 0
    PROVE  [tasks EXCEPT ![x] = @ - 1] \in [Timers -> 0 .. MaxTasks]
<1>1. tasks \in [Timers -> 0 .. MaxTasks] /\ MaxTasks \in Nat
  BY BoundsAssumption DEF TypeOK
<1>2. tasks[x] - 1 \in 0 .. MaxTasks
  BY <1>1
<1> QED
  BY <1>1, <1>2

\* The long press cancels the tap's timer.
LEMMA LongPressTasks ==
    ASSUME TypeOK, LongPressTask
    PROVE  tasks' \in [Timers -> 0 .. MaxTasks]
<1>1. tasks \in [Timers -> 0 .. MaxTasks] /\ MaxTasks \in Nat
  BY BoundsAssumption DEF TypeOK
<1>2. PICK n \in {tasks["tap"]} \cup (IF timer["tap"] /\ tasks["tap"] > 0 THEN {tasks["tap"] - 1} ELSE {}) :
        tasks' = [tasks EXCEPT !["long"] = @ - 1, !["tap"] = n]
  BY DEF LongPressTask
<1>3. tasks["tap"] \in 0 .. MaxTasks /\ tasks["long"] \in 0 .. MaxTasks /\ tasks["long"] > 0
  BY <1>1 DEF Timers, LongPressTask
<1>4. n \in 0 .. MaxTasks /\ tasks["long"] - 1 \in 0 .. MaxTasks
  BY <1>1, <1>2, <1>3
<1> QED
  BY <1>1, <1>2, <1>4

-----------------------------------------------------------------------------
(***************************************************************************)
(* The actions, one by one.                                                *)
(***************************************************************************)

\* A finger that comes down while the input is not grabbed changes nothing but the
\* fingers.
LEMMA DropDownInv ==
    ASSUME IInv, NEW p \in 0 .. MaxFingers - 1, DropDown(p)
    PROVE  IInv'
<1>0. TypeOK /\ KindInv /\ MainInv /\ QuietInv /\ DownInv /\ MoveOrDrag /\ TapInv
  BY DEF IInv
<1>1. TypeOK'
  BY <1>0 DEF TypeOK, DropDown
<1>2. KindInv'
  BY <1>0 DEF KindInv, DropDown
<1>3. MainInv'
  BY <1>0 DEF MainInv, DropDown
<1>4. QuietInv'
  BY <1>0 DEF QuietInv, Quiet, NoTimers, DropDown
<1>5. DownInv'
  BY <1>0 DEF DownInv, Raised, DropDown
<1>6. MoveOrDrag'
  BY <1>0 DEF MoveOrDrag, DropDown
<1>7. TapInv'
  BY <1>0 DEF TapInv, DropDown
<1> QED
  BY <1>1, <1>2, <1>3, <1>4, <1>5, <1>6, <1>7 DEF IInv

\* A finger of a context comes down: a new touch begins, or the one of context 0 is
\* cancelled because there is a second finger.
LEMMA FingerDownInv ==
    ASSUME IInv, NEW p \in 0 .. MaxFingers - 1, FingerDown(p)
    PROVE  IInv'
<1>0. TypeOK /\ KindInv /\ MainInv /\ QuietInv /\ DownInv /\ MoveOrDrag /\ TapInv
  BY DEF IInv
<1>1. TypeOK'
  <2>1. maxPointers' \in [Contexts -> 0 .. MaxFingers]
    <3>1. fingers + 1 \in 0 .. MaxFingers
      <4>1. fingers + 1 \in 1 .. MaxFingers /\ MaxFingers \in Nat
        BY <1>0, FreeFacts, FingersFacts DEF FingerDown
      <4> QED
        BY <4>1
    <3> QED
      BY <1>0, <3>1, CountedFacts DEF FingerDown, TypeOK
  <2>2. cancelled' \in [Contexts -> BOOLEAN] /\ confirmedMove' \in [Contexts -> BOOLEAN]
    BY <1>0, Zenon DEF FingerDown, TypeOK, Contexts
  <2>3. main' \in Steps /\ after' \in {"idle", "lift", "reset", "secondary"}
    BY <1>0 DEF FingerDown, TypeOK, BeginCancel, Steps
  <2>4. pointers' \subseteq 0 .. MaxFingers - 1
    BY <1>0, FreeFacts DEF FingerDown
  <2>5. dropped' \in BOOLEAN
    BY Zenon DEF FingerDown
  <2> QED
    BY <1>0, <2>1, <2>2, <2>3, <2>4, <2>5 DEF FingerDown, TypeOK
<1>2. KindInv'
  BY <1>0 DEF KindInv, BeginCancel, FingerDown
<1>3. MainInv'
  BY <1>0, FreeFacts DEF MainInv, BeginCancel, FingerDown
<1>4. QuietInv'
  <2>1. /\ pointers' # {} /\ 0 \in pointers'
        /\ p = 0 => 0 \notin pointers
        /\ fingers = 0 => pointers = {}
        /\ fingers \in Nat
    BY <1>0, FreeFacts, FingersFacts DEF FingerDown
  <2>2. UNCHANGED <<timer, down, mayStay, relative>> /\ main = "idle"
    BY DEF FingerDown
  <2>3. CASE cancelled[0]
    <3>1. Quiet
      BY <1>0, <2>2, <2>3 DEF QuietInv
    <3>2. Quiet' /\ main' # "confirm"
      BY <2>2, <3>1 DEF Quiet, NoTimers, FingerDown, BeginCancel
    <3> QED
      BY <3>2 DEF QuietInv
  <2>4. CASE ~cancelled[0]
    <3>1. cancelled'[0] => main' \in {"long", "timer"}
      BY <1>0, <2>2, <2>4 DEF FingerDown, TypeOK, Contexts, BeginCancel
    <3>2. main' # "lift"
      BY <2>2 DEF FingerDown, BeginCancel
    <3>3. main' \in {"reset", "resetTap"} => Quiet \/ mayStay = Buttons
      <4> SUFFICES ASSUME main' \in {"reset", "resetTap"} PROVE Quiet \/ mayStay = Buttons
        OBVIOUS
      <4>1. p = 0 /\ ~(~relative /\ fingers + 1 > 1)
        BY <2>2 DEF FingerDown, BeginCancel, Contexts
      <4>2. fingers = 0 \/ fingers + 1 > 1
        <5>1. \A n \in Nat : n = 0 \/ n + 1 > 1
          OBVIOUS
        <5> QED
          BY <2>1, <5>1
      <4>3. relative \/ pointers = {}
        BY <2>1, <4>1, <4>2
      <4> QED
        BY <1>0, <2>1, <2>2, <4>1, <4>3 DEF QuietInv
    <3> QED
      BY <2>1, <2>2, <3>1, <3>2, <3>3 DEF QuietInv, Quiet, NoTimers
  <2> QED
    BY <2>3, <2>4
<1>5. DownInv'
  BY <1>0 DEF DownInv, Raised, FingerDown
<1>6. MoveOrDrag'
  BY <1>0 DEF MoveOrDrag, TypeOK, Contexts, FingerDown
<1>7. TapInv'
  BY <1>0, FreeFacts, FingersFacts, CountedFacts DEF TapInv, TypeOK, Contexts, FingerDown
<1> QED
  BY <1>1, <1>2, <1>3, <1>4, <1>5, <1>6, <1>7 DEF IInv

\* The third finger cancels the touch.
LEMMA ThirdFingerDownInv ==
    ASSUME IInv, NEW p \in 0 .. MaxFingers - 1, ThirdFingerDown(p)
    PROVE  IInv'
<1>0. TypeOK /\ KindInv /\ MainInv /\ QuietInv /\ DownInv /\ MoveOrDrag /\ TapInv
  BY DEF IInv
<1>1. TypeOK'
  BY <1>0 DEF TypeOK, Steps, BeginCancel, ThirdFingerDown
<1>2. KindInv'
  BY <1>0 DEF KindInv, BeginCancel, ThirdFingerDown
<1>3. MainInv'
  BY <1>0 DEF MainInv, BeginCancel, ThirdFingerDown
<1>4. QuietInv'
  BY <1>0 DEF QuietInv, BeginCancel, ThirdFingerDown
<1>5. DownInv'
  BY <1>0 DEF DownInv, Raised, ThirdFingerDown
<1>6. MoveOrDrag'
  BY <1>0 DEF MoveOrDrag, ThirdFingerDown
<1>7. TapInv'
  BY <1>0, TwoFingers DEF TapInv, ThirdFingerDown
<1> QED
  BY <1>1, <1>2, <1>3, <1>4, <1>5, <1>6, <1>7 DEF IInv

\* A release that is dropped gives up the buttons, unless the touch was cancelled.
LEMMA DropUpInv ==
    ASSUME IInv, NEW ps \in SUBSET pointers, ps # {}, DropUp(ps)
    PROVE  IInv'
<1>0. TypeOK /\ KindInv /\ MainInv /\ QuietInv /\ DownInv /\ MoveOrDrag /\ TapInv
  BY DEF IInv
<1>1. TypeOK'
  BY <1>0 DEF TypeOK, DropUp
<1>2. KindInv'
  BY <1>0 DEF KindInv, DropUp
<1>3. MainInv'
  BY <1>0 DEF MainInv, DropUp
<1>4. QuietInv'
  <2>1. CASE cancelled[0]
    <3>1. Quiet
      BY <1>0, <2>1 DEF QuietInv, DropUp
    <3> QED
      BY <2>1, <3>1 DEF QuietInv, Quiet, NoTimers, DropUp
  <2>2. CASE ~cancelled[0] /\ \A p \in pointers \ ps : Index(p) # 0
    BY <2>2 DEF QuietInv, DropUp
  <2>3. CASE ~cancelled[0] /\ \E p \in pointers \ ps : Index(p) = 0
    <3>1. PICK p \in pointers \ ps : Index(p) = 0
      BY <2>3
    <3>2. pointers' # {} /\ (0 \notin pointers' => 0 \notin pointers)
      BY <1>0, <3>1, IndexFacts DEF DropUp
    <3>3. mayStay' = mayStay
      BY <2>3 DEF DropUp
    <3> QED
      BY <1>0, <2>3, <3>2, <3>3 DEF QuietInv, Quiet, NoTimers, DropUp
  <2> QED
    BY <2>1, <2>2, <2>3
<1>5. DownInv'
  BY <1>0 DEF DownInv, Raised, TypeOK, DropUp
<1>6. MoveOrDrag'
  BY <1>0 DEF MoveOrDrag, DropUp
<1>7. TapInv'
  BY <1>0 DEF TapInv, DropUp
<1> QED
  BY <1>1, <1>2, <1>3, <1>4, <1>5, <1>6, <1>7 DEF IInv

\* A finger of a context lifts: its touch ends, or the tap of three fingers does.
LEMMA FingerUpInv ==
    ASSUME IInv, NEW p \in pointers, FingerUp(p)
    PROVE  IInv'
<1>0. TypeOK /\ KindInv /\ MainInv /\ QuietInv /\ DownInv /\ MoveOrDrag /\ TapInv
  BY DEF IInv
<1>1. TypeOK'
  <2>1. maxPointers' \in [Contexts -> 0 .. MaxFingers]
    <3>1. fingers - 1 \in 0 .. MaxFingers
      <4>1. fingers \in Nat /\ fingers # 0 /\ fingers <= MaxFingers /\ MaxFingers \in Nat
        BY <1>0, FingersFacts
      <4> QED
        BY <4>1
    <3> QED
      BY <1>0, <3>1, CountedFacts DEF FingerUp, TypeOK
  <2>2. cancelled' \in [Contexts -> BOOLEAN]
    BY <1>0, Zenon DEF FingerUp, TypeOK, Contexts
  <2>3. main' \in Steps /\ after' \in {"idle", "lift", "reset", "secondary"}
    BY <1>0 DEF FingerUp, TypeOK, BeginCancel, Steps
  <2>4. clicked' \subseteq Clicks
    BY <1>0 DEF FingerUp, TypeOK, Clicks, Buttons
  <2> QED
    BY <1>0, <2>1, <2>2, <2>3, <2>4 DEF FingerUp, TypeOK
<1>2. KindInv'
  BY <1>0 DEF KindInv, BeginCancel, FingerUp
<1>3. MainInv'
  BY <1>0, IndexFacts DEF MainInv, BeginCancel, FingerUp
<1>4. QuietInv'
  <2>1. Index(p) # 0 =>
          pointers' # {} /\ (0 \notin pointers' => 0 \notin pointers)
    BY <1>0, IndexFacts DEF FingerUp
  <2>2. down' = {} /\ timer' = timer /\ main = "idle"
    BY DEF FingerUp
  <2>3. CASE cancelled[0]
    <3>1. NoTimers
      BY <1>0, <2>2, <2>3 DEF QuietInv, Quiet
    <3>2. Quiet'
      BY <2>2, <3>1 DEF Quiet, NoTimers
    <3>3. main' \notin {"reset", "resetTap"}
      BY <2>2 DEF FingerUp, BeginCancel
    <3> QED
      BY <3>2, <3>3 DEF QuietInv
  <2>4. CASE ~cancelled[0] /\ fingers = 1 /\ threeFingers
    BY <2>2, <2>4 DEF QuietInv, FingerUp
  <2>5. CASE ~cancelled[0] /\ ~(fingers = 1 /\ threeFingers) /\ Index(p) = 0
    BY <1>0, <2>2, <2>5 DEF QuietInv, FingerUp, BeginCancel
  <2>6. CASE ~cancelled[0] /\ ~(fingers = 1 /\ threeFingers) /\ Index(p) # 0
    <3>1. cancelled'[0] => main' \in {"long", "timer"}
      BY <1>0, <2>6 DEF FingerUp, TypeOK, Contexts, BeginCancel
    <3>2. main' \in {"idle", "long", "timer"} /\ relative' = relative
      BY <2>2, <2>6 DEF FingerUp, BeginCancel
    <3>3. mayStay' = IF NoTimers THEN {} ELSE mayStay
      BY <2>6 DEF FingerUp
    <3>4. CASE NoTimers
      BY <2>2, <3>1, <3>2, <3>4 DEF QuietInv, Quiet, NoTimers
    <3>5. CASE ~NoTimers
      <4>1. pointers' # {} /\ (relative /\ 0 \notin pointers' => mayStay = Buttons)
        BY <1>0, <2>1, <2>2, <2>6, <3>5 DEF QuietInv, Quiet
      <4> QED
        BY <3>1, <3>2, <3>3, <3>5, <4>1 DEF QuietInv
    <3> QED
      BY <3>4, <3>5
  <2> QED
    BY <2>3, <2>4, <2>5, <2>6
<1>5. DownInv'
  BY <1>0 DEF DownInv, FingerUp
<1>6. MoveOrDrag'
  BY <1>0 DEF MoveOrDrag, FingerUp
<1>7. TapInv'
  BY <1>0, IndexFacts, FingersFacts, CountedFacts DEF TapInv, FingerUp
<1> QED
  BY <1>1, <1>2, <1>3, <1>4, <1>5, <1>6, <1>7 DEF IInv

\* A finger without a context lifts, and it is not finger 0.
LEMMA OtherFingerUpInv ==
    ASSUME IInv, NEW p \in pointers, OtherFingerUp(p)
    PROVE  IInv'
<1>0. TypeOK /\ KindInv /\ MainInv /\ QuietInv /\ DownInv /\ MoveOrDrag /\ TapInv
  BY DEF IInv
<1>1. TypeOK'
  BY <1>0 DEF TypeOK, OtherFingerUp
<1>2. KindInv'
  BY <1>0 DEF KindInv, OtherFingerUp
<1>3. MainInv'
  BY <1>0 DEF MainInv, OtherFingerUp
<1>4. QuietInv'
  <2>1. /\ pointers' # {}
        /\ 0 \notin pointers' => 0 \notin pointers
    BY <1>0, IndexFacts DEF OtherFingerUp, Contexts
  <2> QED
    BY <1>0, <2>1 DEF QuietInv, Quiet, NoTimers, OtherFingerUp
<1>5. DownInv'
  BY <1>0 DEF DownInv, Raised, OtherFingerUp
<1>6. MoveOrDrag'
  BY <1>0 DEF MoveOrDrag, OtherFingerUp
<1>7. TapInv'
  BY <1>0 DEF TapInv, OtherFingerUp
<1> QED
  BY <1>1, <1>2, <1>3, <1>4, <1>5, <1>6, <1>7 DEF IInv

\* A move confirms itself and takes the drag's timer along.
LEMMA RelativeMoveInv ==
    ASSUME IInv, NEW c \in Contexts, RelativeMove(c)
    PROVE  IInv'
<1>0. TypeOK /\ KindInv /\ MainInv /\ QuietInv /\ DownInv /\ MoveOrDrag /\ TapInv
  BY DEF IInv
<1>t. /\ timer' \in [Timers -> BOOLEAN]
      /\ tasks' \in [Timers -> 0 .. MaxTasks]
  BY <1>0, CancelEffect DEF RelativeMove, Timers, TypeOK
<1>1. TypeOK'
  BY <1>0, <1>t DEF TypeOK, RelativeMove
<1>2. KindInv'
  BY <1>0, CancelEffect DEF KindInv, Timers, RelativeMove
<1>3. MainInv'
  BY <1>0 DEF MainInv, RelativeMove
<1>4. QuietInv'
  BY <1>0, CancelEffect DEF QuietInv, Quiet, NoTimers, Timers, RelativeMove
<1>5. DownInv'
  BY <1>0 DEF DownInv, Raised, RelativeMove
<1>6. MoveOrDrag'
  BY <1>0 DEF MoveOrDrag, RelativeMove
<1>7. TapInv'
  BY <1>0 DEF TapInv, RelativeMove
<1> QED
  BY <1>1, <1>2, <1>3, <1>4, <1>5, <1>6, <1>7 DEF IInv

\* A move beyond a threshold cancels the long press or confirms the tap.
LEMMA AbsoluteMoveInv ==
    ASSUME IInv, AbsoluteMove
    PROVE  IInv'
<1>0. TypeOK /\ KindInv /\ MainInv /\ QuietInv /\ DownInv /\ MoveOrDrag /\ TapInv
  BY DEF IInv
<1>t. /\ timer' \in [Timers -> BOOLEAN]
      /\ tasks' \in [Timers -> 0 .. MaxTasks]
  BY <1>0, CancelEffect DEF AbsoluteMove, Timers, TypeOK
<1>1. TypeOK'
  BY <1>0, <1>t DEF TypeOK, Steps, AbsoluteMove
<1>2. KindInv'
  BY <1>0, CancelEffect DEF KindInv, Timers, AbsoluteMove
<1>3. MainInv'
  BY <1>0, FingersFacts DEF MainInv, AbsoluteMove
<1>4. QuietInv'
  BY <1>0, CancelEffect DEF QuietInv, Quiet, NoTimers, Timers, AbsoluteMove
<1>5. DownInv'
  BY <1>0 DEF DownInv, Raised, AbsoluteMove
<1>6. MoveOrDrag'
  BY <1>0 DEF MoveOrDrag, AbsoluteMove
<1>7. TapInv'
  BY <1>0 DEF TapInv, AbsoluteMove
<1> QED
  BY <1>1, <1>2, <1>3, <1>4, <1>5, <1>6, <1>7 DEF IInv

\* ACTION_CANCEL begins cancelTouch().
LEMMA CancelInv ==
    ASSUME IInv, Cancel
    PROVE  IInv'
<1>0. TypeOK /\ KindInv /\ MainInv /\ QuietInv /\ DownInv /\ MoveOrDrag /\ TapInv
  BY DEF IInv
<1>1. TypeOK'
  BY <1>0 DEF TypeOK, Steps, BeginCancel, Cancel
<1>2. KindInv'
  BY <1>0 DEF KindInv, BeginCancel, Cancel
<1>3. MainInv'
  BY <1>0 DEF MainInv, BeginCancel, Cancel
<1>4. QuietInv'
  BY <1>0 DEF QuietInv, BeginCancel, Cancel
<1>5. DownInv'
  BY <1>0 DEF DownInv, Raised, Cancel
<1>6. MoveOrDrag'
  BY <1>0 DEF MoveOrDrag, Cancel
<1>7. TapInv'
  BY <1>0 DEF TapInv, Cancel
<1> QED
  BY <1>1, <1>2, <1>3, <1>4, <1>5, <1>6, <1>7 DEF IInv

\* The grab is toggled between events.
LEMMA ToggleGrabInv ==
    ASSUME IInv, ToggleGrab
    PROVE  IInv'
<1>0. TypeOK /\ KindInv /\ MainInv /\ QuietInv /\ DownInv /\ MoveOrDrag /\ TapInv
  BY DEF IInv
<1>1. TypeOK'
  BY <1>0 DEF TypeOK, ToggleGrab
<1>2. KindInv'
  BY <1>0 DEF KindInv, ToggleGrab
<1>3. MainInv'
  BY <1>0 DEF MainInv, ToggleGrab
<1>4. QuietInv'
  BY <1>0 DEF QuietInv, Quiet, NoTimers, ToggleGrab
<1>5. DownInv'
  BY <1>0 DEF DownInv, Raised, ToggleGrab
<1>6. MoveOrDrag'
  BY <1>0 DEF MoveOrDrag, ToggleGrab
<1>7. TapInv'
  BY <1>0 DEF TapInv, ToggleGrab
<1> QED
  BY <1>1, <1>2, <1>3, <1>4, <1>5, <1>6, <1>7 DEF IInv

\* The flags of a new touch, once the tap's timer is cancelled.
LEMMA ResetLongInv ==
    ASSUME IInv, ResetLong
    PROVE  IInv'
<1>0. TypeOK /\ KindInv /\ MainInv /\ QuietInv /\ DownInv /\ MoveOrDrag /\ TapInv
  BY DEF IInv
<1>1. TypeOK'
  BY <1>0 DEF TypeOK, Steps, ResetLong
<1>2. KindInv'
  BY <1>0 DEF KindInv, ResetLong
<1>3. MainInv'
  BY <1>0 DEF MainInv, ResetLong
<1>4. QuietInv'
  BY <1>0 DEF QuietInv, Quiet, NoTimers, ResetLong
<1>5. DownInv'
  BY <1>0 DEF DownInv, TypeOK, QuietInv, Quiet, ResetLong
<1>6. MoveOrDrag'
  BY <1>0 DEF MoveOrDrag, ResetLong
<1>7. TapInv'
  BY <1>0 DEF TapInv, ResetLong
<1> QED
  BY <1>1, <1>2, <1>3, <1>4, <1>5, <1>6, <1>7 DEF IInv

\* The flags of a new touch: from here on it is not cancelled.
LEMMA ResetInv ==
    ASSUME IInv, Reset
    PROVE  IInv'
<1>0. TypeOK /\ KindInv /\ MainInv /\ QuietInv /\ DownInv /\ MoveOrDrag /\ TapInv
  BY DEF IInv
<1>1. TypeOK'
  BY <1>0 DEF TypeOK, Steps, Reset
<1>2. KindInv'
  BY <1>0 DEF KindInv, Reset
<1>3. MainInv'
  BY <1>0 DEF MainInv, TypeOK, Contexts, Reset
<1>4. QuietInv'
  BY <1>0 DEF QuietInv, Quiet, NoTimers, Reset
<1>5. DownInv'
  BY <1>0 DEF DownInv, TypeOK, QuietInv, Quiet, Reset
<1>6. MoveOrDrag'
  BY <1>0 DEF MoveOrDrag, Reset
<1>7. TapInv'
  BY <1>0 DEF TapInv, Reset
<1> QED
  BY <1>1, <1>2, <1>3, <1>4, <1>5, <1>6, <1>7 DEF IInv

\* The timers of a new touch are set only for a finger 0 that is down.
LEMMA StartInv ==
    ASSUME IInv, Start
    PROVE  IInv'
<1>0. TypeOK /\ KindInv /\ MainInv /\ QuietInv /\ DownInv /\ MoveOrDrag /\ TapInv
  BY DEF IInv
<1>t. /\ timer' \in [Timers -> BOOLEAN]
      /\ tasks' \in [Timers -> 0 .. MaxTasks]
  BY <1>0, StartEffect DEF Start, Timers
<1>1. TypeOK'
  BY <1>0, <1>t DEF TypeOK, Steps, Start
<1>2. KindInv'
  BY <1>0, StartEffect DEF KindInv, Timers, Start
<1>3. MainInv'
  BY <1>0 DEF MainInv, Start
<1>4. QuietInv'
  BY <1>0 DEF QuietInv, MainInv, Start
<1>5. DownInv'
  BY <1>0 DEF DownInv, Raised, Start
<1>6. MoveOrDrag'
  BY <1>0 DEF MoveOrDrag, Start
<1>7. TapInv'
  BY <1>0 DEF TapInv, Start
<1> QED
  BY <1>1, <1>2, <1>3, <1>4, <1>5, <1>6, <1>7 DEF IInv

\* The button of a stylus is given up at once.
LEMMA SecondaryButtonInv ==
    ASSUME IInv, SecondaryButton
    PROVE  IInv'
<1>0. TypeOK /\ KindInv /\ MainInv /\ QuietInv /\ DownInv /\ MoveOrDrag /\ TapInv
  BY DEF IInv
<1>1. TypeOK'
  BY <1>0 DEF TypeOK, Steps, Buttons, SecondaryButton
<1>2. KindInv'
  BY <1>0 DEF KindInv, SecondaryButton
<1>3. MainInv'
  BY <1>0 DEF MainInv, SecondaryButton
<1>4. QuietInv'
  BY <1>0 DEF QuietInv, MainInv, Quiet, NoTimers, SecondaryButton
<1>5. DownInv'
  BY <1>0 DEF DownInv, Raised, SecondaryButton
<1>6. MoveOrDrag'
  BY <1>0 DEF MoveOrDrag, SecondaryButton
<1>7. TapInv'
  BY <1>0 DEF TapInv, SecondaryButton
<1> QED
  BY <1>1, <1>2, <1>3, <1>4, <1>5, <1>6, <1>7 DEF IInv

\* The first timer of an absolute context is cancelled.
LEMMA CancelLongInv ==
    ASSUME IInv, CancelLong
    PROVE  IInv'
<1>0. TypeOK /\ KindInv /\ MainInv /\ QuietInv /\ DownInv /\ MoveOrDrag /\ TapInv
  BY DEF IInv
<1>t. /\ timer' \in [Timers -> BOOLEAN]
      /\ tasks' \in [Timers -> 0 .. MaxTasks]
  BY <1>0, CancelEffect DEF CancelLong, Timers, TypeOK
<1>1. TypeOK'
  BY <1>0, <1>t DEF TypeOK, Steps, CancelLong
<1>2. KindInv'
  BY <1>0, CancelEffect DEF KindInv, Timers, CancelLong
<1>3. MainInv'
  BY <1>0 DEF MainInv, CancelLong
<1>4. QuietInv'
  BY <1>0 DEF QuietInv, CancelLong
<1>5. DownInv'
  BY <1>0 DEF DownInv, Raised, CancelLong
<1>6. MoveOrDrag'
  BY <1>0 DEF MoveOrDrag, CancelLong
<1>7. TapInv'
  BY <1>0 DEF TapInv, CancelLong
<1> QED
  BY <1>1, <1>2, <1>3, <1>4, <1>5, <1>6, <1>7 DEF IInv

\* After the last timer is cancelled no task can press, and what was down is raised.
LEMMA CancelTimersInv ==
    ASSUME IInv, CancelTimers
    PROVE  IInv'
<1>0. TypeOK /\ KindInv /\ MainInv /\ QuietInv /\ DownInv /\ MoveOrDrag /\ TapInv
  BY DEF IInv
<1>t. /\ timer' \in [Timers -> BOOLEAN]
      /\ tasks' \in [Timers -> 0 .. MaxTasks]
  BY <1>0, CancelEffect DEF CancelTimers, Timers, TypeOK
<1>1. TypeOK'
  BY <1>0, <1>t DEF TypeOK, Steps, CancelTimers
<1>2. KindInv'
  BY <1>0, CancelEffect DEF KindInv, TypeOK, Timers, BeginCancel, CancelTimers
<1>3. MainInv'
  BY <1>0 DEF MainInv, TypeOK, CancelTimers
<1>4. QuietInv'
  BY <1>0, CancelEffect DEF QuietInv, DownInv, KindInv, Quiet, NoTimers, Timers, CancelTimers
<1>5. DownInv'
  BY <1>0 DEF DownInv, CancelTimers
<1>6. MoveOrDrag'
  BY <1>0 DEF MoveOrDrag, CancelTimers
<1>7. TapInv'
  BY <1>0 DEF TapInv, CancelTimers
<1> QED
  BY <1>1, <1>2, <1>3, <1>4, <1>5, <1>6, <1>7 DEF IInv

\* The tap of a release comes after its timers; it adds no second button.
LEMMA LiftInv ==
    ASSUME IInv, Lift
    PROVE  IInv'
<1>0. TypeOK /\ KindInv /\ MainInv /\ QuietInv /\ DownInv /\ MoveOrDrag /\ TapInv
  BY DEF IInv
<1>1. TypeOK'
  <2>1. maxPointers' \in [Contexts -> 0 .. MaxFingers]
    <3>1. fingers \in 0 .. MaxFingers
      BY <1>0, FingersFacts
    <3> QED
      BY <1>0, <3>1, CountedFacts DEF Lift
  <2>2. cancelled' \in [Contexts -> BOOLEAN]
    BY <1>0, Zenon DEF Lift, TypeOK, Contexts
  <2>3. main' \in Steps /\ after' \in {"idle", "lift", "reset", "secondary"}
    BY <1>0 DEF Lift, TypeOK, BeginCancel, Steps
  <2>4. clicked' \subseteq Clicks /\ confirmedTap' \in BOOLEAN
    BY <1>0 DEF Lift, TypeOK, Clicks, Buttons
  <2> QED
    BY <1>0, <2>1, <2>2, <2>3, <2>4 DEF Lift, TypeOK
<1>2. KindInv'
  BY <1>0 DEF KindInv, BeginCancel, Lift
<1>3. MainInv'
  BY <1>0 DEF MainInv, BeginCancel, Lift
<1>4. QuietInv'
  BY <1>0 DEF QuietInv, Quiet, NoTimers, Lift
<1>5. DownInv'
  BY <1>0 DEF DownInv, QuietInv, Quiet, Lift
<1>6. MoveOrDrag'
  BY <1>0 DEF MoveOrDrag, Lift
<1>7. TapInv'
  <2>1. /\ fingers \in 0 .. MaxFingers
        /\ maxPointers'[0] >= maxPointers[0] /\ maxPointers[0] \in Nat
    <3>1. fingers \in 0 .. MaxFingers
      BY <1>0, FingersFacts
    <3> QED
      BY <1>0, <3>1, CountedFacts DEF Lift
  <2>2. maxPointers'[0] \in Nat /\ (maxPointers[0] >= 2 => maxPointers'[0] >= 2)
    <3>1. maxPointers'[0] \in 0 .. MaxFingers
      BY <1>1 DEF TypeOK, Contexts
    <3> QED
      BY <2>1, <3>1
  <2>3. UNCHANGED <<relative, pointers, dropped>> /\ 0 \notin pointers
    BY <1>0 DEF Lift, MainInv
  <2>4. CASE ~relative
    BY <1>0, <2>3, <2>4 DEF TapInv, Lift
  <2>5. CASE relative /\ clicked' = clicked
    BY <1>0, <2>2, <2>3, <2>5 DEF TapInv
  <2>6. CASE relative /\ CanTap(0) /\ clicked' = clicked \cup {"left"}
    <3>1. maxPointers[0] = 1
      BY <2>6 DEF CanTap
    <3>2. ~(maxPointers[0] >= 2)
      BY <3>1
    <3>3. ~dropped => pointers = {} /\ "right" \notin clicked
      BY <1>0, <2>3, <2>6, <3>2 DEF TapInv
    <3> QED
      BY <2>3, <2>6, <3>3 DEF TapInv
  <2> QED
    BY <2>4, <2>5, <2>6 DEF Lift
<1> QED
  BY <1>1, <1>2, <1>3, <1>4, <1>5, <1>6, <1>7 DEF IInv

\* The rest of tapConfirmed() gives up its button if the long press came between.
LEMMA ConfirmTapInv ==
    ASSUME IInv, ConfirmTap
    PROVE  IInv'
<1>0. TypeOK /\ KindInv /\ MainInv /\ QuietInv /\ DownInv /\ MoveOrDrag /\ TapInv
  BY DEF IInv
<1>t. /\ timer' \in [Timers -> BOOLEAN]
      /\ tasks' \in [Timers -> 0 .. MaxTasks]
  BY <1>0, CancelEffect DEF ConfirmTap, Timers, TypeOK
<1>1. TypeOK'
  BY <1>0, <1>t DEF TypeOK, Steps, Buttons, ConfirmTap
<1>2. KindInv'
  BY <1>0, CancelEffect DEF KindInv, Timers, ConfirmTap
<1>3. MainInv'
  BY <1>0 DEF MainInv, ConfirmTap
<1>4. QuietInv'
  BY <1>0 DEF QuietInv, MainInv, KindInv, ConfirmTap
<1>5. DownInv'
  BY <1>0 DEF DownInv, Raised, KindInv, ConfirmTap
<1>6. MoveOrDrag'
  BY <1>0 DEF MoveOrDrag, ConfirmTap
<1>7. TapInv'
  BY <1>0 DEF TapInv, ConfirmTap
<1> QED
  BY <1>1, <1>2, <1>3, <1>4, <1>5, <1>6, <1>7 DEF IInv

\* Time that passes changes nothing that is said here.
LEMMA ThresholdPassesInv ==
    ASSUME IInv, ThresholdPasses
    PROVE  IInv'
<1>0. TypeOK /\ KindInv /\ MainInv /\ QuietInv /\ DownInv /\ MoveOrDrag /\ TapInv
  BY DEF IInv
<1>1. TypeOK'
  BY <1>0 DEF TypeOK, ThresholdPasses
<1>2. KindInv'
  BY <1>0 DEF KindInv, ThresholdPasses
<1>3. MainInv'
  BY <1>0 DEF MainInv, ThresholdPasses
<1>4. QuietInv'
  BY <1>0 DEF QuietInv, Quiet, NoTimers, ThresholdPasses
<1>5. DownInv'
  BY <1>0 DEF DownInv, Raised, ThresholdPasses
<1>6. MoveOrDrag'
  BY <1>0 DEF MoveOrDrag, ThresholdPasses
<1>7. TapInv'
  BY <1>0 DEF TapInv, ThresholdPasses
<1> QED
  BY <1>1, <1>2, <1>3, <1>4, <1>5, <1>6, <1>7 DEF IInv

\* A task whose test fails presses nothing.
LEMMA TaskIgnoredInv ==
    ASSUME IInv, NEW x \in Timers, TaskIgnored(x)
    PROVE  IInv'
<1>0. TypeOK /\ KindInv /\ MainInv /\ QuietInv /\ DownInv /\ MoveOrDrag /\ TapInv
  BY DEF IInv
<1>t. /\ timer' \in [Timers -> BOOLEAN]
      /\ tasks' \in [Timers -> 0 .. MaxTasks]
  BY <1>0, TaskDone DEF TaskIgnored, Timers, TypeOK
<1>1. TypeOK'
  BY <1>0, <1>t DEF TypeOK, TaskIgnored
<1>2. KindInv'
  BY <1>0 DEF KindInv, TaskIgnored
<1>3. MainInv'
  BY <1>0 DEF MainInv, TaskIgnored
<1>4. QuietInv'
  BY <1>0 DEF QuietInv, Quiet, NoTimers, TaskIgnored
<1>5. DownInv'
  BY <1>0 DEF DownInv, Raised, TaskIgnored
<1>6. MoveOrDrag'
  BY <1>0 DEF MoveOrDrag, TaskIgnored
<1>7. TapInv'
  BY <1>0 DEF TapInv, TaskIgnored
<1> QED
  BY <1>1, <1>2, <1>3, <1>4, <1>5, <1>6, <1>7 DEF IInv

\* The drag presses a button that the touch of finger 0 will raise.
LEMMA DragTaskInv ==
    ASSUME IInv, DragTask
    PROVE  IInv'
<1>0. TypeOK /\ KindInv /\ MainInv /\ QuietInv /\ DownInv /\ MoveOrDrag /\ TapInv
  BY DEF IInv
<1>t. /\ timer' \in [Timers -> BOOLEAN]
      /\ tasks' \in [Timers -> 0 .. MaxTasks]
  BY <1>0, TaskDone DEF DragTask, Timers, TypeOK
<1>1. TypeOK'
  BY <1>0, <1>t DEF TypeOK, Buttons, DragTask
<1>2. KindInv'
  BY <1>0 DEF KindInv, DragTask
<1>3. MainInv'
  BY <1>0 DEF MainInv, DragTask
<1>4. QuietInv'
  BY <1>0, <1>t DEF QuietInv, Quiet, NoTimers, DragTask
<1>5. DownInv'
  BY <1>0 DEF DownInv, Raised, KindInv, DragTask
<1>6. MoveOrDrag'
  BY <1>0 DEF MoveOrDrag, DragTask
<1>7. TapInv'
  BY <1>0 DEF TapInv, DragTask
<1> QED
  BY <1>1, <1>2, <1>3, <1>4, <1>5, <1>6, <1>7 DEF IInv

\* The tap's task presses a button that the touch of finger 0 will raise.
LEMMA TapTaskInv ==
    ASSUME IInv, TapTask
    PROVE  IInv'
<1>0. TypeOK /\ KindInv /\ MainInv /\ QuietInv /\ DownInv /\ MoveOrDrag /\ TapInv
  BY DEF IInv
<1>t. /\ timer' \in [Timers -> BOOLEAN]
      /\ tasks' \in [Timers -> 0 .. MaxTasks]
  BY <1>0, TaskDone DEF TapTask, Timers, TypeOK
<1>1. TypeOK'
  BY <1>0, <1>t DEF TypeOK, Contexts, Timers, Buttons, TapTask
<1>2. KindInv'
  BY <1>0 DEF KindInv, TapTask
<1>3. MainInv'
  BY <1>0 DEF MainInv, TapTask
<1>4. QuietInv'
  BY <1>0, <1>t DEF QuietInv, Quiet, NoTimers, TapTask
<1>5. DownInv'
  BY <1>0 DEF DownInv, Raised, KindInv, TapTask
<1>6. MoveOrDrag'
  BY <1>0 DEF MoveOrDrag, TapTask
<1>7. TapInv'
  BY <1>0 DEF TapInv, TapTask
<1> QED
  BY <1>1, <1>2, <1>3, <1>4, <1>5, <1>6, <1>7 DEF IInv

\* The long press puts the right button in the place of the left one.
LEMMA LongPressTaskInv ==
    ASSUME IInv, LongPressTask
    PROVE  IInv'
<1>0. TypeOK /\ KindInv /\ MainInv /\ QuietInv /\ DownInv /\ MoveOrDrag /\ TapInv
  BY DEF IInv
<1>t. /\ timer' \in [Timers -> BOOLEAN]
      /\ tasks' \in [Timers -> 0 .. MaxTasks]
  BY <1>0, LongPressTasks DEF LongPressTask, Timers, TypeOK
<1>1. TypeOK'
  BY <1>0, <1>t DEF TypeOK, Contexts, Timers, Buttons, LongPressTask
<1>2. KindInv'
  BY <1>0, <1>t DEF KindInv, Timers, LongPressTask
<1>3. MainInv'
  BY <1>0 DEF MainInv, LongPressTask
<1>4. QuietInv'
  BY <1>0 DEF QuietInv, Quiet, NoTimers, Timers, LongPressTask
<1>5. DownInv'
  BY <1>0 DEF DownInv, Raised, KindInv, LongPressTask
<1>6. MoveOrDrag'
  BY <1>0 DEF MoveOrDrag, LongPressTask
<1>7. TapInv'
  BY <1>0 DEF TapInv, LongPressTask
<1> QED
  BY <1>1, <1>2, <1>3, <1>4, <1>5, <1>6, <1>7 DEF IInv

-----------------------------------------------------------------------------
(***************************************************************************)
(* The theorems.                                                           *)
(***************************************************************************)

\* At first nothing is touched and no timer is set.
LEMMA InitIInv ==
    ASSUME Init
    PROVE  IInv
<1>1. TypeOK
  <2>1. MaxFingers \in Nat /\ MaxTasks \in Nat /\ 0 \in 0 .. MaxFingers /\ 0 \in 0 .. MaxTasks
    BY BoundsAssumption
  <2>2. /\ maxPointers \in [Contexts -> 0 .. MaxFingers] /\ tasks \in [Timers -> 0 .. MaxTasks]
        /\ timer \in [Timers -> BOOLEAN] /\ cancelled \in [Contexts -> BOOLEAN]
        /\ confirmedMove \in [Contexts -> BOOLEAN]
    BY <2>1 DEF Init
  <2> QED
    BY <2>2 DEF Init, TypeOK, Steps
<1>2. KindInv /\ MainInv
  BY DEF Init, KindInv, MainInv, Timers
<1>3. QuietInv /\ DownInv
  BY DEF Init, QuietInv, Quiet, NoTimers, DownInv
<1>4. MoveOrDrag /\ TapInv
  BY DEF Init, MoveOrDrag, TapInv
<1> QED
  BY <1>1, <1>2, <1>3, <1>4 DEF IInv

\* Every step of the main thread keeps the invariant.
LEMMA MainStepInv ==
    ASSUME IInv, MainStep
    PROVE  IInv'
<1>1. ASSUME NEW p \in 0 .. MaxFingers - 1, DropDown(p) \/ FingerDown(p) \/ ThirdFingerDown(p)
      PROVE  IInv'
  BY <1>1, DropDownInv, FingerDownInv, ThirdFingerDownInv
<1>2. ASSUME NEW p \in pointers, DropUp({p}) PROVE IInv'
  BY <1>2, DropUpInv
<1>3. ASSUME NEW p \in pointers, FingerUp(p) \/ OtherFingerUp(p) PROVE IInv'
  BY <1>3, FingerUpInv, OtherFingerUpInv
<1>4. ASSUME pointers # {}, DropUp(pointers) PROVE IInv'
  BY <1>4, DropUpInv
<1>5. CASE \/ \E c \in Contexts : RelativeMove(c)
           \/ AbsoluteMove \/ Cancel \/ ToggleGrab
  BY <1>5, RelativeMoveInv, AbsoluteMoveInv, CancelInv, ToggleGrabInv
<1>6. CASE ResetLong \/ Reset \/ Start \/ SecondaryButton
  BY <1>6, ResetLongInv, ResetInv, StartInv, SecondaryButtonInv
<1>7. CASE CancelLong \/ CancelTimers \/ Lift \/ ConfirmTap
  BY <1>7, CancelLongInv, CancelTimersInv, LiftInv, ConfirmTapInv
<1> QED
  BY <1>1, <1>2, <1>3, <1>4, <1>5, <1>6, <1>7 DEF MainStep

\* Every step keeps the invariant.
LEMMA NextIInv ==
    ASSUME IInv, [Next]_vars
    PROVE  IInv'
<1>1. CASE UNCHANGED vars
  <2>1. fingers' = fingers
    BY <1>1 DEF vars, fingers
  <2> QED
    BY <1>1, <2>1 DEF IInv, vars, TypeOK, KindInv, MainInv, QuietInv, Quiet, NoTimers,
                      DownInv, Raised, MoveOrDrag, TapInv
<1>2. CASE MainStep
  BY <1>2, MainStepInv
<1>3. CASE Task
  BY <1>3, TaskIgnoredInv, DragTaskInv, TapTaskInv, LongPressTaskInv DEF Task
<1>4. CASE ThresholdPasses
  BY <1>4, ThresholdPassesInv
<1> QED
  BY <1>1, <1>2, <1>3, <1>4 DEF Next

\* IInv holds in every reachable state.
THEOREM Invariant == Spec => []IInv
<1>1. Init => IInv
  BY InitIInv
<1>2. IInv /\ [Next]_vars => IInv'
  BY NextIInv
<1> QED
  BY <1>1, <1>2, PTL DEF Spec

\* However late the timers' tasks run, between whichever steps of the main thread,
\* a host without a finger on the screen, or whose touch was cancelled, has no button
\* down but those that the code gives up.
THEOREM ButtonsAreReleased == Spec => []NoButtonWithoutFinger
<1>1. IInv => NoButtonWithoutFinger
  <2> SUFFICES ASSUME IInv, main = "idle", fingers = 0 \/ cancelled[0]
               PROVE  down \subseteq mayStay
    BY DEF NoButtonWithoutFinger, IInv
  <2>1. TypeOK /\ QuietInv
    BY DEF IInv
  <2>2. pointers = {} \/ cancelled[0]
    BY <2>1, FingersFacts
  <2>3. down \subseteq Buttons
    BY <2>1 DEF TypeOK
  <2> QED
    BY <2>1, <2>2, <2>3 DEF QuietInv, Quiet
<1> QED
  BY <1>1, Invariant, PTL

\* A touch of a relative context is a move or a drag, however late the drag's task
\* runs.
THEOREM MoveOrDragHolds == Spec => []MoveOrDrag
<1>1. IInv => MoveOrDrag
  BY DEF IInv
<1> QED
  BY <1>1, Invariant, PTL

\* The contexts tap one button in a gesture of which no event was dropped, with as
\* many fingers as there may be, in whatever order they lift.
THEOREM GesturesTapOnce == Spec => []OneTapPerGesture
<1>1. IInv => OneTapPerGesture
  <2> SUFFICES ASSUME IInv, ~dropped PROVE Cardinality(clicked \cap Buttons) <= 1
    BY DEF OneTapPerGesture
  <2>1. "left" \notin clicked \/ "right" \notin clicked
    BY DEF IInv, TapInv, TypeOK
  <2>2. clicked \cap Buttons \in {{}, {"left"}, {"right"}}
    BY <2>1 DEF Buttons
  <2>3. Cardinality({}) = 0
    BY FS_EmptySet
  <2>4. Cardinality({"left"}) = 1 /\ Cardinality({"right"}) = 1
    BY FS_Singleton
  <2> QED
    BY <2>2, <2>3, <2>4
<1> QED
  BY <1>1, Invariant, PTL

\* A button goes down for a cancelled touch only while the timers are being
\* cancelled, or from a stylus.
LEMMA DownStep ==
    ASSUME IInv, [Next]_vars, down' \ down # {}, cancelled[0]
    PROVE  main \in {"long", "timer", "secondary"}
<1>1. QuietInv /\ MainInv
  BY DEF IInv
<1>2. CASE DragTask \/ TapTask \/ LongPressTask
  <2>1. \E x \in Timers : timer[x]
    BY <1>2 DEF DragTask, TapTask, LongPressTask, Timers
  <2>2. ~Quiet
    BY <2>1 DEF Quiet, NoTimers
  <2> QED
    BY <1>1, <2>2 DEF QuietInv
<1>3. CASE ConfirmTap
  BY <1>1, <1>3 DEF MainInv, ConfirmTap
<1>4. CASE SecondaryButton
  BY <1>4 DEF SecondaryButton
<1>5. ASSUME \/ \E p \in 0 .. MaxFingers - 1 : DropDown(p) \/ FingerDown(p) \/ ThirdFingerDown(p)
             \/ \E p \in pointers : DropUp({p}) \/ FingerUp(p) \/ OtherFingerUp(p)
             \/ pointers # {} /\ DropUp(pointers)
             \/ \E c \in Contexts : RelativeMove(c)
             \/ AbsoluteMove \/ Cancel \/ ToggleGrab
      PROVE  FALSE
  <2>1. down' \subseteq down
    BY <1>5 DEF DropDown, FingerDown, ThirdFingerDown, DropUp, FingerUp, OtherFingerUp,
                RelativeMove, AbsoluteMove, Cancel, ToggleGrab
  <2> QED
    BY <2>1
<1>6. ASSUME \/ ResetLong \/ Reset \/ Start \/ CancelLong \/ CancelTimers \/ Lift
             \/ \E x \in Timers : TaskIgnored(x)
             \/ ThresholdPasses
             \/ UNCHANGED vars
      PROVE  FALSE
  <2>1. down' \subseteq down
    BY <1>6 DEF ResetLong, Reset, Start, CancelLong, CancelTimers, Lift, TaskIgnored,
                ThresholdPasses, vars
  <2> QED
    BY <2>1
<1> QED
  BY <1>2, <1>3, <1>4, <1>5, <1>6 DEF Next, MainStep, Task

\* However late a task runs, it presses no button for a touch whose cancelTouch()
\* has ended.
THEOREM CancelledStayUp == Spec => CancelledFingersStayUp
<1>1. IInv /\ [Next]_vars =>
        [down' \ down # {} /\ cancelled[0] => main \in {"long", "timer", "secondary"}]_vars
  BY DownStep
<1> QED
  BY <1>1, Invariant, PTL DEF Spec, CancelledFingersStayUp
=============================================================================
