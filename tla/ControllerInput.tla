--------------------------- MODULE ControllerInput ---------------------------
(***************************************************************************)
(* ControllerHandler for the gamepads that Android reports as input        *)
(* devices.  Everything runs on the main thread: device callbacks, key and *)
(* motion events.  Modelled are the contexts of the devices, the           *)
(* controller numbers and what the host is told of them, the buttons with  *)
(* their emulated combinations, and mouse emulation.  Sticks, triggers and *)
(* hats are data of a packet; USB controllers, the on-screen controller,   *)
(* rumble and the quit combination are left out.                           *)
(*                                                                         *)
(* "A" stands for every button that is only passed on, and for the left    *)
(* mouse button in mouse emulation.                                        *)
(***************************************************************************)
EXTENDS Integers, FiniteSets, FiniteSetsExt

CONSTANTS
    Devices,          \* input devices; one that is gone may come back
    Gamepads,         \* those with joystick axes, which are all external
    KeysOf,           \* the keys of each device
    KindsOf,          \* what each device may tell of its keys, see Kinds
    MaxControllers    \* 4 in the code

Keys  == {"START", "SELECT", "BACK", "MODE", "L1", "R1", "A"}
Flags == {"PLAY", "BACK", "LB", "RB", "SPECIAL", "A"}

\* hasSelect and hasMode as createInputDeviceContextForDevice() finds them, and
\* whether Back is Start and Mode is Select ("ASUS Gamepad", ADT-1).
Kinds == { k \in [hasSelect : BOOLEAN, hasMode : BOOLEAN, remaps : BOOLEAN] :
             k.remaps => k.hasSelect /\ ~k.hasMode }

ASSUME DevicesAssumption ==
    /\ Gamepads \subseteq Devices
    /\ KeysOf \in [Devices -> SUBSET Keys]
    /\ KindsOf \in [Devices -> SUBSET Kinds]
    /\ MaxControllers \in Nat \ {0}

Numbers == 0 .. MaxControllers - 1

\* The bits of the short that tells the host of the controllers.
MaskBits == 0 .. 15

VARIABLES
    multiController,   \* the preference
    attached,          \* the devices that Android lists
    kind,              \* of each device
    contexts,          \* the devices that inputDeviceContexts has a context for
    context,           \* the contexts
    current,           \* currentControllers
    initial,           \* initialControllers
    held,              \* the keys of a device that went down and not up
    hostPad,           \* the buttons the host has down on each controller
    hostMask,          \* the controllers the host was told are there
    hostMouse          \* does the host have the left mouse button down

padVars  == <<multiController, kind>>
hostVars == <<hostPad, hostMask, hostMouse>>
vars == <<padVars, attached, contexts, context, current, initial, held, hostVars>>

\* A new InputDeviceContext of a device of kind k.
NewContext(k) ==
    [ number |-> 0, assigned |-> FALSE, reserved |-> FALSE,
      inputMap |-> {}, emulating |-> {},
      hasSelect |-> k.hasSelect, hasMode |-> k.hasMode,
      backIsStart |-> k.remaps, modeIsSelect |-> k.remaps,
      mouse |-> FALSE, lastA |-> FALSE ]

\* emulating is emulatingButtonFlags; mouse is mouseEmulationActive, and with it
\* the timer; lastA is the A flag of mouseEmulationLastInputMap.
Contexts ==
    [ number : Numbers, assigned : BOOLEAN, reserved : BOOLEAN,
      inputMap : SUBSET Flags, emulating : SUBSET {"SELECT", "SPECIAL"},
      hasSelect : BOOLEAN, hasMode : BOOLEAN, backIsStart : BOOLEAN,
      modeIsSelect : BOOLEAN, mouse : BOOLEAN, lastA : BOOLEAN ]

\* Before the first packet the host knows of no controller.
NotTold == {-1}

TypeOK ==
    /\ multiController \in BOOLEAN
    /\ attached \subseteq Devices
    /\ kind \in [Devices -> Kinds]
    /\ contexts \subseteq Devices
    /\ context \in [Devices -> Contexts]
    /\ current \subseteq Numbers
    /\ initial \subseteq MaskBits
    /\ held \in [Devices -> SUBSET Keys]
    /\ hostPad \in [Numbers -> SUBSET Flags]
    /\ hostMask \in (SUBSET (Numbers \cup MaskBits)) \cup {NotTold}
    /\ hostMouse \in BOOLEAN

\* getAttachedControllerMask() sets a bit for each gamepad that is attached at
\* first, also for those that find no free number later.
Init ==
    /\ multiController \in BOOLEAN
    /\ attached \in SUBSET Devices
    /\ kind \in {k \in [Devices -> Kinds] : \A d \in Devices : k[d] \in KindsOf[d]}
    /\ contexts = {}
    /\ context = [d \in Devices |-> NewContext(kind[d])]
    /\ current = {}
    /\ initial = {n \in MaskBits : n < Cardinality(attached \cap Gamepads)}
    /\ held = [d \in Devices |-> {}]
    /\ hostPad = [n \in Numbers |-> {}]
    /\ hostMask = NotTold
    /\ hostMouse = FALSE

-----------------------------------------------------------------------------
(***************************************************************************)
(* Controller numbers and packets.                                         *)
(***************************************************************************)

\* getActiveControllerMask().
ActiveMask(reserved, notSeen) ==
    IF multiController THEN reserved \cup notSeen ELSE {0}

FreeNumbers == Numbers \ current

\* Does assignControllerNumberIfNeeded() reserve a number for context c of d?
Reserves(d, c) ==
    ~c.assigned /\ multiController /\ d \in Gamepads /\ FreeNumbers # {}

AssignControllerNumber(d, c) ==
    IF c.assigned THEN c
    ELSE [c EXCEPT !.assigned = TRUE,
                   !.reserved = Reserves(d, c),
                   !.number = IF Reserves(d, c) THEN Min(FreeNumbers) ELSE 0]

\* The buttons of every device that shares a number and the mode, fused.
Fused(devices, all, number, mouse) ==
    UNION {all[e].inputMap : e \in {e \in devices :
              /\ all[e].assigned
              /\ all[e].number = number
              /\ all[e].mouse = mouse}}

\* sendControllerInputPacket() for device d, whose context is now c.
SendControllerInputPacket(d, c) ==
    LET sender  == AssignControllerNumber(d, c)
        taken   == IF Reserves(d, c) THEN {sender.number} ELSE {}
        devices == contexts \cup {d}
        fused   == Fused(devices, [context EXCEPT ![d] = sender],
                         sender.number, sender.mouse)
    IN  /\ contexts' = devices
        /\ current' = current \cup taken
        /\ initial' = initial \ taken
        /\ hostMask' = ActiveMask(current', initial')
        /\ IF sender.mouse
           THEN /\ context' = [context EXCEPT ![d] = [sender EXCEPT !.lastA = "A" \in fused]]
                /\ hostMouse' = IF ("A" \in fused) # sender.lastA THEN "A" \in fused
                                ELSE hostMouse
                /\ hostPad' = [hostPad EXCEPT ![sender.number] = {}]
           ELSE /\ context' = [context EXCEPT ![d] = sender]
                /\ hostPad' = [hostPad EXCEPT ![sender.number] = fused]
                /\ UNCHANGED hostMouse

\* releaseControllerNumber() as it would be if it cleared the number of a device
\* that reserved none.
ReleaseAnyNumber(c) ==
    /\ current' = current \ {c.number}
    /\ IF c.assigned
       THEN /\ hostPad' = [hostPad EXCEPT ![c.number] = {}]
            /\ hostMask' = ActiveMask(current', initial)
       ELSE UNCHANGED <<hostPad, hostMask>>

\* As it would be if the packet were sent before the number is cleared.
ReleaseAfterSending(c) ==
    /\ current' = IF c.reserved THEN current \ {c.number} ELSE current
    /\ IF c.assigned
       THEN /\ hostPad' = [hostPad EXCEPT ![c.number] = {}]
            /\ hostMask' = ActiveMask(current, initial)
       ELSE UNCHANGED <<hostPad, hostMask>>

\* As it would be if only a device that reserved its number were zeroed.
ReleaseZeroesReserved(c) ==
    /\ current' = IF c.reserved THEN current \ {c.number} ELSE current
    /\ IF c.reserved
       THEN /\ hostPad' = [hostPad EXCEPT ![c.number] = {}]
            /\ hostMask' = ActiveMask(current', initial)
       ELSE UNCHANGED <<hostPad, hostMask>>

\* releaseControllerNumber(): a reserved number is free again, and the host gets
\* a packet of zeros.
ReleaseControllerNumber(c) ==
    /\ current' = IF c.reserved THEN current \ {c.number} ELSE current
    /\ IF c.assigned
       THEN /\ hostPad' = [hostPad EXCEPT ![c.number] = {}]
            /\ hostMask' = ActiveMask(current', initial)
       ELSE UNCHANGED <<hostPad, hostMask>>

-----------------------------------------------------------------------------
(***************************************************************************)
(* Devices come, change and go.                                            *)
(***************************************************************************)

\* onInputDeviceAdded() does nothing: the context is made by the first event.
Attach(d) ==
    /\ d \notin attached /\ d \notin contexts
    /\ attached' = attached \cup {d}
    /\ UNCHANGED <<padVars, contexts, context, current, initial, held, hostVars>>

\* From here to onInputDeviceRemoved() the device's events are ignored.
Detach(d) ==
    /\ d \in attached
    /\ attached' = attached \ {d}
    /\ UNCHANGED <<padVars, contexts, context, current, initial, held, hostVars>>

OnInputDeviceRemoved(d) ==
    /\ d \in contexts /\ d \notin attached
    /\ ReleaseControllerNumber(context[d])
    /\ contexts' = contexts \ {d}
    /\ context' = [context EXCEPT ![d] = NewContext(kind[d])]
    /\ held' = [held EXCEPT ![d] = {}]
    /\ UNCHANGED <<padVars, attached, initial, hostMouse>>

\* onInputDeviceChanged(): a new context takes over the number, and nothing else.
OnInputDeviceChanged(d) ==
    /\ d \in contexts /\ d \in attached
    /\ context' = [context EXCEPT ![d] =
          [NewContext(kind[d]) EXCEPT !.assigned = context[d].assigned,
                                      !.reserved = context[d].reserved,
                                      !.number = context[d].number]]
    /\ UNCHANGED <<padVars, attached, contexts, current, initial, held, hostVars>>

-----------------------------------------------------------------------------
(***************************************************************************)
(* Events.                                                                 *)
(***************************************************************************)

\* handleRemapping() remembers that a device has a real Start or Select,
Remembers(c, k) ==
    [c EXCEPT !.backIsStart = @ /\ k # "START", !.modeIsSelect = @ /\ k # "SELECT"]

\* and translates Back and Mode of one that has not.
KeyCode(c, k) ==
    IF c.backIsStart /\ k = "BACK" THEN "START"
    ELSE IF c.modeIsSelect /\ k = "MODE" THEN "SELECT"
    ELSE k

FlagOf == [START |-> "PLAY", SELECT |-> "BACK", BACK |-> "BACK", MODE |-> "SPECIAL",
           L1 |-> "LB", R1 |-> "RB", A |-> "A"]

\* The end of handleButtonUp() as it would be if the emulated Select were
\* forgotten without coming up.
EmulatedForgotten(c) ==
    [c EXCEPT !.emulating = IF {"PLAY", "LB"} \subseteq c.inputMap THEN @ ELSE @ \ {"SELECT"}]

\* "If either start or LB is up, select comes up too".
EmulatedSelectUp(c) ==
    IF "SELECT" \in c.emulating /\ ~({"PLAY", "LB"} \subseteq c.inputMap)
    THEN [c EXCEPT !.inputMap = @ \ {"BACK"}, !.emulating = @ \ {"SELECT"}]
    ELSE c

\* "If either start or select and RB is up, the special button comes up too".
EmulatedSpecialUp(c) ==
    IF "SPECIAL" \in c.emulating /\
       ("PLAY" \notin c.inputMap \/ {"BACK", "RB"} \cap c.inputMap = {})
    THEN [c EXCEPT !.inputMap = @ \ {"SPECIAL"}, !.emulating = @ \ {"SPECIAL"}]
    ELSE c

\* handleButtonUp(), also for a key that is not down.  A Start that was down for
\* START_DOWN_TIME_MOUSE_MODE_MS toggles mouse emulation, if the user wants it.
HandleButtonUp(d, k) ==
    /\ d \in attached
    /\ held' = [held EXCEPT ![d] = @ \ {k}]
    /\ LET c    == Remembers(context[d], k)
           code == KeyCode(c, k)
           flag == FlagOf[code]
       IN  \E toggle \in IF code = "START" /\ "PLAY" \in c.inputMap THEN BOOLEAN ELSE {FALSE} :
              SendControllerInputPacket(d, EmulatedSpecialUp(EmulatedSelectUp(
                 [c EXCEPT !.inputMap = @ \ {flag},
                           !.mouse = @ # toggle])))
    /\ UNCHANGED <<padVars, attached>>

\* "Start+LB acts like select for controllers with one button".
SelectCombination(c, recent) ==
    IF ~c.hasSelect /\ (c.inputMap = {"PLAY", "LB"} \/
                        (c.inputMap = {"PLAY"} /\ "LB" \in recent))
    THEN [c EXCEPT !.inputMap = {"BACK"}, !.emulating = @ \cup {"SELECT"}]
    ELSE c

\* "If there is a physical select button, we'll use Start+Select as the special
\* button combo otherwise we'll use Start+RB."
SpecialCombination(c, recent) ==
    IF ~c.hasMode /\ (IF c.hasSelect THEN c.inputMap = {"PLAY", "BACK"}
                      ELSE \/ c.inputMap = {"PLAY", "RB"}
                           \/ c.inputMap = {"PLAY"} /\ "RB" \in recent)
    THEN [c EXCEPT !.inputMap = {"SPECIAL"}, !.emulating = @ \cup {"SPECIAL"}]
    ELSE c

\* handleButtonDown(), also for a repeat.  When only Start is down, recent are the
\* bumpers that came up, if only by a spurious event, at most
\* MAXIMUM_BUMPER_UP_DELAY_MS ago.
HandleButtonDown(d, k) ==
    /\ d \in attached
    /\ held' = [held EXCEPT ![d] = @ \cup {k}]
    /\ LET c    == Remembers(context[d], k)
           code == KeyCode(c, k)
           down == [c EXCEPT !.inputMap = @ \cup {FlagOf[code]},
                             !.hasMode = @ \/ code = "MODE",
                             !.hasSelect = @ \/ code \in {"SELECT", "BACK"}]
       IN  \E recent \in IF down.inputMap = {"PLAY"} THEN SUBSET {"LB", "RB"} ELSE {{}} :
              SendControllerInputPacket(d,
                 SpecialCombination(SelectCombination(down, recent), recent))
    /\ UNCHANGED <<padVars, attached>>

\* A key that the handlers do not know: getContextForEvent() makes a context,
\* which has no number yet.
HandleOtherKey(d) ==
    /\ d \in attached /\ d \notin contexts
    /\ contexts' = contexts \cup {d}
    /\ UNCHANGED <<padVars, attached, context, current, initial, held, hostVars>>

\* handleMotionEvent() and handleAxisSet().
HandleMotionEvent(d) ==
    /\ d \in attached
    /\ SendControllerInputPacket(d, context[d])
    /\ UNCHANGED <<padVars, attached, held>>

-----------------------------------------------------------------------------
Next == \E d \in Devices :
    \/ Attach(d) \/ Detach(d) \/ OnInputDeviceRemoved(d) \/ OnInputDeviceChanged(d)
    \/ HandleOtherKey(d) \/ HandleMotionEvent(d)
    \/ \E k \in KeysOf[d] : HandleButtonDown(d, k) \/ HandleButtonUp(d, k)

Spec == Init /\ [][Next]_vars

-----------------------------------------------------------------------------
(***************************************************************************)
(* Correctness.                                                            *)
(***************************************************************************)

\* A controller number is taken exactly while one connected gamepad has reserved
\* it: numbers are neither shared nor lost, through removals, changes and more
\* gamepads than numbers.
NumbersBalance ==
    LET Reservers == {d \in contexts : context[d].reserved}
    IN  /\ TypeOK
        /\ current = {context[d].number : d \in Reservers}
        /\ \A d, e \in Reservers : context[d].number = context[e].number => d = e

\* What the host was last told of the controllers that are there is still true:
\* "We must do this after clearing the currentControllers entry so this causes
\* the device to be removed on the server PC" (ControllerHandler.java:311).
MaskFollowsControllers ==
    hostMask # NotTold => hostMask = ActiveMask(current, initial)

\* A device none of whose keys is down reports no button, and emulates none, in
\* whatever order the combinations with Start were pressed and released.
NoStuckButtons == \A d \in contexts :
    held[d] = {} => context[d].inputMap = {} /\ context[d].emulating = {}

\* The host has a button down only on a controller one of whose devices has a
\* key down.
HostPadReleased == \A n \in Numbers : hostPad[n] # {} =>
    \E d \in contexts :
        context[d].assigned /\ context[d].number = n /\ held[d] # {}

\* "Fixed unexpected mouse input after using gamepad mouse emulation mode"
\* (changelogs/215.txt:6): without a gamepad in mouse emulation the host has no
\* mouse button down.  The code does not keep this: what ends the emulation does
\* not raise the button.
NoMouseAfterEmulation ==
    hostMouse => \E d \in contexts : context[d].mouse
=============================================================================
