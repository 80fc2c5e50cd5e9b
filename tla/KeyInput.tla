------------------------------- MODULE KeyInput -------------------------------
(***************************************************************************)
(* Keyboard input of Game.  A key event takes one of two paths:            *)
(*   - if the user enabled MyAccessibilityService, it sees every key first *)
(*     and, while the activity is resumed, passes it to keyboardHandler(),  *)
(*     which keeps the modifiers in the static int KeyCombination;         *)
(*   - otherwise StreamView passes it to handleKeyDown() and handleKeyUp(), *)
(*     which keep them in modifierFlags and know the combination           *)
(*     Ctrl+Shift+Z, which toggles whether input is grabbed.               *)
(* Keys that never reach either path (the whitelist, controller buttons)   *)
(* and the keys that keyboardHandler() turns into shortcuts are left out.  *)
(* Of a message to the host the modifiers are kept.                        *)
(***************************************************************************)
EXTENDS Integers

CONSTANTS Keys,         \* the keys that are pressed
          MaxToggles    \* bound on the toggles of the grab that are pending

ASSUME TogglesAssumption == MaxToggles \in Nat

ShiftKeys == {"SHIFT_LEFT", "SHIFT_RIGHT"}
CtrlKeys  == {"CTRL_LEFT", "CTRL_RIGHT"}
AltKeys   == {"ALT_LEFT", "ALT_RIGHT"}
MetaKeys  == {"META_LEFT", "META_RIGHT"}

ASSUME KeysAssumption ==
    Keys \subseteq ShiftKeys \cup CtrlKeys \cup AltKeys \cup MetaKeys \cup {"Z", "X"}

Modifiers == {"SHIFT", "CTRL", "ALT", "WIN"}

KeysOf == [SHIFT |-> ShiftKeys, CTRL |-> CtrlKeys, ALT |-> AltKeys, WIN |-> MetaKeys]

\* The modifiers that a set of keys stands for.
ModifiersOf(ks) == {m \in Modifiers : KeysOf[m] \cap ks # {}}

\* KeyboardPacket.MODIFIER_*, and the int that a set of modifiers makes.
Bit == [SHIFT |-> 1, CTRL |-> 2, ALT |-> 4, WIN |-> 8]

BitsOf(ms) ==
    LET bit(m) == IF m \in ms THEN Bit[m] ELSE 0
    IN  bit("SHIFT") + bit("CTRL") + bit("ALT") + bit("WIN")

VARIABLES
    service,          \* is MyAccessibilityService enabled (it stays so)
    resumed,          \* the activity is resumed; accessibilityKeyListening
    held,             \* the keys that are physically down
    seen,             \* the keys that a handler saw go down and not up
    KeyCombination,   \* the static int of the first path
    modifierFlags,    \* the field of the second path, as a set
    grabComboDown,    \* Ctrl+Shift+Z went down
    grabbedInput,
    toggles,          \* toggleGrab Runnables posted and not yet run
    sent,             \* the modifiers of the message the last step sent, or NoMessage
    lost,             \* history: modifiers of which one of two keys came up
    gap               \* history: an event met a gap in the lists of the first path

NoMessage == -1

grabVars == <<grabComboDown, grabbedInput, toggles>>
lostVars == <<lost, gap>>
keyVars == <<service, resumed, held, seen, KeyCombination, modifierFlags, grabVars,
             sent, lostVars>>

KeysTypeOK ==
    /\ service \in BOOLEAN
    /\ resumed \in BOOLEAN
    /\ held \subseteq Keys
    /\ seen \subseteq Keys
    /\ KeyCombination \in 0 .. 15
    /\ modifierFlags \subseteq Modifiers \ {"WIN"}
    /\ grabComboDown \in BOOLEAN
    /\ grabbedInput \in BOOLEAN
    /\ toggles \in 0 .. MaxToggles
    /\ sent \in 0 .. 15 \cup {NoMessage}
    /\ lost \subseteq Modifiers
    /\ gap \in BOOLEAN

\* A new Game on which no key was pressed yet.
KeysInit ==
    /\ service \in BOOLEAN
    /\ resumed = TRUE
    /\ held = {}
    /\ seen = {}
    /\ KeyCombination = 0
    /\ modifierFlags = {}
    /\ grabComboDown = FALSE
    /\ grabbedInput = TRUE
    /\ toggles = 0
    /\ sent = NoMessage
    /\ lost = {}
    /\ gap = FALSE

-----------------------------------------------------------------------------
(***************************************************************************)
(* keyBoardCombinationConverter(): the values of KeyCombination in which a *)
(* modifier key's bit is added when it goes down, and taken off when it    *)
(* comes up.  In any other value the event changes nothing.                *)
(***************************************************************************)
AddedIn == [SHIFT |-> {0, 2, 4, 6, 8, 10, 14},
            CTRL  |-> {0, 1, 4, 5, 8, 9, 13},
            ALT   |-> {0, 1, 2, 3, 8, 9, 10, 11},
            WIN   |-> 0 .. 7]

RemovedIn == [SHIFT |-> {1, 3, 5, 7, 9, 11, 15},
              CTRL  |-> {2, 3, 6, 7, 10, 11, 14, 15},
              ALT   |-> {4, 5, 6, 7, 11, 12, 13, 15},
              WIN   |-> 8 .. 15]

\* KeyCombination after key k went down or came up.
keyBoardCombinationConverter(k, down) ==
    LET In == IF down THEN AddedIn ELSE RemovedIn
        hit == {m \in ModifiersOf({k}) : KeyCombination \in In[m]}
    IN  IF down THEN KeyCombination + BitsOf(hit) ELSE KeyCombination - BitsOf(hit)

\* The events for which the lists lack the value, or, as ALT coming up in 11,
\* have one too many.
Gaps == {<<"SHIFT", TRUE, 12>>, <<"SHIFT", FALSE, 13>>, <<"CTRL", TRUE, 12>>,
         <<"ALT", FALSE, 14>>, <<"ALT", FALSE, 11>>}

MeetsGap(k, down) == \E m \in ModifiersOf({k}) : <<m, down, KeyCombination>> \in Gaps

-----------------------------------------------------------------------------
(***************************************************************************)
(* handleSpecialKeys().                                                    *)
(***************************************************************************)
FlagsAfter(k, down) ==
    IF down THEN modifierFlags \cup (ModifiersOf({k}) \ {"WIN"})
    ELSE modifierFlags \ ModifiersOf({k})

PostToggle ==
    /\ toggles < MaxToggles
    /\ toggles' = toggles + 1
    /\ grabComboDown' = FALSE

Combination(k, down) == k = "Z" /\ {"CTRL", "SHIFT"} \subseteq FlagsAfter(k, down)

\* Ctrl+Shift+Z arms the toggle, or toggles as Z comes up; while it is armed any
\* other key event toggles.
GrabCombination(k, down) ==
    IF Combination(k, down)
    THEN IF down THEN grabComboDown' = TRUE /\ UNCHANGED toggles
                 ELSE PostToggle
    ELSE IF grabComboDown THEN PostToggle
    ELSE UNCHANGED <<grabComboDown, toggles>>

\* handleSpecialKeys() as it would be if a consumed event left the flags alone.
HandleSpecialKeysSkipsFlags(k, down) ==
    /\ GrabCombination(k, down)
    /\ modifierFlags' = IF grabComboDown THEN modifierFlags ELSE FlagsAfter(k, down)

HandleSpecialKeys(k, down) ==
    /\ GrabCombination(k, down)
    /\ modifierFlags' = FlagsAfter(k, down)

\* getModifierState(event): the flags, and the modifiers Android finds held.
ModifierState(k, down) == FlagsAfter(k, down) \cup (ModifiersOf(held') \ {"WIN"})

-----------------------------------------------------------------------------
(***************************************************************************)
(* Key events.  A key that is held repeats its down event.                 *)
(***************************************************************************)
KeyChanges(k, down) ==
    /\ down \/ k \in held
    /\ held' = IF down THEN held \cup {k} ELSE held \ {k}

\* A handler sees the event.  Neither path tells the two keys of a modifier apart:
\* when one comes up it takes the modifier along.
Sees(k, down) ==
    /\ seen' = IF down THEN seen \cup {k} ELSE seen \ {k}
    /\ lost' = IF down THEN lost \ ModifiersOf({k})
               ELSE lost \cup (ModifiersOf({k}) \cap ModifiersOf(seen \ {k}))

\* onKeyEvent() of the service, then keyboardHandler().
ServiceKey(k, down) ==
    /\ service /\ resumed
    /\ KeyChanges(k, down)
    /\ Sees(k, down)
    /\ KeyCombination' = keyBoardCombinationConverter(k, down)
    /\ sent' = KeyCombination'
    /\ gap' = (gap \/ MeetsGap(k, down))
    /\ UNCHANGED <<service, resumed, modifierFlags, grabVars>>

\* handleKeyDown() and handleKeyUp().  Nothing is sent of an event of the grab
\* combination, of a repeat, and while the input is not grabbed; then onKeyDown()
\* or onKeyUp() handles the event once more, which changes nothing else.
ActivityKey(k, down) ==
    /\ ~service /\ resumed
    /\ KeyChanges(k, down)
    /\ Sees(k, down)
    /\ HandleSpecialKeys(k, down)
    /\ sent' = IF Combination(k, down) \/ grabComboDown \/ (down /\ k \in held) \/ ~grabbedInput
               THEN NoMessage ELSE BitsOf(ModifierState(k, down))
    /\ UNCHANGED <<service, resumed, KeyCombination, grabbedInput, gap>>

\* While the activity is paused another window gets the key.
ElsewhereKey(k, down) ==
    /\ ~resumed
    /\ KeyChanges(k, down)
    /\ sent' = NoMessage
    /\ UNCHANGED <<service, resumed, seen, KeyCombination, modifierFlags, grabVars, lostVars>>

\* onPause(), and onResume() of the same activity.
PauseOrResume ==
    /\ resumed' = ~resumed
    /\ sent' = NoMessage
    /\ UNCHANGED <<service, held, seen, KeyCombination, modifierFlags, grabVars, lostVars>>

\* The Runnable toggleGrab, 250 ms after it was posted.
ToggleGrab ==
    /\ toggles > 0
    /\ toggles' = toggles - 1
    /\ grabbedInput' = ~grabbedInput
    /\ sent' = NoMessage
    /\ UNCHANGED <<service, resumed, held, seen, KeyCombination, modifierFlags,
                   grabComboDown, lostVars>>

KeysNext ==
    \/ \E k \in Keys, down \in BOOLEAN :
          ServiceKey(k, down) \/ ActivityKey(k, down) \/ ElsewhereKey(k, down)
    \/ PauseOrResume
    \/ ToggleGrab

KeysSpec == KeysInit /\ [][KeysNext]_keyVars

-----------------------------------------------------------------------------
(***************************************************************************)
(* Correctness.                                                            *)
(***************************************************************************)

\* The modifiers of every message to the host are those whose keys the handlers
\* saw go down and not up, in whatever order, with key events that went elsewhere
\* in between, and also when an event was part of the grab combination; but for a
\* modifier of which one of two keys came up.  The second path adds those that
\* Android finds held, and knows no Meta; the first one is right until an event
\* meets one of the gaps in its lists.
SentModifiersMatch ==
    LET known == ModifiersOf(seen) \ lost IN
    /\ KeysTypeOK
    /\ sent # NoMessage /\ service /\ ~gap => sent = BitsOf(known)
    /\ sent # NoMessage /\ ~service => sent = BitsOf((known \cup ModifiersOf(held)) \ {"WIN"})

\* "MODIFIER_ALT = 0x04", ... (KeyboardPacket.java:7): the byte sent with a key
\* says which modifiers are down, so none is left once every modifier key that
\* went down came up.  The code does not keep this with Meta, for the gaps; no run
\* checks it.
NoModifierWithoutKey ==
    service /\ ModifiersOf(seen) = {} => KeyCombination = 0
=============================================================================
