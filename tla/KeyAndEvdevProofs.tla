--------------------------- MODULE KeyAndEvdevProofs ---------------------------
(***************************************************************************)
(* The two modules of the way of a key to the host, whose definitions have *)
(* no name in common.                                                      *)
(*   - KeyInput, for any keys: the types, the modifiers of every message   *)
(*     to the host, and, if no key is Meta, no modifier without a key.     *)
(*   - EvdevReader, for any devices and any number of entries: no entry in *)
(*     its device list is freed, and no device is in it twice.             *)
(***************************************************************************)
EXTENDS KeyInput, EvdevReader, TLAPS

-----------------------------------------------------------------------------
(***************************************************************************)
(* KeyInput.                                                               *)
(***************************************************************************)

\* The value lists of keyBoardCombinationConverter() are complete without Meta.
NoMeta == Keys \cap MetaKeys = {}

\* A key stands for one modifier or for none.
LEMMA ModifierOfKey ==
    ASSUME NEW k \in Keys
    PROVE  /\ ModifiersOf({k}) \in {{}, {"SHIFT"}, {"CTRL"}, {"ALT"}, {"WIN"}}
           /\ NoMeta => "WIN" \notin ModifiersOf({k})
BY KeysAssumption DEF ModifiersOf, Modifiers, KeysOf, ShiftKeys, CtrlKeys, AltKeys, MetaKeys, NoMeta

\* The modifiers of the keys that were seen, after one more goes down,
LEMMA ModifiersAdded ==
    ASSUME NEW ks, NEW k
    PROVE  ModifiersOf(ks \cup {k}) = ModifiersOf(ks) \cup ModifiersOf({k})
BY DEF ModifiersOf

\* and after one comes up: those of the others, with the key's own modifier if its
\* other key stays down.
LEMMA ModifiersRemoved ==
    ASSUME NEW ks, NEW k
    PROVE  /\ ModifiersOf(ks) \ ModifiersOf({k}) \subseteq ModifiersOf(ks \ {k})
           /\ ModifiersOf(ks \ {k}) \subseteq ModifiersOf(ks)
<1>1. \A m \in Modifiers : KeysOf[m] \cap ks # {} /\ KeysOf[m] \cap {k} = {}
                             => KeysOf[m] \cap (ks \ {k}) # {}
  OBVIOUS
<1> QED
  BY <1>1 DEF ModifiersOf

\* keyBoardCombinationConverter() for a key of the modifier m, and for any other.
LEMMA ConverterOfModifier ==
    ASSUME NEW k, NEW m \in Modifiers, ModifiersOf({k}) = {m}, KeyCombination \in 0 .. 15
    PROVE  /\ keyBoardCombinationConverter(k, TRUE) =
                 IF KeyCombination \in AddedIn[m] THEN KeyCombination + Bit[m]
                 ELSE KeyCombination
           /\ keyBoardCombinationConverter(k, FALSE) =
                 IF KeyCombination \in RemovedIn[m] THEN KeyCombination - Bit[m]
                 ELSE KeyCombination
<1>1. BitsOf({}) = 0 /\ BitsOf({m}) = Bit[m]
  BY DEF BitsOf, Bit, Modifiers
<1>2. /\ keyBoardCombinationConverter(k, TRUE) =
           KeyCombination + BitsOf({n \in {m} : KeyCombination \in AddedIn[n]})
      /\ keyBoardCombinationConverter(k, FALSE) =
           KeyCombination - BitsOf({n \in {m} : KeyCombination \in RemovedIn[n]})
  BY DEF keyBoardCombinationConverter
<1>3. /\ {n \in {m} : KeyCombination \in AddedIn[n]} =
           IF KeyCombination \in AddedIn[m] THEN {m} ELSE {}
      /\ {n \in {m} : KeyCombination \in RemovedIn[n]} =
           IF KeyCombination \in RemovedIn[m] THEN {m} ELSE {}
  OBVIOUS
<1>4. KeyCombination + 0 = KeyCombination /\ KeyCombination - 0 = KeyCombination
  OBVIOUS
<1> QED
  BY <1>1, <1>2, <1>3, <1>4, Zenon

LEMMA ConverterOfOther ==
    ASSUME NEW k, NEW down \in BOOLEAN, ModifiersOf({k}) = {}, KeyCombination \in 0 .. 15
    PROVE  keyBoardCombinationConverter(k, down) = KeyCombination
<1>1. BitsOf({}) = 0
  BY DEF BitsOf
<1> QED
  BY <1>1 DEF keyBoardCombinationConverter

\* A value in the lists has room for the bit, and one in the others has the bit.
LEMMA ConverterType ==
    ASSUME NEW k \in Keys, NEW down \in BOOLEAN, KeyCombination \in 0 .. 15
    PROVE  keyBoardCombinationConverter(k, down) \in 0 .. 15
<1>1. CASE ModifiersOf({k}) = {}
  BY <1>1, ConverterOfOther
<1>2. ASSUME NEW m \in Modifiers, ModifiersOf({k}) = {m}
      PROVE  keyBoardCombinationConverter(k, down) \in 0 .. 15
  <2>1. /\ KeyCombination \in AddedIn[m] => KeyCombination + Bit[m] \in 0 .. 15
        /\ KeyCombination \in RemovedIn[m] => KeyCombination - Bit[m] \in 0 .. 15
    BY DEF AddedIn, RemovedIn, Bit, Modifiers
  <2> QED
    BY <1>2, <2>1, ConverterOfModifier
<1> QED
  BY <1>1, <1>2, ModifierOfKey DEF Modifiers

\* Where the lists have no gap the bits are those of a set of modifiers, to which
\* the key's modifier is added, or from which it is taken.
LEMMA ConverterFollows ==
    ASSUME NEW k \in Keys, NEW down \in BOOLEAN, NEW ms \in SUBSET Modifiers,
           KeyCombination = BitsOf(ms), ~MeetsGap(k, down)
    PROVE  keyBoardCombinationConverter(k, down) =
              BitsOf(IF down THEN ms \cup ModifiersOf({k}) ELSE ms \ ModifiersOf({k}))
<1>1. KeyCombination \in 0 .. 15
  BY DEF BitsOf, Bit
<1>2. CASE ModifiersOf({k}) = {}
  <2>1. ms \cup ModifiersOf({k}) = ms /\ ms \ ModifiersOf({k}) = ms
    BY <1>2
  <2> QED
    BY <1>1, <1>2, <2>1, ConverterOfOther
<1>3. ASSUME NEW m \in Modifiers, ModifiersOf({k}) = {m}
      PROVE  keyBoardCombinationConverter(k, down) =
                BitsOf(IF down THEN ms \cup {m} ELSE ms \ {m})
  <2>1. <<m, down, BitsOf(ms)>> \notin Gaps
    BY <1>3 DEF MeetsGap
  <2>2. CASE down
    <3>1. <<m, TRUE, BitsOf(ms)>> \notin Gaps
      BY <2>1, <2>2
    <3>2. ~(m = "SHIFT" /\ BitsOf(ms) = 12) /\ ~(m = "CTRL" /\ BitsOf(ms) = 12)
      BY <3>1, Zenon DEF Gaps
    <3>3. BitsOf(ms \cup {m}) = IF BitsOf(ms) \in AddedIn[m] THEN BitsOf(ms) + Bit[m] ELSE BitsOf(ms)
      BY <3>2 DEF BitsOf, Bit, AddedIn, Modifiers
    <3>4. keyBoardCombinationConverter(k, TRUE) =
             IF KeyCombination \in AddedIn[m] THEN KeyCombination + Bit[m] ELSE KeyCombination
      BY <1>1, <1>3, ConverterOfModifier
    <3> QED
      BY <2>2, <3>3, <3>4
  <2>3. CASE ~down
    <3>1. <<m, FALSE, BitsOf(ms)>> \notin Gaps
      BY <2>1, <2>3
    <3>2. /\ ~(m = "SHIFT" /\ BitsOf(ms) = 13)
          /\ ~(m = "ALT" /\ BitsOf(ms) = 14) /\ ~(m = "ALT" /\ BitsOf(ms) = 11)
      BY <3>1, Zenon DEF Gaps
    <3>3. BitsOf(ms \ {m}) = IF BitsOf(ms) \in RemovedIn[m] THEN BitsOf(ms) - Bit[m] ELSE BitsOf(ms)
      BY <3>2 DEF BitsOf, Bit, RemovedIn, Modifiers
    <3>4. keyBoardCombinationConverter(k, FALSE) =
             IF KeyCombination \in RemovedIn[m] THEN KeyCombination - Bit[m] ELSE KeyCombination
      BY <1>1, <1>3, ConverterOfModifier
    <3> QED
      BY <2>3, <3>3, <3>4
  <2> QED
    BY <2>2, <2>3
<1> QED
  BY <1>2, <1>3, ModifierOfKey DEF Modifiers

\* Without Meta no value is above 7, so no event meets a gap.
LEMMA NoGap ==
    ASSUME NEW k, NEW down, NEW ms \in SUBSET {"SHIFT", "CTRL", "ALT"}, KeyCombination = BitsOf(ms)
    PROVE  ~MeetsGap(k, down)
<1>1. BitsOf(ms) <= 7 /\ BitsOf(ms) \in Nat
  BY DEF BitsOf, Bit
<1>2. KeyCombination \notin {11, 12, 13, 14}
  BY <1>1
<1> QED
  BY <1>2, Zenon DEF MeetsGap, Gaps

-----------------------------------------------------------------------------
\* The first key of a new Game finds nothing down.
LEMMA KeysInitType == KeysInit => KeysTypeOK
<1>1. 0 \in 0 .. MaxToggles /\ 0 \in 0 .. 15
  BY TogglesAssumption
<1> QED
  BY <1>1, Zenon DEF KeysInit, KeysTypeOK

\* Each key event and each toggle keeps the types, whatever the keys are.
LEMMA KeysNextType == KeysTypeOK /\ [KeysNext]_keyVars => KeysTypeOK'
<1> SUFFICES ASSUME KeysTypeOK, [KeysNext]_keyVars PROVE KeysTypeOK'
  OBVIOUS
<1> USE DEF KeysTypeOK, KeyChanges, Sees, grabVars, lostVars
<1>0. ASSUME NEW ks PROVE BitsOf(ks) \in 0 .. 15 /\ ModifiersOf(ks) \subseteq Modifiers
  <2>1. BitsOf(ks) \in 0 .. 15
    BY DEF BitsOf, Bit
  <2> QED
    BY <2>1 DEF ModifiersOf
<1>1. ASSUME NEW k \in Keys, NEW down \in BOOLEAN, ServiceKey(k, down) PROVE KeysTypeOK'
  <2>1. gap' \in BOOLEAN
    BY <1>1, Zenon DEF ServiceKey
  <2>2. lost' \subseteq Modifiers
    BY <1>0, <1>1 DEF ServiceKey
  <2> QED
    BY <1>1, <2>1, <2>2, ConverterType DEF ServiceKey
<1>2. ASSUME NEW k \in Keys, NEW down \in BOOLEAN, ActivityKey(k, down) PROVE KeysTypeOK'
  <2>1. grabComboDown' \in BOOLEAN /\ toggles' \in 0 .. MaxToggles
    <3>1. PostToggle \/ UNCHANGED toggles
      BY <1>2 DEF ActivityKey, HandleSpecialKeys, GrabCombination
    <3>2. PostToggle \/ UNCHANGED grabComboDown \/ grabComboDown' = TRUE
      BY <1>2 DEF ActivityKey, HandleSpecialKeys, GrabCombination
    <3>3. grabComboDown' \in BOOLEAN
      BY <3>2, Zenon DEF PostToggle
    <3>4. toggles' \in 0 .. MaxToggles
      BY <3>1, TogglesAssumption DEF PostToggle
    <3> QED
      BY <3>3, <3>4
  <2>2. modifierFlags' \subseteq Modifiers \ {"WIN"}
    BY <1>2, ModifierOfKey DEF ActivityKey, HandleSpecialKeys, FlagsAfter, Modifiers
  <2>3. sent' \in 0 .. 15 \cup {NoMessage}
    BY <1>0, <1>2 DEF ActivityKey
  <2>4. lost' \subseteq Modifiers
    BY <1>0, <1>2 DEF ActivityKey
  <2> QED
    BY <1>2, <2>1, <2>2, <2>3, <2>4 DEF ActivityKey
<1>3. ASSUME NEW k \in Keys, NEW down \in BOOLEAN, ElsewhereKey(k, down) PROVE KeysTypeOK'
  BY <1>3 DEF ElsewhereKey
<1>4. CASE PauseOrResume
  BY <1>4 DEF PauseOrResume
<1>5. CASE ToggleGrab
  BY <1>5, TogglesAssumption DEF ToggleGrab
<1>6. CASE UNCHANGED keyVars
  BY <1>6 DEF keyVars
<1> QED
  BY <1>1, <1>2, <1>3, <1>4, <1>5, <1>6 DEF KeysNext

-----------------------------------------------------------------------------
\* The bits of the first path are those of some of the modifiers that are down,
\* and so are the flags of the second.
KeysInv ==
    /\ KeysTypeOK
    /\ service => \E ms \in SUBSET ModifiersOf(seen) : KeyCombination = BitsOf(ms)
    /\ ~service => modifierFlags \subseteq ModifiersOf(seen)

\* Without Meta the modifiers that are down are three.
LEMMA ModifiersSeen ==
    ASSUME NoMeta, KeysTypeOK
    PROVE  ModifiersOf(seen) \subseteq {"SHIFT", "CTRL", "ALT"}
BY DEF ModifiersOf, Modifiers, KeysOf, NoMeta, KeysTypeOK

LEMMA KeysInitInv == KeysInit => KeysInv
<1>1. {} \in SUBSET ModifiersOf(seen) /\ BitsOf({}) = 0
  BY DEF BitsOf
<1> QED
  BY <1>1, KeysInitType, Zenon DEF KeysInit, KeysInv

\* A key that comes up takes its modifier along, even if the modifier's other key
\* stays down; so nothing is left when the last key comes up.
LEMMA KeysNextInv == NoMeta /\ KeysInv /\ [KeysNext]_keyVars => KeysInv'
<1> SUFFICES ASSUME NoMeta, KeysInv, [KeysNext]_keyVars PROVE KeysInv'
  OBVIOUS
<1>1. KeysTypeOK /\ KeysTypeOK'
  BY KeysNextType DEF KeysInv
<1>2. ASSUME NEW k \in Keys, NEW down \in BOOLEAN, ServiceKey(k, down) PROVE KeysInv'
  <2>1. service /\ service' /\ seen \in SUBSET Keys
    BY <1>1, <1>2 DEF ServiceKey, KeysTypeOK
  <2>2. PICK ms \in SUBSET ModifiersOf(seen) : KeyCombination = BitsOf(ms)
    BY <2>1 DEF KeysInv
  <2>3. ms \in SUBSET {"SHIFT", "CTRL", "ALT"}
    BY <1>1, ModifiersSeen
  <2>6. ~MeetsGap(k, down) /\ ms \in SUBSET Modifiers
    BY <2>2, <2>3, NoGap DEF Modifiers
  <2>4. CASE down
    <3>1. KeyCombination' = BitsOf(ms \cup ModifiersOf({k})) /\ seen' = seen \cup {k}
      BY <1>2, <2>2, <2>4, <2>6, ConverterFollows DEF ServiceKey, Sees
    <3>2. ms \cup ModifiersOf({k}) \in SUBSET ModifiersOf(seen')
      BY <2>2, <3>1, ModifiersAdded
    <3> QED
      BY <1>1, <2>1, <3>1, <3>2 DEF KeysInv
  <2>5. CASE ~down
    <3>1. KeyCombination' = BitsOf(ms \ ModifiersOf({k})) /\ seen' = seen \ {k}
      BY <1>2, <2>2, <2>5, <2>6, ConverterFollows DEF ServiceKey, Sees
    <3>2. ms \ ModifiersOf({k}) \in SUBSET ModifiersOf(seen')
      BY <2>1, <2>2, <3>1, ModifiersRemoved
    <3> QED
      BY <1>1, <2>1, <3>1, <3>2 DEF KeysInv
  <2> QED
    BY <2>4, <2>5
<1>3. ASSUME NEW k \in Keys, NEW down \in BOOLEAN, ActivityKey(k, down) PROVE KeysInv'
  <2>1. ~service /\ ~service' /\ seen \in SUBSET Keys /\ modifierFlags \subseteq ModifiersOf(seen)
    BY <1>1, <1>3 DEF ActivityKey, KeysTypeOK, KeysInv
  <2>2. modifierFlags' \subseteq ModifiersOf(seen')
    <3>1. /\ ModifiersOf(seen \cup {k}) = ModifiersOf(seen) \cup ModifiersOf({k})
          /\ ModifiersOf(seen) \ ModifiersOf({k}) \subseteq ModifiersOf(seen \ {k})
      BY <2>1, ModifiersAdded, ModifiersRemoved
    <3> QED
      BY <1>3, <2>1, <3>1 DEF ActivityKey, HandleSpecialKeys, FlagsAfter, Sees
  <2> QED
    BY <1>1, <2>1, <2>2 DEF KeysInv
<1>4. CASE UNCHANGED <<service, seen, KeyCombination, modifierFlags>>
  BY <1>1, <1>4 DEF KeysInv
<1> QED
  BY <1>2, <1>3, <1>4 DEF KeysNext, ElsewhereKey, PauseOrResume, ToggleGrab, keyVars

\* Both paths know just the modifiers whose keys they saw, but for those that one of
\* two keys took along and, in the first path, once a gap was met.
KnownInv ==
    /\ service /\ ~gap => KeyCombination = BitsOf(ModifiersOf(seen) \ lost)
    /\ ~service => modifierFlags = (ModifiersOf(seen) \ lost) \ {"WIN"}
    /\ SentModifiersMatch

LEMMA KeysInitKnown == KeysInit => KnownInv
<1>1. ModifiersOf({}) = {} /\ BitsOf({}) = 0
  BY DEF ModifiersOf, BitsOf
<1> QED
  BY <1>1, KeysInitType, Zenon DEF KeysInit, KnownInv, SentModifiersMatch

\* What is known of the keys that were seen is added to or taken from.
LEMMA SeesKnown ==
    ASSUME NEW k \in Keys, NEW down \in BOOLEAN, Sees(k, down)
    PROVE  ModifiersOf(seen') \ lost' =
              IF down THEN (ModifiersOf(seen) \ lost) \cup ModifiersOf({k})
              ELSE (ModifiersOf(seen) \ lost) \ ModifiersOf({k})
<1>1. CASE down
  <2>1. /\ ModifiersOf(seen') = ModifiersOf(seen) \cup ModifiersOf({k})
        /\ lost' = lost \ ModifiersOf({k})
    BY <1>1, ModifiersAdded DEF Sees
  <2> QED
    BY <1>1, <2>1
<1>2. CASE ~down
  <2>1. /\ seen' = seen \ {k}
        /\ lost' = lost \cup (ModifiersOf({k}) \cap ModifiersOf(seen \ {k}))
    BY <1>2 DEF Sees
  <2>2. /\ ModifiersOf(seen) \ ModifiersOf({k}) \subseteq ModifiersOf(seen \ {k})
        /\ ModifiersOf(seen \ {k}) \subseteq ModifiersOf(seen)
    BY ModifiersRemoved
  <2> QED
    BY <1>2, <2>1, <2>2
<1> QED
  BY <1>1, <1>2

LEMMA KeysNextKnown == KnownInv /\ [KeysNext]_keyVars => KnownInv'
<1> SUFFICES ASSUME KnownInv, [KeysNext]_keyVars PROVE KnownInv'
  OBVIOUS
<1>1. KeysTypeOK /\ KeysTypeOK'
  BY KeysNextType DEF KnownInv, SentModifiersMatch
<1>2. ASSUME NEW k \in Keys, NEW down \in BOOLEAN, ServiceKey(k, down)
      PROVE  KnownInv'
  <2>1. service' /\ sent' = KeyCombination'
    BY <1>2 DEF ServiceKey
  <2>2. ~gap' => KeyCombination' = BitsOf(ModifiersOf(seen') \ lost')
    <3> SUFFICES ASSUME ~gap' PROVE KeyCombination' = BitsOf(ModifiersOf(seen') \ lost')
      OBVIOUS
    <3>1. ~MeetsGap(k, down) /\ KeyCombination = BitsOf(ModifiersOf(seen) \ lost)
      BY <1>2 DEF ServiceKey, KnownInv
    <3>2. ModifiersOf(seen) \ lost \in SUBSET Modifiers
      BY DEF ModifiersOf
    <3>3. KeyCombination' = BitsOf(IF down THEN (ModifiersOf(seen) \ lost) \cup ModifiersOf({k})
                                   ELSE (ModifiersOf(seen) \ lost) \ ModifiersOf({k}))
      BY <1>2, <3>1, <3>2, ConverterFollows DEF ServiceKey
    <3> QED
      BY <1>2, <3>3, SeesKnown DEF ServiceKey
  <2> QED
    BY <1>1, <2>1, <2>2 DEF KnownInv, SentModifiersMatch
<1>3. ASSUME NEW k \in Keys, NEW down \in BOOLEAN, ActivityKey(k, down)
      PROVE  KnownInv'
  <2>1. ~service /\ ~service' /\ modifierFlags = (ModifiersOf(seen) \ lost) \ {"WIN"}
    BY <1>3 DEF ActivityKey, KnownInv
  <2>2. /\ modifierFlags' = FlagsAfter(k, down)
        /\ modifierFlags' = (ModifiersOf(seen') \ lost') \ {"WIN"}
    BY <1>3, <2>1, SeesKnown DEF ActivityKey, HandleSpecialKeys, FlagsAfter
  <2>3. sent' # NoMessage =>
          sent' = BitsOf(((ModifiersOf(seen') \ lost') \cup ModifiersOf(held')) \ {"WIN"})
    <3>1. ModifierState(k, down) =
            ((ModifiersOf(seen') \ lost') \cup ModifiersOf(held')) \ {"WIN"}
      BY <2>2 DEF ModifierState
    <3> QED
      BY <1>3, <3>1 DEF ActivityKey
  <2> QED
    BY <1>1, <2>1, <2>2, <2>3 DEF KnownInv, SentModifiersMatch
<1>4. CASE sent' = NoMessage /\ UNCHANGED <<service, seen, KeyCombination, modifierFlags, lostVars>>
  BY <1>1, <1>4 DEF KnownInv, SentModifiersMatch, lostVars
<1>5. CASE UNCHANGED keyVars
  BY <1>1, <1>5 DEF KnownInv, SentModifiersMatch, keyVars, lostVars
<1> QED
  BY <1>2, <1>3, <1>4, <1>5 DEF KeysNext, ElsewhereKey, PauseOrResume, ToggleGrab

-----------------------------------------------------------------------------
\* The int of the first path never leaves four bits, even with Meta, where its
\* lists have gaps: what is sent is a byte of modifiers.
THEOREM KeysTypeCorrect == KeysSpec => []KeysTypeOK
BY KeysInitType, KeysNextType, PTL DEF KeysSpec

\* Without Meta, and whatever keys a modifier has: when the last modifier key that
\* was seen to go down is seen to come up, neither path sends a modifier on.
THEOREM ModifiersComeUp ==
    NoMeta => (KeysSpec => [](NoModifierWithoutKey
                              /\ (~service => modifierFlags \subseteq ModifiersOf(seen))))
<1> SUFFICES ASSUME NoMeta
             PROVE  KeysSpec => [](NoModifierWithoutKey
                                   /\ (~service => modifierFlags \subseteq ModifiersOf(seen)))
  OBVIOUS
<1>1. KeysInv => /\ NoModifierWithoutKey
                 /\ ~service => modifierFlags \subseteq ModifiersOf(seen)
  <2>1. BitsOf({}) = 0
    BY DEF BitsOf
  <2> QED
    BY <2>1 DEF KeysInv, NoModifierWithoutKey
<1>2. KeysInv /\ [KeysNext]_keyVars => KeysInv'
  BY KeysNextInv
<1> QED
  BY <1>1, <1>2, KeysInitInv, PTL DEF KeysSpec

\* Whatever keys there are, Meta and both keys of a modifier among them: every
\* message to the host carries the modifiers SentModifiersMatch says, through
\* repeats, pauses and grab combinations, until an event meets one of the five gaps.
THEOREM SentModifiers == KeysSpec => []SentModifiersMatch
<1>1. KnownInv /\ [KeysNext]_keyVars => KnownInv'
  BY KeysNextKnown
<1>2. KnownInv => SentModifiersMatch
  BY DEF KnownInv
<1> QED
  BY <1>1, <1>2, KeysInitKnown, PTL DEF KeysSpec

-----------------------------------------------------------------------------
(***************************************************************************)
(* EvdevReader.                                                            *)
(***************************************************************************)

\* Unlinking waits for the lock, so the list does not shrink under the loop of
\* the main thread; a new entry is one that is free, for a device not listed.
IInv == ListIsAllocated /\ OnePollerPerDevice

USE DEF ThreadStates, Requests

-----------------------------------------------------------------------------
\* The program starts with an empty list.
LEMMA InitIInv == Init => IInv
BY DevicesAssumption, BoundsAssumption DEF Init, IInv, ListIsAllocated, OnePollerPerDevice, TypeOK

\* What CanPoll() gives is a free entry, and for a device that is not listed.
LEMMA CanPollFree ==
    ASSUME NEW d, NEW e \in CanPoll(d)
    PROVE  /\ e \in Entries /\ thread[e] = "none"
           /\ d \in plugged \cap Suitable
           /\ \A f \in listed : name[f] # d
BY DEF CanPoll, Free, AlreadyPolled

\* The grab flag of a device is an entry or None, whatever is asked for.
LEMMA IoctlType ==
    ASSUME TypeOK, NEW e \in Entries, NEW on \in BOOLEAN, Ioctl(e, on)
    PROVE  grabber' \in [Devices -> Entries \cup {None}]
BY DEF Ioctl, TypeOK

\* The process ends and leaves an empty list.
LEMMA ExitIInv ==
    ASSUME IInv, Exit, socket' \in Seq(Requests \cup {"error", "end"})
    PROVE  IInv'
BY DEF Exit, IInv, ListIsAllocated, OnePollerPerDevice, TypeOK, boundVars

\* A request that is understood begins a loop over what is listed.
LEMMA SetGrabbingIInv ==
    ASSUME IInv, NEW r \in Requests, SetGrabbing(r),
           socket' \in Seq(Requests \cup {"error", "end"})
    PROVE  IInv'
BY DEF SetGrabbing, IInv, ListIsAllocated, OnePollerPerDevice, TypeOK, deviceVars, boundVars

\* Whatever a received request does, the list stays sound.
LEMMA HandleRequestIInv ==
    ASSUME IInv, NEW r \in Requests, HandleRequest(r),
           socket' \in Seq(Requests \cup {"error", "end"})
    PROVE  IInv'
BY ExitIInv, SetGrabbingIInv DEF HandleRequest

\* The steps of the main thread keep the list sound.
LEMMA MainStepIInv == IInv /\ MainStep => IInv'
<1> SUFFICES ASSUME IInv, MainStep PROVE IInv'
  OBVIOUS
<1> USE DEF IInv, ListIsAllocated, OnePollerPerDevice, TypeOK, deviceVars, boundVars
<1>1. ASSUME NEW d \in Devices, SkipDevice(d) PROVE IInv'
  BY <1>1 DEF SkipDevice
<1>2. CASE EnumerationEnds
  BY <1>2 DEF EnumerationEnds
<1>3. CASE PollTimesOut
  BY <1>3 DEF PollTimesOut
<1>4. CASE ReceiveRequest
  <2>1. /\ socket \in Seq(Requests \cup {"error", "end"}) /\ socket # <<>>
        /\ socket' = Tail(socket)
    BY <1>4 DEF ReceiveRequest
  <2>2. /\ socket' \in Seq(Requests \cup {"error", "end"})
        /\ Head(socket) \in Requests \cup {"error", "end"}
    BY <2>1
  <2>3. Exit \/ \E r \in Requests : HandleRequest(r)
    BY <1>4, <2>2 DEF ReceiveRequest
  <2> QED
    BY <2>2, <2>3, ExitIInv, HandleRequestIInv
<1>5. CASE RequestDone
  BY <1>5 DEF RequestDone
<1>6. ASSUME NEW e \in Entries, CarryOut(e) PROVE IInv'
  <2>1. grabber' \in [Devices -> Entries \cup {None}]
    BY <1>6, IoctlType DEF CarryOut
  <2> QED
    BY <1>6, <2>1 DEF CarryOut
<1> QED
  BY <1>1, <1>2, <1>3, <1>4, <1>5, <1>6 DEF MainStep

\* So do the steps of a polling thread.
LEMMA ThreadStepIInv ==
    ASSUME NEW e \in Entries PROVE IInv /\ ThreadStep(e) => IInv'
<1> SUFFICES ASSUME IInv, ThreadStep(e) PROVE IInv'
  OBVIOUS
<1> USE DEF IInv, ListIsAllocated, OnePollerPerDevice, TypeOK, deviceVars, boundVars
<1>1. CASE ThreadStarts(e)
  BY <1>1 DEF ThreadStarts
<1>2. CASE Grab(e)
  <2>1. grabber' \in [Devices -> Entries \cup {None}]
    BY <1>2, IoctlType DEF Grab
  <2> QED
    BY <1>2, <2>1 DEF Grab
<1>3. CASE DeviceGone(e)
  BY <1>3 DEF DeviceGone
<1>4. CASE Unlink(e)
  BY <1>4 DEF Unlink
<1>5. CASE FreeEntry(e)
  <2>1. grabber' \in [Devices -> Entries \cup {None}]
    BY <1>5, IoctlType DEF FreeEntry
  <2> QED
    BY <1>5, <2>1 DEF FreeEntry
<1> QED
  BY <1>1, <1>2, <1>3, <1>4, <1>5 DEF ThreadStep

\* And so do the devices, the client, and the begin of a polling thread.
LEMMA NextIInv == IInv /\ [Next]_vars => IInv'
<1> SUFFICES ASSUME IInv, [Next]_vars PROVE IInv'
  OBVIOUS
<1> USE DEF IInv, ListIsAllocated, OnePollerPerDevice, TypeOK, deviceVars, boundVars
<1>1. CASE MainStep
  BY <1>1, MainStepIInv
<1>2. CASE ClientSends
  <2>1. PICK s \in {<<r>> : r \in Requests} \cup {<<"end">>, <<"error", "end">>} :
            socket' = socket \o s
    BY <1>2 DEF ClientSends
  <2>2. s \in Seq(Requests \cup {"error", "end"})
    <3>1. ASSUME NEW r \in Requests, s = <<r>> PROVE s \in Seq(Requests \cup {"error", "end"})
      BY <3>1, r \in Requests \cup {"error", "end"}
    <3>2. <<"end">> \in Seq(Requests \cup {"error", "end"})
      OBVIOUS
    <3>3. <<"error", "end">> \in Seq(Requests \cup {"error", "end"})
      OBVIOUS
    <3> QED
      BY <3>1, <3>2, <3>3
  <2>3. socket' \in Seq(Requests \cup {"error", "end"})
    BY <2>1, <2>2
  <2> QED
    BY <1>2, <2>3, BoundsAssumption DEF ClientSends
<1>3. ASSUME NEW d \in Devices, Plug(d) PROVE IInv'
  BY <1>3, BoundsAssumption DEF Plug
<1>4. ASSUME NEW d \in Devices, Unplug(d) PROVE IInv'
  BY <1>4, BoundsAssumption DEF Unplug
<1>5. ASSUME NEW d \in Devices, StartPollForDevice(d) PROVE IInv'
  <2>1. PICK e \in CanPoll(d) :
          /\ listed' = listed \cup {e}
          /\ name' = [name EXCEPT ![e] = d]
          /\ live' = [live EXCEPT ![e] = TRUE]
          /\ thread' = [thread EXCEPT ![e] = "start"]
    BY <1>5 DEF StartPollForDevice
  <2>2. /\ e \in Entries /\ thread[e] = "none"
        /\ \A f \in listed : name[f] # d
    BY CanPollFree
  <2>3. TypeOK'
    BY <1>5, <2>1, <2>2 DEF StartPollForDevice
  <2> QED
    BY <1>5, <2>1, <2>2, <2>3 DEF StartPollForDevice
<1>6. ASSUME NEW e \in Entries, ThreadStep(e) PROVE IInv'
  BY <1>6, ThreadStepIInv
<1>7. CASE UNCHANGED vars
  BY <1>7 DEF vars
<1> QED
  BY <1>1, <1>2, <1>3, <1>4, <1>5, <1>6, <1>7 DEF Next

-----------------------------------------------------------------------------
\* Whoever walks the list finds entries that are allocated and open.
THEOREM ListIsAllocatedHolds == Spec => []ListIsAllocated
<1>1. IInv => ListIsAllocated
  BY DEF IInv
<1> QED
  BY InitIInv, NextIInv, <1>1, PTL DEF Spec

\* A device is polled by one thread at most, however often it comes and goes.
THEOREM OnePollerPerDeviceHolds == Spec => []OnePollerPerDevice
<1>1. IInv => OnePollerPerDevice
  BY DEF IInv
<1> QED
  BY InitIInv, NextIInv, <1>1, PTL DEF Spec
=============================================================================
