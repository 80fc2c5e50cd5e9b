------------------------ MODULE ControllerInputProofs ------------------------
(***************************************************************************)
(* ControllerInput for any devices and any MaxControllers: the numbers     *)
(* balance, the host is told of them, and no button stays down.            *)
(***************************************************************************)
EXTENDS ControllerInput, WellFoundedInduction, TLAPS

\* A reserved number is one that was assigned; a device without a context has none.
NumberInv ==
    \A d \in Devices :
        /\ context[d].reserved => context[d].assigned
        /\ d \notin contexts => ~context[d].assigned

\* Why context c of a device with the keys ks down has a button: a key that means it
\* is down, by the translation of now, or the button is emulated.
Because(c, ks) ==
    /\ "PLAY" \in c.inputMap => "START" \in ks \/ (c.backIsStart /\ "BACK" \in ks)
    /\ "BACK" \in c.inputMap =>
          \/ "SELECT" \in ks \/ (~c.backIsStart /\ "BACK" \in ks)
          \/ (c.modeIsSelect /\ "MODE" \in ks) \/ "SELECT" \in c.emulating
    /\ "SPECIAL" \in c.inputMap =>
          (~c.modeIsSelect /\ "MODE" \in ks) \/ "SPECIAL" \in c.emulating
    /\ "LB" \in c.inputMap => "L1" \in ks
    /\ "RB" \in c.inputMap => "R1" \in ks
    /\ "A" \in c.inputMap => "A" \in ks
    /\ c.emulating # {} => ks # {}

ButtonsInv == \A d \in Devices : Because(context[d], held[d])

\* A device without a context has no key down.
HeldInv == \A d \in Devices : d \notin contexts => held[d] = {}

IInv ==
    /\ NumbersBalance /\ NumberInv /\ MaskFollowsControllers
    /\ ButtonsInv /\ HeldInv /\ HostPadReleased

-----------------------------------------------------------------------------
(***************************************************************************)
(* Contexts.                                                               *)
(***************************************************************************)

\* What number a context has.
SameNumber(c, s) ==
    s.number = c.number /\ s.assigned = c.assigned /\ s.reserved = c.reserved

\* A device is not known to have less than before.
LEMMA RemembersFields ==
    ASSUME NEW c \in Contexts, NEW k \in Keys, NEW r, r = Remembers(c, k)
    PROVE  /\ r \in Contexts /\ SameNumber(c, r)
           /\ r.inputMap = c.inputMap /\ r.emulating = c.emulating
           /\ r.backIsStart = (c.backIsStart /\ k # "START")
           /\ r.modeIsSelect = (c.modeIsSelect /\ k # "SELECT")
BY DEF Contexts, Remembers, SameNumber

\* The emulated buttons come up, or both keys of the combination are down.
LEMMA EmulatedUpFields ==
    ASSUME NEW c \in Contexts, NEW s, s = EmulatedSpecialUp(EmulatedSelectUp(c))
    PROVE  /\ s \in Contexts /\ SameNumber(c, s)
           /\ s.backIsStart = c.backIsStart /\ s.modeIsSelect = c.modeIsSelect
           /\ s.inputMap \subseteq c.inputMap /\ s.emulating \subseteq c.emulating
           /\ s.emulating # {} => "PLAY" \in s.inputMap
           /\ "BACK" \in s.inputMap /\ "SELECT" \in c.emulating => "SELECT" \in s.emulating
           /\ "SPECIAL" \in s.inputMap /\ "SPECIAL" \in c.emulating => "SPECIAL" \in s.emulating
<1> DEFINE m == EmulatedSelectUp(c)
<1>1. /\ m \in Contexts /\ SameNumber(c, m)
      /\ m.backIsStart = c.backIsStart /\ m.modeIsSelect = c.modeIsSelect
      /\ \/ /\ m.inputMap = c.inputMap /\ m.emulating = c.emulating
            /\ "SELECT" \notin c.emulating \/ {"PLAY", "LB"} \subseteq c.inputMap
         \/ m.inputMap = c.inputMap \ {"BACK"} /\ m.emulating = c.emulating \ {"SELECT"}
  BY DEF Contexts, EmulatedSelectUp, SameNumber
<1>2. s = EmulatedSpecialUp(m)
  OBVIOUS
<1> HIDE DEF m
<1>3. /\ s \in Contexts /\ SameNumber(m, s)
      /\ s.backIsStart = m.backIsStart /\ s.modeIsSelect = m.modeIsSelect
      /\ \/ /\ s.inputMap = m.inputMap /\ s.emulating = m.emulating
            /\ "SPECIAL" \notin m.emulating \/ "PLAY" \in m.inputMap
         \/ s.inputMap = m.inputMap \ {"SPECIAL"} /\ s.emulating = m.emulating \ {"SPECIAL"}
  <2>1. CASE "SPECIAL" \in m.emulating /\
             ("PLAY" \notin m.inputMap \/ {"BACK", "RB"} \cap m.inputMap = {})
    <3>1. s = [m EXCEPT !.inputMap = @ \ {"SPECIAL"}, !.emulating = @ \ {"SPECIAL"}]
      BY <1>2, <2>1 DEF EmulatedSpecialUp
    <3> QED
      BY <1>1, <3>1 DEF Contexts, SameNumber
  <2>2. CASE ~("SPECIAL" \in m.emulating /\
             ("PLAY" \notin m.inputMap \/ {"BACK", "RB"} \cap m.inputMap = {}))
    <3>1. s = m
      BY <1>2, <2>2 DEF EmulatedSpecialUp
    <3> QED
      BY <1>1, <2>2, <3>1 DEF SameNumber
  <2> QED
    BY <2>1, <2>2
<1>4. c.emulating \subseteq {"SELECT", "SPECIAL"}
  BY DEF Contexts
<1> QED
  BY <1>1, <1>3, <1>4 DEF SameNumber

\* What handleButtonUp() and handleButtonDown() make of a context.
Released(c, k, toggle) ==
    EmulatedSpecialUp(EmulatedSelectUp(
        [Remembers(c, k) EXCEPT
            !.inputMap = @ \ {FlagOf[KeyCode(Remembers(c, k), k)]},
            !.mouse = @ # toggle]))

Down(c, k) ==
    LET code == KeyCode(Remembers(c, k), k)
    IN  [Remembers(c, k) EXCEPT
            !.inputMap = @ \cup {FlagOf[code]},
            !.hasMode = @ \/ code = "MODE",
            !.hasSelect = @ \/ code \in {"SELECT", "BACK"}]

Pressed(c, k, recent) ==
    SpecialCombination(SelectCombination(Down(c, k), recent), recent)

\* After a key went up every button that is left has a key that is down.
LEMMA ReleasedBecause ==
    ASSUME NEW c \in Contexts, NEW ks \in SUBSET Keys, NEW k \in Keys, NEW toggle \in BOOLEAN,
           Because(c, ks)
    PROVE  /\ Released(c, k, toggle) \in Contexts
           /\ SameNumber(c, Released(c, k, toggle))
           /\ Because(Released(c, k, toggle), ks \ {k})
<1> DEFINE r == Remembers(c, k)
           u == [r EXCEPT !.inputMap = @ \ {FlagOf[KeyCode(r, k)]}, !.mouse = @ # toggle]
           s == EmulatedSpecialUp(EmulatedSelectUp(u))
<1>1. /\ r \in Contexts /\ SameNumber(c, r)
      /\ r.inputMap = c.inputMap /\ r.emulating = c.emulating
      /\ r.backIsStart = (c.backIsStart /\ k # "START")
      /\ r.modeIsSelect = (c.modeIsSelect /\ k # "SELECT")
  BY RemembersFields
<1>2. Released(c, k, toggle) = s
  BY DEF Released
<1> HIDE DEF r
<1>3. /\ u \in Contexts /\ SameNumber(r, u)
      /\ u.backIsStart = r.backIsStart /\ u.modeIsSelect = r.modeIsSelect
      /\ u.emulating = r.emulating
      /\ u.inputMap = r.inputMap \ {FlagOf[KeyCode(r, k)]}
  BY <1>1 DEF Contexts, SameNumber
<1> HIDE DEF u
<1>4. /\ s \in Contexts /\ SameNumber(u, s)
      /\ s.backIsStart = u.backIsStart /\ s.modeIsSelect = u.modeIsSelect
      /\ s.inputMap \subseteq u.inputMap /\ s.emulating \subseteq u.emulating
      /\ s.emulating # {} => "PLAY" \in s.inputMap
      /\ "BACK" \in s.inputMap /\ "SELECT" \in u.emulating => "SELECT" \in s.emulating
      /\ "SPECIAL" \in s.inputMap /\ "SPECIAL" \in u.emulating => "SPECIAL" \in s.emulating
  BY <1>3, EmulatedUpFields
<1> HIDE DEF s
<1>5. /\ k = "START" => FlagOf[KeyCode(r, k)] = "PLAY"
      /\ k = "SELECT" => FlagOf[KeyCode(r, k)] = "BACK"
      /\ k = "BACK" => FlagOf[KeyCode(r, k)] = IF r.backIsStart THEN "PLAY" ELSE "BACK"
      /\ k = "MODE" => FlagOf[KeyCode(r, k)] = IF r.modeIsSelect THEN "BACK" ELSE "SPECIAL"
      /\ k = "L1" => FlagOf[KeyCode(r, k)] = "LB"
      /\ k = "R1" => FlagOf[KeyCode(r, k)] = "RB"
      /\ k = "A" => FlagOf[KeyCode(r, k)] = "A"
  BY DEF FlagOf, KeyCode
<1>6. Because(s, ks \ {k})
  <2> DEFINE f == FlagOf[KeyCode(r, k)]
  <2>1. s.inputMap \subseteq c.inputMap \ {f}
    BY <1>1, <1>3, <1>4
  <2>2. /\ s.backIsStart = (c.backIsStart /\ k # "START")
        /\ s.modeIsSelect = (c.modeIsSelect /\ k # "SELECT")
    BY <1>1, <1>3, <1>4
  <2>3. "PLAY" \in s.inputMap => "START" \in ks \ {k} \/ (s.backIsStart /\ "BACK" \in ks \ {k})
    BY <1>1, <1>5, <2>1, <2>2 DEF Because
  <2>4. "BACK" \in s.inputMap =>
          \/ "SELECT" \in ks \ {k} \/ (~s.backIsStart /\ "BACK" \in ks \ {k})
          \/ (s.modeIsSelect /\ "MODE" \in ks \ {k}) \/ "SELECT" \in s.emulating
    BY <1>1, <1>3, <1>4, <1>5, <2>1, <2>2 DEF Because
  <2>5. "SPECIAL" \in s.inputMap =>
          (~s.modeIsSelect /\ "MODE" \in ks \ {k}) \/ "SPECIAL" \in s.emulating
    BY <1>1, <1>3, <1>4, <1>5, <2>1, <2>2 DEF Because
  <2>6. /\ "LB" \in s.inputMap => "L1" \in ks \ {k}
        /\ "RB" \in s.inputMap => "R1" \in ks \ {k}
        /\ "A" \in s.inputMap => "A" \in ks \ {k}
    BY <1>5, <2>1 DEF Because
  <2>7. s.emulating # {} => ks \ {k} # {}
    BY <1>4, <2>3
  <2> QED
    BY <2>3, <2>4, <2>5, <2>6, <2>7 DEF Because
<1> QED
  BY <1>1, <1>2, <1>3, <1>4, <1>6 DEF SameNumber

\* A combination leaves the emulated button alone down.
LEMMA CombinationFields ==
    ASSUME NEW c \in Contexts, NEW recent, NEW s,
           s = SpecialCombination(SelectCombination(c, recent), recent)
    PROVE  /\ s \in Contexts /\ SameNumber(c, s)
           /\ s.backIsStart = c.backIsStart /\ s.modeIsSelect = c.modeIsSelect
           /\ \/ s.inputMap = c.inputMap /\ s.emulating = c.emulating
              \/ s.inputMap = {"BACK"} /\ s.emulating = c.emulating \cup {"SELECT"}
              \/ /\ s.inputMap = {"SPECIAL"}
                 /\ s.emulating \in {c.emulating \cup {"SPECIAL"},
                                     c.emulating \cup {"SELECT", "SPECIAL"}}
<1> DEFINE m == SelectCombination(c, recent)
<1>1. /\ m \in Contexts /\ SameNumber(c, m)
      /\ m.backIsStart = c.backIsStart /\ m.modeIsSelect = c.modeIsSelect
      /\ \/ m = c
         \/ m.inputMap = {"BACK"} /\ m.emulating = c.emulating \cup {"SELECT"}
  <2>1. m = c \/ m = [c EXCEPT !.inputMap = {"BACK"}, !.emulating = @ \cup {"SELECT"}]
    BY DEF SelectCombination
  <2>2. CASE m = c
    BY <2>2 DEF SameNumber
  <2>3. CASE m = [c EXCEPT !.inputMap = {"BACK"}, !.emulating = @ \cup {"SELECT"}]
    <3>1. {"BACK"} \in SUBSET Flags
      BY DEF Flags
    <3> QED
      BY <2>3, <3>1 DEF Contexts, SameNumber
  <2> QED
    BY <2>1, <2>2, <2>3
<1>2. s = m \/ s = [m EXCEPT !.inputMap = {"SPECIAL"}, !.emulating = @ \cup {"SPECIAL"}]
  BY DEF SpecialCombination
<1> HIDE DEF m
<1>3. CASE s = m
  BY <1>1, <1>3 DEF SameNumber
<1>4. CASE s = [m EXCEPT !.inputMap = {"SPECIAL"}, !.emulating = @ \cup {"SPECIAL"}]
  <2>1. {"SPECIAL"} \in SUBSET Flags
    BY DEF Flags
  <2>2. /\ s \in Contexts /\ SameNumber(m, s)
        /\ s.backIsStart = m.backIsStart /\ s.modeIsSelect = m.modeIsSelect
        /\ s.inputMap = {"SPECIAL"} /\ s.emulating = m.emulating \cup {"SPECIAL"}
    BY <1>1, <1>4, <2>1 DEF Contexts, SameNumber
  <2>3. /\ SameNumber(c, s)
        /\ s.backIsStart = c.backIsStart /\ s.modeIsSelect = c.modeIsSelect
    BY <1>1, <2>2 DEF SameNumber
  <2>4. s.emulating \in {c.emulating \cup {"SPECIAL"}, c.emulating \cup {"SELECT", "SPECIAL"}}
    BY <1>1, <2>2
  <2> QED
    BY <2>2, <2>3, <2>4
<1> QED
  BY <1>2, <1>3, <1>4

\* After a key went down the same holds, with that key.
LEMMA PressedBecause ==
    ASSUME NEW c \in Contexts, NEW ks \in SUBSET Keys, NEW k \in Keys, NEW recent,
           Because(c, ks)
    PROVE  /\ Pressed(c, k, recent) \in Contexts
           /\ SameNumber(c, Pressed(c, k, recent))
           /\ Because(Pressed(c, k, recent), ks \cup {k})
<1> DEFINE r == Remembers(c, k)
           f == FlagOf[KeyCode(r, k)]
           d == Down(c, k)
           s == Pressed(c, k, recent)
<1>1. /\ r \in Contexts /\ SameNumber(c, r)
      /\ r.inputMap = c.inputMap /\ r.emulating = c.emulating
      /\ r.backIsStart = (c.backIsStart /\ k # "START")
      /\ r.modeIsSelect = (c.modeIsSelect /\ k # "SELECT")
  BY RemembersFields
<1>2. /\ k = "START" => f = "PLAY"
      /\ k = "SELECT" => f = "BACK"
      /\ k = "BACK" => f = IF r.backIsStart THEN "PLAY" ELSE "BACK"
      /\ k = "MODE" => f = IF r.modeIsSelect THEN "BACK" ELSE "SPECIAL"
      /\ k = "L1" => f = "LB"
      /\ k = "R1" => f = "RB"
      /\ k = "A" => f = "A"
  BY DEF FlagOf, KeyCode
<1>3. f \in Flags
  BY <1>2 DEF Keys, Flags
<1>4. d = [r EXCEPT !.inputMap = @ \cup {f},
                    !.hasMode = @ \/ KeyCode(r, k) = "MODE",
                    !.hasSelect = @ \/ KeyCode(r, k) \in {"SELECT", "BACK"}]
  BY DEF Down
<1> HIDE DEF r, f, d
<1>5. /\ d \in Contexts /\ SameNumber(r, d)
      /\ d.backIsStart = r.backIsStart /\ d.modeIsSelect = r.modeIsSelect
      /\ d.inputMap = r.inputMap \cup {f} /\ d.emulating = r.emulating
  BY <1>1, <1>3, <1>4 DEF Contexts, SameNumber
<1>6. Because(d, ks \cup {k})
  BY <1>1, <1>2, <1>5 DEF Because, Keys
<1>7. s = SpecialCombination(SelectCombination(d, recent), recent)
  BY DEF Pressed, d
<1> HIDE DEF s
<1>8. /\ s \in Contexts /\ SameNumber(d, s)
      /\ s.backIsStart = d.backIsStart /\ s.modeIsSelect = d.modeIsSelect
      /\ \/ s.inputMap = d.inputMap /\ s.emulating = d.emulating
         \/ s.inputMap = {"BACK"} /\ s.emulating = d.emulating \cup {"SELECT"}
         \/ /\ s.inputMap = {"SPECIAL"}
            /\ s.emulating \in {d.emulating \cup {"SPECIAL"},
                                d.emulating \cup {"SELECT", "SPECIAL"}}
  BY <1>5, <1>7, CombinationFields
<1>9. Because(s, ks \cup {k})
  BY <1>6, <1>8 DEF Because
<1>10. SameNumber(c, s)
  BY <1>1, <1>5, <1>8 DEF SameNumber
<1> QED
  BY <1>8, <1>9, <1>10 DEF s

\* A button is down, or emulated, only while a key is.
LEMMA BecauseHeld ==
    ASSUME NEW c \in Contexts, NEW ks, Because(c, ks), ks = {}
    PROVE  c.inputMap = {} /\ c.emulating = {}
<1>1. c.inputMap \subseteq Flags /\ c.emulating = {}
  BY DEF Contexts, Because
<1>2. \A f \in Flags : f \notin c.inputMap
  BY <1>1 DEF Because, Flags
<1> QED
  BY <1>1, <1>2

-----------------------------------------------------------------------------
(***************************************************************************)
(* Numbers and packets.                                                    *)
(***************************************************************************)

\* The least of some natural numbers is one of them: natural numbers are well
\* ordered.
LEMMA MinIsMember ==
    ASSUME NEW S, S \subseteq Nat, S # {}
    PROVE  Min(S) \in S
<1>1. PICK x \in S : \A y \in S : ~ (<<y, x>> \in OpToRel(<, Nat))
  BY NatLessThanWellFounded, WFMin
<1>2. OpToRel(<, Nat) = {ss \in Nat \X Nat : ss[1] < ss[2]}
  BY DEF OpToRel
<1>3. \A y \in S : <<y, x>> \notin {ss \in Nat \X Nat : ss[1] < ss[2]}
  BY <1>1, <1>2, Zenon
<1>4. ASSUME NEW y \in S PROVE x <= y
  <2>1. x \in Nat /\ y \in Nat
    OBVIOUS
  <2>2. y < x => <<y, x>> \in {ss \in Nat \X Nat : ss[1] < ss[2]}
    BY <2>1
  <2> QED
    BY <1>3, <2>1, <2>2
<1> QED
  BY <1>4 DEF Min

\* assignControllerNumberIfNeeded() gives a number that is free, or 0.
LEMMA AssignEffect ==
    ASSUME TypeOK, NEW d \in Devices, NEW c \in Contexts,
           NEW s, s = AssignControllerNumber(d, c)
    PROVE  /\ s \in Contexts /\ s.assigned
           /\ s.inputMap = c.inputMap /\ s.emulating = c.emulating
           /\ s.backIsStart = c.backIsStart /\ s.modeIsSelect = c.modeIsSelect
           /\ c.assigned => s = c /\ ~Reserves(d, c)
           /\ ~c.assigned => s.reserved = Reserves(d, c)
           /\ Reserves(d, c) => s.number \in Numbers \ current
<1>1. CASE c.assigned
  BY <1>1 DEF AssignControllerNumber, Reserves
<1>2. CASE ~c.assigned
  <2>1. Reserves(d, c) \in BOOLEAN
    BY DEF Reserves
  <2>2. PICK n : n = IF Reserves(d, c) THEN Min(FreeNumbers) ELSE 0
    OBVIOUS
  <2>3. s = [c EXCEPT !.assigned = TRUE, !.reserved = Reserves(d, c), !.number = n]
    BY <1>2, <2>2 DEF AssignControllerNumber
  <2>4. Reserves(d, c) => n \in Numbers \ current
    <3>1. Reserves(d, c) => FreeNumbers # {}
      BY DEF Reserves
    <3>2. FreeNumbers \subseteq Nat
      BY DevicesAssumption DEF FreeNumbers, Numbers
    <3> QED
      BY <2>2, <3>1, <3>2, MinIsMember DEF FreeNumbers
  <2>5. n \in Numbers
    BY <2>2, <2>4, DevicesAssumption DEF Numbers
  <2>6. s \in Contexts
    BY <2>1, <2>3, <2>5 DEF Contexts
  <2> QED
    BY <1>2, <2>3, <2>4, <2>6 DEF Contexts
<1> QED
  BY <1>1, <1>2

\* What a packet of device d with context c comes to, when d's context is s after it
\* and the host sees the buttons F: these come from a device of that number with a
\* button down.
Packet(d, c, s, F) ==
    /\ s.assigned
    /\ context' = [context EXCEPT ![d] = s] /\ contexts' = contexts \cup {d}
    /\ \A ks : Because(c, ks) => Because(s, ks)
    /\ \/ /\ c.assigned /\ s.reserved = c.reserved /\ s.number = c.number
          /\ UNCHANGED <<current, initial>>
       \/ ~c.assigned /\ ~s.reserved /\ UNCHANGED <<current, initial>>
       \/ /\ ~c.assigned /\ s.reserved /\ s.number \in Numbers \ current
          /\ current' = current \cup {s.number} /\ initial' = initial \ {s.number}
    /\ hostMask' = ActiveMask(current', initial') /\ hostMouse' \in BOOLEAN
    /\ hostPad' = [hostPad EXCEPT ![s.number] = F]
    /\ F # {} => \E e \in contexts' :
          context'[e].assigned /\ context'[e].number = s.number /\ context'[e].inputMap # {}

\* sendControllerInputPacket() does no more than that.
LEMMA SendEffect ==
    ASSUME TypeOK, NEW d \in Devices, NEW c \in Contexts, SendControllerInputPacket(d, c)
    PROVE  \E s \in Contexts, F \in SUBSET Flags : Packet(d, c, s, F)
<1> DEFINE r == AssignControllerNumber(d, c)
           devices == contexts \cup {d}
           fused == Fused(devices, [context EXCEPT ![d] = r], r.number, r.mouse)
<1>1. /\ r \in Contexts /\ r.assigned
      /\ r.inputMap = c.inputMap /\ r.emulating = c.emulating
      /\ r.backIsStart = c.backIsStart /\ r.modeIsSelect = c.modeIsSelect
      /\ c.assigned => r = c /\ ~Reserves(d, c)
      /\ ~c.assigned => r.reserved = Reserves(d, c)
      /\ Reserves(d, c) => r.number \in Numbers \ current
  BY AssignEffect
<1>2. /\ contexts' = devices
      /\ current' = current \cup (IF Reserves(d, c) THEN {r.number} ELSE {})
      /\ initial' = initial \ (IF Reserves(d, c) THEN {r.number} ELSE {})
      /\ hostMask' = ActiveMask(current', initial')
      /\ IF r.mouse
         THEN /\ context' = [context EXCEPT ![d] = [r EXCEPT !.lastA = "A" \in fused]]
              /\ hostMouse' = IF ("A" \in fused) # r.lastA THEN "A" \in fused ELSE hostMouse
              /\ hostPad' = [hostPad EXCEPT ![r.number] = {}]
         ELSE /\ context' = [context EXCEPT ![d] = r]
              /\ hostPad' = [hostPad EXCEPT ![r.number] = fused]
              /\ UNCHANGED hostMouse
  BY Zenon DEF SendControllerInputPacket
<1>3. /\ contexts \subseteq Devices /\ context \in [Devices -> Contexts]
      /\ hostMouse \in BOOLEAN
  BY DEF TypeOK
<1>4. fused \in SUBSET Flags
  BY <1>1, <1>3 DEF Fused, Contexts
<1>5. fused # {} => \E e \in devices :
         LET all == [context EXCEPT ![d] = r] IN
         all[e].assigned /\ all[e].number = r.number /\ all[e].inputMap # {}
  BY DEF Fused
<1> HIDE DEF r, fused
<1>6. /\ UNCHANGED <<current, initial>> \/ Reserves(d, c)
      /\ Reserves(d, c) => current' = current \cup {r.number} /\ initial' = initial \ {r.number}
      /\ Reserves(d, c) => ~c.assigned
  BY <1>1, <1>2
<1>7. CASE r.mouse
  <2>0. PICK b \in BOOLEAN : b = ("A" \in fused)
    <3>1. ("A" \in fused) \in BOOLEAN
      OBVIOUS
    <3> QED
      BY <3>1, Zenon
  <2> DEFINE s == [r EXCEPT !.lastA = b]
  <2>1. s \in Contexts /\ SameNumber(r, s)
        /\ s.inputMap = r.inputMap /\ s.emulating = r.emulating
        /\ s.backIsStart = r.backIsStart /\ s.modeIsSelect = r.modeIsSelect
    BY <1>1 DEF Contexts, SameNumber
  <2>2. context' = [context EXCEPT ![d] = s] /\ hostPad' = [hostPad EXCEPT ![r.number] = {}]
    BY <1>2, <1>7, <2>0
  <2>3. hostMouse' \in {hostMouse, b}
    BY <1>2, <1>7, <2>0
  <2> HIDE DEF s
  <2>4. \A ks : Because(c, ks) => Because(s, ks)
    BY <1>1, <2>1 DEF Because
  <2>5. hostMouse' \in BOOLEAN
    BY <1>3, <2>3
  <2> USE <2>1
  <2> WITNESS s \in Contexts, {} \in SUBSET Flags
  <2> QED
    BY <1>1, <1>2, <1>6, <2>1, <2>2, <2>4, <2>5 DEF SameNumber, Packet
<1>8. CASE ~r.mouse
  <2>1. /\ context' = [context EXCEPT ![d] = r] /\ hostPad' = [hostPad EXCEPT ![r.number] = fused]
        /\ hostMouse' \in BOOLEAN
    BY <1>2, <1>3, <1>8
  <2>2. \A ks : Because(c, ks) => Because(r, ks)
    BY <1>1 DEF Because
  <2>3. fused # {} => \E e \in contexts' :
           context'[e].assigned /\ context'[e].number = r.number /\ context'[e].inputMap # {}
    BY <1>2, <1>5, <2>1
  <2> USE <1>1, <1>4
  <2> WITNESS r \in Contexts, fused \in SUBSET Flags
  <2> QED
    BY <1>2, <1>6, <2>1, <2>2, <2>3 DEF Packet
<1> QED
  BY <1>7, <1>8

USE DEF padVars, hostVars

\* NumbersBalance, number by number.
Balance ==
    /\ \A n : n \in current <=> \E d \in contexts : context[d].reserved /\ context[d].number = n
    /\ \A d, e \in contexts : context[d].reserved /\ context[e].reserved
                              /\ context[d].number = context[e].number => d = e

\* What NumbersBalance says, number by number, before a step and after it.
LEMMA BalanceIs ==
    /\ NumbersBalance <=> TypeOK /\ Balance
    /\ NumbersBalance' <=> TypeOK' /\ Balance'
<1>1. NumbersBalance <=> TypeOK /\ Balance
  BY DEF NumbersBalance, Balance
<1>2. NumbersBalance' <=> TypeOK' /\ Balance'
  BY DEF NumbersBalance, Balance
<1> QED
  BY <1>1, <1>2

\* A packet for device d keeps the invariant, when the buttons of d are those of its
\* keys.
LEMMA SendInv ==
    ASSUME IInv, NEW d \in Devices, NEW c \in Contexts, NEW ks \in SUBSET Keys,
           SendControllerInputPacket(d, c), SameNumber(context[d], c), Because(c, ks),
           held' = [held EXCEPT ![d] = ks], UNCHANGED <<padVars, attached>>
    PROVE  IInv'
<1>1. /\ TypeOK /\ Balance /\ NumberInv /\ MaskFollowsControllers
      /\ ButtonsInv /\ HeldInv /\ HostPadReleased
  BY BalanceIs DEF IInv
<1>0. PICK s \in Contexts, F \in SUBSET Flags : Packet(d, c, s, F)
  BY <1>1, SendEffect, Zenon
<1>2. /\ s.assigned
      /\ context' = [context EXCEPT ![d] = s] /\ contexts' = contexts \cup {d}
      /\ \A all : Because(c, all) => Because(s, all)
      /\ \/ /\ c.assigned /\ s.reserved = c.reserved /\ s.number = c.number
            /\ UNCHANGED <<current, initial>>
         \/ ~c.assigned /\ ~s.reserved /\ UNCHANGED <<current, initial>>
         \/ /\ ~c.assigned /\ s.reserved /\ s.number \in Numbers \ current
            /\ current' = current \cup {s.number} /\ initial' = initial \ {s.number}
      /\ hostMask' = ActiveMask(current', initial') /\ hostMouse' \in BOOLEAN
      /\ hostPad' = [hostPad EXCEPT ![s.number] = F]
      /\ F # {} => \E e \in contexts' :
            context'[e].assigned /\ context'[e].number = s.number /\ context'[e].inputMap # {}
  BY <1>0 DEF Packet
<1>3. /\ s.number \in Numbers /\ s.reserved \in BOOLEAN
      /\ context[d].number = c.number /\ context[d].assigned = c.assigned
      /\ context[d].reserved = c.reserved
  BY DEF Contexts, SameNumber
<1>4. /\ context'[d] = s /\ held'[d] = ks
      /\ \A e \in Devices : e # d => context'[e] = context[e] /\ held'[e] = held[e]
      /\ context \in [Devices -> Contexts] /\ contexts \subseteq Devices
  BY <1>1, <1>2 DEF TypeOK
<1>5. TypeOK'
  <2>1. hostMask' \in (SUBSET (Numbers \cup MaskBits)) \cup {NotTold}
    <3>1. 0 \in Numbers
      BY DevicesAssumption DEF Numbers
    <3>2. current' \subseteq Numbers /\ initial' \subseteq MaskBits
      BY <1>1, <1>2 DEF TypeOK
    <3> QED
      BY <1>2, <3>1, <3>2 DEF ActiveMask
  <2>2. context' \in [Devices -> Contexts] /\ contexts' \subseteq Devices
    BY <1>1, <1>2 DEF TypeOK
  <2>3. held' \in [Devices -> SUBSET Keys]
    BY <1>1 DEF TypeOK
  <2>4. hostPad' \in [Numbers -> SUBSET Flags] /\ hostMouse' \in BOOLEAN
    BY <1>1, <1>2, <1>3 DEF TypeOK
  <2>5. current' \subseteq Numbers /\ initial' \subseteq MaskBits
    BY <1>1, <1>2 DEF TypeOK
  <2> QED
    BY <1>1, <2>1, <2>2, <2>3, <2>4, <2>5 DEF TypeOK
<1>6. NumberInv'
  BY <1>1, <1>2, <1>3, <1>4 DEF NumberInv
<1>7. Balance'
  <2>1. CASE c.assigned /\ s.reserved = c.reserved /\ s.number = c.number /\ UNCHANGED current
    <3>1. d \in contexts
      BY <1>1, <1>3, <2>1 DEF NumberInv
    <3>2. \A e \in Devices : /\ context'[e].reserved = context[e].reserved
                             /\ context'[e].number = context[e].number
      BY <1>3, <1>4, <2>1
    <3>3. contexts' = contexts
      BY <1>2, <3>1
    <3> QED
      BY <1>1, <1>4, <2>1, <3>2, <3>3 DEF Balance
  <2>2. CASE ~c.assigned /\ ~s.reserved /\ UNCHANGED current
    <3>1. ~context[d].reserved
      BY <1>1, <1>3, <2>2 DEF NumberInv
    <3> QED
      BY <1>1, <1>2, <1>4, <2>2, <3>1 DEF Balance
  <2>3. CASE ~c.assigned /\ s.reserved /\ s.number \in Numbers \ current
             /\ current' = current \cup {s.number}
    <3>1. ~context[d].reserved
      BY <1>1, <1>3, <2>3 DEF NumberInv
    <3>2. \A e \in contexts : context[e].reserved => e # d /\ context[e].number # s.number
      BY <1>1, <2>3, <3>1 DEF Balance
    <3> QED
      BY <1>1, <1>2, <1>4, <2>3, <3>1, <3>2 DEF Balance
  <2> QED
    BY <1>2, <2>1, <2>2, <2>3
<1>8. MaskFollowsControllers'
  BY <1>2 DEF MaskFollowsControllers, ActiveMask
<1>9. ButtonsInv' /\ HeldInv'
  BY <1>1, <1>2, <1>4 DEF ButtonsInv, HeldInv
<1>10. HostPadReleased'
  <2> SUFFICES ASSUME NEW n \in Numbers, hostPad'[n] # {}
               PROVE  \E e \in contexts' :
                         context'[e].assigned /\ context'[e].number = n /\ held'[e] # {}
    BY DEF HostPadReleased
  <2>1. CASE n = s.number
    <3>1. F # {}
      BY <1>1, <1>2, <2>1 DEF TypeOK
    <3>2. PICK e \in contexts' : context'[e].assigned /\ context'[e].number = s.number
                                 /\ context'[e].inputMap # {}
      BY <1>2, <3>1
    <3>3. e \in Devices /\ context'[e] \in Contexts /\ Because(context'[e], held'[e])
      BY <1>5, <1>9, <3>2 DEF TypeOK, ButtonsInv
    <3> QED
      BY <2>1, <3>2, <3>3, BecauseHeld
  <2>2. CASE n # s.number
    <3>1. hostPad[n] # {}
      BY <1>1, <1>2, <2>2 DEF TypeOK
    <3>2. PICK e \in contexts : context[e].assigned /\ context[e].number = n /\ held[e] # {}
      BY <1>1, <3>1 DEF HostPadReleased
    <3>3. e # d
      BY <1>2, <1>3, <2>2, <3>2
    <3> QED
      BY <1>2, <1>4, <3>2, <3>3
  <2> QED
    BY <2>1, <2>2
<1> QED
  BY <1>5, <1>6, <1>7, <1>8, <1>9, <1>10, BalanceIs DEF IInv

-----------------------------------------------------------------------------
(***************************************************************************)
(* Devices.                                                                *)
(***************************************************************************)

\* A new context has no number and no button.
LEMMA NewContextFields ==
    ASSUME NEW k \in Kinds
    PROVE  LET c == NewContext(k) IN
           /\ c \in Contexts /\ c.inputMap = {} /\ c.emulating = {}
           /\ ~c.assigned /\ ~c.reserved
           /\ \A ks : Because(c, ks)
<1> DEFINE c == NewContext(k)
<1>1. k.hasSelect \in BOOLEAN /\ k.hasMode \in BOOLEAN /\ k.remaps \in BOOLEAN
  BY DEF Kinds
<1>2. c \in Contexts
  BY <1>1, DevicesAssumption DEF NewContext, Contexts, Numbers
<1>3. c.inputMap = {} /\ c.emulating = {} /\ ~c.assigned /\ ~c.reserved
  BY DEF NewContext
<1> QED
  BY <1>2, <1>3 DEF Because

\* A device comes, is unplugged, or sends a key that the handlers do not know.
LEMMA AttachInv ==
    ASSUME IInv, NEW d \in Devices, Attach(d) \/ Detach(d) \/ HandleOtherKey(d)
    PROVE  IInv'
<1>1. /\ TypeOK /\ Balance /\ NumberInv /\ MaskFollowsControllers
      /\ ButtonsInv /\ HeldInv /\ HostPadReleased
  BY BalanceIs DEF IInv
<1>2. /\ UNCHANGED <<padVars, context, current, initial, held, hostVars>>
      /\ attached' \subseteq Devices
      /\ contexts' = contexts \/ (contexts' = contexts \cup {d} /\ d \notin contexts)
  BY <1>1 DEF TypeOK, Attach, Detach, HandleOtherKey
<1>3. TypeOK'
  BY <1>1, <1>2 DEF TypeOK
<1>4. Balance'
  BY <1>1, <1>2 DEF Balance, NumberInv
<1>5. NumberInv' /\ MaskFollowsControllers' /\ ButtonsInv' /\ HeldInv'
  BY <1>1, <1>2
     DEF NumberInv, MaskFollowsControllers, ActiveMask, ButtonsInv, HeldInv
<1>6. HostPadReleased'
  BY <1>1, <1>2 DEF HostPadReleased
<1> QED
  BY <1>3, <1>4, <1>5, <1>6, BalanceIs DEF IInv

\* A device is gone: its number is free again and its controller is released.
LEMMA RemovedInv ==
    ASSUME IInv, NEW d \in Devices, OnInputDeviceRemoved(d)
    PROVE  IInv'
<1>1. /\ TypeOK /\ Balance /\ NumberInv /\ MaskFollowsControllers
      /\ ButtonsInv /\ HeldInv /\ HostPadReleased
  BY BalanceIs DEF IInv
<1> DEFINE c == context[d]
           new == NewContext(kind[d])
<1>2. /\ d \in contexts
      /\ current' = IF c.reserved THEN current \ {c.number} ELSE current
      /\ c.assigned => /\ hostPad' = [hostPad EXCEPT ![c.number] = {}]
                       /\ hostMask' = ActiveMask(current', initial)
      /\ ~c.assigned => UNCHANGED <<hostPad, hostMask>>
      /\ contexts' = contexts \ {d} /\ context' = [context EXCEPT ![d] = new]
      /\ held' = [held EXCEPT ![d] = {}]
      /\ UNCHANGED <<padVars, attached, initial, hostMouse>>
  BY DEF OnInputDeviceRemoved, ReleaseControllerNumber
<1>3. /\ c \in Contexts /\ c.number \in Numbers /\ (c.reserved => c.assigned)
      /\ context \in [Devices -> Contexts] /\ contexts \subseteq Devices
  BY <1>1 DEF TypeOK, NumberInv, Contexts
<1>4. new \in Contexts /\ ~new.assigned /\ ~new.reserved /\ \A ks : Because(new, ks)
  <2>1. kind[d] \in Kinds
    BY <1>1 DEF TypeOK
  <2> QED
    BY <2>1, NewContextFields, Zenon
<1> HIDE DEF new
<1>5. /\ context'[d] = new /\ held'[d] = {}
      /\ \A e \in Devices : e # d => context'[e] = context[e] /\ held'[e] = held[e]
  BY <1>1, <1>2, <1>3 DEF TypeOK
<1>6. TypeOK'
  <2>1. 0 \in Numbers
    BY DevicesAssumption DEF Numbers
  <2>2. current' \subseteq Numbers /\ initial' \subseteq MaskBits
    BY <1>1, <1>2 DEF TypeOK
  <2>3. hostMask' \in (SUBSET (Numbers \cup MaskBits)) \cup {NotTold}
    BY <1>1, <1>2, <2>1, <2>2 DEF TypeOK, ActiveMask
  <2>4. context' \in [Devices -> Contexts] /\ contexts' \subseteq Devices
    BY <1>2, <1>3, <1>4
  <2>5. held' \in [Devices -> SUBSET Keys]
    BY <1>1, <1>2 DEF TypeOK
  <2>6. hostPad' \in [Numbers -> SUBSET Flags]
    BY <1>1, <1>2, <1>3 DEF TypeOK
  <2> QED
    BY <1>1, <1>2, <2>2, <2>3, <2>4, <2>5, <2>6 DEF TypeOK
<1>7. NumberInv'
  BY <1>1, <1>2, <1>4, <1>5 DEF NumberInv
<1>8. Balance'
  <2>1. \A e \in contexts' : e \in contexts /\ e # d /\ context'[e] = context[e]
    BY <1>2, <1>3, <1>5
  <2>2. CASE c.reserved
    <3>1. \A e \in contexts' : context[e].reserved => context[e].number # c.number
      BY <1>1, <1>2, <2>1, <2>2 DEF Balance
    <3>2. \A n : n \in current' <=> n \in current /\ n # c.number
      BY <1>2, <2>2
    <3> QED
      BY <1>1, <1>2, <2>1, <3>1, <3>2 DEF Balance
  <2>3. CASE ~c.reserved
    BY <1>1, <1>2, <2>1, <2>3 DEF Balance
  <2> QED
    BY <2>2, <2>3
<1>9. MaskFollowsControllers'
  <2>1. CASE c.assigned
    BY <1>2, <2>1 DEF MaskFollowsControllers, ActiveMask
  <2>2. CASE ~c.assigned
    BY <1>1, <1>2, <1>3, <2>2 DEF MaskFollowsControllers, ActiveMask
  <2> QED
    BY <2>1, <2>2
<1>10. ButtonsInv' /\ HeldInv'
  BY <1>1, <1>2, <1>4, <1>5 DEF ButtonsInv, HeldInv
<1>11. HostPadReleased'
  <2> SUFFICES ASSUME NEW n \in Numbers, hostPad'[n] # {}
               PROVE  \E e \in contexts' :
                         context'[e].assigned /\ context'[e].number = n /\ held'[e] # {}
    BY DEF HostPadReleased
  <2>1. hostPad[n] # {} /\ ~(c.assigned /\ c.number = n)
    BY <1>1, <1>2, <1>3 DEF TypeOK
  <2>2. PICK e \in contexts : context[e].assigned /\ context[e].number = n /\ held[e] # {}
    BY <1>1, <2>1 DEF HostPadReleased
  <2> QED
    BY <1>2, <1>3, <1>5, <2>1, <2>2
<1> QED
  BY <1>6, <1>7, <1>8, <1>9, <1>10, <1>11, BalanceIs DEF IInv

\* A device changed: the new context takes over the number alone.
LEMMA ChangedInv ==
    ASSUME IInv, NEW d \in Devices, OnInputDeviceChanged(d)
    PROVE  IInv'
<1>1. /\ TypeOK /\ Balance /\ NumberInv /\ MaskFollowsControllers
      /\ ButtonsInv /\ HeldInv /\ HostPadReleased
  BY BalanceIs DEF IInv
<1> DEFINE c == context[d]
           new == NewContext(kind[d])
           s == [new EXCEPT !.assigned = c.assigned, !.reserved = c.reserved,
                            !.number = c.number]
<1>2. /\ d \in contexts /\ context' = [context EXCEPT ![d] = s]
      /\ UNCHANGED <<padVars, attached, contexts, current, initial, held, hostVars>>
  BY DEF OnInputDeviceChanged
<1>3. new \in Contexts /\ new.inputMap = {} /\ new.emulating = {}
  <2>1. kind[d] \in Kinds
    BY <1>1 DEF TypeOK
  <2> QED
    BY <2>1, NewContextFields, Zenon
<1>4. c \in Contexts /\ context \in [Devices -> Contexts] /\ contexts \subseteq Devices
  BY <1>1 DEF TypeOK
<1> HIDE DEF new, c
<1>5. s \in Contexts /\ SameNumber(c, s) /\ s.inputMap = {} /\ s.emulating = {}
  BY <1>3, <1>4 DEF Contexts, SameNumber
<1> HIDE DEF s
<1>6. \A ks : Because(s, ks)
  BY <1>5 DEF Because
<1>7. /\ context'[d] = s /\ SameNumber(context[d], s)
      /\ \A e \in Devices : e # d => context'[e] = context[e]
      /\ \A e \in Devices : SameNumber(context[e], context'[e])
  <2>1. context'[d] = s /\ \A e \in Devices : e # d => context'[e] = context[e]
    BY <1>2, <1>4
  <2>2. SameNumber(context[d], s)
    BY <1>5 DEF c
  <2> QED
    BY <2>1, <2>2 DEF SameNumber
<1>8. TypeOK'
  <2>1. context' \in [Devices -> Contexts]
    BY <1>2, <1>4, <1>5
  <2> QED
    BY <1>1, <1>2, <2>1 DEF TypeOK
<1>9. Balance'
  BY <1>1, <1>2, <1>4, <1>7 DEF Balance, SameNumber
<1>10. NumberInv' /\ MaskFollowsControllers'
  BY <1>1, <1>2, <1>7 DEF NumberInv, SameNumber, MaskFollowsControllers, ActiveMask
<1>11. ButtonsInv' /\ HeldInv'
  BY <1>1, <1>2, <1>6, <1>7 DEF ButtonsInv, HeldInv
<1>12. HostPadReleased'
  BY <1>1, <1>2, <1>4, <1>7 DEF HostPadReleased, SameNumber
<1> QED
  BY <1>8, <1>9, <1>10, <1>11, <1>12, BalanceIs DEF IInv

-----------------------------------------------------------------------------
(***************************************************************************)
(* Events.                                                                 *)
(***************************************************************************)

\* A key goes up.
LEMMA ButtonUpInv ==
    ASSUME IInv, NEW d \in Devices, NEW k \in KeysOf[d], HandleButtonUp(d, k)
    PROVE  IInv'
<1>1. TypeOK /\ Because(context[d], held[d])
  BY DEF IInv, NumbersBalance, ButtonsInv
<1>2. context[d] \in Contexts /\ held[d] \in SUBSET Keys /\ k \in Keys
  BY <1>1, DevicesAssumption DEF TypeOK
<1>3. PICK toggle \in BOOLEAN :
         SendControllerInputPacket(d, Released(context[d], k, toggle))
  BY Zenon DEF HandleButtonUp, Released
<1>4. held' = [held EXCEPT ![d] = held[d] \ {k}] /\ UNCHANGED <<padVars, attached>>
  BY DEF HandleButtonUp
<1> DEFINE s == Released(context[d], k, toggle)
<1>5. s \in Contexts /\ SameNumber(context[d], s) /\ Because(s, held[d] \ {k})
  BY <1>1, <1>2, <1>3, ReleasedBecause, Zenon
<1>6. held[d] \ {k} \in SUBSET Keys
  BY <1>2
<1> HIDE DEF s
<1>7. SendControllerInputPacket(d, s)
  BY <1>3 DEF s
<1> QED
  BY <1>4, <1>5, <1>6, <1>7, SendInv, Zenon

\* A key goes down.
LEMMA ButtonDownInv ==
    ASSUME IInv, NEW d \in Devices, NEW k \in KeysOf[d], HandleButtonDown(d, k)
    PROVE  IInv'
<1>1. TypeOK /\ Because(context[d], held[d])
  BY DEF IInv, NumbersBalance, ButtonsInv
<1>2. context[d] \in Contexts /\ held[d] \in SUBSET Keys /\ k \in Keys
  BY <1>1, DevicesAssumption DEF TypeOK
<1>3. PICK recent : SendControllerInputPacket(d, Pressed(context[d], k, recent))
  BY Zenon DEF HandleButtonDown, Pressed, Down
<1>4. held' = [held EXCEPT ![d] = held[d] \cup {k}] /\ UNCHANGED <<padVars, attached>>
  BY DEF HandleButtonDown
<1> DEFINE s == Pressed(context[d], k, recent)
<1>5. s \in Contexts /\ SameNumber(context[d], s) /\ Because(s, held[d] \cup {k})
  BY <1>1, <1>2, PressedBecause, Zenon
<1>6. held[d] \cup {k} \in SUBSET Keys
  BY <1>2
<1> HIDE DEF s
<1>7. SendControllerInputPacket(d, s)
  BY <1>3 DEF s
<1> QED
  BY <1>4, <1>5, <1>6, <1>7, SendInv, Zenon

\* A stick or a trigger moves.
LEMMA MotionInv ==
    ASSUME IInv, NEW d \in Devices, HandleMotionEvent(d)
    PROVE  IInv'
<1>1. TypeOK /\ Because(context[d], held[d])
  BY DEF IInv, NumbersBalance, ButtonsInv
<1>2. context[d] \in Contexts /\ held[d] \in SUBSET Keys
  BY <1>1 DEF TypeOK
<1>3. SendControllerInputPacket(d, context[d]) /\ UNCHANGED <<padVars, attached, held>>
  BY DEF HandleMotionEvent
<1>4. held' = [held EXCEPT ![d] = held[d]]
  BY <1>1, <1>3 DEF TypeOK
<1>5. SameNumber(context[d], context[d])
  BY DEF SameNumber
<1> QED
  BY <1>1, <1>2, <1>3, <1>4, <1>5, SendInv, Zenon

-----------------------------------------------------------------------------
(***************************************************************************)
(* The theorems.                                                           *)
(***************************************************************************)

\* At first no device has a context and the host knows of no controller.
LEMMA InitIInv ==
    ASSUME Init
    PROVE  IInv
<1>1. kind \in [Devices -> Kinds]
  BY DevicesAssumption DEF Init
<1>2. \A d \in Devices : context[d] = NewContext(kind[d]) /\ kind[d] \in Kinds
  BY <1>1 DEF Init
<1>3. \A d \in Devices : /\ context[d] \in Contexts /\ ~context[d].assigned
                          /\ ~context[d].reserved /\ \A ks : Because(context[d], ks)
  BY <1>2, NewContextFields, Zenon
<1>4. TypeOK
  <2>1. context \in [Devices -> Contexts]
    BY <1>3 DEF Init
  <2>2. initial \subseteq MaskBits
    BY DEF Init
  <2>3. /\ held \in [Devices -> SUBSET Keys] /\ hostPad \in [Numbers -> SUBSET Flags]
        /\ hostMask \in (SUBSET (Numbers \cup MaskBits)) \cup {NotTold} /\ hostMouse \in BOOLEAN
    BY DEF Init
  <2> QED
    BY <1>1, <2>1, <2>2, <2>3 DEF Init, TypeOK
<1>5. Balance
  BY DEF Init, Balance
<1>6. NumberInv /\ ButtonsInv /\ HeldInv
  BY <1>3 DEF Init, NumberInv, ButtonsInv, HeldInv
<1>7. MaskFollowsControllers /\ HostPadReleased
  BY DEF Init, MaskFollowsControllers, HostPadReleased
<1> QED
  BY <1>4, <1>5, <1>6, <1>7, BalanceIs DEF IInv

\* Every handler keeps the invariant.
LEMMA NextIInv ==
    ASSUME IInv, [Next]_vars
    PROVE  IInv'
<1>1. CASE UNCHANGED vars
  BY <1>1 DEF IInv, vars, NumbersBalance, TypeOK, NumberInv, MaskFollowsControllers,
              ActiveMask, ButtonsInv, HeldInv, HostPadReleased
<1>2. CASE Next
  <2>1. PICK d \in Devices :
           \/ Attach(d) \/ Detach(d) \/ OnInputDeviceRemoved(d) \/ OnInputDeviceChanged(d)
           \/ HandleOtherKey(d) \/ HandleMotionEvent(d)
           \/ \E k \in KeysOf[d] : HandleButtonDown(d, k) \/ HandleButtonUp(d, k)
    BY <1>2, Zenon DEF Next
  <2>2. CASE Attach(d) \/ Detach(d) \/ HandleOtherKey(d)
    BY <2>2, AttachInv
  <2>3. CASE OnInputDeviceRemoved(d)
    BY <2>3, RemovedInv
  <2>4. CASE OnInputDeviceChanged(d)
    BY <2>4, ChangedInv
  <2>5. CASE HandleMotionEvent(d)
    BY <2>5, MotionInv
  <2>6. ASSUME NEW k \in KeysOf[d], HandleButtonDown(d, k) PROVE IInv'
    BY <2>6, ButtonDownInv
  <2>7. ASSUME NEW k \in KeysOf[d], HandleButtonUp(d, k) PROVE IInv'
    BY <2>7, ButtonUpInv
  <2> QED
    BY <2>1, <2>2, <2>3, <2>4, <2>5, <2>6, <2>7
<1> QED
  BY <1>1, <1>2

\* IInv holds in every reachable state.
THEOREM Invariant == Spec => []IInv
<1>1. Init => IInv
  BY InitIInv
<1>2. IInv /\ [Next]_vars => IInv'
  BY NextIInv
<1> QED
  BY <1>1, <1>2, PTL DEF Spec

\* Whatever devices come, change and go, a controller number is taken exactly while
\* one connected gamepad has reserved it.
THEOREM NumbersAreBalanced == Spec => []NumbersBalance
<1>1. IInv => NumbersBalance
  BY DEF IInv
<1> QED
  BY <1>1, Invariant, PTL

\* The host's picture of which controllers are there is never stale.
THEOREM MaskIsTrue == Spec => []MaskFollowsControllers
<1>1. IInv => MaskFollowsControllers
  BY DEF IInv
<1> QED
  BY <1>1, Invariant, PTL

\* No order of pressing and releasing a combination leaves a button down in a
\* context whose keys are all up.
THEOREM ButtonsComeUp == Spec => []NoStuckButtons
<1>1. IInv => NoStuckButtons
  <2> SUFFICES ASSUME IInv, NEW d \in contexts, held[d] = {}
               PROVE  context[d].inputMap = {} /\ context[d].emulating = {}
    BY DEF NoStuckButtons
  <2>1. context[d] \in Contexts /\ Because(context[d], held[d])
    BY DEF IInv, NumbersBalance, TypeOK, ButtonsInv
  <2> QED
    BY <2>1, BecauseHeld
<1> QED
  BY <1>1, Invariant, PTL

\* Nor does the host keep a button down for a controller without one.
THEOREM PadsAreReleased == Spec => []HostPadReleased
<1>1. IInv => HostPadReleased
  BY DEF IInv
<1> QED
  BY <1>1, Invariant, PTL
=============================================================================
