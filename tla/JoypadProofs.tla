--------------------------- MODULE JoypadProofs ---------------------------
(***************************************************************************)
(* Proofs about Joypad for every number of buttons, every assignment of the *)
(* buttons to lines and groups, and all values written to JOYP.  JoypadInv   *)
(* is inductive as it stands; what carries it is one lemma about             *)
(* load_joyp_nibble, which both callers need.                                *)
(***************************************************************************)
EXTENDS Joypad, TLAPS

\* The lines and the bits that select are different bits of the register.
LEMMA MaskIsApart == JOYP_RW_MASK \cap Nibble = {} /\ {6, 7} \cap (JOYP_RW_MASK \cup Nibble) = {}
BY DEF JOYP_RW_MASK, ActionBit, DirectionBit, Nibble

\* What load_joyp_nibble leaves: the bits above the lines alone, and the lines as the pressed
\* buttons of the selected groups have it.
LEMMA LoadedLines ==
    ASSUME NEW reg, reg \subseteq Bits, pressed \subseteq Buttons, load_joyp_nibble(reg)
    PROVE  /\ joyp_reg' \subseteq Bits
           /\ joyp_reg' \ Nibble = reg \ Nibble
           /\ \A l \in Nibble : l \notin joyp_reg' <=>
                 \E i \in pressed : Line[i] = l /\ Group[i] \notin joyp_reg'
<1>. DEFINE next == Nibble \ LowLines(pressed, reg)
<1>1. joyp_reg' = (reg \ Nibble) \cup next
  BY DEF load_joyp_nibble
<1>2. Nibble \subseteq Bits
  BY DEF Nibble, Bits
<1>3. joyp_reg' \ Nibble = reg \ Nibble
  BY <1>1
<1>4. ASSUME NEW i \in pressed
      PROVE  Group[i] \notin joyp_reg' <=> Group[i] \notin reg
  <2>1. Group[i] \in JOYP_RW_MASK
    BY JoypadAssumption
  <2>2. Group[i] \notin Nibble
    BY <2>1, MaskIsApart
  <2>. QED
    BY <1>3, <2>2
<1>5. ASSUME NEW l \in Nibble
      PROVE  l \notin joyp_reg' <=> \E i \in pressed : Line[i] = l /\ Group[i] \notin joyp_reg'
  <2>1. l \notin joyp_reg' <=> l \in LowLines(pressed, reg)
    BY <1>1
  <2>2. l \in LowLines(pressed, reg) <=> \E i \in pressed : Line[i] = l /\ Group[i] \notin reg
    BY DEF LowLines
  <2>. QED
    BY <1>4, <2>1, <2>2
<1>. QED
  BY <1>1, <1>2, <1>3, <1>5

\* When load_joyp_nibble requests: exactly if one of the lines that were high is low now.
LEMMA LoadedRequest ==
    ASSUME NEW reg, reg \cap Nibble = joyp_reg \cap Nibble, load_joyp_nibble(reg)
    PROVE  if_reg' = IF (joyp_reg \ joyp_reg') \cap Nibble # {}
                     THEN if_reg \cup {INT_JOYPAD} ELSE if_reg
<1>. DEFINE next == Nibble \ LowLines(pressed, reg)
<1>1. joyp_reg' = (reg \ Nibble) \cup next
  BY DEF load_joyp_nibble
<1>2. (joyp_reg \ joyp_reg') \cap Nibble = (reg \cap Nibble) \ next
  BY <1>1
<1>3. if_reg' = IF (reg \cap Nibble) \ next # {} THEN if_reg \cup {INT_JOYPAD} ELSE if_reg
  BY DEF load_joyp_nibble, detect_falling_edge
<1>. QED
  BY <1>2, <1>3

\* The register input_joyp_write hands to load_joyp_nibble differs in the selection only.
LEMMA WrittenRegister ==
    ASSUME TypeOK, NEW val \in JoypValues,
           NEW reg, reg = (joyp_reg \ JOYP_RW_MASK) \cup (val \cap JOYP_RW_MASK)
    PROVE  /\ reg \subseteq Bits /\ {6, 7} \subseteq reg
           /\ reg \cap Nibble = joyp_reg \cap Nibble
<1>1. JOYP_RW_MASK \subseteq Bits
  BY DEF JOYP_RW_MASK, ActionBit, DirectionBit, Bits
<1>2. joyp_reg \subseteq Bits /\ {6, 7} \subseteq joyp_reg
  BY DEF TypeOK
<1>. QED
  BY <1>1, <1>2, MaskIsApart

\* A request of the joypad is one of the bits of IF.
LEMMA RequestType ==
    ASSUME TypeOK, NEW c \in BOOLEAN, if_reg' = IF c THEN if_reg \cup {INT_JOYPAD} ELSE if_reg
    PROVE  if_reg' \subseteq Bits
<1>1. INT_JOYPAD \in Bits
  BY DEF INT_JOYPAD, Bits
<1>. QED
  BY <1>1 DEF TypeOK

\* The first state.
LEMMA JoypadInit == Init => JoypadInv
<1>. SUFFICES ASSUME Init PROVE JoypadInv
  OBVIOUS
<1>1. if_reg \subseteq Bits /\ ie_reg \subseteq Bits
  BY DEF Init, int_init, Bits
<1>2. joyp_reg = Bits \ JOYP_RW_MASK /\ {6, 7} \subseteq joyp_reg
  BY DEF Init, input_init, Bits, JOYP_RW_MASK, ActionBit, DirectionBit
<1>3. \A l \in Nibble : l \in joyp_reg
  BY <1>2, MaskIsApart DEF Nibble, Bits
<1>. QED
  BY <1>1, <1>2, <1>3 DEF Init, JoypadInv, TypeOK, LinesMatch

\* Every step keeps the invariant.
LEMMA JoypadStep == JoypadInv /\ [Next]_vars => JoypadInv'
<1>. SUFFICES ASSUME JoypadInv, [Next]_vars PROVE JoypadInv'
  OBVIOUS
<1>. USE DEF JoypadInv, TypeOK
<1>1. CASE StartPoll
  BY <1>1, JoypadAssumption DEF StartPoll, LinesMatch, Running
<1>2. CASE ReadKey
  <2>1. poll' \in 0..NUM_BUTTONS /\ poll' # Running
    BY <1>2, JoypadAssumption DEF ReadKey, Buttons, Running
  <2>2. pressed' \subseteq Buttons
    BY <1>2 DEF ReadKey
  <2>. QED
    BY <1>2, <2>1, <2>2 DEF ReadKey, LinesMatch
<1>3. CASE EndPoll
  <2>1. load_joyp_nibble(joyp_reg) /\ poll' = Running /\ UNCHANGED <<ie_reg, keys, pressed>>
    BY <1>3 DEF EndPoll
  <2>2. joyp_reg' \subseteq Bits /\ joyp_reg' \ Nibble = joyp_reg \ Nibble /\ LinesMatch'
    BY <2>1, LoadedLines DEF LinesMatch
  <2>3. if_reg' \subseteq Bits
    BY <2>1, LoadedRequest, RequestType
  <2>4. {6, 7} \subseteq joyp_reg'
    BY <2>2, MaskIsApart
  <2>. QED
    BY <2>1, <2>2, <2>3, <2>4
<1>4. ASSUME NEW val \in JoypValues, input_joyp_write(val)
      PROVE  JoypadInv'
  <2>. DEFINE reg == (joyp_reg \ JOYP_RW_MASK) \cup (val \cap JOYP_RW_MASK)
  <2>1. load_joyp_nibble(reg) /\ UNCHANGED <<ie_reg, keys, pressed, poll>>
    BY <1>4 DEF input_joyp_write
  <2>2. reg \subseteq Bits /\ {6, 7} \subseteq reg /\ reg \cap Nibble = joyp_reg \cap Nibble
    BY WrittenRegister
  <2>. HIDE DEF reg
  <2>3. joyp_reg' \subseteq Bits /\ joyp_reg' \ Nibble = reg \ Nibble /\ LinesMatch'
    BY <2>1, <2>2, LoadedLines DEF LinesMatch
  <2>4. if_reg' \subseteq Bits
    BY <2>1, <2>2, LoadedRequest, RequestType
  <2>5. {6, 7} \subseteq joyp_reg'
    BY <2>2, <2>3, MaskIsApart
  <2>. QED
    BY <2>1, <2>3, <2>4, <2>5
<1>5. CASE TakeRequest
  BY <1>5 DEF TakeRequest, LinesMatch
<1>6. ASSUME NEW i \in Buttons, KeyEvent(i)
      PROVE  JoypadInv'
  BY <1>6 DEF KeyEvent, LinesMatch
<1>7. CASE UNCHANGED vars
  BY <1>7 DEF vars, LinesMatch
<1>. QED
  BY <1>1, <1>2, <1>3, <1>4, <1>5, <1>6, <1>7 DEF Next, Polling, Frame

---------------------------------------------------------------------------
\* The register of input.c keeps its form, and in a frame its lines are those of the pressed
\* buttons in the groups selected now, whether a key or a write has changed last.
THEOREM JoypadInvariant == Spec => []JoypadInv
<1>. QED
  BY JoypadInit, JoypadStep, PTL DEF Spec

\* What RequestOnFall says of one step.
FallIsRequested ==
    LET falls == (joyp_reg \ joyp_reg') \cap Nibble # {}
    IN  /\ falls => INT_JOYPAD \in if_reg'
        /\ INT_JOYPAD \in if_reg' \ if_reg => falls

\* The joypad interrupt is requested in exactly the steps in which a line falls.
THEOREM RequestedOnFall == Spec => RequestOnFall
<1>1. ASSUME JoypadInv, [Next]_vars PROVE FallIsRequested \/ UNCHANGED vars
  <2>1. CASE joyp_reg' = joyp_reg /\ if_reg' \subseteq if_reg
    BY <2>1 DEF FallIsRequested
  <2>2. CASE EndPoll
    BY <2>2, LoadedRequest DEF EndPoll, FallIsRequested
  <2>3. ASSUME NEW val \in JoypValues, input_joyp_write(val)
        PROVE  FallIsRequested
    <3>. DEFINE reg == (joyp_reg \ JOYP_RW_MASK) \cup (val \cap JOYP_RW_MASK)
    <3>1. load_joyp_nibble(reg)
      BY <2>3 DEF input_joyp_write
    <3>2. reg \cap Nibble = joyp_reg \cap Nibble
      BY <1>1, WrittenRegister DEF JoypadInv
    <3>. HIDE DEF reg
    <3>. QED
      BY <3>1, <3>2, LoadedRequest DEF FallIsRequested
  <2>4. CASE StartPoll \/ ReadKey \/ TakeRequest \/ \E i \in Buttons : KeyEvent(i)
    BY <2>1, <2>4 DEF StartPoll, ReadKey, TakeRequest, KeyEvent
  <2>. QED
    BY <1>1, <2>2, <2>3, <2>4 DEF Next, Polling, Frame
<1>2. (FallIsRequested \/ UNCHANGED vars) <=> [FallIsRequested]_vars
  OBVIOUS
<1>3. Spec => [][FallIsRequested]_vars
  BY <1>1, <1>2, JoypadInvariant, PTL DEF Spec
<1>. QED
  BY <1>3 DEF RequestOnFall, FallIsRequested
=============================================================================
