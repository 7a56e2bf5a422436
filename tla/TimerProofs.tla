--------------------------- MODULE TimerProofs ---------------------------
(***************************************************************************)
(* Proofs about Timer for every value of its constants.  The inductive     *)
(* invariant is TimerInv; the refinement of TimerSpec follows from it step  *)
(* by step, because the latch and the caches are then functions of the      *)
(* counter and of TAC.                                                      *)
(***************************************************************************)
EXTENDS Timer, TLAPS

\* The two fields of TAC have their ranges.
LEMMA TacFields ==
    ASSUME NEW tac \in 0..7
    PROVE  TacEnable(tac) \in {0, 1} /\ TacRate(tac) \in Rates
BY DEF TacEnable, TacRate, Rates

\* The watched bit is a bit.
LEMMA SignalIsBit ==
    ASSUME NEW c \in Counters, NEW en \in {0, 1}, NEW r \in Rates
    PROVE  TimerSignal(c, en, r) \in {0, 1}
<1>1. HALF[r] \in Nat \ {0}
  BY TimerAssumption
<1>2. c \div HALF[r] \in Int
  BY <1>1, TimerAssumption DEF Counters
<1>. QED
  BY <1>2 DEF TimerSignal

\* The counter and DIV stay in range when the counter advances.
LEMMA CounterAdvances ==
    ASSUME NEW c \in Counters
    PROVE  (c + T_M_RATIO) % COUNTER \in Counters /\ 0 \in Counters
BY TimerAssumption DEF Counters

\* DIV is a byte.
LEMMA DivInRange ==
    ASSUME NEW c \in Counters
    PROVE  DivOf(c) \in Byte
<1>1. c \div DIV_UNIT \in Int
  BY TimerAssumption DEF Counters
<1>. QED
  BY <1>1, TimerAssumption DEF DivOf, Byte

\* What check_signal guarantees wherever it is called: the latch is exact, the
\* flag counts the unanswered wraps, and a flag just set goes with a latch at 0.
LEMMA CheckSignal ==
    ASSUME TypeOK, tac_reg' \in 0..7, system_counter' \in Counters,
           tac_enable' = TacEnable(tac_reg'), tac_rate' = TacRate(tac_reg'),
           NEW t \in Byte, NEW o \in BOOLEAN, NEW u \in Nat,
           u = IF o THEN 1 ELSE 0,
           o => prev_timer_signal = 0,
           check_signal(t, o, u)
    PROVE  /\ SignalTracksCounter' /\ OwedIsPending'
           /\ ~o /\ timer_overflowed' => prev_timer_signal' = 0
           /\ tima_reg' \in Byte /\ timer_overflowed' \in BOOLEAN
           /\ tma_overflow_save' \in Byte /\ prev_timer_signal' \in {0, 1}
           /\ owed' \in Nat
<1>1. TacEnable(tac_reg') \in {0, 1} /\ TacRate(tac_reg') \in Rates
  BY TacFields
<1>2. prev_timer_signal' \in {0, 1}
  BY <1>1, SignalIsBit DEF check_signal
<1>3. SignalTracksCounter'
  BY DEF SignalTracksCounter, check_signal
<1>4. (t + 1) % BYTE \in Byte
  BY TimerAssumption DEF Byte
<1>5. tima_reg' \in Byte /\ tma_overflow_save' \in Byte
  BY <1>4 DEF check_signal, TypeOK
<1>. DEFINE falls == TimerSignal(system_counter', tac_enable', tac_rate') = 0
                     /\ prev_timer_signal = 1
            wraps == falls /\ (t + 1) % BYTE = 0
<1>7. CASE wraps
  <2>1. timer_overflowed' = TRUE
    BY <1>7 DEF check_signal
  <2>2. u = 0
    BY <1>7
  <2>3. owed' = 1 /\ prev_timer_signal' = 0
    BY <1>7, <2>2 DEF check_signal
  <2>4. OwedIsPending'
    BY <2>1, <2>3 DEF OwedIsPending
  <2>. QED
    BY <1>3, <1>5, <2>1, <2>3, <2>4
<1>8. CASE ~wraps
  <2>1. timer_overflowed' = o
    BY <1>8 DEF check_signal
  <2>2. owed' = u
    BY <1>8 DEF check_signal
  <2>3. OwedIsPending'
    BY <2>1, <2>2 DEF OwedIsPending
  <2>5. timer_overflowed' \in BOOLEAN
    BY <2>1, Zenon
  <2>6. ~(~o /\ timer_overflowed')
    BY <2>1, Zenon
  <2>7. owed' \in Nat
    BY <2>2
  <2>. QED
    BY <1>2, <1>3, <1>5, <2>3, <2>5, <2>6, <2>7
<1>. QED
  BY <1>7, <1>8

\* The first state.
LEMMA TimerInvInit == Init => TimerInv
<1>. SUFFICES ASSUME Init PROVE TimerInv
  OBVIOUS
<1>1. if_reg \subseteq Bits /\ ie_reg \subseteq Bits
  <2>1. {0, 5, 6, 7} \subseteq Bits /\ {} \subseteq Bits
    BY DEF Bits
  <2>. QED
    BY <2>1 DEF Init, int_init
<1>2. timer_overflowed = FALSE
  BY DEF Init, timer_init
<1>3. TypeOK
  <2>1. 0 \in Byte /\ 0 \in Rates
    BY TimerAssumption DEF Byte, Rates
  <2>2. timer_overflowed \in BOOLEAN /\ reloaded \in BOOLEAN
    BY <1>2 DEF Init
  <2>3. turn \in {"cpu", "timer"}
    BY DEF Init
  <2>4. system_counter \in Counters /\ div_reg \in Byte
    BY TimerAssumption DEF Init, timer_init
  <2>. QED
    BY <1>1, <2>1, <2>2, <2>3, <2>4 DEF Init, timer_init, TypeOK
<1>4. TacEnable(tac_reg) = 0 /\ TacRate(tac_reg) = 0
  BY DEF Init, timer_init, TacEnable, TacRate
<1>. QED
  BY <1>2, <1>3, <1>4 DEF Init, timer_init, TimerInv, SignalTracksCounter, TimerSignal,
                          OwedIsPending

\* Every step keeps the invariant.
LEMMA TimerInvStep == TimerInv /\ [Next]_vars => TimerInv'
<1>. SUFFICES ASSUME TimerInv, [Next]_vars PROVE TimerInv'
  OBVIOUS
<1>t. TypeOK
  BY DEF TimerInv
<1>1. CASE timer_tick
  <2>1. system_counter' \in Counters /\ div_reg' \in Byte
    BY <1>1, <1>t, CounterAdvances, DivInRange DEF timer_tick, TypeOK
  <2>2. UNCHANGED <<tac_reg, tac_enable, tac_rate, tma_reg, ie_reg>>
    BY <1>1 DEF timer_tick, registers
  <2>3. if_reg' \subseteq Bits
    <3>1. if_reg' = if_reg \/ if_reg' = if_reg \cup {2}
      BY <1>1 DEF timer_tick, request_interrupt, INT_TIMER
    <3>2. 2 \in Bits
      BY DEF Bits
    <3>3. if_reg \subseteq Bits
      BY <1>t DEF TypeOK
    <3>. QED
      BY <3>1, <3>2, <3>3, Zenon
  <2>6. reloaded' \in BOOLEAN
    BY <1>1, <1>t, Zenon DEF timer_tick, TypeOK
  <2>4. CASE timer_overflowed
    <3>1. check_signal(tma_overflow_save, FALSE, owed - 1)
      BY <1>1, <2>4 DEF timer_tick
    <3>2. owed - 1 = 0
      BY <2>4 DEF TimerInv, OwedIsPending
    <3>. QED
      BY <1>1, <1>t, <2>1, <2>2, <2>3, <2>6, <3>1, <3>2, CheckSignal
      DEF TimerInv, TypeOK, timer_tick
  <2>5. CASE ~timer_overflowed
    <3>1. check_signal(tima_reg, FALSE, owed) /\ owed = 0
      BY <1>1, <2>5 DEF timer_tick, TimerInv, OwedIsPending
    <3>. QED
      BY <1>1, <1>t, <2>1, <2>2, <2>3, <2>6, <3>1, CheckSignal
      DEF TimerInv, TypeOK, timer_tick
  <2>. QED
    BY <2>4, <2>5
<1>2. CASE timer_div_write
  <2>1. system_counter' \in Counters
    BY <1>2, TimerAssumption DEF timer_div_write, Counters
  <2>. QED
    BY <1>2, <1>t, <2>1, CheckSignal
    DEF timer_div_write, CpuTurn, registers, TimerInv, TypeOK, OwedIsPending
<1>3. ASSUME NEW val \in Byte, timer_tima_write(val) \/ timer_tma_write(val)
      PROVE  TimerInv'
  BY <1>3 DEF timer_tima_write, timer_tma_write, CpuTurn, registers, TimerInv,
              TypeOK, SignalTracksCounter, OwedIsPending
<1>4. ASSUME NEW val \in 0..7, timer_tac_write(val)
      PROVE  TimerInv'
  <2>1. tac_reg' \in 0..7 /\ tac_enable' = TacEnable(tac_reg') /\ tac_rate' = TacRate(tac_reg')
    BY <1>4 DEF timer_tac_write, update_tac_caches
  <2>2. tac_enable' \in {0, 1} /\ tac_rate' \in Rates
    BY <2>1, TacFields
  <2>. QED
    BY <1>4, <1>t, <2>1, <2>2, CheckSignal
    DEF timer_tac_write, CpuTurn, TimerInv, TypeOK, OwedIsPending
<1>5. CASE OtherCpuStep
  <2>1. if_reg' \subseteq Bits
    <3>1. {INT_TIMER} \subseteq Bits /\ if_reg \subseteq Bits
      BY <1>t DEF INT_TIMER, Bits, TypeOK
    <3> QED
      BY <1>5, <3>1 DEF OtherCpuStep, IfAfterSend, int_if_write
  <2>. QED
    BY <1>5, <2>1 DEF OtherCpuStep, CpuTurn, registers, TimerInv, TypeOK,
                      SignalTracksCounter, OwedIsPending
<1>6. CASE UNCHANGED vars
  BY <1>6 DEF vars, registers, TimerInv, TypeOK, SignalTracksCounter, OwedIsPending
<1>. QED
  BY <1>1, <1>2, <1>3, <1>4, <1>5, <1>6 DEF Next, CpuStep

\* The inductive invariant holds in every reachable state.
THEOREM TimerInvariant == Spec => []TimerInv
<1>. QED
  BY TimerInvInit, TimerInvStep, PTL DEF Spec

\* Every register of the timer keeps its range (timer.c).
THEOREM TimerTypeCorrect == Spec => []TypeOK
<1>1. TimerInv => TypeOK
  BY DEF TimerInv
<1>. QED
  BY <1>1, TimerInvariant, PTL

\* The latched signal is the watched bit after every path through timer.c.
THEOREM LatchIsExact == Spec => []SignalTracksCounter
<1>1. TimerInv => SignalTracksCounter
  BY DEF TimerInv
<1>. QED
  BY <1>1, TimerInvariant, PTL

\* No wrap of TIMA is lost and none is answered twice.
THEOREM NoWrapLost == Spec => []OwedIsPending
<1>1. TimerInv => OwedIsPending
  BY DEF TimerInv
<1>. QED
  BY <1>1, TimerInvariant, PTL

---------------------------------------------------------------------------
\* What check_signal does, read through the refinement mapping: TIMA, so far t,
\* counts a fall of the mapped signal, and a wrap makes a reload due.
LEMMA CheckSignalCounts ==
    ASSUME TimerInv, NEW t \in Byte, NEW o \in BOOLEAN, NEW u, NEW due,
           due = IF o THEN tma_overflow_save ELSE BYTE,
           tac_enable' = TacEnable(tac_reg'), tac_rate' = TacRate(tac_reg'),
           check_signal(t, o, u)
    PROVE  Promise!Count(
               Promise!Signal(system_counter, TacEnable(tac_reg), TacRate(tac_reg)),
               Promise!Signal(system_counter', TacEnable(tac_reg'), TacRate(tac_reg')),
               t, due)
<1>. DEFINE from == Promise!Signal(system_counter, TacEnable(tac_reg), TacRate(tac_reg))
            to == Promise!Signal(system_counter', TacEnable(tac_reg'), TacRate(tac_reg'))
            falls == to = 0 /\ from = 1
            wraps == falls /\ (t + 1) % BYTE = 0
            reload == IF timer_overflowed THEN tma_overflow_save ELSE BYTE
<1>1. from = prev_timer_signal
  BY DEF TimerInv, SignalTracksCounter, TimerSignal, Promise!Signal
<1>2. to = TimerSignal(system_counter', tac_enable', tac_rate')
  BY DEF TimerSignal, Promise!Signal
<1>3. /\ tima_reg' = IF falls THEN (t + 1) % BYTE ELSE t
      /\ timer_overflowed' = (wraps \/ o)
      /\ tma_overflow_save' = IF wraps THEN tma_reg ELSE tma_overflow_save
  BY <1>1, <1>2 DEF check_signal
<1>4. (t + 1) % BYTE = 0 <=> t = BYTE - 1
  BY TimerAssumption DEF Byte
<1>5. CASE wraps
  <2>1. timer_overflowed' = TRUE
    BY <1>3, <1>5
  <2>2. reload' = tma_reg
    BY <1>3, <1>5, <2>1
  <2>. QED
    BY <1>3, <1>4, <1>5, <2>2 DEF Promise!Count
<1>6. CASE ~wraps
  <2>1. timer_overflowed' = o
    BY <1>3, <1>6
  <2>2. reload' = due
    BY <1>3, <1>6, <2>1
  <2>. QED
    BY <1>3, <1>4, <1>6, <2>2 DEF Promise!Count
<1>. QED
  BY <1>5, <1>6

\* The first state is one of TimerSpec.
LEMMA PromiseInit == Init => Promise!Init
<1>. SUFFICES ASSUME Init PROVE Promise!Init
  OBVIOUS
<1>1. TacEnable(tac_reg) = 0 /\ TacRate(tac_reg) = 0
  BY DEF Init, timer_init, TacEnable, TacRate
<1>2. timer_overflowed = FALSE
  BY DEF Init, timer_init
<1>3. (INT_TIMER \in if_reg) = FALSE
  BY DEF Init, int_init, INT_TIMER
<1>. QED
  BY <1>1, <1>2, <1>3, TimerAssumption DEF Init, timer_init, Promise!Init,
     Promise!NoReload, Counters, Byte

\* Every step is one of TimerSpec, or leaves its variables.
LEMMA PromiseStep == TimerInv /\ [Next]_vars => [Promise!Next]_(Promise!specvars)
<1>. SUFFICES ASSUME TimerInv, [Next]_vars
              PROVE  [Promise!Next]_(Promise!specvars)
  OBVIOUS
<1>. DEFINE reload == IF timer_overflowed THEN tma_overflow_save ELSE BYTE
<1>t. TypeOK /\ tac_enable = TacEnable(tac_reg) /\ tac_rate = TacRate(tac_reg)
  BY DEF TimerInv
<1>1. CASE timer_tick
  <2>1. UNCHANGED <<tac_reg, tac_enable, tac_rate, tma_reg>>
    BY <1>1 DEF timer_tick, registers
  <2>2. CASE timer_overflowed
    <3>1. check_signal(tma_overflow_save, FALSE, owed - 1)
      BY <1>1, <2>2 DEF timer_tick
    <3>2. Promise!Count(
              Promise!Signal(system_counter, TacEnable(tac_reg), TacRate(tac_reg)),
              Promise!Signal(system_counter', TacEnable(tac_reg'), TacRate(tac_reg')),
              tma_overflow_save, BYTE)
      BY <1>t, <2>1, <3>1, CheckSignalCounts DEF TypeOK
    <3>3. reload # BYTE /\ reload = tma_overflow_save
      BY <1>t, <2>2, TimerAssumption DEF TypeOK, Byte
    <3>4. INT_TIMER \in if_reg'
      BY <1>1, <2>2 DEF timer_tick, request_interrupt
    <3>6. reloaded' = (reload # BYTE)
      <4>1. reloaded' = TRUE
        BY <1>1, <1>t, <2>2 DEF timer_tick, TypeOK
      <4>. QED
        BY <3>3, <4>1
    <3>5. /\ system_counter' = (system_counter + T_M_RATIO) % COUNTER
          /\ div_reg' = (system_counter' \div DIV_UNIT) % BYTE
      BY <1>1 DEF timer_tick, DivOf
    <3>. QED
      BY <2>1, <3>2, <3>3, <3>4, <3>5, <3>6 DEF Promise!Next, Promise!Tick, Promise!NoReload
  <2>3. CASE ~timer_overflowed
    <3>1. check_signal(tima_reg, FALSE, owed)
      BY <1>1, <2>3 DEF timer_tick
    <3>2. Promise!Count(
              Promise!Signal(system_counter, TacEnable(tac_reg), TacRate(tac_reg)),
              Promise!Signal(system_counter', TacEnable(tac_reg'), TacRate(tac_reg')),
              tima_reg, BYTE)
      BY <1>t, <2>1, <3>1, CheckSignalCounts DEF TypeOK
    <3>3. reload = BYTE
      BY <2>3
    <3>4. (INT_TIMER \in if_reg') = (INT_TIMER \in if_reg)
      BY <1>1, <2>3 DEF timer_tick
    <3>5. /\ system_counter' = (system_counter + T_M_RATIO) % COUNTER
          /\ div_reg' = (system_counter' \div DIV_UNIT) % BYTE
      BY <1>1 DEF timer_tick, DivOf
    <3>6. reloaded' = (reload # BYTE)
      <4>1. reloaded' = FALSE
        BY <1>1, <1>t, <2>3 DEF timer_tick, TypeOK
      <4>. QED
        BY <3>3, <4>1
    <3>. QED
      BY <2>1, <3>2, <3>3, <3>4, <3>5, <3>6 DEF Promise!Next, Promise!Tick, Promise!NoReload
  <2>. QED
    BY <2>2, <2>3
<1>2. CASE timer_div_write
  <2>1. /\ UNCHANGED <<tac_reg, tac_enable, tac_rate, div_reg, tma_reg, if_reg, reloaded>>
        /\ system_counter' = 0
    BY <1>2 DEF timer_div_write, registers
  <2>2. Promise!Count(
            Promise!Signal(system_counter, TacEnable(tac_reg), TacRate(tac_reg)),
            Promise!Signal(system_counter', TacEnable(tac_reg'), TacRate(tac_reg')),
            tima_reg, reload)
    BY <1>2, <1>t, <2>1, CheckSignalCounts DEF timer_div_write, TypeOK
  <2>3. Promise!Signal(system_counter', TacEnable(tac_reg'), TacRate(tac_reg')) = 0
    <3>1. HALF[TacRate(tac_reg)] \in Nat \ {0}
      BY <1>t, TacFields, TimerAssumption DEF TypeOK
    <3>2. (0 \div HALF[TacRate(tac_reg)]) % 2 = 0
      BY <3>1
    <3>. QED
      BY <2>1, <3>2 DEF Promise!Signal
  <2>. QED
    BY <2>1, <2>2, <2>3 DEF Promise!Next, Promise!ClearCounter
<1>3. ASSUME NEW val \in Byte, timer_tima_write(val)
      PROVE  Promise!Next
  <2>1. CASE Promise!Reloading
    BY <1>3, <2>1 DEF timer_tima_write, registers, Promise!Next, Promise!WriteTimaReloading, Byte
  <2>2. CASE ~Promise!Reloading
    BY <1>3, <2>2 DEF timer_tima_write, registers, Promise!Next, Promise!WriteTima, Byte
  <2>. QED
    BY <2>1, <2>2
<1>4. ASSUME NEW val \in Byte, timer_tma_write(val)
      PROVE  Promise!Next
  <2>1. CASE Promise!Reloading
    BY <1>4, <2>1 DEF timer_tma_write, registers, Promise!Next, Promise!WriteTmaReloading,
                      Promise!NoReload, Byte
  <2>2. CASE ~Promise!Reloading
    BY <1>4, <2>2 DEF timer_tma_write, registers, Promise!Next, Promise!WriteTma, Byte
  <2>. QED
    BY <2>1, <2>2
<1>5. ASSUME NEW val \in 0..7, timer_tac_write(val)
      PROVE  Promise!Next
  <2>1. /\ UNCHANGED <<system_counter, div_reg, tma_reg, if_reg, reloaded>>
        /\ tac_reg' = val
        /\ tac_enable' = TacEnable(tac_reg') /\ tac_rate' = TacRate(tac_reg')
    BY <1>5 DEF timer_tac_write, update_tac_caches
  <2>2. Promise!Count(
            Promise!Signal(system_counter, TacEnable(tac_reg), TacRate(tac_reg)),
            Promise!Signal(system_counter', TacEnable(tac_reg'), TacRate(tac_reg')),
            tima_reg, reload)
    BY <1>5, <1>t, <2>1, CheckSignalCounts DEF timer_tac_write, TypeOK
  <2>3. TacEnable(val) \in {0, 1} /\ TacRate(val) \in 0..3
    BY TacFields DEF Rates
  <2>4. Promise!WriteTac(TacEnable(val), TacRate(val))
    BY <2>1, <2>2 DEF Promise!WriteTac
  <2>. QED
    BY <2>3, <2>4 DEF Promise!Next
<1>6. CASE OtherCpuStep
  <2>1. /\ UNCHANGED <<system_counter, div_reg, tima_reg, tma_reg, tac_reg, timer_overflowed,
                       tma_overflow_save>>
        /\ reloaded' = reloaded
    BY <1>6 DEF OtherCpuStep, registers
  <2>2. (INT_TIMER \in if_reg') = TRUE \/ (INT_TIMER \in if_reg') = FALSE
    OBVIOUS
  <2>. QED
    BY <2>1, <2>2 DEF Promise!Next, Promise!WriteIrq
<1>7. CASE UNCHANGED vars
  BY <1>7 DEF vars, registers, Promise!specvars
<1>. QED
  BY <1>1, <1>2, <1>3, <1>4, <1>5, <1>6, <1>7 DEF Next, CpuStep

\* The timer of timer.c, with its edge detector and its caches, does what
\* TimerSpec promises.
THEOREM TimerRefines == Spec => ImplementsPromise
<1>. QED
  BY PromiseInit, PromiseStep, TimerInvariant, PTL
  DEF Spec, ImplementsPromise, Promise!Spec
==========================================================================
