--------------------------- MODULE OamDmaProofs ---------------------------
(***************************************************************************)
(* Proofs about OamDma for every length of a transfer, every set of pages   *)
(* and every assignment of pages to memories.  The inductive invariant is   *)
(* OamDmaInv.                                                               *)
(***************************************************************************)
EXTENDS OamDma, TLAPS

\* What a page holds are bytes.
LEMMA SourceByteType ==
    ASSUME NEW page \in Pages, NEW i \in Slots
    PROVE  SourceByte(page, i) \in Bytes
BY DEF SourceByte, Bytes, SourceBytes, Slots

\* A page is on one of the buses or on none.
LEMMA SourceBusType ==
    ASSUME NEW page \in Pages
    PROVE  SourceBus(page) \in {"ext", "vram", "not_defined"}
BY DEF SourceBus

\* The value for no page is none.
LEMMA NoPageIsNoPage == NoPage \notin Pages
BY OamDmaAssumption DEF NoPage

\* Copying the next byte of a page whose first i bytes are in OAM.
LEMMA CopyOne ==
    ASSUME TypeOK, NEW page \in Pages, NEW i \in Slots,
           \A j \in 0..(i - 1) : oam[j] = SourceByte(page, j),
           bus_copy_dma(page, i)
    PROVE  /\ \A j \in 0..i : oam'[j] = SourceByte(page, j)
           /\ oam' \in [Slots -> Bytes]
           /\ dma_read_val' = SourceByte(page, i) /\ dma_read_val' \in Bytes
           /\ dma_read_bus' = SourceBus(page)
           /\ dma_read_bus' \in {"ext", "vram", "not_defined"}
<1>1. oam \in [Slots -> Bytes]
  BY DEF TypeOK
<1>2. oam' = [oam EXCEPT ![i] = SourceByte(page, i)]
  BY DEF bus_copy_dma
<1>3. oam' \in [Slots -> Bytes]
  BY <1>1, <1>2, SourceByteType
<1>4. ASSUME NEW j \in 0..i PROVE oam'[j] = SourceByte(page, j)
  <2>1. j \in Slots
    BY OamDmaAssumption DEF Slots
  <2>2. CASE j = i
    BY <1>1, <1>2, <2>1, <2>2
  <2>3. CASE j # i
    <3>1. j \in 0..(i - 1)
      BY <2>3 DEF Slots
    <3>2. oam'[j] = oam[j]
      BY <1>1, <1>2, <2>1, <2>3
    <3>. QED
      BY <3>1, <3>2
  <2>. QED
    BY <2>2, <2>3
<1>. QED
  BY <1>3, <1>4, SourceByteType, SourceBusType DEF bus_copy_dma

\* The first state.
LEMMA OamDmaInit == Init => OamDmaInv
<1>. SUFFICES ASSUME Init PROVE OamDmaInv
  OBVIOUS
<1>1. active = FALSE
  BY DEF Init, dma_init
<1>2. oam \in [Slots -> Bytes] /\ dma_read_val \in Bytes
  BY DEF Init, Bytes
<1>3. 0 \in 0..LEN
  BY OamDmaAssumption
<1>4. TypeOK
  <2>1. start \in 0..2 /\ base \in 0..LEN
    BY <1>3 DEF Init, dma_init
  <2>2. active \in BOOLEAN
    BY <1>1
  <2>3. dma_reg \in Pages /\ dma_latched \in Pages \cup {NoPage}
    BY DEF Init, dma_init
  <2>4. dma_read_bus \in {"ext", "vram", "not_defined"} /\ turn \in {"dma", "cpu"}
    BY DEF Init
  <2>. QED
    BY <1>2, <2>1, <2>2, <2>3, <2>4, Zenon DEF TypeOK
<1>. QED
  BY <1>1, <1>4 DEF OamDmaInv, PrefixCopied, LastRequestWins

\* Every step keeps the invariant.
LEMMA OamDmaStep == OamDmaInv /\ [Next]_vars => OamDmaInv'
<1>. SUFFICES ASSUME OamDmaInv, [Next]_vars PROVE OamDmaInv'
  OBVIOUS
<1>t. TypeOK
  BY DEF OamDmaInv
<1>1. CASE dma_tick
  <2>0. /\ turn' = "cpu" /\ dma_reg' = dma_reg
        /\ start' \in 0..2
        /\ start' = 0 => start = 0 \/ start = 1
    BY <1>1, <1>t DEF dma_tick, TypeOK
  <2>1. CASE start = 1
    <3>1. Transfer(dma_reg, 0, TRUE)
      BY <1>1, <2>1 DEF dma_tick
    <3>2. 0 # LEN /\ 0 \in Slots
      BY OamDmaAssumption DEF Slots
    <3>3. /\ active' = TRUE /\ dma_latched' = dma_reg /\ base' = 1
          /\ bus_copy_dma(dma_reg, 0)
      <4>1. active' = TRUE
        BY <3>1, <3>2, Zenon DEF Transfer
      <4>2. dma_latched' = dma_reg /\ base' = 0 + 1 /\ bus_copy_dma(dma_reg, 0)
        BY <3>1, <3>2, Zenon DEF Transfer
      <4>. QED
        BY <4>1, <4>2
    <3>4. /\ \A j \in 0..0 : oam'[j] = SourceByte(dma_reg, j)
          /\ oam' \in [Slots -> Bytes]
          /\ dma_read_val' = SourceByte(dma_reg, 0) /\ dma_read_val' \in Bytes
          /\ dma_read_bus' = SourceBus(dma_reg)
          /\ dma_read_bus' \in {"ext", "vram", "not_defined"}
      BY <1>t, <3>2, <3>3, CopyOne DEF TypeOK
    <3>5. 1 \in 0..LEN /\ base' - 1 = 0
      BY <3>3, OamDmaAssumption
    <3>6. TypeOK'
      BY <1>t, <2>0, <3>3, <3>4, <3>5 DEF TypeOK
    <3>7. PrefixCopied'
      BY <1>t, <3>3, <3>4, <3>5 DEF PrefixCopied, TypeOK
    <3>. QED
      BY <2>0, <3>3, <3>4, <3>5, <3>6, <3>7 DEF OamDmaInv, LastRequestWins
  <2>2. CASE start # 1 /\ active /\ base # LEN
    <3>1. Transfer(dma_latched, base, active)
      BY <1>1, <2>2 DEF dma_tick
    <3>2. /\ dma_latched \in Pages
          /\ \A j \in 0..(base - 1) : oam[j] = SourceByte(dma_latched, j)
      BY <2>2 DEF OamDmaInv, PrefixCopied
    <3>3. base \in Slots /\ base + 1 \in 0..LEN
      BY <1>t, <2>2, OamDmaAssumption DEF TypeOK, Slots
    <3>4. /\ active' = TRUE /\ dma_latched' = dma_latched /\ base' = base + 1
          /\ bus_copy_dma(dma_latched, base)
      BY <2>2, <3>1 DEF Transfer
    <3>5. /\ \A j \in 0..base : oam'[j] = SourceByte(dma_latched, j)
          /\ oam' \in [Slots -> Bytes]
          /\ dma_read_val' = SourceByte(dma_latched, base) /\ dma_read_val' \in Bytes
          /\ dma_read_bus' = SourceBus(dma_latched)
          /\ dma_read_bus' \in {"ext", "vram", "not_defined"}
      BY <1>t, <3>2, <3>3, <3>4, CopyOne
    <3>6. base' - 1 = base /\ base' > 0
      BY <3>3, <3>4 DEF Slots
    <3>7. TypeOK'
      BY <1>t, <2>0, <3>2, <3>3, <3>4, <3>5 DEF TypeOK
    <3>8. PrefixCopied'
      BY <3>2, <3>4, <3>5, <3>6 DEF PrefixCopied
    <3>9. LastRequestWins'
      BY <2>0, <2>2, <3>4 DEF OamDmaInv, LastRequestWins
    <3>. QED
      BY <3>4, <3>5, <3>6, <3>7, <3>8, <3>9 DEF OamDmaInv
  <2>3. CASE start # 1 /\ ~(active /\ base # LEN)
    <3>1. Transfer(dma_latched, base, active)
      BY <1>1, <2>3 DEF dma_tick
    <3>2. /\ active' = FALSE
          /\ UNCHANGED <<dma_latched, base, dma_read_bus, dma_read_val, oam>>
      BY <2>3, <3>1 DEF Transfer
    <3>. QED
      BY <1>t, <2>0, <3>2 DEF OamDmaInv, TypeOK, PrefixCopied, LastRequestWins
  <2>. QED
    BY <2>1, <2>2, <2>3
<1>2. ASSUME NEW val \in Pages, dma_dma_write(val)
      PROVE  OamDmaInv'
  <2>1. /\ UNCHANGED <<dma_latched, base, active, dma_read_bus, dma_read_val, oam>>
        /\ dma_reg' \in Pages /\ start' = 2 /\ turn' = "dma"
    BY <1>2 DEF dma_dma_write, CpuTurn
  <2>. QED
    BY <1>t, <2>1 DEF OamDmaInv, TypeOK, PrefixCopied, LastRequestWins
<1>3. ASSUME NEW i \in Slots, cpu_oam_write(i)
      PROVE  OamDmaInv'
  <2>1. oam' \in [Slots -> Bytes]
    BY <1>3, <1>t DEF cpu_oam_write, TypeOK, Bytes
  <2>2. /\ UNCHANGED <<dma_reg, dma_latched, base, start, active, dma_read_bus, dma_read_val>>
        /\ ~active /\ turn' = "dma"
    BY <1>3 DEF cpu_oam_write, CpuTurn
  <2>. QED
    BY <1>t, <2>1, <2>2 DEF OamDmaInv, TypeOK, PrefixCopied, LastRequestWins
<1>4. CASE OtherCpuStep
  BY <1>4, <1>t DEF OtherCpuStep, CpuTurn, OamDmaInv, TypeOK, PrefixCopied, LastRequestWins
<1>5. CASE UNCHANGED vars
  BY <1>5, <1>t DEF vars, OamDmaInv, TypeOK, PrefixCopied, LastRequestWins
<1>. QED
  BY <1>1, <1>2, <1>3, <1>4, <1>5 DEF Next

\* The inductive invariant holds in every reachable state.
THEOREM OamDmaInvariant == Spec => []OamDmaInv
<1>. QED
  BY OamDmaInit, OamDmaStep, PTL DEF Spec

\* The counters of dma.c stay in range; in particular the index into OAM.
THEOREM OamDmaTypeCorrect == Spec => []TypeOK
<1>1. OamDmaInv => TypeOK
  BY DEF OamDmaInv
<1>. QED
  BY <1>1, OamDmaInvariant, PTL

\* A running transfer never loses a byte it has copied.
THEOREM TransferKeepsPrefix == Spec => []PrefixCopied
<1>1. OamDmaInv => PrefixCopied
  BY DEF OamDmaInv
<1>. QED
  BY <1>1, OamDmaInvariant, PTL

\* Of several requests in the two M-cycles of the start delay the last one counts.
THEOREM LatestRequestCounts == Spec => []LastRequestWins
<1>1. OamDmaInv => LastRequestWins
  BY DEF OamDmaInv
<1>. QED
  BY <1>1, OamDmaInvariant, PTL

\* What the CPU reads over a bus that a transfer uses is the byte just copied.
THEOREM ConflictIsExact == Spec => []CpuSeesTransfer
<1>1. OamDmaInv => CpuSeesTransfer
  <2>. SUFFICES ASSUME OamDmaInv, active, turn = "cpu", NEW kind \in {"ext", "vram"}
                PROVE  bus_read_cpu(kind) = IF PageKind[dma_latched] = kind
                                            THEN oam[base - 1] ELSE "memory"
    BY DEF CpuSeesTransfer
  <2>1. /\ dma_latched \in Pages /\ base \in 0..LEN /\ base > 0
        /\ dma_read_bus = SourceBus(dma_latched)
        /\ dma_read_val = SourceByte(dma_latched, base - 1)
    BY DEF OamDmaInv, PrefixCopied, TypeOK
  <2>2. oam[base - 1] = SourceByte(dma_latched, base - 1)
    BY <2>1, OamDmaAssumption DEF OamDmaInv, PrefixCopied
  <2>3. SourceBus(dma_latched) = kind <=> PageKind[dma_latched] = kind
    BY DEF SourceBus
  <2>. QED
    BY <2>1, <2>2, <2>3 DEF bus_read_cpu, Conflict
<1>. QED
  BY <1>1, OamDmaInvariant, PTL

\* When a transfer ends, OAM holds the whole page.
THEOREM EndsWithWholePage == Spec => TransferEndsWhole
<1>1. OamDmaInv /\ [Next]_vars => [EndsWhole]_vars
  <2>. SUFFICES ASSUME OamDmaInv, [Next]_vars, active, ~active', NEW i \in Slots
                PROVE  oam'[i] = SourceByte(dma_latched, i)
    BY DEF EndsWhole
  <2>1. dma_tick
    BY DEF Next, vars, dma_dma_write, cpu_oam_write, OtherCpuStep
  <2>2. start # 1 /\ base = LEN /\ oam' = oam
    <3>1. 0 # LEN
      BY OamDmaAssumption
    <3>. QED
      BY <2>1, <3>1 DEF dma_tick, Transfer
  <2>3. i \in 0..(base - 1)
    BY <2>2 DEF Slots
  <2>. QED
    BY <2>2, <2>3 DEF OamDmaInv, PrefixCopied
<1>. QED
  BY <1>1, OamDmaInvariant, PTL DEF Spec, TransferEndsWhole
==========================================================================
