------------------------------ MODULE OamDma ------------------------------
(***************************************************************************)
(* The OAM DMA controller (dma.c) and what bus.c lets the CPU see of memory *)
(* while a transfer runs.  In every M-cycle sys_tick runs the DMA           *)
(* controller first, then the CPU, which may write the DMA register or      *)
(* OAM; reads change nothing and are operators.                             *)
(*                                                                          *)
(* A byte is known by where it comes from: <<page, i>> is byte i of a page  *)
(* of the address space; the negative pages stand for bytes that come from  *)
(* nowhere in it.  LEN is 0xA0 in the code.                                 *)
(***************************************************************************)
EXTENDS Integers

CONSTANTS
    LEN,       \* bytes in a transfer
    Pages,     \* values software writes to the DMA register
    PageKind   \* which memory each page is in

VARIABLES
    dma_reg, dma_latched, base, start, active,  \* dma.c
    dma_read_bus, dma_read_val,                 \* bus.c
    oam,
    turn                                        \* who runs next in the M-cycle

vars == <<dma_reg, dma_latched, base, start, active, dma_read_bus, dma_read_val, oam, turn>>

\* "ext" is the cartridge; "other" is the pages from 0xE000 up.
Kinds == {"ext", "vram", "wram", "other"}

ASSUME OamDmaAssumption ==
    /\ LEN \in Nat \ {0}
    /\ Pages \subseteq Nat
    /\ PageKind \in [Pages -> Kinds]

Ones     == <<-1, 0>>   \* 0xFF
CpuByte  == <<-2, 0>>   \* a byte the CPU wrote
Blank    == <<-3, 0>>   \* what OAM and dma_read_val hold at power-up
NoPage   == -5          \* dma_latched before the first transfer

SourceBytes == Pages \X (0..(LEN - 1))
Bytes == SourceBytes \cup {Ones, CpuByte, Blank}

Slots == 0..(LEN - 1)

dma_init ==
    /\ dma_reg \in {page \in Pages : PageKind[page] = "other"}   \* 0xFF
    /\ dma_latched = NoPage
    /\ base = 0 /\ start = 0 /\ active = FALSE

Init ==
    /\ dma_init
    /\ dma_read_bus = "ext" /\ dma_read_val = Blank
    /\ oam = [i \in Slots |-> Blank]
    /\ turn = "dma"

\* The byte a transfer from the page reads, and the bus it reads it over.
SourceByte(page, i) == IF PageKind[page] = "other" THEN Ones ELSE <<page, i>>
SourceBus(page) == IF PageKind[page] \in {"ext", "vram"} THEN PageKind[page] ELSE "not_defined"

\* Mutant: the bus of an earlier transfer is kept when this one uses no known bus.
bus_copy_dma_keepsBus(page, i) ==
    /\ dma_read_bus' = IF PageKind[page] \in {"ext", "vram"} THEN PageKind[page] ELSE dma_read_bus
    /\ dma_read_val' = SourceByte(page, i)
    /\ oam' = [oam EXCEPT ![i] = SourceByte(page, i)]

bus_copy_dma(page, i) ==
    /\ dma_read_bus' = SourceBus(page)
    /\ dma_read_val' = SourceByte(page, i)
    /\ oam' = [oam EXCEPT ![i] = SourceByte(page, i)]

\* Mutants: the transfer ends a byte early, or starts over.
TransferUpTo(last, page, i, running) ==
    /\ active' = (running /\ i # last)
    /\ dma_latched' = page
    /\ IF running /\ i # last
       THEN bus_copy_dma(page, i) /\ base' = i + 1
       ELSE base' = i /\ UNCHANGED <<dma_read_bus, dma_read_val, oam>>
Transfer_early(page, i, running) == TransferUpTo(LEN - 1, page, i, running)
Transfer_again(page, i, running) == TransferUpTo(LEN + 1, page, i % LEN, running)

\* dma_tick from its second test on, with the given latch and base.
Transfer(page, i, running) ==
    /\ active' = (running /\ i # LEN)
    /\ dma_latched' = page
    /\ IF running /\ i # LEN
       THEN bus_copy_dma(page, i) /\ base' = i + 1
       ELSE base' = i /\ UNCHANGED <<dma_read_bus, dma_read_val, oam>>

dma_tick ==
    /\ turn = "dma" /\ turn' = "cpu"
    /\ start' = IF start > 0 THEN start - 1 ELSE 0
    /\ UNCHANGED dma_reg
    /\ IF start = 1
       THEN Transfer(dma_reg, 0, TRUE)
       ELSE Transfer(dma_latched, base, active)

CpuTurn == turn = "cpu" /\ turn' = "dma"

\* Mutant: a request in mid-transfer is lost.
dma_dma_write_ignored(val) ==
    /\ CpuTurn
    /\ dma_reg' = val
    /\ start' = IF active THEN start ELSE 2
    /\ UNCHANGED <<dma_latched, base, active, dma_read_bus, dma_read_val, oam>>

dma_dma_write(val) ==
    /\ CpuTurn
    /\ dma_reg' = val
    /\ start' = 2
    /\ UNCHANGED <<dma_latched, base, active, dma_read_bus, dma_read_val, oam>>

\* Mutant: bus_write_cpu does not ask whether a transfer runs.
cpu_oam_write_always(i) ==
    /\ CpuTurn
    /\ oam' = [oam EXCEPT ![i] = CpuByte]
    /\ UNCHANGED <<dma_reg, dma_latched, base, start, active, dma_read_bus, dma_read_val>>

\* The OAM case of bus_write_cpu when the PPU is in a mode that lets the CPU in.
cpu_oam_write(i) ==
    /\ CpuTurn
    /\ ~active
    /\ oam' = [oam EXCEPT ![i] = CpuByte]
    /\ UNCHANGED <<dma_reg, dma_latched, base, start, active, dma_read_bus, dma_read_val>>

\* Anything else the CPU does, a write to OAM that bus_write_cpu drops included.
OtherCpuStep ==
    /\ CpuTurn
    /\ UNCHANGED <<dma_reg, dma_latched, base, start, active, dma_read_bus, dma_read_val, oam>>

Next ==
    \/ dma_tick
    \/ \E val \in Pages : dma_dma_write(val)
    \/ \E i \in Slots : cpu_oam_write(i)
    \/ OtherCpuStep

Spec == Init /\ [][Next]_vars

\* sys_tick always runs to its end, and is called again and again.
FairSpec == Spec /\ WF_vars(Next)

---------------------------------------------------------------------------
\* Reads.  "memory" stands for the byte stored at the address.

Conflict(kind) == active /\ (kind = "oam" \/ dma_read_bus = kind)

\* bus_read_cpu, outside mode 3 for VRAM and modes 2 and 3 for OAM.
bus_read_cpu(kind) ==
    IF Conflict(kind)
    THEN IF kind = "oam" THEN Ones ELSE dma_read_val
    ELSE "memory"

---------------------------------------------------------------------------
TypeOK ==
    /\ dma_reg \in Pages
    /\ dma_latched \in Pages \cup {NoPage}
    /\ base \in 0..LEN
    /\ start \in 0..2
    /\ active \in BOOLEAN
    /\ dma_read_bus \in {"ext", "vram", "not_defined"}
    /\ dma_read_val \in Bytes
    /\ oam \in [Slots -> Bytes]
    /\ turn \in {"dma", "cpu"}

\* While a transfer runs, the part of OAM it has gone over holds that page, byte
\* for byte, whatever the CPU writes meanwhile, and a new request in mid-transfer
\* included (the running one goes on until the new one starts).
PrefixCopied ==
    active => /\ dma_latched \in Pages
              /\ \A i \in 0..(base - 1) : oam[i] = SourceByte(dma_latched, i)

\* The M-cycle that ends a transfer leaves all of the page in OAM.
EndsWhole ==
    active /\ ~active' => \A i \in Slots : oam'[i] = SourceByte(dma_latched, i)

TransferEndsWhole == [][EndsWhole]_vars

\* In the CPU's part of an M-cycle of a transfer, a read of the memory the transfer
\* uses returns the very byte it copied in this M-cycle, and a read of any other
\* memory but OAM is undisturbed: the bus and the byte that bus.c keeps are never
\* left over from an earlier cycle or an earlier transfer.
CpuSeesTransfer ==
    active /\ turn = "cpu" =>
        \A kind \in {"ext", "vram"} :
            bus_read_cpu(kind) = IF PageKind[dma_latched] = kind THEN oam[base - 1]
                                                                 ELSE "memory"

\* A transfer that is not about to be replaced is the one requested last.
LastRequestWins == active /\ start = 0 => dma_latched = dma_reg

\* Once the program stops requesting transfers, the controller comes to rest.
ComesToRest == <>[](start # 2) => <>[]~active

\* What makes PrefixCopied inductive: a transfer that runs has copied something
\* and, at its end, everything; the bytes bus.c keeps are those of the last copy.
OamDmaInv ==
    /\ TypeOK
    /\ PrefixCopied
    /\ LastRequestWins
    /\ active => /\ base > 0
                 /\ dma_read_bus = SourceBus(dma_latched)
                 /\ dma_read_val = SourceByte(dma_latched, base - 1)
==========================================================================
