# Verification of MyDMG

TLA+ models of MyDMG, an emulator of the Game Boy (DMG) written in C, with the
configurations that model-check them with TLC and proofs checked by TLAPS.
Paths below are relative to the repository; line numbers are those of the
files under `src/`.

## 1. The system

One M-cycle is one call of `sys_tick` (`system.c:27`), which calls, in an order
the source calls significant, `dma_tick`, `cpu_tick`, `ppu_tick`, `timer_tick`.
The components call each other: the CPU reads and writes through the bus, the
bus calls the owner of the register or memory addressed, devices call
`request_interrupt`, and the CPU asks the interrupt controller. Within the
system everything is sequential; the difficulty is the *order* of reads, writes
and latched values within an M-cycle, and what is still latched in a later one.
A second thread shows the frames.

| Part | State | Operations | Talks to | What is hard | What makes it correct |
|---|---|---|---|---|---|
| CPU `cpu.c` | registers, `instr_func`, `instr_cycle`, `cb_prefixed`, `cond`, `halted`, `set_ime`, IME | `cpu_tick`, about 110 instruction functions, `fetch_and_decode` | bus, interrupt controller | the last M-cycle of an instruction fetches the next one; EI and DI act late; an interrupt is decided three M-cycles before its source is chosen; HALT, the prefix | one bus access in an M-cycle; documented length, duration and stack effect; return address; masking; HALT ends |
| interrupt controller `interrupt.c` | IF, IE | request, send, pending, register access | all devices, CPU | requests arrive in any M-cycle; widths of the masks differ | a handler is entered only for a source requested and enabled, in the order of priority |
| timer `timer.c` | counter, DIV, TIMA, TMA, TAC, caches of TAC, `prev_timer_signal`, overflow flag | tick, four register writes | interrupt controller | an edge detector over a sampled bit, fed by three paths; a delayed reload | no edge missed or invented; each wrap answered once |
| OAM DMA `dma.c` | DMA register, latch, `base`, `start`, `active` | tick, register write | bus | the start delay, restart in mid-transfer | a transfer ends with the whole page in OAM |
| bus `bus.c` | `dma_read_bus`, `dma_read_val` | CPU read and write, PPU read, DMA copy | all | conflicts between three clients; who may see what | a conflict returns the byte on the bus; array accesses in bounds |
| PPU `ppu.c` | mode, line, dot counter, two latched interrupt signals, FIFOs, fetchers, frame buffers | tick, register writes, `set_mode` | bus, interrupt controller, window | four dots in a tick, mode changes, interrupts computed from levels, LCD off in mid-line | line length, one VBlank request per frame, STAT edges, 160 pixels in a line, frame shown whole |
| joypad `input.c` | P1 register, eight keys | poll, register write | interrupt controller, SDL's array of keys | two causes of a falling edge; the array changes while it is read | active-low nibble follows the keys; a request for each fall; a held key arrives |
| cartridge `cartridge.c` | ROM, RAM, bank registers | load, read, write, save | bus, files | which headers are accepted; two registers for one bank number; a write of the save that fails or is cut off | accesses in bounds; every bank reachable; a game finds its RAM as it left it |
| threads `main.c` | `running`, frame mutex, buffers, `next_frame` | window loop, system loop, pacing, shutdown | PPU, joypad, cartridge | flags shared with no lock; shutdown in every state; late frames | no torn or outdated picture; nothing freed in use; the program ends; speed of the machine |

`PROJECT.json` lists the hazards of the code one by one, each with its line and
with the properties that cover it.

## 2. Modules

| Module | Contents |
|---|---|
| `Interrupt` | `interrupt.c`: IF and IE as sets of bits, requests, the choice of a source. It has no steps of its own; `Timer`, `Cpu` and `Ppu` extend it. |
| `TimerSpec` | What the divider and timer promise: an abstract machine with no edge detector. |
| `Timer` | `timer.c` with the CPU's part of the M-cycle; the refinement of `TimerSpec`. |
| `TimerProofs` | Theorems about `Timer`. |
| `CpuDecode` | `fetch_and_decode` and the M-cycles of every instruction function, as tables of control actions. |
| `Cpu` | `cpu_tick` and what it calls, with devices that request interrupts between M-cycles. |
| `CpuReference` | The documented length, duration and stack effect of every opcode, by opcode number; it is the yardstick and is not translated from the code. |
| `CpuProofs` | Theorems about `Cpu`, with `CpuDecode` and `CpuReference`, and about `Alu`. |
| `AddressMap` | `get_addr_region`, echo RAM, array indices, DMA addresses. No state, and no run. |
| `OamDma`, `OamDmaProofs` | `dma.c` with `bus_copy_dma` and the CPU's side of `bus.c`; theorems. |
| `RasterSpec` | What the PPU promises about time: one position that runs through the frame. |
| `Ppu` | Lines, modes, STAT and VBlank signals, LCD off and on, the shown picture of `ppu.c`; the refinement of `RasterSpec`. |
| `PpuProofs` | Theorems about `Ppu`. |
| `LineSpec` | What a line of mode 3 promises: which pixel the registers ask for at each place; no queue, no fetcher. |
| `Pixels` | Mode 3 of `ppu.c` dot by dot: fetchers, FIFOs, scroll, window, objects; the refinement of `LineSpec`. |
| `OamScan` | Mode 2 of `ppu.c`: which objects a line shows, with OAM DMA and the lock on OAM. |
| `WindowRows` | `wy_check`, `window_mode` and `win_y` over whole frames; proved, with no run. |
| `LineProofs` | Theorems about a line of the PPU: `OamScan`, `Pixels` with its refinement of `LineSpec`, and `WindowRows`. |
| `Joypad`, `JoypadProofs` | `input.c` with both threads; extends `Interrupt`; theorems. |
| `Frames`, `FramesProofs` | The two threads of `main.c` from start to end, `commit_frame`, `ppu_get_frame_buffer`, shutdown; theorems. |
| `Cartridge` | Headers and bank controllers. |
| `MemoryProofs` | Theorems about `AddressMap`, `Cartridge` and `SaveFile`: every access is in bounds, a transfer stays in one region, no bank takes the place of another, a game finds its RAM again. |
| `SaveFile` | The battery RAM and its file over several runs of the program. |
| `Alu` | Sums and differences bit by bit, DAA, sums of 16 bits in two M-cycles. |
| `MC...` | Instances for TLC. |

Definitions have the names of the C functions they translate; the table `map` of `PROJECT.json`
gives the lines of each. Three modules call their specification other than `Spec` (`AluSpec`,
`BanksSpec` in `Cartridge`, `DrawSpec` in `Pixels`, with `AluInit`, `cart_init_banks` and so on),
since one module of proofs extends each of them together with another component. A definition whose
comment begins with *Mutant* is not part of the model: it is a plausible mistake in the definition
that follows it, kept to show that a property notices it (`mutants` in `PROJECT.json` pairs them
with properties).

### Correspondence with the code

*Timer.* `turn` says whether the CPU or the timer is next in the M-cycle (DMA and
PPU do not touch the timer). The CPU may write any register, take the timer
interrupt, clear or set its request by a write to IF, or do something else. `system_counter` is a 64-bit integer of which
bits 15..0 are looked at; it is kept modulo `COUNTER`, of which the rates' periods
are divisors in the code and in the instance. `check_signal` takes the values that
TIMA and the overflow flag have when it is called, because `timer_tick` changes
both before it calls it. Two variables are history: `owed`, the wraps not yet answered, and
`reloaded`, whether the latest `timer_tick` has reloaded TIMA. `TimerSpec` has DIV, TIMA and the
registers and counts falls of the watched bit by comparing it before and after a step. From a wrap
to the M-cycle after its reload (`Reloading`) it leaves open what a write to TIMA or TMA does to
TIMA and to the reload; that it disturbs nothing else, and requests no interrupt, is promised.

*Cpu.* An instruction function is the sequence of its M-cycles and an M-cycle the
set of things it does (`CpuDecode` lists them), so that `Execute` can treat all
of them alike. Functions which differ only in the data they compute share a
name. A byte read, the flag that decides a branch, a jump target, a value loaded
into SP and the address of a write may be anything; a write may thus hit IF or
IE, which is what the interrupt entry has to cope with. `Complete` is the part of
`cpu_tick` after `instr_complete`; `masked`, `op` and `accesses` are history
variables. The test at `cpu.c:115` can never be true (only the prefix sets the
flag, together with `nop`) and has no counterpart. STOP never completes in the
code, nor in the model, where the count of its M-cycles is capped by `MaxCycles`.

*OamDma.* A byte is a pair of the page and the index it comes from, so that
"OAM holds the page" can be said exactly. Reads change nothing and are operators.
`turn` separates `dma_tick` from the CPU; the PPU runs after the CPU, changes nothing
here, and its reads are left out.

*Ppu.* `Dot` is one turn of the loop in `ppu_tick` and a function of the variables of `raster`;
`ppu_tick` is four of them and the signals. Mode 3 draws nothing here: `draw_end`, chosen from
`DrawEnds` when mode 3 begins, is the dot at which `mode3_dot` sets `mode3_draw_complete`. The
module assumes that an M-cycle of HBlank is left after it (174 dots without objects, scroll and
window, of 376); `EndsInTime` of `Pixels`, which is proved, establishes that from the fetchers: 6
dots to fill the FIFO, 8 + 160 pixels, 7 for the scroll, 6 for the window and 6 for each of 10
objects are 247. Writes to LCDC matter for bit 7 only. Bits 2..0 of STAT are left out, as only
software reads them. `drawn` and `front` are history variables: how many lines of the frame have had
their last pixel drawn, and where the picture in `front_buffer` comes from. `mode` starts as
`MODE2_OAM`, and IF with the VBlank request that the boot ROM leaves. The program may take or clear
a request but does not set bits of IF itself here.

*AddressMap.* The real 16-bit constants; definitions only, about which everything is proved.

*Pixels.* The variables of mode 3 are one record, and the functions of `ppu.c` are operators that
take and return it, composed in `Dot` in the order of `mode3_dot`. A pixel is known by where it
comes from (map and column, or slot and column), not by its colour; a parameter says which columns
have the colour index 0, as that decides between background and object. The byte-wide wrap of
`lx_reg` (it begins at 248, so that the first eight pixels are dropped), `bg_fetch_x` and `win_x` is
kept. `RegisterWrite` stands for writes to LCDC, SCX and WX in the middle of a line; `sure` is
history: it becomes FALSE with such a write, from which `LineSpec` leaves the pixels of the line
open (its step `Disturb`) while `EndsInTime` (in `PixelsInv`) is asked for in any case. `LineSpec`
leaves them open too in a line with the background off or with WX = 255 (`Asked`), of which no text
says what it should look like; that the pixels come out once each and in order is asked of these
lines as well. In `LineSpec` of several objects with one X only the first counts: `check_objs_lx`
never looks further, and the specification is of the program.

*OamScan.* Of an object Y is kept and whether its X was read from OAM or in a transfer.
`ScanCycle` is four dots, as the CPU and DMA act only between M-cycles. DMA begins, ends and
writes OAM at any time here, which includes what `OamDma` allows. `quiet` and `covered`
are history. `mode2_dot` does not look where OAM ends, nor does its model: that the scan stops in
time is for `ScanInStep` to say.

*WindowRows.* Where the window begins in a line is left to `Pixels`; here it may begin at
the start of drawing, later or never. `used` is history: the lines that showed it. The
lines of a frame are those of the code, 144 of 154.

*Joypad.* The array that SDL updates in the window thread may change between any two of the
eight reads of `input_poll_and_load`, which are steps of their own. The program may take or clear a
request but does not set bits of IF itself here.

*Frames.* Each step of a thread reads or writes one shared variable, or half of a picture.
The tests of `mode` and `just_enabled` in `ppu_get_frame_buffer` are two steps, and so are
the two writes of `ppu_lcdc_write`; they are data races in C, and the model keeps them in
program order: the compiled program does on x86, where both are plain loads and stores that
the compiler (gcc -O3) leaves in order. `running` is read anew in each turn, since both loops
call functions the compiler cannot see into. Pictures are numbered modulo 3, which is
enough to tell one from its neighbours. `SDL_CreateThread` may fail, unnoticed by `main`.
`stale` and `stale_at_lock` are history. What the machine computes is left out, so a tick may
do anything that matters here.

*Cartridge.* Sizes and addresses are in banks, and a header is its three bytes and the size
of the file. A shift by more than 31 is undefined in C; the model takes the distance modulo
32, as x86 does. The two controllers share their variables since a cartridge has one.

*SaveFile.* `disk` maps paths to files, and paths are sequences of characters, as the code
looks at dots and separators. An orderly end writes the file; a failed write leaves the old
file or a shorter one; a run may be killed at any time. Several ROMs may share a save file; `Alone`
says of one that it does not.

*Alu.* The instructions that take an operand from a register, from memory or from the program
differ in their M-cycles, which `CpuDecode` has, and not in what they compute. `given` is
history.

## 3. Runs

A run's `TypeOK` is not named apart: where several invariants describe one state together they
are conjoined under one name, with the type invariant first, and where the conjunction is
proved it is the inductive one, so that TLC checks on an instance what section 4 proves.

| Invariant | Beyond the types |
|---|---|
| `CpuInv` | `PreciseReturn`; for it `ReturnAhead`, `HaltedBetween` and `PrefixIsFirst`; and `MaskedByIme` and `StillPending`, from which the action properties on interrupts follow |
| `PpuInv` | `WholeFrames`, `NoOldPicture`, `ModeFitsLine`; for them `ModeFitsDot`, and for the refinement `LatchFits` |
| `FramesInv` | `TicksLeft`, `Lifetimes` (with `NoUseAfterFree` and `SaveIsFinal`), `MutexHeld`, `HalvesMatch`, `OldIsMarked` |
| `JoypadInv` | `LinesMatch` |
| `BanksApart` | stands for `AllReachable`, `HalvesDiffer` and `RamBanksApart` |
| `PixelsInv` | `EndsInTime`, with `InStep` and `WithinBudget` for it; and `InPlace`, for the refinement |
| `OamScanInv` | `NoObjectTwice`, `BothRead`, `HiddenByDma`; and for these and `FirstOnLine` `ScanInStep`, `HiddenSoFar`, `FirstSoFar` |
| `SaveFileInv` | `RomsIntact`, `NeverTorn`, with `TornIsShort` for it; and `SavedAsLeft`, from which `ReopenedAsLeft` follows |
| `WordsRight` | stands for `HlRight` and `SpRight`; with `Halfway`, what the first M-cycle leaves to the second |

| Run | Question | Bounds and why they are enough |
|---|---|---|
| `timer` | Is the timer right under every interleaving of ticks and register writes? | Byte of 4 values, unit of DIV 16, four periods 16, 32, 64, 128 T-cycles, counter modulo 128. Every period is a multiple of 2 M-cycles as in the code, the watched bits differ, TIMA and DIV wrap, and a wrap can be followed by every write. |
| `cpu_timing` | Does every instruction take the bytes, M-cycles and stack slots documented? | All opcodes but EI, DI and RETI (which the next run has), 5 addresses: no instruction moves PC or SP by a multiple of 5 when it should not, as lengths are up to 3 and SP moves up to 2. |
| `cpu_interrupts` | Is the CPU right when requests arrive in any M-cycle? | nop, ld (hl),b, halt, 0xCB, reti, di, ei (and the prefixed instructions of the same bytes), two sources, bytes for IF and IE that set, clear and leave them, one for IE with a bit that stands for no source, 4 addresses. Every kind of control action that touches IME, IF, IE, HALT or the prefix is among them. |
| `oam_dma` | Is OAM DMA right under every sequence of requests and OAM writes? | 4 bytes in a transfer (more than the 2 M-cycles of the start delay), five pages: two of the cartridge, one of VRAM, of work RAM and of the region above. |
| `ppu` | Are lines, modes, interrupts and pictures right when the program turns the LCD off and on, or writes STAT and LYC, in any M-cycle? | Lines of 6 M-cycles (2 of mode 2), 3 visible lines and 2 of VBlank; mode 3 ends inside an M-cycle, at its end, or at the latest dot. LYC: line 0, a visible line, a line of VBlank, none; every selection of STAT causes. Each line and mode is longer than an M-cycle and there are lines of every kind with a neighbour of the same kind, as in the code. |
| `joypad` | Do the lines, the request and the keys agree whoever changes what? | Four buttons, so that two lines have a button of each group (LEFT with B, RIGHT with A); lines do not interact beyond "another line is low". All selections. |
| `pixels` | Is every pixel of a line the one the registers ask for, and does mode 3 end in time even if they change? | 24 pixels: three tiles and more than two window starts. SCX with no and all 7 pixels dropped (and the wrap of the map), 7 starts of the window from off the left edge to off the right, 6 lists of objects that overlap, touch, coincide, lie off the screen, are transparent in part or behind the background; some lines with WX = 255 or without the background. A line may be cut off in each dot and followed by any other, and five sets of registers are written between any two M-cycles. |
| `oam_scan` | Do the slots hold the objects of the line? | 4 objects, 2 slots, 2 lines: more objects than slots, as in the code; the scan takes two dots for each. Y above, below, and at both edges of both sizes. |
| `frames` | Do the two threads get along, from start to end? | 3 ticks between two looks at `running`, which is not a multiple of the PPU's frame of 4, so that the two drift as they do when the LCD is turned off and on. Two halves of a picture tell a torn one. |
| `cartridge` | Is bank arithmetic right for every accepted header? | All types, RAM sizes and ROM sizes, also headers that shift too far; bytes at the edges of the register fields. |
| `save_file` | Does a game find its RAM again? | Four ROMs with different shapes of path and sizes of RAM, of which two share a save file and can load the beginning of each other's; 2 changes of the RAM; for the name of the file all paths of up to 5 characters. |
| `alu` | Is arithmetic right? | All bytes as first operand, 46 as the second, which are the decimal numbers that end in 0, 1, 5 and 9 and the edges; 14 words around the edges of bytes and of bit 12. |

Fairness. `sys_tick` always runs to its end and the system thread calls it again
and again, so weak fairness of the whole next step (`Timer`, `OamDma`, `Ppu`) or of
`cpu_tick` (`Cpu`) is what the code gives. Nothing is assumed of the program that
the emulated CPU runs, nor of the devices. `ComesToRest`, `VblankComes` and `StatComes`
have their conditions on the program (LCD on from some time on, STAT and LYC left
alone) inside the property. `Joypad` assumes that polls come again and again; `KeysArrive` has
inside that the key and the selection stay. In `Frames` each thread runs (weak
fairness), and nothing is assumed of who gets the mutex: a mutex of SDL is not fair. It need not
be, as the window thread, once it is told to close, does not lock again, and the other gets its
turn. That the program is closed is never assumed.

### What disagrees

The code does the following, and so do the models, against what a text of the repository
says; the properties are stated so that they hold of the code as it is.

* A wrap of TIMA caused by a write to DIV or TAC is reloaded by the
  `timer_tick` of the same M-cycle; the comment at `timer.c:47-48` says the next.
  (`test/mooneye.txt:20` records that `rapid_toggle`, which makes such writes, fails.)
* `test/mooneye.txt:30-31` records that `tima_write_reloading` and `tma_write_reloading` fail, in
  which TIMA and TMA are written while TIMA is being reloaded. In the code such writes are plain: one
  to TIMA before the reload is overwritten by it, one to TMA does not change what is reloaded
  (`tma_overflow_save`), and after the reload neither is treated specially. `Timer` does the same. No
  text says what is meant, so that `TimerSpec` leaves these writes open; `OwedIsPending` and
  `OverflowRaisesInterrupt` say of the code as it is that the wrap is answered in any case.
* `timer_init` sets DIV and the counter to values that do not belong
  together; DIV goes from 0xAB to 0xEA in the first M-cycle (`boot_div` fails in
  `test/mooneye.txt:35`). `BOOT_DIV` and `BOOT_COUNTER` are therefore
  constants of their own, and `TimerSpec` leaves DIV open until the first M-cycle.
* The upper bits of IF read 1 and those of IE are writable, and `pending_interrupt`
  looks at all eight, so that IE with an upper bit set lets the CPU leave the program with no source
  (README.md:60 speaks of 5 sources). `GlitchOnlyByPush` excepts an IE with such a bit, without
  which it cannot be proved, and the run writes one.
* `set_ime` survives the decision to take an interrupt at the end of an EI
  that found IME set (`cpu.c:1459`), and sets IME again during the entry to the handler, though
  `cpu.c:152` clears it. `NotWhileMasked` excepts exactly this.
* The comment at `bus.c:196-197` says that reads beyond external RAM
  transfer 0xFF; work RAM, which is beyond it, is transferred.
* `bus.c:188` returns to the PPU the number of the bus instead of the byte on it.
* `cart_init` replaces what follows the last dot of the ROM's path, so that `/a.gb` and `/a.gbc`
  share `/a.sav` and each loses its RAM to the other, against README.md:26-27. The instance of
  `SaveFile` has two such ROMs, and the properties that speak of the RAM of a game
  (`ReopenedAsLeft`, `SavedAsLeft`, `NeverTorn`) of those that share with no other (`Alone`).

Seen while modelling, where no text of the repository says what is meant, and therefore
kept in the models without a run: `wx_reg` = 255 starts the window at the left edge (`lx_reg + 7` is
cut to a byte); of objects with the same X only the first is fetched; with the background
disabled a transparent pixel of an object is drawn with colour 0 of its palette; the keys of
one poll may be from before and after an update of the window thread; in the blank first
frame after the LCD is turned on the rows of the window may be those left over; a header may ask for
256 or 512 banks although seven bits choose one, and for 16 banks of RAM of which 4 or 8
can be chosen; a ROM that is itself called `.sav` is overwritten by its save; and a save
that was cut off is not loaded, and is replaced at the end of the next run, so that the
RAM before it is lost.

## 4. Proofs

For all values of the constants that satisfy the modules' ASSUMEs:

* `Timer`: the invariant `TimerInv`, and from it `TypeOK`, `SignalTracksCounter`,
  `OwedIsPending`, and that `Spec` implements `TimerSpec`. `OwedIsPending` is not
  inductive: a second wrap while the flag is set has to be excluded. `TimerInv`
  adds that the caches of TAC are exact and that after a wrap the latch is 0 until
  the timer runs again, so that the one access of the CPU in between finds no
  falling edge. Lemma `CheckSignal` says what `check_signal` does to all of that for
  any arguments, and each action cites it. For the refinement, `CheckSignalCounts`
  shows that comparing with the latch is the same as comparing the watched bit
  before and after the step, by `SignalTracksCounter`.
* `OamDma`: the invariant `OamDmaInv`, and from it `TypeOK`, `PrefixCopied`,
  `CpuSeesTransfer`, `LastRequestWins` and `TransferEndsWhole`. `PrefixCopied` needs that a running
  transfer has copied at least one byte and that bus and byte kept by `bus.c` are
  those of the latest copy.
* `AddressMap`, in `MemoryProofs`: `EveryAccessInBounds`, for all 65536 addresses, and
  `EveryPageInOneRegion`, for all pages a transfer can be asked for, by the bounds that
  `get_addr_region` tests (lemmas `Bounds` and `RegionOf`), which below OAM are those of whole pages.
* `Cartridge`, in `MemoryProofs`: `BanksTypeOK` is inductive; it holds that the header was accepted,
  from which the lemmas get the number of banks in the file and the RAM, and `InBounds` follows
  since every selection is a remainder by that number. `BanksApart` needs more: that the
  registers hold no bits beyond those of their controller (`RegistersFit`, inductive next to
  `BanksTypeOK`), and that an accepted number of banks is a power of 2 (`AcceptedSizes`), so that the
  remainder only drops upper bits.
* `SaveFile`, in `MemoryProofs`: `SaveFileInv` is inductive, for all paths of ROMs and all sizes of
  RAM. `ReopenedAsLeft` rests on `SavedAsLeft`, which a write for another ROM does not disturb as
  the ROM is `Alone`, and which a failed write gives up (`unsure`). `NeverTorn` rests on
  `TornIsShort`: a file that has lost its end is shorter than the RAM and therefore not loaded.
  `SaveFileNamed`, for paths of any length, says that the stem of the save file's name is what is
  before the last dot of the ROM's name, and all of that name only if it has no dot: lemma
  `LastDotIs` says what the loop of `cart_init` has in `last_dot` after each character, namely the
  last of the dots that no separator follows. Instead of an induction over the characters it takes
  the first one after which this would be wrong (`LeastOf`, from the well-foundedness of the
  numbers) and finds that it is wrong before it already.
* `OamScan`, in `LineProofs`: `OamScanInv` is inductive, for every number of objects and slots, any
  height of the screen and all values of Y, and `FirstOnLine` follows. The four dots of an M-cycle
  are two objects (lemmas `DotsOfOne`, `DotsOfFull`, `LookedKeeps`); `ScanInStep` says how far the
  scan is, so that `mode2_addr` never passes the end of OAM and no slot is written after the last.
  `FirstSoFar` is `FirstOnLine` of the objects looked at: their numbers in the order of OAM
  (`Earlier`) are the places of their slots.
* `Pixels`, in `LineProofs`: `PixelsInv` is inductive, for every width up to 160, all registers and all
  lists of up to ten objects, and `DrawSpec` implements `LineSpec`.
  - *The end of the line.* `WithinBudget` bounds the dots that the line may still take (`Left`): the
    pixels to come, those to drop for SCX, what the fetchers lack, the window if it has not begun,
    and 6 for each object further right. Each dot uses up one, and whatever starts a stop had its
    dots set aside (`WindowTakes`, `PixelTaken`, `DotTakes`). That no dot passes for nothing needs
    `InStep`: the fetcher is ready when the FIFO runs empty. None of this depends on registers that
    stay, so that a write in mid-line keeps it (`Written`).
  - *The pixels.* `InPlace` ties the FIFOs to places of the screen. `GroundInPlace` has the columns
    in the FIFO of the background or of the window follow from `lx`, SCX and WX, and `bg_fetch_x` or
    `win_x` come just after them; the arithmetic is of bytes that wrap (`ByteAdd`, `ColumnOf`).
    `ObjsInPlace` says of each pixel in the FIFO of the objects that it is the leftmost opaque one
    among the objects fetched, or none is and it is transparent (`MergeFills`), and that the FIFO
    reaches as far as those objects do. It is claimed for places on the screen only: an object with
    X = 0 is dropped half-way. `GroundShown`, `PixelShown` and `PromiseStep` conclude that what
    comes out is the pixel of `LineSpec`.
* `Alu`, in `CpuProofs`: `BytesRight`, `DecimalRight` and `WordsRight`, for all bytes, words and
  carries. `CarriesAre` and `BorrowsAre` follow the loops, bit by bit as there are eight: what is
  carried into bit i is the carry of the sum of the bits below. `DecimalSum` and `DecimalDifference`
  are the arithmetic of DAA on two digits. `Halfway` says what the first M-cycle of a sum of 16 bits
  leaves (`SumOfBytes`, `SumWithOffset`).
* `WindowRows`, in `LineProofs`: `RowsInOrder`, from the invariant `WindowRowsInv`. Its part
  `CountedBefore` says what `win_y` is from the scan of a line to its end; `UsedInLine` ties
  `window_mode`, from which the counter goes on, to the lines counted; and `Ranges` bounds these by
  the height of the screen, so that the byte does not wrap (lemma `NextRow`).
* `Frames`: `FramesInv`, `NoTornPicture` and `NoOldPicture`, for every number of M-cycles between two
  looks at `running` and every order of the two threads. `NoTornPicture` needs `HalvesMatch` for
  all three buffers on the way, and `MutexHeld` to know that the one who copies is alone.
  `NoOldPicture` needs `OldIsMarked`: a picture from before the LCD was turned off stays marked by
  `just_enabled` from before `mode` says that the LCD is on until the next commit, which waits
  for the mutex; so a window thread that has the mutex and sees the LCD on sees the mark too. The
  order of the two writes in `ppu_lcdc_write` carries this, and no lock. `NoUseAfterFree` follows
  from `Lifetimes`: `main` gets to `cart_deinit` only by the join, or with no thread made.
* `Joypad`: `JoypadInv` and the action property `RequestOnFall`, for any number of buttons, any
  assignment of buttons to lines and groups and all values written. Lemmas
  `LoadedLines` and `LoadedRequest` say what `load_joyp_nibble` does for both of its callers.
* `Ppu`: `PpuInv`, from it `WholeFrames`, and that `Spec` implements `RasterSpec`, for all lengths
  of a line, of mode 2 and of a frame, all heights of the picture and all sets of dots at which
  mode 3 may end. The code's 456, 80, 154 and 144 are one instance. A tick is four dots: `DotKeeps` is
  proved of one dot on the record of the raster and applied four times (`MCycleKeeps`), and
  `TickAdvances` shows that a tick moves the position by four, over the ends of lines and
  of the frame. For the VBlank request of the refinement, `LatchFits` says when the latch may be old.
* `Cpu`: for all opcodes, all sources and any values of IF and IE, any size of the memory and any
  bytes read, in the following steps.
  - *What a function may do.* An M-cycle is a set of actions; `Fits` says which may come
    together. `TablesFit` establishes it of every function, table by table.
    `CycleKeeps` gets from this what each M-cycle does to the registers (`Common`), and
    `OneBusAccess` falls out.
  - *The return address.* `PreciseReturn` is not inductive: `ReturnAhead` follows PC through the
    fetch that is dropped, `HaltedBetween` and `PrefixIsFirst` exclude that it is dropped between
    the two bytes of a prefixed instruction or in a HALT that lasts. `DispatchKeeps`, `FetchKeeps`
    and `ProceedKeeps` are the three ways in which an M-cycle ends.
  - *Interrupts.* `MaskedByIme` gives `NotWhileMasked`; `StillPending` gives `GlitchOnlyByPush`:
    what made the CPU enter a handler waits until the push, which alone can take it away.
  - *Length, duration and stack.* Each function is summed up by the M-cycles it takes, the bytes it
    reads, its effect on SP, where it branches and whether it jumps (`LenOf`, `ImmOf`, `SpOf`,
    `IfAt`, `Jumping`); that the tables do this is part of `TablesFit`. `Progress`, inductive next
    to `CpuInv`, says that the function in progress is that of the opcode fetched and that PC, SP
    and the count are where its M-cycles have taken them. `Block0` and `Block3` compare the
    summaries with `CpuReference` opcode by opcode, `Regular` the two blocks in which the opcode
    matters by its operand only, and the prefixed opcodes. `Finishes` puts the two together when an
    instruction ends, at its condition or at its last M-cycle. `TimingMatches` and
    `FootprintMatches` follow. STOP is left out, as it never ends.

  `Cycles` chooses the table of a function from the set `Tables` instead of merging the tables, as the
  provers do not know the operator `@@`.

The assumptions are those of the modules and no others: ranges of the constants, and for `Ppu`
that an M-cycle of HBlank is left after mode 3, which the theorem on `EndsInTime` of `Pixels`
justifies: `Longest` is at most 247 dots of the 376 that a line has after mode 2. The step from
the one module to the other is this comparison and not a theorem. The theorems are
about the models; that a definition is the function it is named for is for a reader to compare, by
the table `map`.

Only model-checked: the liveness properties (`OverflowRaisesInterrupt`, `PendingIsTaken`,
`ComesToRest`, `VblankComes`, `StatComes`, `KeysArrive`, `CloseEnds`), which are out of TLAPS'
reach as they rest on fairness and ENABLED. Every other property of the runs is stated by a theorem.

Proving changed the models in some places, each time towards the code. The alternatives
of `mode2_dot` overlapped, so that TLC took the first and the provers could take any. The instance of
`SaveFile` had no ROMs that share a save file, and the properties did not say that they are about the
others; with such ROMs they are false. `LineSpec` promised the pixels of every line, of
which the instance had none with WX = 255 or without background, where it is false too.

## 5. Not modelled, and the plan

Not modelled: SDL, the file system and the C library, of which the models have only what the program
can see (external); the scale and the palette of the window, which change nothing else; the pacing
of `loop_system`, arithmetic on one clock that shares nothing with the other parts; what the PPU
reads while a transfer has its bus; logic, shifts and rotations of the CPU, one expression each,
which the instruction tests compare exhaustively; the bits of a tile and where VRAM has it; what the
ROM and the RAM of a cartridge hold; the clock of MBC3, which does not run in the code either; the
lock that mode 3 puts on VRAM, and reads of a locked memory, which return a constant. STOP is in the
table of M-cycles but never ends, and nothing is claimed about it.

What is left is *System*: `sys_tick` over all components by INSTANCE, with one bus, and the interrupt
requests of timer, PPU and joypad meeting the CPU of `Cpu`. The components are proved for any
order of requests and register writes, so that it would add what they owe to the order of the
calls in `sys_tick` only.
