---------------------------- MODULE Cartridge ----------------------------
(***************************************************************************)
(* The cartridge (cartridge.c): which headers cart_init accepts, and the     *)
(* registers of the bank controllers MBC1 and MBC3, which choose what the    *)
(* program reads and writes.                                                 *)
(*                                                                          *)
(* Sizes are in banks.  What the ROM, the RAM and the registers of the clock  *)
(* hold is left out; the battery RAM and its file are the subject of         *)
(* SaveFile.                                                                 *)
(***************************************************************************)
EXTENDS Integers

CONSTANTS
    Headers,   \* type, rom and ram bytes of the header, and the size of the file
    Values     \* bytes the program writes

VARIABLES
    cart,              \* the header that was accepted, or NoCart
    ram_enabled,       \* mbc1_ram_enabled, mbc3_ram_timer_enabled
    bank0_reg,         \* mbc1_bank0_reg, mbc3_rom_bank_reg
    bank1_reg,         \* mbc1_bank1_reg, mbc3_ram_timer_select
    mbc1_mode

registers == <<ram_enabled, bank0_reg, bank1_reg, mbc1_mode>>
banks_vars == <<cart, registers>>

NoCart == [type |-> 0, rom |-> 0, ram |-> 0, size |-> 0]

ASSUME CartridgeAssumption ==
    /\ Headers \subseteq [type : 0..255, rom : 0..255, ram : 0..255, size : Nat]
    /\ Values \subseteq 0..255

---------------------------------------------------------------------------
\* cart_init.

Kind(controller, ram, rtc) == [mbc |-> controller, has_ram |-> ram, has_rtc |-> rtc]
Supported == {0, 1, 2, 3, 15, 16, 17, 18, 19}
KindOf(type) ==
    CASE type = 0          -> Kind(0, FALSE, FALSE)
      [] type = 1          -> Kind(1, FALSE, FALSE)
      [] type \in {2, 3}   -> Kind(1, TRUE, FALSE)
      [] type = 15         -> Kind(3, FALSE, TRUE)
      [] type = 16         -> Kind(3, TRUE, TRUE)
      [] type = 17         -> Kind(3, FALSE, FALSE)
      [] type \in {18, 19} -> Kind(3, TRUE, FALSE)

\* 1 << (byte + 1): a shift by 32 or more is undefined, and the processors the program is
\* built for take the distance modulo 32.
RomShift(byte) == (byte + 1) % 32

RamSizes == {0, 2, 3, 4, 5}
RamBanks(byte) ==
    CASE byte = 0 -> 0 [] byte = 2 -> 1 [] byte = 3 -> 4 [] byte = 4 -> 16 [] byte = 5 -> 8

\* Mutant: the size in the header is not compared with that of the file.
Accepted_anySize(h) ==
    /\ h.size >= 2
    /\ h.type \in Supported
    /\ RomShift(h.rom) <= 9
    /\ h.ram \in RamSizes
    /\ KindOf(h.type).has_ram <=> RamBanks(h.ram) > 0

Accepted(h) ==
    /\ h.size >= 2
    /\ h.type \in Supported
    /\ RomShift(h.rom) <= 9 /\ h.size = 2 ^ RomShift(h.rom)
    /\ h.ram \in RamSizes
    /\ KindOf(h.type).has_ram <=> RamBanks(h.ram) > 0

mbc == KindOf(cart.type).mbc
has_ram == KindOf(cart.type).has_ram
has_rtc == KindOf(cart.type).has_rtc
rom_banks_16kib == 2 ^ RomShift(cart.rom)
ram_banks_8kib == RamBanks(cart.ram)

BanksInit ==
    /\ cart = NoCart
    /\ ram_enabled = FALSE /\ bank0_reg = 0 /\ bank1_reg = 0 /\ mbc1_mode = 0

\* The registers are set by mbc1_init or mbc3_init.
cart_init_banks ==
    /\ cart = NoCart
    /\ cart' \in {h \in Headers : Accepted(h)}
    /\ UNCHANGED registers

---------------------------------------------------------------------------
\* Reading: the bank of the ROM behind each of the two halves of its region.

\* Mutant: the value 0 is not taken for 1.
NotZero_same(bank) == bank

NotZero(bank) == IF bank = 0 THEN 1 ELSE bank

Mbc1Bank(region, low, high, bankmode) ==
    IF region = "BANK0" THEN IF bankmode = 1 THEN 32 * high ELSE 0
    ELSE 32 * high + NotZero(low)

\* cart_read in BANK0 and BANK1, for the values of the registers.  A mask with
\* rom_banks_16kib - 1 is a remainder, as the number is a power of 2.
RomBank(region, low, high, bankmode) ==
    CASE mbc = 0 -> IF region = "BANK0" THEN 0 ELSE 1
      [] mbc = 1 -> Mbc1Bank(region, low, high, bankmode) % rom_banks_16kib
      [] mbc = 3 -> IF region = "BANK0" THEN 0 ELSE NotZero(low) % rom_banks_16kib

\* The bank of the RAM in EXT_RAM.
RamBank(select, bankmode) ==
    (IF mbc = 1 /\ bankmode = 0 THEN 0 ELSE select) % ram_banks_8kib

\* What EXT_RAM shows, for reads and writes: at most one bank of the RAM or register of
\* the clock.  mbc0 has no RAM, as no type has it.
Selected ==
    IF (~ram_enabled \/ mbc = 0) THEN {}
    ELSE IF (mbc = 1 \/ bank1_reg < 8)
         THEN IF has_ram THEN {<<"ram", RamBank(bank1_reg, mbc1_mode)>>} ELSE {}
    ELSE IF has_rtc /\ bank1_reg <= 12 THEN {<<"rtc", bank1_reg>>} ELSE {}

---------------------------------------------------------------------------
\* Writing: bits 15..13 of the address choose a register.

RamEnable(val) ==
    /\ mbc # 0
    /\ ram_enabled' = (val % 16 = 10)
    /\ UNCHANGED <<cart, bank0_reg, bank1_reg, mbc1_mode>>

\* What the masks of the two registers leave of a byte.
Bank0Of(val) == IF mbc = 1 THEN val % 32 ELSE val % 128
Bank1Of(val) == IF mbc = 1 THEN val % 4 ELSE val % 16

Bank0Write(val) ==
    /\ mbc # 0
    /\ bank0_reg' = Bank0Of(val)
    /\ UNCHANGED <<cart, ram_enabled, bank1_reg, mbc1_mode>>

Bank1Write(val) ==
    /\ mbc # 0
    /\ bank1_reg' = Bank1Of(val)
    /\ UNCHANGED <<cart, ram_enabled, bank0_reg, mbc1_mode>>

\* MBC3 does not latch its clock.
ModeWrite(val) ==
    /\ mbc = 1
    /\ mbc1_mode' = val % 2
    /\ UNCHANGED <<cart, ram_enabled, bank0_reg, bank1_reg>>

cart_write(val) ==
    /\ cart # NoCart
    /\ \/ RamEnable(val) \/ Bank0Write(val) \/ Bank1Write(val) \/ ModeWrite(val)

BanksNext == cart_init_banks \/ \E val \in Values : cart_write(val)

BanksSpec == BanksInit /\ [][BanksNext]_banks_vars

---------------------------------------------------------------------------
BanksTypeOK ==
    /\ cart = NoCart \/ (cart \in Headers /\ Accepted(cart))
    /\ ram_enabled \in BOOLEAN
    /\ bank0_reg \in 0..127 /\ bank1_reg \in 0..15 /\ mbc1_mode \in {0, 1}

\* No register makes the program read outside the ROM file or use memory outside the
\* RAM that was allocated, whatever header cart_init has accepted.
InBounds ==
    cart # NoCart =>
        /\ \A region \in {"BANK0", "BANK1"} :
              RomBank(region, bank0_reg, bank1_reg, mbc1_mode) \in 0..(cart.size - 1)
        /\ \A p \in Selected : p[1] = "ram" => p[2] \in 0..(ram_banks_8kib - 1)

\* Each bank of the ROM, up to the 128 that seven bits can choose, appears when its number
\* is written: to the first register, with MBC1 also what is above its five bits to the
\* second.  It appears in BANK1, but bank 0, and with MBC1 32, 64 and 96, in BANK0 in mode 1.
AllReachable ==
    cart # NoCart /\ mbc # 0 /\ registers = <<FALSE, 0, 0, 0>> =>
        \A b \in 0..(cart.size - 1) : b < 128 =>
            LET region == IF b % (IF mbc = 1 THEN 32 ELSE 128) = 0 THEN "BANK0" ELSE "BANK1"
            IN  RomBank(region, Bank0Of(b), Bank1Of(b \div 32), 1) = b

\* BANK1 shows another bank than BANK0 in mode 0, unless the ROM is so small that the
\* register has bits the ROM does not have.
HalvesDiffer ==
    cart # NoCart /\ mbc1_mode = 0 /\ bank0_reg < rom_banks_16kib =>
        RomBank("BANK1", bank0_reg, bank1_reg, 0) # RomBank("BANK0", bank0_reg, bank1_reg, 0)

\* The banks of the RAM whose numbers can be written are different memory: MBC1 has two
\* bits for them and MBC3 three, and a header may ask for 16 banks.
RamBanksApart ==
    cart # NoCart /\ has_ram =>
        \A a, b \in 0..((IF mbc = 1 THEN 4 ELSE 8) - 1) :
            a # b /\ a < ram_banks_8kib /\ b < ram_banks_8kib =>
                RamBank(Bank1Of(a), 1) # RamBank(Bank1Of(b), 1)

\* What the program writes chooses the banks it names, and no bank, of ROM or of RAM, takes
\* the place of another one.
BanksApart == AllReachable /\ HalvesDiffer /\ RamBanksApart
==========================================================================
