---------------------------- MODULE AddressMap ----------------------------
(***************************************************************************)
(* The memory map (bus.h, get_addr_region of bus.c) and the arithmetic with *)
(* which the owners of the memories turn an address into an array index.    *)
(* Addresses are the 16-bit ones of the code.                               *)
(***************************************************************************)
EXTENDS Integers

\* The *_START and *_SIZE macros.
Start == [BANK0 |-> 0, BANK1 |-> 16384, VRAM |-> 32768, EXT_RAM |-> 40960,
          WRAM |-> 49152, ECHO |-> 57344, OAM |-> 65024, UNUSED |-> 65184,
          IO_REGS |-> 65280, HRAM |-> 65408]

Size == [BANK0 |-> 16384, BANK1 |-> 16384, VRAM |-> 8192, EXT_RAM |-> 8192,
         WRAM |-> 8192, ECHO |-> 7680, OAM |-> 160, UNUSED |-> 96,
         IO_REGS |-> 128, HRAM |-> 127]

IE_REG == 65535
Addresses16 == 0..IE_REG

\* Is addr below the end of the region?  get_addr_region asks this of one region
\* after the other, in the order of their addresses.
Below(addr, region) == addr < Start[region] + Size[region]

get_addr_region(addr) ==
    IF Below(addr, "BANK0") THEN "BANK0"
    ELSE IF Below(addr, "BANK1") THEN "BANK1"
    ELSE IF Below(addr, "VRAM") THEN "VRAM"
    ELSE IF Below(addr, "EXT_RAM") THEN "EXT_RAM"
    ELSE IF Below(addr, "WRAM") THEN "WRAM"
    ELSE IF Below(addr, "ECHO") THEN "ECHO"
    ELSE IF Below(addr, "OAM") THEN "OAM"
    ELSE IF Below(addr, "UNUSED") THEN "UNUSED"
    ELSE IF Below(addr, "IO_REGS") \/ addr = IE_REG THEN "IO_REGS"
    ELSE IF Below(addr, "HRAM") THEN "HRAM"
    ELSE "UNUSED"

\* overlay_masked(addr, 0xC000, 0xE000): the low 13 bits of addr, above 0xC000.
map_echo_to_wram(addr) == (addr % 8192) + Start["WRAM"]

\* The address bus_read_cpu and bus_write_cpu hand to the owner of the memory.
Routed(addr) ==
    IF get_addr_region(addr) = "ECHO" THEN map_echo_to_wram(addr) ELSE addr

\* The regions kept in an array of their size, which the owner indexes with the
\* distance from the start of the region (vram_read, wram_read, oam_read, ...).
Arrays == {"VRAM", "WRAM", "OAM", "HRAM"}

Index(addr, region) == addr - Start[region]

\* Source and destination of the base-th byte of a transfer from a page.
dma_src(page, base) == page * 256 + base
dma_dst(base) == (Start["OAM"] \div 256) * 256 + base

---------------------------------------------------------------------------
\* Whatever address the CPU puts on the bus, the array access it leads to is in
\* bounds; an echo address ends in work RAM, 8 KiB lower.  The functions of the
\* owners do not check (ppu.c:299-311, system.c:50-55, cpu.c:162-167).
IndexInBounds(addr) ==
    LET owner == get_addr_region(Routed(addr))
    IN  /\ owner \in Arrays => Index(Routed(addr), owner) \in 0..(Size[owner] - 1)
        /\ get_addr_region(addr) = "ECHO" => owner = "WRAM" /\ Routed(addr) = addr - 8192

\* A transfer of 160 bytes stays in one region, so that the bus it occupies is the
\* same from its first byte to its last; the page of OAM and the page above it
\* hold nothing that bus_copy_dma reads.
PageInOneRegion(page) ==
    \A base \in 0..159 :
        /\ get_addr_region(dma_dst(base)) = "OAM"
        /\ IF page < 254
           THEN get_addr_region(dma_src(page, base)) = get_addr_region(dma_src(page, 0))
           ELSE get_addr_region(dma_src(page, base)) \in
                    {"OAM", "IO_REGS", "HRAM", "UNUSED"}
==========================================================================
