---------------------------- MODULE SaveFile ----------------------------
(***************************************************************************)
(* The battery RAM of a cartridge and its .sav file (cart_init and           *)
(* cart_deinit in cartridge.c), over several runs of the program on several   *)
(* ROMs.  A run may be killed, and the write at its end may fail or be cut     *)
(* off; the program does not look at the result of the write.                 *)
(*                                                                          *)
(* A path is a sequence of characters.  A file is a ROM image, or it has a     *)
(* size and what was saved in it: which ROM's RAM and its version.            *)
(***************************************************************************)
EXTENDS Integers, Sequences, SequencesExt

CONSTANTS
    Roms,         \* paths of the ROM images, all with a battery
    RamSize,      \* of each of them
    Paths,        \* paths for which only the name of the .sav file is looked at
    MaxVersion    \* bound: changes of the RAM of a ROM

VARIABLES
    disk,         \* the files that exist
    open,         \* the ROM that runs, or NoRom
    cart_ram,
    last,         \* history: of each ROM, its RAM at its last orderly end
    unsure        \* history: ROMs for which the write at the end has failed since

vars == <<disk, open, cart_ram, last, unsure>>

ASSUME SaveFileAssumption ==
    /\ Roms \cup Paths \subseteq Seq(STRING) \ {<<>>}
    /\ RamSize \in [Roms -> Nat \ {0}]
    /\ MaxVersion \in Nat

NoRom == <<>>
Image == [image |-> TRUE, size |-> 0, of |-> NoRom, version |-> 0]
Saved(size, ram) == [image |-> FALSE, size |-> size, of |-> ram.of, version |-> ram.version]

\* What malloc returns, and a RAM that the game of rom has written.
Garbage == [of |-> NoRom, version |-> 0]
Written(rom, version) == [of |-> rom, version |-> version]
Torn == -1   \* the version of a RAM whose end is missing

---------------------------------------------------------------------------
\* The loop over rom_path, as what last_dot is after each character.

Separators == {"/", "\\"}

\* Mutant: a separator is not looked for.
LastDot_anywhere(path) ==
    LET after[i \in 0..Len(path)] ==
            IF i = 0 THEN 0 ELSE IF path[i] = "." THEN i ELSE after[i - 1]
    IN  after[Len(path)]

LastDot(path) ==
    LET after[i \in 0..Len(path)] ==
            IF i = 0 THEN 0
            ELSE IF path[i] = "." THEN i
            ELSE IF path[i] \in Separators THEN 0
            ELSE after[i - 1]
    IN  after[Len(path)]

SavPath(path) ==
    LET stem == IF LastDot(path) = 0 THEN path ELSE SubSeq(path, 1, LastDot(path) - 1)
    IN  stem \o <<".", "sav">>

---------------------------------------------------------------------------
Init ==
    /\ disk = [p \in Roms |-> Image]
    /\ open = NoRom
    /\ cart_ram = Garbage
    /\ last = [p \in Roms |-> Garbage]
    /\ unsure = {}

\* Mutant: a file that is too short is loaded, too.
Loaded_anySize(rom) ==
    LET sav == SavPath(rom)
    IN  IF sav \in DOMAIN disk
        THEN [of |-> disk[sav].of, version |-> disk[sav].version]
        ELSE Garbage

\* The RAM after cart_init: of the file if there is one and it has the size of the RAM
\* (which no ROM image is taken to have).
Loaded(rom) ==
    LET sav == SavPath(rom)
    IN  IF sav \in DOMAIN disk /\ ~disk[sav].image /\ disk[sav].size = RamSize[rom]
        THEN [of |-> disk[sav].of, version |-> disk[sav].version]
        ELSE Garbage

\* cart_init accepts what is still a ROM image.
cart_init(rom) ==
    /\ open = NoRom
    /\ disk[rom].image
    /\ open' = rom
    /\ cart_ram' = Loaded(rom)
    /\ UNCHANGED <<disk, last, unsure>>

\* The game changes its RAM.
GameWrites ==
    /\ open # NoRom
    /\ cart_ram.version < MaxVersion
    /\ cart_ram' = Written(open, cart_ram.version + 1)
    /\ UNCHANGED <<disk, open, last, unsure>>

WriteFile(path, file) ==
    disk' = [p \in DOMAIN disk \cup {path} |-> IF p = path THEN file ELSE disk[p]]

\* Mutant: a file that is there is kept.
cart_deinit_once ==
    /\ open # NoRom
    /\ IF SavPath(open) \in DOMAIN disk THEN UNCHANGED disk
       ELSE WriteFile(SavPath(open), Saved(RamSize[open], cart_ram))
    /\ last' = [last EXCEPT ![open] = cart_ram]
    /\ unsure' = unsure \ {open}
    /\ open' = NoRom /\ cart_ram' = Garbage

\* cart_deinit.
cart_deinit ==
    /\ open # NoRom
    /\ WriteFile(SavPath(open), Saved(RamSize[open], cart_ram))
    /\ last' = [last EXCEPT ![open] = cart_ram]
    /\ unsure' = unsure \ {open}
    /\ open' = NoRom /\ cart_ram' = Garbage

\* SDL_SaveFile fails in cart_deinit, or the program is killed in it: the file is as it
\* was, or it has lost its end.
WriteFails ==
    /\ open # NoRom
    /\ \/ UNCHANGED disk
       \/ \E size \in 0..(RamSize[open] - 1) :
             WriteFile(SavPath(open), Saved(size, Written(open, Torn)))
    /\ unsure' = unsure \cup {open}
    /\ open' = NoRom /\ cart_ram' = Garbage
    /\ UNCHANGED last

\* The program is killed before its orderly end.
Killed ==
    /\ open # NoRom
    /\ open' = NoRom /\ cart_ram' = Garbage
    /\ UNCHANGED <<disk, last, unsure>>

Next ==
    \/ \E rom \in Roms : cart_init(rom)
    \/ GameWrites \/ cart_deinit \/ WriteFails \/ Killed

Spec == Init /\ [][Next]_vars

---------------------------------------------------------------------------
Rams == [of : Roms \cup {NoRom}, version : Torn..MaxVersion]

SavFiles(rom) == {Saved(size, ram) : size \in 0..RamSize[rom], ram \in Rams}

\* No other ROM has the save file of rom: a.gb and a.gbc have the same one.
Alone(rom) == \A other \in Roms : SavPath(other) = SavPath(rom) => other = rom

TypeOK ==
    /\ Roms \subseteq DOMAIN disk
    /\ open \in Roms \cup {NoRom}
    /\ cart_ram \in Rams
    /\ last \in [Roms -> Rams]
    /\ unsure \subseteq Roms
    /\ \A p \in DOMAIN disk : \/ p \in Roms /\ disk[p] = Image
                             \/ \E rom \in Roms : SavPath(rom) = p /\ disk[p] \in SavFiles(rom)

\* README.md:26-27: when a ROM is opened again its RAM is what it was at its last orderly
\* end, whatever other ROMs ran in between and however often the program was killed.
ReopenedAsLeft ==
    [][\A rom \in Roms : open = NoRom /\ open' = rom /\ Alone(rom) /\ rom \notin unsure
             /\ last[rom] # Garbage
          => cart_ram' = last[rom]]_vars

\* What ReopenedAsLeft rests on: the save file is what the last orderly end wrote.
SavedAsLeft ==
    \A rom \in Roms : Alone(rom) /\ rom \notin unsure /\ last[rom] # Garbage =>
        /\ SavPath(rom) \in DOMAIN disk
        /\ disk[SavPath(rom)] = Saved(RamSize[rom], last[rom])

\* Also after a failed write a game finds its RAM as it was at some time, or as malloc
\* returns it, never the beginning of a save with something else behind it.
NeverTorn == open # NoRom /\ Alone(open) => cart_ram.version # Torn

\* What NeverTorn rests on: a file that has lost its end is too short to be loaded.
TornIsShort ==
    \A rom \in Roms : Alone(rom) /\ SavPath(rom) \in DOMAIN disk
            /\ disk[SavPath(rom)].version = Torn
        => disk[SavPath(rom)].size < RamSize[rom]

\* The program does not write over the image of a ROM, its own or another one, except of
\* one that is named like a save file.
RomsIntact == \A rom \in Roms : disk[rom].image \/ \E other \in Roms : rom = SavPath(other)

\* README.md:26: the .sav file is in the directory of the ROM and is named like it: its
\* name is that of the ROM up to the last dot in it (all of it if there is none), and .sav.
NameOf(path) ==
    LET cuts == {i \in 1..Len(path) : path[i] \in Separators}
        begin == IF cuts = {} THEN 0 ELSE CHOOSE i \in cuts : \A j \in cuts : j <= i
    IN  <<SubSeq(path, 1, begin), SubSeq(path, begin + 1, Len(path))>>

NamedLikeRom ==
    disk = [p \in Roms |-> Image] /\ open = NoRom => \A path \in Paths :
        LET rom == NameOf(path)
            sav == NameOf(SavPath(path))
            stem == SubSeq(sav[2], 1, Len(sav[2]) - 2)
        IN  /\ sav[1] = rom[1]
            /\ IsPrefix(stem, rom[2])
            /\ ~Contains(SubSeq(rom[2], Len(stem) + 2, Len(rom[2])), ".")
            /\ stem # rom[2] => rom[2][Len(stem) + 1] = "."
            /\ stem = rom[2] => ~Contains(rom[2], ".")
            /\ SubSeq(sav[2], Len(stem) + 1, Len(sav[2])) = <<".", "sav">>

\* The files are never damaged: the images of ROMs stay, and RAM is never half loaded.
SaveFileInv == TypeOK /\ RomsIntact /\ NeverTorn /\ TornIsShort /\ SavedAsLeft
==========================================================================
