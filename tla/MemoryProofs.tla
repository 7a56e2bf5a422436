--------------------------- MODULE MemoryProofs ---------------------------
(***************************************************************************)
(* What is kept in memories and files: the save files, the memory map and the *)
(* banks of the cartridge.                                                   *)
(*                                                                          *)
(* Save files, for all ROMs: a RAM that was written in an orderly end is found *)
(* again.  The inductive invariant is SaveFileInv: a file that is as long as   *)
(* the RAM is not a torn one, and of a ROM that shares its save file with no    *)
(* other it is the RAM at the last orderly end.                               *)
(*                                                                          *)
(* The memory map, for all 16-bit addresses, and the banks, for every header   *)
(* that cart_init accepts and all bytes written.  The type invariant of the    *)
(* cartridge is inductive.  It says that the header was accepted, and from     *)
(* that follow the numbers of banks; for staying in bounds the registers do    *)
(* not matter, as they are used modulo those numbers.  That no bank takes the  *)
(* place of another needs what the registers hold: RegistersFit.              *)
(***************************************************************************)
EXTENDS SaveFile, AddressMap, Cartridge, WellFoundedInduction, SequenceTheorems, TLAPS

---------------------------------------------------------------------------
\* The files.

\* Every ROM has one of the paths that SaveFileAssumption speaks of.
LEMMA RomIsPath ==
    ASSUME NEW rom \in Roms
    PROVE  rom # NoRom /\ RamSize[rom] \in Nat \ {0}
BY SaveFileAssumption DEF NoRom

\* What cart_init loads is a RAM, and a save file is one of SavFiles.
LEMMA LoadedIsRam ==
    ASSUME TypeOK, NEW rom \in Roms
    PROVE  Loaded(rom) \in Rams
<1>1. Garbage \in Rams
  BY SaveFileAssumption DEF Garbage, Rams, NoRom, Torn
<1>2. CASE SavPath(rom) \in DOMAIN disk /\ ~disk[SavPath(rom)].image
             /\ disk[SavPath(rom)].size = RamSize[rom]
  <2>1. PICK other \in Roms : disk[SavPath(rom)] \in SavFiles(other)
    BY <1>2 DEF TypeOK, Image
  <2>2. PICK size \in 0..RamSize[other], ram \in Rams : disk[SavPath(rom)] = Saved(size, ram)
    BY <2>1 DEF SavFiles
  <2>3. Loaded(rom) = [of |-> ram.of, version |-> ram.version]
    BY <1>2, <2>2 DEF Loaded, Saved
  <2> QED BY <2>2, <2>3 DEF Rams
<1> QED BY <1>1, <1>2 DEF Loaded

\* What WriteFile leaves: the file, and all other files as they were.
LEMMA WriteFileDoes ==
    ASSUME NEW path, NEW file, WriteFile(path, file)
    PROVE  /\ DOMAIN disk' = DOMAIN disk \cup {path}
           /\ disk'[path] = file
           /\ \A p \in DOMAIN disk : p # path => disk'[p] = disk[p]
BY DEF WriteFile

\* Writing a file of SavFiles to the save file of a ROM keeps the types of the disk and
\* every image that has not the name of a save file.
LEMMA WritingKeeps ==
    ASSUME TypeOK, RomsIntact, NEW rom \in Roms, NEW file \in SavFiles(rom),
           WriteFile(SavPath(rom), file)
    PROVE  /\ Roms \subseteq DOMAIN disk'
           /\ \A p \in DOMAIN disk' : \/ p \in Roms /\ disk'[p] = Image
                                    \/ \E other \in Roms : SavPath(other) = p
                                                           /\ disk'[p] \in SavFiles(other)
           /\ RomsIntact'
<1> USE WriteFileDoes
<1> DEFINE sav == SavPath(rom)
<1>1. /\ DOMAIN disk' = DOMAIN disk \cup {sav}
      /\ disk'[sav] = file
      /\ \A p \in DOMAIN disk : p # sav => disk'[p] = disk[p]
  OBVIOUS
<1>2. RomsIntact'
  <2> SUFFICES ASSUME NEW other \in Roms, \A r \in Roms : other # SavPath(r)
               PROVE  disk'[other].image
    BY DEF RomsIntact
  <2>1. other \in DOMAIN disk /\ other # sav
    BY DEF TypeOK
  <2>2. disk[other].image
    BY DEF RomsIntact
  <2> HIDE DEF sav
  <2> QED BY <1>1, <2>1, <2>2
<1> HIDE DEF sav
<1>3. ASSUME NEW p \in DOMAIN disk'
      PROVE  \/ p \in Roms /\ disk'[p] = Image
             \/ \E other \in Roms : SavPath(other) = p /\ disk'[p] \in SavFiles(other)
  <2>1. CASE p = sav
    BY <1>1, <2>1 DEF sav
  <2>2. CASE p # sav
    BY <1>1, <2>2 DEF TypeOK
  <2> QED BY <2>1, <2>2
<1>4. Roms \subseteq DOMAIN disk'
  BY <1>1 DEF TypeOK
<1> QED BY <1>2, <1>3, <1>4

\* Both are kept for the ROMs that have another save file than the one that is written.
LEMMA OthersKeep ==
    ASSUME NEW rom \in Roms, NEW other \in Roms, NEW file, Alone(other), other # rom,
           WriteFile(SavPath(rom), file)
    PROVE  /\ SavPath(other) \in DOMAIN disk' <=> SavPath(other) \in DOMAIN disk
           /\ SavPath(other) \in DOMAIN disk => disk'[SavPath(other)] = disk[SavPath(other)]
<1>1. SavPath(other) # SavPath(rom)
  BY DEF Alone
<1>2. /\ DOMAIN disk' = DOMAIN disk \cup {SavPath(rom)}
      /\ \A p \in DOMAIN disk : p # SavPath(rom) => disk'[p] = disk[p]
  BY WriteFileDoes
<1> QED BY <1>1, <1>2

\* In the first state only the images exist.
LEMMA SaveFileInit == Init => SaveFileInv
<1> SUFFICES ASSUME Init PROVE SaveFileInv
  OBVIOUS
<1>1. TypeOK
  BY SaveFileAssumption DEF Init, TypeOK, Rams, Garbage, NoRom, Torn
<1>2. RomsIntact
  BY DEF Init, RomsIntact, Image
<1>3. NeverTorn
  BY DEF Init, NeverTorn
<1>4. TornIsShort
  BY DEF Init, TornIsShort, Image, Torn
<1>5. SavedAsLeft
  BY DEF Init, SavedAsLeft
<1> QED BY <1>1, <1>2, <1>3, <1>4, <1>5 DEF SaveFileInv

\* cart_init.
LEMMA InitKeeps ==
    ASSUME SaveFileInv, NEW rom \in Roms, cart_init(rom)
    PROVE  SaveFileInv'
<1> USE DEF SaveFileInv
<1>1. TypeOK'
  BY LoadedIsRam DEF cart_init, TypeOK
<1>2. NeverTorn'
  <2> SUFFICES ASSUME Alone(rom) PROVE Loaded(rom).version # Torn
    BY DEF NeverTorn, cart_init, Alone
  <2>1. CASE SavPath(rom) \in DOMAIN disk /\ disk[SavPath(rom)].size = RamSize[rom]
    BY <2>1, RomIsPath DEF TornIsShort, Loaded, Garbage, Torn
  <2>2. CASE ~(SavPath(rom) \in DOMAIN disk /\ disk[SavPath(rom)].size = RamSize[rom])
    BY <2>2 DEF Loaded, Garbage, Torn
  <2> QED BY <2>1, <2>2
<1>3. RomsIntact' /\ TornIsShort' /\ SavedAsLeft'
  BY DEF cart_init, RomsIntact, TornIsShort, SavedAsLeft
<1> QED BY <1>1, <1>2, <1>3

\* The game writes to its RAM.
LEMMA GameKeeps ==
    ASSUME SaveFileInv, GameWrites
    PROVE  SaveFileInv'
<1> USE DEF SaveFileInv
<1>1. cart_ram' \in Rams /\ cart_ram'.version # Torn
  BY SaveFileAssumption DEF GameWrites, TypeOK, Rams, Written, Torn
<1>2. TypeOK'
  BY <1>1 DEF GameWrites, TypeOK
<1>3. NeverTorn'
  BY <1>1 DEF NeverTorn
<1>4. RomsIntact' /\ TornIsShort' /\ SavedAsLeft'
  BY DEF GameWrites, RomsIntact, TornIsShort, SavedAsLeft
<1> QED BY <1>2, <1>3, <1>4

\* cart_deinit.
LEMMA DeinitKeeps ==
    ASSUME SaveFileInv, cart_deinit
    PROVE  SaveFileInv'
<1> USE DEF SaveFileInv
<1> DEFINE file == Saved(RamSize[open], cart_ram)
<1>1. open \in Roms /\ open' = NoRom /\ cart_ram' = Garbage
  BY DEF cart_deinit, TypeOK
<1>2. file \in SavFiles(open)
  <2>1. RamSize[open] \in 0..RamSize[open]
    BY <1>1, RomIsPath
  <2> QED BY <2>1 DEF SavFiles, TypeOK
<1>3. WriteFile(SavPath(open), file)
  BY DEF cart_deinit
<1> HIDE DEF file
<1>4. Garbage \in Rams
  BY SaveFileAssumption DEF Garbage, Rams, NoRom, Torn
<1>5. TypeOK'
  <2>1. last' \in [Roms -> Rams] /\ unsure' \subseteq Roms
    BY <1>1 DEF cart_deinit, TypeOK
  <2>2. open' \in Roms \cup {NoRom} /\ cart_ram' \in Rams
    BY <1>1, <1>4
  <2> QED BY <1>1, <1>2, <1>3, <2>1, <2>2, WritingKeeps DEF TypeOK
<1>6. RomsIntact'
  BY <1>1, <1>2, <1>3, WritingKeeps
<1>7. NeverTorn'
  BY <1>1 DEF NeverTorn
<1>8. DOMAIN disk' = DOMAIN disk \cup {SavPath(open)} /\ disk'[SavPath(open)] = file
  BY <1>3, WriteFileDoes
<1>9. TornIsShort'
  <2> SUFFICES ASSUME NEW rom \in Roms, Alone(rom), SavPath(rom) \in DOMAIN disk',
                      disk'[SavPath(rom)].version = Torn
               PROVE  disk'[SavPath(rom)].size < RamSize[rom]
    BY DEF TornIsShort, Alone
  <2>1. CASE rom = open
    BY <1>1, <1>8, <2>1 DEF NeverTorn, file, Saved, cart_deinit
  <2>2. CASE rom # open
    BY <1>1, <1>3, <2>2, OthersKeep DEF TornIsShort
  <2> QED BY <2>1, <2>2
<1>10. SavedAsLeft'
  <2> SUFFICES ASSUME NEW rom \in Roms, Alone(rom), rom \notin unsure', last'[rom] # Garbage
               PROVE  /\ SavPath(rom) \in DOMAIN disk'
                      /\ disk'[SavPath(rom)] = Saved(RamSize[rom], last'[rom])
    BY DEF SavedAsLeft, Alone
  <2>1. CASE rom = open
    BY <1>1, <1>8, <2>1 DEF file, cart_deinit, TypeOK
  <2>2. CASE rom # open
    <3>1. rom \notin unsure /\ last'[rom] = last[rom]
      BY <1>1, <2>2 DEF cart_deinit, TypeOK
    <3> QED BY <1>1, <1>3, <2>2, <3>1, OthersKeep DEF SavedAsLeft
  <2> QED BY <2>1, <2>2
<1> QED BY <1>5, <1>6, <1>7, <1>9, <1>10

\* The write fails.
LEMMA FailingKeeps ==
    ASSUME SaveFileInv, WriteFails
    PROVE  SaveFileInv'
<1> USE DEF SaveFileInv
<1>1. /\ open \in Roms /\ open' = NoRom /\ cart_ram' = Garbage
      /\ last' = last /\ unsure' = unsure \cup {open}
  BY DEF WriteFails, TypeOK
<1>2. /\ open' \in Roms \cup {NoRom} /\ cart_ram' \in Rams
      /\ last' \in [Roms -> Rams] /\ unsure' \subseteq Roms
  BY <1>1, SaveFileAssumption DEF Garbage, Rams, NoRom, Torn, TypeOK
<1>3. NeverTorn'
  BY <1>1 DEF NeverTorn
<1>4. CASE UNCHANGED disk
  <2>1. TypeOK'
    BY <1>2, <1>4 DEF TypeOK
  <2>2. RomsIntact' /\ TornIsShort' /\ SavedAsLeft'
    BY <1>1, <1>4 DEF RomsIntact, TornIsShort, SavedAsLeft
  <2> QED BY <1>3, <2>1, <2>2
<1>5. ASSUME NEW size \in 0..(RamSize[open] - 1),
             WriteFile(SavPath(open), Saved(size, Written(open, Torn)))
      PROVE  SaveFileInv'
  <2> DEFINE file == Saved(size, Written(open, Torn))
  <2>1. file \in SavFiles(open)
    <3>1. Written(open, Torn) \in Rams
      BY <1>1, SaveFileAssumption DEF Written, Rams, Torn
    <3>2. size \in 0..RamSize[open]
      BY <1>1, RomIsPath
    <3> QED BY <3>1, <3>2 DEF SavFiles
  <2>2. WriteFile(SavPath(open), file)
    BY <1>5
  <2>3. file.size < RamSize[open]
    BY <1>1, RomIsPath DEF Saved
  <2> HIDE DEF file
  <2>4. TypeOK'
    BY <1>1, <1>2, <2>1, <2>2, WritingKeeps DEF TypeOK
  <2>5. RomsIntact'
    BY <1>1, <2>1, <2>2, WritingKeeps
  <2>6. DOMAIN disk' = DOMAIN disk \cup {SavPath(open)} /\ disk'[SavPath(open)] = file
    BY <2>2, WriteFileDoes
  <2>7. TornIsShort'
    <3> SUFFICES ASSUME NEW rom \in Roms, Alone(rom), SavPath(rom) \in DOMAIN disk',
                        disk'[SavPath(rom)].version = Torn
                 PROVE  disk'[SavPath(rom)].size < RamSize[rom]
      BY DEF TornIsShort, Alone
    <3>1. CASE rom = open
      BY <2>3, <2>6, <3>1
    <3>2. CASE rom # open
      BY <1>1, <2>2, <3>2, OthersKeep DEF TornIsShort
    <3> QED BY <3>1, <3>2
  <2>8. SavedAsLeft'
    <3> SUFFICES ASSUME NEW rom \in Roms, Alone(rom), rom \notin unsure', last'[rom] # Garbage
                 PROVE  /\ SavPath(rom) \in DOMAIN disk'
                        /\ disk'[SavPath(rom)] = Saved(RamSize[rom], last'[rom])
      BY DEF SavedAsLeft, Alone
    <3>1. rom # open /\ rom \notin unsure /\ last'[rom] = last[rom]
      BY <1>1
    <3> QED BY <1>1, <2>2, <3>1, OthersKeep DEF SavedAsLeft
  <2> QED BY <1>3, <2>4, <2>5, <2>7, <2>8
<1> QED BY <1>4, <1>5 DEF WriteFails

\* Every step keeps the invariant.
LEMMA SaveFileStep == SaveFileInv /\ [Next]_vars => SaveFileInv'
<1> SUFFICES ASSUME SaveFileInv, [Next]_vars PROVE SaveFileInv'
  OBVIOUS
<1>1. CASE Killed
  <2>1. TypeOK'
    BY <1>1, SaveFileAssumption
    DEF Killed, SaveFileInv, TypeOK, Garbage, Rams, NoRom, Torn
  <2>2. NeverTorn'
    BY <1>1 DEF Killed, NeverTorn
  <2>3. RomsIntact' /\ TornIsShort' /\ SavedAsLeft'
    BY <1>1 DEF Killed, SaveFileInv, RomsIntact, TornIsShort, SavedAsLeft
  <2> QED BY <2>1, <2>2, <2>3 DEF SaveFileInv
<1>2. CASE UNCHANGED vars
  BY <1>2 DEF vars, SaveFileInv, TypeOK, NeverTorn, RomsIntact, TornIsShort, SavedAsLeft
<1> QED BY <1>1, <1>2, InitKeeps, GameKeeps, DeinitKeeps, FailingKeeps DEF Next

\* No image is written over but one named like a save file, a RAM that is running is never the
\* beginning of a save, and the save file of a ROM that shares it with no other is what its
\* last orderly end wrote (cart_init and cart_deinit, cartridge.c:153-215), for every set of ROMs.
THEOREM SaveFileInvariant == Spec => []SaveFileInv
BY SaveFileInit, SaveFileStep, PTL DEF Spec

\* A game that runs again finds its RAM as it left it (cart_init, cartridge.c:153-180).
THEOREM ReopenedFindsRam == Spec => ReopenedAsLeft
<1>1. SaveFileInv /\ [Next]_vars =>
        [\A rom \in Roms : open = NoRom /\ open' = rom /\ Alone(rom) /\ rom \notin unsure
             /\ last[rom] # Garbage
          => cart_ram' = last[rom]]_vars
  <2> SUFFICES ASSUME SaveFileInv, Next, NEW rom \in Roms, open = NoRom, open' = rom,
                      Alone(rom), rom \notin unsure, last[rom] # Garbage
               PROVE  cart_ram' = last[rom]
    OBVIOUS
  <2>1. cart_ram' = Loaded(rom)
    BY RomIsPath DEF Next, cart_init, GameWrites, cart_deinit, WriteFails, Killed
  <2>2. SavPath(rom) \in DOMAIN disk /\ disk[SavPath(rom)] = Saved(RamSize[rom], last[rom])
    BY DEF SaveFileInv, SavedAsLeft
  <2>3. last[rom] \in Rams
    BY DEF SaveFileInv, TypeOK
  <2>4. Loaded(rom) = [of |-> last[rom].of, version |-> last[rom].version]
    BY <2>2 DEF Loaded, Saved
  <2> QED BY <2>1, <2>3, <2>4 DEF Rams
<1> QED BY <1>1, SaveFileInvariant, PTL DEF Spec, ReopenedAsLeft

---------------------------------------------------------------------------
\* The name of a save file.  NameOf and LastDot choose places in a path by what lies
\* beyond them; that there is such a place is the principle of the least number.

\* Every set of numbers has a least one.
LEMMA LeastOf ==
    ASSUME NEW S \in SUBSET Nat, S # {}
    PROVE  \E m \in S : \A k \in S : m <= k
<1> DEFINE R == OpToRel(<, Nat)
<1>1. IsWellFoundedOn(R, Nat)
  BY NatLessThanWellFounded
<1>2. \A m, k \in Nat : <<k, m>> \in R <=> k < m
  BY DEF OpToRel
<1> HIDE DEF R
<1>3. PICK m \in S : \A k \in S : ~ (<<k, m>> \in R)
  BY <1>1, WFMin
<1>4. \A k \in S : m <= k
  <2> TAKE k \in S
  <2>1. m \in Nat /\ k \in Nat
    OBVIOUS
  <2>2. ~(k < m)
    BY <1>2, <1>3, <2>1
  <2> QED BY <2>1, <2>2
<1> QED BY <1>4

\* A bounded one has a greatest one, too.
LEMMA GreatestOf ==
    ASSUME NEW n \in Nat, NEW S \in SUBSET (1..n), S # {}
    PROVE  \E m \in S : \A k \in S : k <= m
<1> DEFINE D == {n - k : k \in S}
<1>1. D \in SUBSET Nat /\ D # {}
  <2>1. \A k \in S : k \in 1..n /\ n - k \in Nat
    OBVIOUS
  <2> QED BY <2>1
<1>2. PICK d \in D : \A k \in D : d <= k
  <2> HIDE DEF D
  <2> QED BY <1>1, LeastOf
<1>3. PICK m \in S : d = n - m
  OBVIOUS
<1>4. \A k \in S : k <= m
  <2> TAKE k \in S
  <2>1. n - k \in D
    OBVIOUS
  <2>2. k \in 1..n /\ m \in 1..n /\ n - m <= n - k
    BY <1>2, <1>3, <2>1
  <2> QED BY <2>2
<1> QED BY <1>4

\* The dots among the first i characters that no separator follows.
DotsTo(path, i) ==
    {j \in 1..i : path[j] = "." /\ \A k \in j..i : path[k] \notin Separators}

\* The loop of cart_init over rom_path: after every character last_dot is the last of
\* these dots, or none (cartridge.c:154-166).
LEMMA LastDotIs ==
    ASSUME NEW Chars, NEW path \in Seq(Chars)
    PROVE  /\ LastDot(path) = 0 => DotsTo(path, Len(path)) = {}
           /\ LastDot(path) # 0 => LastDot(path) \in DotsTo(path, Len(path))
           /\ \A j \in DotsTo(path, Len(path)) : j <= LastDot(path)
<1> DEFINE n == Len(path)
           D(i) == DotsTo(path, i)
           Final(i) == IF D(i) = {} THEN 0
                      ELSE CHOOSE j \in D(i) : \A k \in D(i) : k <= j
           Loop(f) == f = [i \in 0..n |-> IF i = 0 THEN 0
                                          ELSE IF path[i] = "." THEN i
                                          ELSE IF path[i] \in Separators THEN 0
                                          ELSE f[i - 1]]
           g == [i \in 0..n |-> Final(i)]
           f == CHOOSE f : Loop(f)
<1>0. n \in Nat
  OBVIOUS
<1>1. D(0) = {}
  BY DEF DotsTo
<1>2. ASSUME NEW i \in 1..n, path[i] = "."
      PROVE  i \in D(i) /\ \A k \in D(i) : k <= i
  BY <1>2 DEF DotsTo, Separators
<1>3. ASSUME NEW i \in 1..n, path[i] \in Separators
      PROVE  D(i) = {}
  BY <1>3 DEF DotsTo
<1>4. ASSUME NEW i \in 1..n, path[i] # ".", path[i] \notin Separators
      PROVE  D(i) = D(i - 1)
  BY <1>4, <1>0 DEF DotsTo
<1>5. ASSUME NEW i \in 1..n, path[i] = "." PROVE Final(i) = i
  <2>1. D(i) # {} /\ D(i) \subseteq 1..i
    BY <1>2, <1>5 DEF DotsTo
  <2> HIDE DEF D
  <2> DEFINE m == CHOOSE j \in D(i) : \A k \in D(i) : k <= j
  <2>2. m \in D(i) /\ \A k \in D(i) : k <= m
    BY <1>2, <1>5
  <2> HIDE DEF m
  <2>3. m = i
    BY <1>2, <1>5, <2>1, <2>2
  <2> QED BY <2>1, <2>3 DEF m
<1>6. Final(0) = 0
  BY <1>1
<1>7. ASSUME NEW i \in 1..n, path[i] \in Separators PROVE Final(i) = 0
  BY <1>3, <1>7
<1>8. ASSUME NEW i \in 1..n, path[i] # ".", path[i] \notin Separators
      PROVE  Final(i) = g[i - 1]
  <2>1. D(i) = D(i - 1) /\ i - 1 \in 0..n
    BY <1>4, <1>8
  <2> HIDE DEF D
  <2> QED BY <2>1
<1>9. Loop(g)
  <2> HIDE DEF D, Final
  <2>1. \A i \in 0..n : Final(i) = IF i = 0 THEN 0
                                  ELSE IF path[i] = "." THEN i
                                  ELSE IF path[i] \in Separators THEN 0
                                  ELSE g[i - 1]
    <3> HIDE DEF g
    <3> TAKE i \in 0..n
    <3>1. CASE i = 0
      BY <1>6, <3>1
    <3>2. CASE i # 0
      <4>1. i \in 1..n
        BY <3>2
      <4> QED BY <1>5, <1>7, <1>8, <3>2, <4>1
    <3> QED BY <3>1, <3>2
  <2> QED BY <2>1
<1>10. Loop(f)
  <2> HIDE DEF Loop, g
  <2> QED BY <1>9
<1>11. LastDot(path) = f[n]
  BY DEF LastDot
<1> HIDE DEF f, g
<1> DEFINE Good(i) == /\ f[i] \in Nat
                      /\ f[i] = 0 => D(i) = {}
                      /\ f[i] # 0 => f[i] \in D(i)
                      /\ \A k \in D(i) : k <= f[i]
           Bad == {i \in 0..n : ~Good(i)}
<1>12. Good(0)
  BY <1>1, <1>10
<1>13. ASSUME NEW i \in 1..n, Good(i - 1) PROVE Good(i)
  <2>1. CASE path[i] = "."
    BY <1>2, <1>10, <2>1
  <2>2. CASE path[i] \in Separators
    <3>1. f[i] = 0
      BY <1>10, <2>2 DEF Separators
    <3> QED BY <1>3, <2>2, <3>1
  <2>3. CASE path[i] # "." /\ path[i] \notin Separators
    <3>1. f[i] = f[i - 1]
      BY <1>10, <2>3
    <3>2. D(i) = D(i - 1)
      BY <1>4, <2>3
    <3> HIDE DEF D
    <3> QED BY <1>13, <3>1, <3>2
  <2> QED BY <2>1, <2>2, <2>3
<1>14. Bad = {}
  <2> SUFFICES ASSUME Bad # {} PROVE FALSE
    OBVIOUS
  <2> HIDE DEF Good
  <2>1. PICK m \in Bad : \A k \in Bad : m <= k
    <3>1. Bad \in SUBSET Nat
      BY <1>0
    <3> HIDE DEF Bad
    <3> QED BY <3>1, LeastOf
  <2>2. m \in 1..n /\ m - 1 \in 0..n
    BY <1>12, <2>1
  <2>3. Good(m - 1)
    BY <2>1, <2>2
  <2> QED BY <1>13, <2>1, <2>2, <2>3
<1>15. Good(n)
  <2> HIDE DEF Good
  <2> QED BY <1>0, <1>14
<1> HIDE DEF n
<1> QED BY <1>11, <1>15 DEF n

\* The save path of a ROM: what is before the last dot, and .sav.
LEMMA SavPathIs ==
    ASSUME NEW Chars, NEW path \in Seq(Chars), {".", "sav"} \subseteq Chars
    PROVE  \E d \in 0..Len(path) :
              /\ SavPath(path) = SubSeq(path, 1, d) \o <<".", "sav">>
              /\ SavPath(path) \in Seq(Chars)
              /\ Len(SavPath(path)) = d + 2
              /\ \A i \in 1..d : SavPath(path)[i] = path[i]
              /\ SavPath(path)[d + 1] = "." /\ SavPath(path)[d + 2] = "sav"
              /\ \A i \in (d + 1)..Len(path) : path[i] \notin Separators
              /\ d < Len(path) => path[d + 1] = "."
              /\ \A i \in (d + 2)..Len(path) : path[i] # "."
              /\ d = Len(path) => DotsTo(path, Len(path)) = {}
<1> DEFINE n == Len(path)
           dot == LastDot(path)
           d == IF dot = 0 THEN n ELSE dot - 1
           sav == SavPath(path)
<1>1. n \in Nat /\ \A i \in 1..n : path[i] \in Chars
  BY ElementOfSeq
<1>2. /\ dot = 0 => DotsTo(path, n) = {}
      /\ dot # 0 => dot \in DotsTo(path, n)
      /\ \A j \in DotsTo(path, n) : j <= dot
  BY LastDotIs
<1>3. d \in 0..n
  <2>1. dot # 0 => dot \in 1..n
    BY <1>2 DEF DotsTo
  <2> HIDE DEF dot, n
  <2> QED BY <1>1, <2>1
<1>4. sav = SubSeq(path, 1, d) \o <<".", "sav">>
  BY SubSeqFull DEF SavPath
<1> HIDE DEF d
<1>5. /\ SubSeq(path, 1, d) \in Seq(Chars)
      /\ Len(SubSeq(path, 1, d)) = d
      /\ \A i \in 1..d : SubSeq(path, 1, d)[i] = path[i]
  BY <1>1, <1>3, SubSeqProperties
<1>6. /\ <<".", "sav">> \in Seq(Chars) /\ Len(<<".", "sav">>) = 2
      /\ <<".", "sav">>[1] = "." /\ <<".", "sav">>[2] = "sav"
  <2>1. \A S, a, b : a \in S /\ b \in S =>
           <<a, b>> \in Seq(S) /\ Len(<<a, b>>) = 2 /\ <<a, b>>[1] = a /\ <<a, b>>[2] = b
    OBVIOUS
  <2>2. "." \in Chars /\ "sav" \in Chars
    OBVIOUS
  <2> HIDE DEF sav, n, dot
  <2> QED BY <2>1, <2>2
<1>7. /\ sav \in Seq(Chars) /\ Len(sav) = d + 2
      /\ \A i \in 1..(d + 2) : sav[i] = IF i <= d THEN SubSeq(path, 1, d)[i]
                                                  ELSE <<".", "sav">>[i - d]
  <2> DEFINE head == SubSeq(path, 1, d)
             tail == <<".", "sav">>
  <2>1. head \in Seq(Chars) /\ tail \in Seq(Chars) /\ Len(head) = d /\ Len(tail) = 2
    BY <1>5, <1>6
  <2>2. sav = head \o tail
    BY <1>4
  <2> HIDE DEF sav, head, tail
  <2>3. /\ sav \in Seq(Chars) /\ Len(sav) = d + 2
        /\ \A i \in 1..(d + 2) : sav[i] = IF i <= d THEN head[i] ELSE tail[i - d]
    <3>1. /\ head \o tail \in Seq(Chars)
          /\ Len(head \o tail) = Len(head) + Len(tail)
          /\ \A i \in 1..(Len(head) + Len(tail)) : (head \o tail)[i] =
                 IF i <= Len(head) THEN head[i] ELSE tail[i - Len(head)]
      BY <2>1, ConcatProperties, Zenon
    <3> QED BY <2>1, <2>2, <3>1
  <2> QED BY <2>3 DEF head, tail
<1>8. /\ \A i \in 1..d : sav[i] = path[i]
      /\ sav[d + 1] = "." /\ sav[d + 2] = "sav"
  <2> HIDE DEF sav
  <2>1. d + 1 \in 1..(d + 2) /\ d + 2 \in 1..(d + 2) /\ (d + 1) - d = 1 /\ (d + 2) - d = 2
    BY <1>3
  <2>2. sav[d + 1] = "." /\ sav[d + 2] = "sav"
    BY <1>3, <1>6, <1>7, <2>1
  <2> QED BY <1>1, <1>3, <1>5, <1>7, <2>2
<1>9. CASE dot = 0
  <2>1. d = n /\ \A i \in 1..n : i > n => FALSE
    BY <1>1, <1>9 DEF d
  <2> HIDE DEF dot
  <2>2. d \in 0..Len(path)
    BY <1>3
  <2>3. ~(d < n) /\ DotsTo(path, n) = {}
    BY <1>1, <1>2, <1>9, <2>1
  <2> WITNESS d \in 0..Len(path)
  <2>4. /\ \A i \in (d + 1)..n : FALSE
        /\ \A i \in (d + 2)..n : FALSE
    BY <1>1, <2>1
  <2> QED BY <1>4, <1>7, <1>8, <2>3, <2>4
<1>10. CASE dot # 0
  <2>1. /\ dot \in 1..n /\ path[dot] = "." /\ d = dot - 1
        /\ \A i \in dot..n : path[i] \notin Separators
    BY <1>2, <1>10 DEF DotsTo, d
  <2>2. ASSUME NEW i \in (dot + 1)..n PROVE path[i] # "."
    <3> SUFFICES ASSUME path[i] = "." PROVE FALSE
      OBVIOUS
    <3>1. i \in DotsTo(path, n)
      BY <1>1, <2>1 DEF DotsTo
    <3> HIDE DEF dot, n
    <3> QED BY <1>1, <1>2, <2>1, <3>1
  <2> HIDE DEF sav, dot, n
  <2>3. d # n
    BY <1>1, <2>1
  <2> QED BY <1>1, <1>3, <1>4, <1>7, <1>8, <2>1, <2>2, <2>3 DEF sav, n
<1> QED BY <1>9, <1>10

\* Where NameOf divides a path: after its last separator.
LEMMA NameBegins ==
    ASSUME NEW Chars, NEW path \in Seq(Chars)
    PROVE  \E begin \in 0..Len(path) :
              /\ NameOf(path) = <<SubSeq(path, 1, begin), SubSeq(path, begin + 1, Len(path))>>
              /\ begin > 0 => path[begin] \in Separators
              /\ \A i \in (begin + 1)..Len(path) : path[i] \notin Separators
<1> DEFINE n == Len(path)
           cuts == {i \in 1..n : path[i] \in Separators}
           top == CHOOSE i \in cuts : \A j \in cuts : j <= i
           begin == IF cuts = {} THEN 0 ELSE top
<1>1. n \in Nat
  OBVIOUS
<1>2. NameOf(path) = <<SubSeq(path, 1, begin), SubSeq(path, begin + 1, n)>>
  BY DEF NameOf
<1>3. CASE cuts = {}
  <2>1. begin = 0 /\ \A i \in 1..n : path[i] \notin Separators
    BY <1>3
  <2> HIDE DEF begin, cuts, top
  <2> QED BY <1>1, <1>2, <2>1, SMTT(30)
<1>4. CASE cuts # {}
  <2>1. \E i \in cuts : \A j \in cuts : j <= i
    <3>1. cuts \in SUBSET (1..n)
      OBVIOUS
    <3> HIDE DEF cuts, n
    <3> QED BY <1>1, <1>4, <3>1, GreatestOf
  <2>2. top \in cuts /\ \A j \in cuts : j <= top
    <3> HIDE DEF cuts
    <3> QED BY <2>1
  <2>3. begin = top
    BY <1>4
  <2> HIDE DEF top, begin
  <2>4. /\ begin \in 1..n /\ path[begin] \in Separators
        /\ \A i \in (begin + 1)..n : path[i] \notin Separators
    <3>1. begin \in 1..n /\ path[begin] \in Separators
      BY <2>2, <2>3
    <3>2. \A i \in 1..n : path[i] \in Separators => i <= begin
      BY <2>2, <2>3
    <3> HIDE DEF cuts, n
    <3> QED BY <1>1, <3>1, <3>2
  <2> HIDE DEF cuts
  <2> QED BY <1>1, <1>2, <2>4
<1> QED BY <1>3, <1>4

\* The .sav file has the directory of the ROM and its name without the extension
\* (cart_init, cartridge.c:153-170), for every path.
LEMMA NamedLike ==
    ASSUME NEW path \in Seq(STRING)
    PROVE  LET rom == NameOf(path)
               sav == NameOf(SavPath(path))
               stem == SubSeq(sav[2], 1, Len(sav[2]) - 2)
           IN  /\ sav[1] = rom[1]
               /\ IsPrefix(stem, rom[2])
               /\ ~Contains(SubSeq(rom[2], Len(stem) + 2, Len(rom[2])), ".")
               /\ stem # rom[2] => rom[2][Len(stem) + 1] = "."
               /\ stem = rom[2] => ~Contains(rom[2], ".")
               /\ SubSeq(sav[2], Len(stem) + 1, Len(sav[2])) = <<".", "sav">>
<1> DEFINE Chars == STRING \cup {".", "sav"}
           n == Len(path)
           file == SavPath(path)
           rom == NameOf(path)
           sav == NameOf(SavPath(path))
           stem == SubSeq(sav[2], 1, Len(sav[2]) - 2)
<1>1. path \in Seq(Chars) /\ {".", "sav"} \subseteq Chars
  BY SeqMonotonic
<1> HIDE DEF Chars
<1>2. n \in Nat /\ \A i \in 1..n : path[i] \in Chars
  BY <1>1, ElementOfSeq
<1>3. PICK d \in 0..n :
         /\ file \in Seq(Chars)
         /\ Len(file) = d + 2
         /\ \A i \in 1..d : file[i] = path[i]
         /\ file[d + 1] = "." /\ file[d + 2] = "sav"
         /\ \A i \in (d + 1)..n : path[i] \notin Separators
         /\ d < n => path[d + 1] = "."
         /\ \A i \in (d + 2)..n : path[i] # "."
         /\ d = n => DotsTo(path, n) = {}
  BY <1>1, SavPathIs, SMTT(30)
<1>4. PICK b \in 0..n :
         /\ rom = <<SubSeq(path, 1, b), SubSeq(path, b + 1, n)>>
         /\ b > 0 => path[b] \in Separators
         /\ \A i \in (b + 1)..n : path[i] \notin Separators
  BY <1>1, NameBegins
<1> HIDE DEF n, file, rom
<1>5. PICK c \in 0..(d + 2) :
         /\ sav = <<SubSeq(file, 1, c), SubSeq(file, c + 1, d + 2)>>
         /\ c > 0 => file[c] \in Separators
         /\ \A i \in (c + 1)..(d + 2) : file[i] \notin Separators
  BY <1>3, NameBegins DEF file
<1> HIDE DEF sav
<1>6. b <= d /\ c <= d
  <2>1. c # d + 1 /\ c # d + 2
    <3>1. file[d + 1] \notin Separators /\ file[d + 2] \notin Separators
      BY <1>3 DEF Separators
    <3>2. d + 1 > 0 /\ d + 2 > 0
      BY <1>2
    <3> QED BY <1>5, <3>1, <3>2
  <2> QED BY <1>2, <1>3, <1>4, <1>5, <2>1
<1>7. c = b
  <2>1. ASSUME b < c PROVE FALSE
    <3>1. c \in 1..d /\ c \in (b + 1)..n /\ c > 0
      BY <1>2, <1>3, <1>4, <1>5, <1>6, <2>1
    <3>2. file[c] \in Separators
      BY <1>5, <3>1
    <3>3. file[c] = path[c]
      BY <1>3, <3>1
    <3>4. path[c] \notin Separators
      BY <1>4, <3>1
    <3> QED BY <3>2, <3>3, <3>4
  <2>2. ASSUME c < b PROVE FALSE
    <3>1. b \in 1..d /\ b \in (c + 1)..(d + 2) /\ b > 0
      BY <1>2, <1>3, <1>4, <1>5, <1>6, <2>2
    <3>2. path[b] \in Separators
      BY <1>4, <3>1
    <3>3. file[b] = path[b]
      BY <1>3, <3>1
    <3>4. file[b] \notin Separators
      BY <1>5, <3>1
    <3> QED BY <3>2, <3>3, <3>4
  <2> QED BY <1>2, <1>4, <1>5, <2>1, <2>2
<1>8. \A i \in 1..(d + 2) : file[i] \in Chars
  BY <1>3, ElementOfSeq
<1>9. /\ SubSeq(path, 1, b) \in Seq(Chars) /\ Len(SubSeq(path, 1, b)) = b
      /\ \A i \in 1..b : SubSeq(path, 1, b)[i] = path[i]
  BY <1>2, <1>4, SubSeqProperties
<1>10. /\ SubSeq(file, 1, b) \in Seq(Chars) /\ Len(SubSeq(file, 1, b)) = b
       /\ \A i \in 1..b : SubSeq(file, 1, b)[i] = file[i]
  BY <1>2, <1>3, <1>4, <1>6, <1>8, SubSeqProperties, SMTT(30)
<1>11. sav[1] = rom[1]
  <2>1. \A i \in 1..b : SubSeq(path, 1, b)[i] = SubSeq(file, 1, b)[i]
    BY <1>2, <1>3, <1>4, <1>6, <1>9, <1>10
  <2>2. SubSeq(path, 1, b) = SubSeq(file, 1, b)
    BY <1>9, <1>10, <2>1, SeqEqual
  <2> QED BY <1>4, <1>5, <1>7, <2>2
<1>12. /\ rom[2] \in Seq(Chars) /\ Len(rom[2]) = n - b
       /\ \A i \in 1..(n - b) : rom[2][i] = path[b + i]
  <2>1. rom[2] = SubSeq(path, b + 1, n)
    BY <1>4
  <2>2. /\ b + 1 \in Int /\ n \in Int /\ \A i \in (b + 1)..n : path[i] \in Chars
        /\ (IF b + 1 <= n THEN n - (b + 1) + 1 ELSE 0) = n - b
        /\ n - (b + 1) + 1 = n - b
        /\ \A i \in 1..(n - b) : (b + 1) + i - 1 = b + i
    BY <1>2, <1>4
  <2>3. /\ SubSeq(path, b + 1, n) \in Seq(Chars)
        /\ Len(SubSeq(path, b + 1, n)) = IF b + 1 <= n THEN n - (b + 1) + 1 ELSE 0
        /\ \A i \in 1..(n - (b + 1) + 1) : SubSeq(path, b + 1, n)[i] = path[(b + 1) + i - 1]
    BY <2>2, SubSeqProperties
  <2> QED BY <2>1, <2>2, <2>3
<1>13. /\ sav[2] \in Seq(Chars) /\ Len(sav[2]) = d + 2 - b
       /\ \A i \in 1..(d + 2 - b) : sav[2][i] = file[b + i]
  <2> DEFINE low == b + 1
             high == d + 2
  <2>1. sav[2] = SubSeq(file, low, high)
    BY <1>5, <1>7
  <2>2. low \in Int /\ high \in Int /\ \A i \in low..high : file[i] \in Chars
    BY <1>8
  <2>3. /\ (IF low <= high THEN high - low + 1 ELSE 0) = d + 2 - b
        /\ high - low + 1 = d + 2 - b
        /\ \A i \in 1..(d + 2 - b) : low + i - 1 = b + i
    BY <1>6
  <2> HIDE DEF low, high
  <2>4. /\ SubSeq(file, low, high) \in Seq(Chars)
        /\ Len(SubSeq(file, low, high)) = IF low <= high THEN high - low + 1 ELSE 0
        /\ \A i \in 1..(high - low + 1) : SubSeq(file, low, high)[i] = file[low + i - 1]
    BY <2>2, SubSeqProperties, SMTT(30)
  <2> QED BY <2>1, <2>3, <2>4
<1>14. /\ stem \in Seq(Chars) /\ Len(stem) = d - b
       /\ \A i \in 1..(d - b) : stem[i] = path[b + i]
  <2>1. stem = SubSeq(sav[2], 1, d - b)
    BY <1>3, <1>4, <1>6, <1>13
  <2>2. /\ d - b \in Nat /\ \A i \in 1..(d - b) : sav[2][i] \in Chars
    BY <1>3, <1>4, <1>6, <1>8, <1>13
  <2>3. /\ SubSeq(sav[2], 1, d - b) \in Seq(Chars)
        /\ Len(SubSeq(sav[2], 1, d - b)) = d - b
        /\ \A i \in 1..(d - b) : SubSeq(sav[2], 1, d - b)[i] = sav[2][i]
    BY <2>2, SubSeqProperties
  <2>4. \A i \in 1..(d - b) : sav[2][i] = path[b + i]
    <3> TAKE i \in 1..(d - b)
    <3>1. i \in 1..(d + 2 - b) /\ b + i \in 1..d
      BY <1>3, <1>4, <1>6
    <3> QED BY <1>3, <1>13, <3>1
  <2> QED BY <2>1, <2>3, <2>4
<1> HIDE DEF stem
<1>15. IsPrefix(stem, rom[2])
  <2>1. Len(stem) <= Len(rom[2]) /\ d - b \in 0..(n - b)
    BY <1>2, <1>3, <1>4, <1>6, <1>12, <1>14
  <2>2. \A i \in 1..(d - b) : rom[2][i] = path[b + i] /\ rom[2][i] \in Chars
    <3> TAKE i \in 1..(d - b)
    <3>1. i \in 1..(n - b) /\ b + i \in 1..n
      BY <1>2, <1>3, <1>4, <1>6
    <3> QED BY <1>2, <1>12, <3>1
  <2>3. /\ SubSeq(rom[2], 1, d - b) \in Seq(Chars)
        /\ Len(SubSeq(rom[2], 1, d - b)) = d - b
        /\ \A i \in 1..(d - b) : SubSeq(rom[2], 1, d - b)[i] = rom[2][i]
    BY <2>1, <2>2, SubSeqProperties
  <2>4. SubSeq(rom[2], 1, d - b) = stem
    BY <1>14, <2>2, <2>3, SeqEqual
  <2>5. SubSeq(stem, 1, Len(stem)) = stem
    BY <1>14, SubSeqFull
  <2> QED BY <1>14, <2>1, <2>4, <2>5 DEF IsPrefix
<1>16. ~Contains(SubSeq(rom[2], Len(stem) + 2, Len(rom[2])), ".")
  <2> DEFINE low == d - b + 2
             high == n - b
  <2>1. low \in Nat /\ high \in Nat /\ low = Len(stem) + 2 /\ high = Len(rom[2])
    BY <1>2, <1>3, <1>4, <1>6, <1>12, <1>14
  <2>2. \A i \in low..high : rom[2][i] \in Chars /\ rom[2][i] # "."
    <3> TAKE i \in low..high
    <3>1. i \in 1..(n - b) /\ b + i \in 1..n /\ b + i \in (d + 2)..n
      BY <1>2, <1>6
    <3>2. rom[2][i] = path[b + i]
      BY <1>12, <3>1, Zenon
    <3> QED BY <1>2, <1>3, <3>1, <3>2, Zenon
  <2> HIDE DEF low, high
  <2>3. /\ Len(SubSeq(rom[2], low, high)) = IF low <= high THEN high - low + 1 ELSE 0
        /\ \A i \in 1..(high - low + 1) : SubSeq(rom[2], low, high)[i] = rom[2][low + i - 1]
    BY <2>1, <2>2, SubSeqProperties
  <2>4. ASSUME NEW i \in 1..Len(SubSeq(rom[2], low, high))
        PROVE  SubSeq(rom[2], low, high)[i] # "."
    <3>1. i \in 1..(high - low + 1) /\ low + i - 1 \in low..high
      <4> DEFINE len == Len(SubSeq(rom[2], low, high))
      <4>1. len = (IF low <= high THEN high - low + 1 ELSE 0) /\ i \in 1..len
        BY <2>3, <2>4, Zenon
      <4> HIDE DEF len
      <4> QED BY <2>1, <4>1
    <3>2. SubSeq(rom[2], low, high)[i] = rom[2][low + i - 1]
      BY <2>3, <3>1, Zenon
    <3> QED BY <2>2, <3>1, <3>2, Zenon
  <2> QED BY <2>1, <2>4 DEF Contains
<1>17. stem # rom[2] => rom[2][Len(stem) + 1] = "."
  <2>1. CASE d = n
    BY <1>12, <1>14, <2>1, SeqEqual
  <2>2. CASE d < n
    BY <1>2, <1>3, <1>4, <1>6, <1>12, <1>14, <2>2
  <2> QED BY <1>2, <1>3, <2>1, <2>2
<1>18. stem = rom[2] => ~Contains(rom[2], ".")
  <2> SUFFICES ASSUME stem = rom[2], NEW i \in 1..(n - b), rom[2][i] = "."
               PROVE  FALSE
    BY <1>12 DEF Contains
  <2>1. d = n
    BY <1>2, <1>3, <1>4, <1>12, <1>14
  <2>2. b + i \in 1..n /\ path[b + i] = "."
    BY <1>2, <1>4, <1>12
  <2>3. \A k \in (b + i)..n : path[k] \notin Separators
    BY <1>2, <1>4
  <2>4. b + i \in DotsTo(path, n)
    BY <2>2, <2>3 DEF DotsTo
  <2> QED BY <1>3, <2>1, <2>4
<1>19. SubSeq(sav[2], Len(stem) + 1, Len(sav[2])) = <<".", "sav">>
  <2> DEFINE low == d - b + 1
             high == d + 2 - b
             end == SubSeq(sav[2], low, high)
  <2>1. low \in Nat /\ high \in Nat /\ low = Len(stem) + 1 /\ high = Len(sav[2])
    <3>1. Len(stem) = d - b /\ Len(sav[2]) = d + 2 - b
      BY <1>13, <1>14, Zenon
    <3>2. b \in Nat /\ d \in Nat /\ b <= d
      BY <1>2, <1>6
    <3> QED BY <3>1, <3>2
  <2>2. /\ \A i \in low..high : sav[2][i] \in Chars
        /\ sav[2][low] = "." /\ sav[2][low + 1] = "sav"
    <3>1. /\ low \in 1..high /\ low + 1 \in 1..high
          /\ b + low = d + 1 /\ b + (low + 1) = d + 2
          /\ \A i \in low..high : i \in 1..high /\ b + i \in 1..(d + 2)
      BY <1>2, <1>6
    <3>2. \A i \in 1..high : sav[2][i] = file[b + i]
      BY <1>13
    <3> HIDE DEF low, high
    <3>3. sav[2][low] = file[d + 1] /\ sav[2][low + 1] = file[d + 2]
      BY <3>1, <3>2, Zenon
    <3>4. \A i \in low..high : sav[2][i] \in Chars
      BY <1>8, <3>1, <3>2, Zenon
    <3> QED BY <1>3, <3>3, <3>4, Zenon
  <2>3. low <= high /\ high - low + 1 = 2
    BY <1>2, <1>6
  <2> HIDE DEF low, high
  <2>4. /\ end \in Seq(Chars) /\ Len(end) = 2
        /\ \A i \in 1..2 : end[i] = sav[2][low + i - 1]
    BY <2>1, <2>2, <2>3, SubSeqProperties
  <2> HIDE DEF end
  <2>5. end[1] = "." /\ end[2] = "sav"
    BY <2>1, <2>2, <2>4
  <2>6. end = <<".", "sav">>
    <3>1. \A S, s : s \in Seq(S) /\ Len(s) = 2 => s = <<s[1], s[2]>>
      OBVIOUS
    <3> QED BY <2>4, <2>5, <3>1
  <2> QED BY <2>1, <2>6 DEF end
<1> QED BY <1>11, <1>15, <1>16, <1>17, <1>18, <1>19 DEF stem, sav, rom

\* The .sav file of every ROM is in its directory and has its name (cart_init,
\* cartridge.c:153-170).
THEOREM SaveFileNamed == Spec => []NamedLikeRom
<1>1. NamedLikeRom
  <2>1. \A path \in Paths : path \in Seq(STRING)
    BY SaveFileAssumption
  <2> QED BY <2>1, NamedLike DEF NamedLikeRom
<1> QED BY <1>1, PTL

---------------------------------------------------------------------------
\* The memory map.

\* The bounds of the regions, as numbers.
LEMMA Bounds ==
    ASSUME NEW addr
    PROVE  /\ Below(addr, "BANK0") <=> addr < 16384
           /\ Below(addr, "BANK1") <=> addr < 32768
           /\ Below(addr, "VRAM") <=> addr < 40960
           /\ Below(addr, "EXT_RAM") <=> addr < 49152
           /\ Below(addr, "WRAM") <=> addr < 57344
           /\ Below(addr, "ECHO") <=> addr < 65024
           /\ Below(addr, "OAM") <=> addr < 65184
           /\ Below(addr, "UNUSED") <=> addr < 65280
           /\ Below(addr, "IO_REGS") <=> addr < 65408
           /\ Below(addr, "HRAM") <=> addr < 65535
BY SMT DEF Below, Start, Size

\* The tests of get_addr_region cut the address space at these bounds.
LEMMA RegionOf ==
    ASSUME NEW addr \in Int, addr >= 0, addr <= 65535
    PROVE  /\ get_addr_region(addr) = "VRAM" <=> addr >= 32768 /\ addr < 40960
           /\ get_addr_region(addr) = "WRAM" <=> addr >= 49152 /\ addr < 57344
           /\ get_addr_region(addr) = "ECHO" <=> addr >= 57344 /\ addr < 65024
           /\ get_addr_region(addr) = "OAM" <=> addr >= 65024 /\ addr < 65184
           /\ get_addr_region(addr) = "HRAM" <=> addr >= 65408 /\ addr < 65535
BY Bounds, SMT DEF get_addr_region, IE_REG

\* The distance from the start of an interval is below its length.
LEMMA Distance ==
    ASSUME NEW a \in Int, NEW start \in Int, NEW size \in Int,
           a >= start, a < start + size
    PROVE  a - start \in 0..(size - 1)
BY SMT

\* No address the CPU can put on the bus leads out of the bounds of an array, and
\* the echo of work RAM is work RAM.
THEOREM EveryAccessInBounds == \A addr \in Addresses16 : IndexInBounds(addr)
<1>. SUFFICES ASSUME NEW addr \in Addresses16 PROVE IndexInBounds(addr)
  OBVIOUS
<1>. DEFINE routed == Routed(addr)
            owner == get_addr_region(routed)
<1>s. /\ Start["VRAM"] = 32768 /\ Start["WRAM"] = 49152
      /\ Start["OAM"] = 65024 /\ Start["HRAM"] = 65408
      /\ Size["VRAM"] = 8192 /\ Size["WRAM"] = 8192
      /\ Size["OAM"] = 160 /\ Size["HRAM"] = 127
  BY SMT DEF Start, Size
<1>a. addr \in Int /\ addr >= 0 /\ addr <= 65535
  <2>1. IE_REG \in Int /\ IE_REG = 65535
    BY DEF IE_REG
  <2>2. addr \in 0..IE_REG
    BY DEF Addresses16
  <2>3. addr \in Int /\ addr >= 0 /\ addr <= IE_REG
    <3>1. IE_REG \in Int
      BY <2>1
    <3> QED BY <2>2, <3>1
  <2> QED BY <2>1, <2>3
<1>1. CASE get_addr_region(addr) = "ECHO"
  <2>1. addr \in Int /\ addr >= 57344 /\ addr < 65024
    BY <1>1, <1>a, RegionOf, SMT
  <2>2. routed = addr - 8192
    BY <1>1, <1>s, <2>1, SMT DEF Routed, map_echo_to_wram
  <2>3. owner = "WRAM"
    BY <2>1, <2>2, <1>a, RegionOf, SMT
  <2>4. Index(routed, "WRAM") \in 0..(Size["WRAM"] - 1)
    BY <2>1, <2>2, <1>s, SMT DEF Index
  <2>. QED
    BY <2>2, <2>3, <2>4 DEF IndexInBounds
<1>2. CASE get_addr_region(addr) # "ECHO"
  <2>1. routed = addr
    BY <1>2, Zenon DEF Routed
  <2>2. ASSUME owner = "VRAM" PROVE Index(routed, "VRAM") \in 0..(Size["VRAM"] - 1)
    <3>1. addr \in Int /\ addr >= 32768 /\ addr < 32768 + 8192
      BY <2>1, <2>2, <1>a, RegionOf, SMT
    <3>2. addr - 32768 \in 0..(8192 - 1)
      BY <3>1, Distance, SMT
    <3>. QED
      BY <2>1, <3>2, <1>s, SMT DEF Index
  <2>3. ASSUME owner = "WRAM" PROVE Index(routed, "WRAM") \in 0..(Size["WRAM"] - 1)
    <3>1. addr \in Int /\ addr >= 49152 /\ addr < 49152 + 8192
      BY <2>1, <2>3, <1>a, RegionOf, SMT
    <3>2. addr - 49152 \in 0..(8192 - 1)
      BY <3>1, Distance, SMT
    <3>. QED
      BY <2>1, <3>2, <1>s, SMT DEF Index
  <2>4. ASSUME owner = "OAM" PROVE Index(routed, "OAM") \in 0..(Size["OAM"] - 1)
    BY <2>1, <2>4, <1>s, <1>a, RegionOf, SMT DEF Index
  <2>5. ASSUME owner = "HRAM" PROVE Index(routed, "HRAM") \in 0..(Size["HRAM"] - 1)
    BY <2>1, <2>5, <1>s, <1>a, RegionOf, SMT DEF Index
  <2>6. ASSUME owner \in Arrays PROVE Index(routed, owner) \in 0..(Size[owner] - 1)
    BY <2>2, <2>3, <2>4, <2>5, <2>6 DEF Arrays
  <2>. QED
    BY <1>2, <2>6 DEF IndexInBounds
<1>. QED
  BY <1>1, <1>2

\* Below OAM the regions begin and end at whole pages, so that every byte of a page is
\* in the region of its first byte.
LEMMA OneRegion ==
    ASSUME NEW page \in 0..253, NEW base \in 0..255
    PROVE  get_addr_region(page * 256 + base) = get_addr_region(page * 256)
<1>1. /\ page * 256 + base < 16384 <=> page * 256 < 16384
      /\ page * 256 + base < 32768 <=> page * 256 < 32768
      /\ page * 256 + base < 40960 <=> page * 256 < 40960
      /\ page * 256 + base < 49152 <=> page * 256 < 49152
      /\ page * 256 + base < 57344 <=> page * 256 < 57344
      /\ page * 256 + base < 65024 /\ page * 256 < 65024
  BY SMT
<1>2. /\ Below(page * 256 + base, "BANK0") <=> Below(page * 256, "BANK0")
      /\ Below(page * 256 + base, "BANK1") <=> Below(page * 256, "BANK1")
      /\ Below(page * 256 + base, "VRAM") <=> Below(page * 256, "VRAM")
      /\ Below(page * 256 + base, "EXT_RAM") <=> Below(page * 256, "EXT_RAM")
      /\ Below(page * 256 + base, "WRAM") <=> Below(page * 256, "WRAM")
      /\ Below(page * 256 + base, "ECHO") /\ Below(page * 256, "ECHO")
  BY <1>1, Bounds, SMT
<1>. QED
  BY <1>2, SMT DEF get_addr_region

\* From the page of OAM on there is neither ROM nor RAM of the cartridge, VRAM, work
\* RAM or its echo.
LEMMA AboveEcho ==
    ASSUME NEW addr \in Int, addr >= 65024
    PROVE  get_addr_region(addr) \in {"OAM", "IO_REGS", "HRAM", "UNUSED"}
<1>1. ~(addr < 16384) /\ ~(addr < 32768) /\ ~(addr < 40960) /\ ~(addr < 49152)
      /\ ~(addr < 57344) /\ ~(addr < 65024)
  BY SMT
<1>2. /\ ~Below(addr, "BANK0") /\ ~Below(addr, "BANK1") /\ ~Below(addr, "VRAM")
      /\ ~Below(addr, "EXT_RAM") /\ ~Below(addr, "WRAM") /\ ~Below(addr, "ECHO")
  BY <1>1, Bounds, SMT
<1>. QED
  BY <1>2, SMT DEF get_addr_region

\* A transfer reads one region from its first byte to its last, whatever page it is
\* asked for, and writes OAM only (dma_tick, bus_copy_dma).
THEOREM EveryPageInOneRegion == \A page \in 0..255 : PageInOneRegion(page)
<1>. SUFFICES ASSUME NEW page \in 0..255, NEW base \in 0..159
              PROVE  /\ get_addr_region(dma_dst(base)) = "OAM"
                     /\ IF page < 254
                        THEN get_addr_region(dma_src(page, base)) =
                                 get_addr_region(dma_src(page, 0))
                        ELSE get_addr_region(dma_src(page, base)) \in
                                 {"OAM", "IO_REGS", "HRAM", "UNUSED"}
  BY Zenon DEF PageInOneRegion
<1>1. base \in 0..255
  BY SMT
<1>2. get_addr_region(dma_dst(base)) = "OAM"
  <2>1. dma_dst(base) = 65024 + base
    BY SMT DEF dma_dst, Start
  <2>2. 65024 + base \in Int /\ 65024 + base >= 65024 /\ 65024 + base < 65184
    BY SMT
  <2>. QED
    BY <2>1, <2>2, RegionOf, SMT
<1>3. CASE page < 254
  <2>1. page \in 0..253
    BY <1>3, SMT
  <2>2. dma_src(page, base) = page * 256 + base /\ dma_src(page, 0) = page * 256
    BY <2>1, SMT DEF dma_src
  <2>3. get_addr_region(page * 256 + base) = get_addr_region(page * 256)
    BY <1>1, <2>1, OneRegion, ZenonT(40)
  <2>. QED
    BY <1>2, <1>3, <2>2, <2>3, Zenon
<1>4. CASE ~(page < 254)
  <2>1. dma_src(page, base) \in Int /\ dma_src(page, base) >= 65024
    BY <1>4, SMT DEF dma_src
  <2>2. get_addr_region(dma_src(page, base)) \in {"OAM", "IO_REGS", "HRAM", "UNUSED"}
    BY <2>1, AboveEcho
  <2>. QED
    BY <1>2, <1>4, <2>2, Zenon
<1>. QED
  BY <1>3, <1>4

---------------------------------------------------------------------------
\* The banks.

\* A remainder is less than what is divided by.
LEMMA RemainderBound ==
    ASSUME NEW n \in Int, NEW d \in Int, d > 0
    PROVE  n % d \in 0..(d - 1)
  BY SMT

\* A type that is supported has one of three controllers.
LEMMA Controllers ==
    ASSUME NEW type, type \in Supported
    PROVE  KindOf(type).mbc \in {0, 1, 3}
  BY DEF Supported, KindOf, Kind

\* The RAM of a cartridge that has some has at least one bank.
LEMMA RamSizeIs ==
    ASSUME NEW h, Accepted(h), KindOf(h.type).has_ram
    PROVE  RamBanks(h.ram) \in Int /\ RamBanks(h.ram) > 0
  <1>1. h.ram \in RamSizes
    BY DEF Accepted
  <1>2. RamBanks(h.ram) \in Int
    BY <1>1 DEF RamSizes, RamBanks
  <1>3. RamBanks(h.ram) > 0
    BY Zenon DEF Accepted
  <1> QED
    BY <1>2, <1>3

\* The registers hold what their masks leave of the bytes written, and the header is one
\* that cart_init accepted.
THEOREM TypeCorrect == BanksSpec => []BanksTypeOK
  <1>1. BanksInit => BanksTypeOK
    <2> SUFFICES ASSUME BanksInit
                 PROVE  BanksTypeOK
      OBVIOUS
    <2>1. cart = NoCart /\ ram_enabled \in BOOLEAN
      BY Zenon DEF BanksInit
    <2>2. bank0_reg \in 0..127 /\ bank1_reg \in 0..15 /\ mbc1_mode \in {0, 1}
      BY SMT DEF BanksInit
    <2> QED
      BY <2>1, <2>2 DEF BanksTypeOK
  <1>2. BanksTypeOK /\ [BanksNext]_banks_vars => BanksTypeOK'
    <2> SUFFICES ASSUME BanksTypeOK, [BanksNext]_banks_vars
                 PROVE  BanksTypeOK'
      OBVIOUS
    <2> USE DEF BanksTypeOK
    <2>1. CASE cart_init_banks
      BY <2>1 DEF cart_init_banks, registers
    <2>2. ASSUME NEW val \in Values, RamEnable(val)
          PROVE  BanksTypeOK'
      BY <2>2 DEF RamEnable
    <2>3. ASSUME NEW val \in Values, Bank0Write(val)
          PROVE  BanksTypeOK'
      <3>1. val \in 0..255
        BY CartridgeAssumption
      <3>2. bank0_reg' \in 0..127
        BY <2>3, <3>1 DEF Bank0Write, Bank0Of
      <3> QED
        BY <2>3, <3>2 DEF Bank0Write
    <2>4. ASSUME NEW val \in Values, Bank1Write(val)
          PROVE  BanksTypeOK'
      <3>1. val \in 0..255
        BY CartridgeAssumption
      <3>2. bank1_reg' \in 0..15
        BY <2>4, <3>1 DEF Bank1Write, Bank1Of
      <3> QED
        BY <2>4, <3>2 DEF Bank1Write
    <2>5. ASSUME NEW val \in Values, ModeWrite(val)
          PROVE  BanksTypeOK'
      <3>1. val \in 0..255
        BY CartridgeAssumption
      <3>2. mbc1_mode' \in {0, 1}
        BY <2>5, <3>1 DEF ModeWrite
      <3> QED
        BY <2>5, <3>2 DEF ModeWrite
    <2>6. CASE UNCHANGED banks_vars
      BY <2>6 DEF banks_vars, registers
    <2> QED
      BY <2>1, <2>2, <2>3, <2>4, <2>5, <2>6 DEF BanksNext, cart_write
  <1> QED
    BY <1>1, <1>2, PTL DEF BanksSpec

\* The bank behind each half of the ROM's region is in the file.
LEMMA RomInBounds ==
    ASSUME BanksTypeOK, cart # NoCart, NEW region \in {"BANK0", "BANK1"}
    PROVE  RomBank(region, bank0_reg, bank1_reg, mbc1_mode) \in 0..(cart.size - 1)
  <1> DEFINE low == NotZero(bank0_reg)
             bank == Mbc1Bank(region, bank0_reg, bank1_reg, mbc1_mode)
  <1>1. Accepted(cart) /\ cart.size \in Int /\ cart.size >= 2
    BY CartridgeAssumption DEF BanksTypeOK, Accepted
  <1>2. rom_banks_16kib = cart.size
    BY <1>1 DEF Accepted, rom_banks_16kib
  <1>3. mbc \in {0, 1, 3}
    BY <1>1, Controllers DEF Accepted, mbc
  <1>4. low \in Int /\ bank \in Int
    BY DEF BanksTypeOK, NotZero, Mbc1Bank
  <1>5. low % cart.size \in 0..(cart.size - 1) /\ bank % cart.size \in 0..(cart.size - 1)
    BY <1>1, <1>4, RemainderBound
  <1>6. CASE mbc = 0
    BY <1>1, <1>6 DEF RomBank
  <1>7. CASE mbc = 1
    BY <1>2, <1>5, <1>7 DEF RomBank
  <1>8. CASE mbc = 3
    <2>1. CASE region = "BANK0"
      BY <1>1, <1>8, <2>1 DEF RomBank
    <2>2. CASE region # "BANK0"
      BY <1>2, <1>5, <1>8, <2>2 DEF RomBank
    <2> QED
      BY <2>1, <2>2
  <1> QED
    BY <1>3, <1>6, <1>7, <1>8

\* The bank of the RAM that EXT_RAM shows was allocated.
LEMMA RamInBounds ==
    ASSUME BanksTypeOK, cart # NoCart, NEW p \in Selected, p[1] = "ram"
    PROVE  p[2] \in 0..(ram_banks_8kib - 1)
  <1> DEFINE ram == RamBank(bank1_reg, mbc1_mode)
             asked == IF mbc = 1 /\ mbc1_mode = 0 THEN 0 ELSE bank1_reg
  <1>1. p = <<"ram", ram>> /\ has_ram
    BY DEF Selected
  <1>2. Accepted(cart)
    BY DEF BanksTypeOK
  <1>3. ram_banks_8kib \in Int /\ ram_banks_8kib > 0
    BY <1>1, <1>2, RamSizeIs DEF has_ram, ram_banks_8kib
  <1>4. asked \in Int
    BY DEF BanksTypeOK
  <1>5. asked % ram_banks_8kib \in 0..(ram_banks_8kib - 1)
    BY <1>3, <1>4, RemainderBound
  <1> QED
    BY <1>1, <1>5 DEF RamBank

\* The program cannot make the emulator read or write outside the memory of the
\* cartridge, for every set of headers and of bytes written.
THEOREM CartridgeInBounds == BanksSpec => []InBounds
  <1>1. BanksTypeOK => InBounds
    BY RomInBounds, RamInBounds DEF InBounds
  <1> QED
    BY <1>1, TypeCorrect, PTL

---------------------------------------------------------------------------
\* No bank is shadowed by another.

\* What the registers hold beyond their types: nothing before a header was accepted, and
\* with MBC1 five and two bits.
RegistersFit ==
    /\ cart = NoCart => registers = <<FALSE, 0, 0, 0>>
    /\ mbc = 1 => bank0_reg < 32 /\ bank1_reg < 4

\* The bits of the registers beyond those that their controller has stay zero.
LEMMA RegistersStayFit == BanksSpec => []RegistersFit
  <1>1. BanksInit => RegistersFit
    <2> SUFFICES ASSUME BanksInit
                 PROVE  RegistersFit
      OBVIOUS
    <2>1. registers = <<FALSE, 0, 0, 0>>
      BY Zenon DEF BanksInit, registers
    <2>2. mbc = 0
      BY DEF BanksInit, NoCart, mbc, KindOf, Kind
    <2> QED
      BY <2>1, <2>2 DEF RegistersFit
  <1>2. BanksTypeOK /\ RegistersFit /\ [BanksNext]_banks_vars => RegistersFit'
    <2> SUFFICES ASSUME BanksTypeOK, RegistersFit, [BanksNext]_banks_vars
                 PROVE  RegistersFit'
      OBVIOUS
    <2> USE DEF RegistersFit, registers
    <2>1. CASE cart_init_banks
      BY <2>1, SMT DEF cart_init_banks
    <2>2. ASSUME NEW val \in Values, cart # NoCart,
                 RamEnable(val) \/ Bank0Write(val) \/ Bank1Write(val) \/ ModeWrite(val)
          PROVE  RegistersFit'
      <3>1. val \in 0..255
        BY CartridgeAssumption
      <3>2. cart' = cart /\ mbc' = mbc
        BY <2>2 DEF RamEnable, Bank0Write, Bank1Write, ModeWrite, mbc
      <3>3. mbc = 1 => bank0_reg' < 32 /\ bank1_reg' < 4
        BY <2>2, <3>1 DEF RamEnable, Bank0Write, Bank1Write, ModeWrite, Bank0Of, Bank1Of,
                          BanksTypeOK
      <3> QED
        BY <2>2, <3>2, <3>3
    <2>3. CASE UNCHANGED banks_vars
      BY <2>3 DEF banks_vars, mbc
    <2> QED
      BY <2>1, <2>2, <2>3 DEF BanksNext, cart_write
  <1> QED
    BY <1>1, <1>2, TypeCorrect, PTL DEF BanksSpec

\* The numbers of banks that cart_init accepts.
RomSizes == {2, 4, 8, 16, 32, 64, 128, 256, 512}

\* They are the powers of 2 that a shift by 1 to 9 gives.
LEMMA Powers ==
    ASSUME NEW k \in 1..9
    PROVE  2 ^ k \in RomSizes
  <1>1. k = 1 \/ k = 2 \/ k = 3 \/ k = 4 \/ k = 5 \/ k = 6 \/ k = 7 \/ k = 8 \/ k = 9
    BY SMT
  <1>2. /\ 2 ^ 1 \in RomSizes /\ 2 ^ 2 \in RomSizes /\ 2 ^ 3 \in RomSizes
        /\ 2 ^ 4 \in RomSizes /\ 2 ^ 5 \in RomSizes /\ 2 ^ 6 \in RomSizes
        /\ 2 ^ 7 \in RomSizes /\ 2 ^ 8 \in RomSizes /\ 2 ^ 9 \in RomSizes
    BY SMT DEF RomSizes
  <1> QED
    BY <1>1, <1>2, Zenon

\* The file of a cartridge that runs has such a number of banks, and one of three controllers.
LEMMA AcceptedSizes ==
    ASSUME BanksTypeOK, cart # NoCart
    PROVE  /\ rom_banks_16kib = cart.size
           /\ cart.size \in RomSizes
           /\ mbc \in {0, 1, 3}
  <1> DEFINE k == RomShift(cart.rom)
  <1>1. Accepted(cart) /\ cart.rom \in 0..255
    BY CartridgeAssumption DEF BanksTypeOK
  <1>2. k \in 0..9 /\ cart.size = 2 ^ k /\ cart.size >= 2
    BY <1>1 DEF Accepted, RomShift
  <1>3. k # 0
    <2> SUFFICES ASSUME k = 0
                 PROVE  FALSE
      OBVIOUS
    <2>1. 2 ^ 0 = 1
      BY SMT
    <2>2. cart.size = 1
      BY <1>2, <2>1, Zenon
    <2> QED
      BY <1>2, <2>2
  <1>4. k \in 1..9
    BY <1>2, <1>3
  <1>5. cart.size \in RomSizes
    BY <1>2, <1>4, Powers, Zenon
  <1> QED
    BY <1>1, <1>2, <1>5, Controllers DEF Accepted, rom_banks_16kib, mbc

\* A number below the number of banks is its own remainder.
LEMMA OwnRemainder ==
    ASSUME NEW n \in RomSizes, NEW b \in 0..(n - 1)
    PROVE  b % n = b
  BY SMT DEF RomSizes

\* Five bits that are not all zero leave a remainder, whatever is above them.
LEMMA LowBitsRemain ==
    ASSUME NEW n \in RomSizes, NEW high \in 0..3, NEW low \in 1..31, low < n
    PROVE  (32 * high + low) % n # 0
  <1> SUFFICES ASSUME \/ n = 2 \/ n = 4 \/ n = 8 \/ n = 16 \/ n = 32
                      \/ n = 64 \/ n = 128 \/ n = 256 \/ n = 512
               PROVE  (32 * high + low) % n # 0
    BY DEF RomSizes
  <1>1. CASE n = 2
    BY <1>1
  <1>2. CASE n = 4
    BY <1>2
  <1>3. CASE n = 8
    BY <1>3
  <1>4. CASE n = 16
    BY <1>4
  <1>5. CASE n = 32
    BY <1>5
  <1>6. CASE n = 64
    BY <1>6
  <1>7. CASE n = 128
    BY <1>7
  <1>8. CASE n = 256
    BY <1>8
  <1>9. CASE n = 512
    BY <1>9
  <1> QED
    BY <1>1, <1>2, <1>3, <1>4, <1>5, <1>6, <1>7, <1>8, <1>9

\* The number of a bank, written to the registers, shows that bank.
LEMMA BanksReachable ==
    ASSUME BanksTypeOK
    PROVE  AllReachable
  <1> SUFFICES ASSUME cart # NoCart, mbc # 0, NEW b \in 0..(cart.size - 1), b < 128
               PROVE  RomBank(IF b % (IF mbc = 1 THEN 32 ELSE 128) = 0
                              THEN "BANK0" ELSE "BANK1", Bank0Of(b), Bank1Of(b \div 32), 1) = b
    BY Zenon DEF AllReachable
  <1>1. /\ rom_banks_16kib = cart.size /\ cart.size \in RomSizes
        /\ mbc \in {1, 3}
    BY AcceptedSizes
  <1>2. b \in Int /\ b >= 0 /\ b < 128 /\ b % cart.size = b
    BY <1>1, OwnRemainder DEF RomSizes
  <1>3. CASE mbc = 3
    <2>1. Bank0Of(b) = b /\ b % 128 = b
      BY <1>2, <1>3 DEF Bank0Of
    <2>2. CASE b = 0
      <3>1. RomBank("BANK0", Bank0Of(b), Bank1Of(b \div 32), 1) = 0
        BY <1>3 DEF RomBank
      <3> QED
        BY <1>3, <2>1, <2>2, <3>1
    <2>3. CASE b # 0
      <3>1. NotZero(Bank0Of(b)) = b
        BY <2>1, <2>3 DEF NotZero
      <3>2. RomBank("BANK1", Bank0Of(b), Bank1Of(b \div 32), 1) = b
        BY <1>1, <1>2, <1>3, <3>1 DEF RomBank
      <3> QED
        BY <1>3, <2>1, <2>3, <3>2
    <2> QED
      BY <2>2, <2>3
  <1>4. CASE mbc = 1
    <2> DEFINE low == Bank0Of(b)
               high == Bank1Of(b \div 32)
    <2>1. low = b % 32 /\ low \in 0..31 /\ high = b \div 32 /\ b = 32 * high + low
      BY <1>2, <1>4 DEF Bank0Of, Bank1Of
    <2>2. high \in Int
      BY <1>2, <2>1
    <2> HIDE DEF low, high
    <2>3. CASE low = 0
      <3>1. Mbc1Bank("BANK0", low, high, 1) = b
        BY <2>1, <2>2, <2>3 DEF Mbc1Bank
      <3>2. RomBank("BANK0", low, high, 1) = b
        BY <1>1, <1>2, <1>4, <3>1 DEF RomBank
      <3> QED
        BY <1>4, <2>1, <2>3, <3>2 DEF low, high
    <2>4. CASE low # 0
      <3>1. Mbc1Bank("BANK1", low, high, 1) = b
        BY <2>1, <2>2, <2>4 DEF Mbc1Bank, NotZero
      <3>2. RomBank("BANK1", low, high, 1) = b
        BY <1>1, <1>2, <1>4, <3>1 DEF RomBank
      <3> QED
        BY <1>4, <2>1, <2>4, <3>2 DEF low, high
    <2> QED
      BY <2>3, <2>4
  <1> QED
    BY <1>1, <1>3, <1>4

\* In mode 0 the two halves of the region of the ROM show different banks.
LEMMA HalvesApart ==
    ASSUME BanksTypeOK, RegistersFit
    PROVE  HalvesDiffer
  <1> SUFFICES ASSUME cart # NoCart, mbc1_mode = 0, bank0_reg < rom_banks_16kib
               PROVE  RomBank("BANK1", bank0_reg, bank1_reg, 0) #
                          RomBank("BANK0", bank0_reg, bank1_reg, 0)
    BY DEF HalvesDiffer
  <1> DEFINE n == cart.size
             low == NotZero(bank0_reg)
  <1>1. rom_banks_16kib = n /\ n \in RomSizes /\ mbc \in {0, 1, 3}
    BY AcceptedSizes
  <1>2. n \in Int /\ n >= 2
    BY <1>1 DEF RomSizes
  <1>3. bank0_reg \in 0..127 /\ bank1_reg \in 0..15
    BY DEF BanksTypeOK
  <1>4. low \in 1..127 /\ low < n
    BY <1>1, <1>2, <1>3 DEF NotZero
  <1>5. CASE mbc = 0
    BY <1>5 DEF RomBank
  <1>6. CASE mbc = 1
    <2>1. low \in 1..31 /\ bank1_reg \in 0..3
      BY <1>3, <1>4, <1>6 DEF RegistersFit, NotZero
    <2>2. (32 * bank1_reg + low) % n # 0 /\ 0 % n = 0
      BY <1>1, <1>2, <1>4, <2>1, LowBitsRemain, OwnRemainder
    <2>3. /\ Mbc1Bank("BANK1", bank0_reg, bank1_reg, 0) = 32 * bank1_reg + low
          /\ Mbc1Bank("BANK0", bank0_reg, bank1_reg, 0) = 0
      BY DEF Mbc1Bank
    <2> QED
      BY <1>1, <1>6, <2>2, <2>3 DEF RomBank
  <1>7. CASE mbc = 3
    <2>1. low % n = low
      BY <1>1, <1>2, <1>4, OwnRemainder
    <2> QED
      BY <1>1, <1>4, <1>7, <2>1 DEF RomBank
  <1> QED
    BY <1>1, <1>5, <1>6, <1>7

\* Two values of the register of the RAM's bank that are banks of this RAM are two banks.
LEMMA RamApart ==
    ASSUME BanksTypeOK
    PROVE  RamBanksApart
  <1> SUFFICES ASSUME cart # NoCart, has_ram,
                      NEW a \in 0..((IF mbc = 1 THEN 4 ELSE 8) - 1),
                      NEW b \in 0..((IF mbc = 1 THEN 4 ELSE 8) - 1),
                      a # b, a < ram_banks_8kib, b < ram_banks_8kib
               PROVE  RamBank(Bank1Of(a), 1) # RamBank(Bank1Of(b), 1)
    BY Zenon DEF RamBanksApart
  <1>1. ram_banks_8kib \in {1, 4, 8, 16}
    <2>1. Accepted(cart)
      BY DEF BanksTypeOK
    <2>2. ram_banks_8kib \in {0, 1, 4, 8, 16}
      BY <2>1 DEF Accepted, RamSizes, ram_banks_8kib, RamBanks
    <2>3. ram_banks_8kib > 0
      BY <2>1, RamSizeIs DEF has_ram, ram_banks_8kib
    <2> QED
      BY <2>2, <2>3
  <1>2. a % ram_banks_8kib = a /\ b % ram_banks_8kib = b
    BY <1>1
  <1>3. Bank1Of(a) = a /\ Bank1Of(b) = b
    BY DEF Bank1Of
  <1>4. RamBank(a, 1) = a % ram_banks_8kib /\ RamBank(b, 1) = b % ram_banks_8kib
    BY DEF RamBank
  <1> QED
    BY <1>2, <1>3, <1>4

\* With every header that is accepted, the number of a bank of the ROM shows that bank, and
\* no bank, of ROM or of RAM, takes the place of another one.
THEOREM NoBankShadowed == BanksSpec => []BanksApart
  <1>1. BanksTypeOK /\ RegistersFit => BanksApart
    BY BanksReachable, HalvesApart, RamApart DEF BanksApart
  <1> QED
    BY <1>1, TypeCorrect, RegistersStayFit, PTL
===========================================================================
