---------------------------- MODULE LineProofs ----------------------------
(***************************************************************************)
(* A line of the PPU: the objects that the OAM scan finds, the dots of     *)
(* mode 3 that draw it, and the row of the window that comes next.         *)
(*                                                                         *)
(* Of the scan, for all numbers of objects and of slots: the objects kept  *)
(* are the first ones on the line among those entirely scanned.  That is   *)
(* FirstOnLine at the end of the scan; the inductive invariant OamScanInv  *)
(* says it of the M-cycles in between, where a transfer to OAM can hide    *)
(* an object from one of its dots and not from the other.                  *)
(*                                                                         *)
(* Of mode 3, for all registers, objects and writes of the program: it     *)
(* ends, within Longest dots (WithinBudget bounds the dots that are left,  *)
(* Left, from the state of the fetchers and the FIFOs; each dot uses up    *)
(* one of them, and what a dot starts it had set aside), and it draws the  *)
(* line that LineSpec asks for.  For the latter, InPlace says what the     *)
(* FIFOs and fetchers hold at each place of a line, in terms of the        *)
(* registers and the list of objects. PixelsInv, the conjunction, is       *)
(* inductive: KeepsTime and InPlace are taken apart, as only the first     *)
(* withstands writes of the program.                                       *)
(*                                                                         *)
(* Of the window, in frames of the length and the height of the code: its  *)
(* rows come in order.  The inductive invariant is WindowRowsInv.          *)
(*                                                                         *)
(* The specifications share the names of some variables, and no theorem    *)
(* speaks of two of them.                                                  *)
(***************************************************************************)
EXTENDS OamScan, Pixels, FiniteSetTheorems, WellFoundedInduction, TLAPS

---------------------------------------------------------------------------
\* The scan.

\* What is scanned at once, in the course of a scan: n objects have been looked at.
Scans == [objs : Seq(Slots), mode2_addr : 0..OBJECTS, mode2_cycle : {"CHECK", "PUSH", "SKIP"}]

ScanKept(s, n) ==
    /\ s \in Scans /\ s.mode2_cycle = "CHECK" /\ Len(s.objs) <= MAX_OBJS
    /\ IF Len(s.objs) < MAX_OBJS THEN s.mode2_addr = n ELSE s.mode2_addr <= n
    /\ \A k \in 1..Len(s.objs) : s.objs[k].obj < s.mode2_addr /\ s.objs[k].x_read
    /\ \A k \in 2..Len(s.objs) : s.objs[k - 1].obj < s.objs[k].obj

\* The slots hold those objects looked at that the line meets.
ScanFirst(s) ==
    /\ Len(s.objs) = Cardinality({i \in 0..(s.mode2_addr - 1) : Meets(i)})
    /\ \A k \in 1..Len(s.objs) : Meets(s.objs[k].obj) /\ Earlier(s.objs[k].obj) = k

\* The dots that look at one object.
Looked(s) == mode2_dot(mode2_dot(s))

\* When the slots are full the scan stands still.
LEMMA DotsOfFull ==
    ASSUME NEW s, Len(s.objs) = MAX_OBJS
    PROVE  Looked(s) = s
  BY Zenon DEF mode2_dot, Looked

\* Two dots take one object.
LEMMA DotsOfOne ==
    ASSUME NEW s \in Scans, s.mode2_cycle = "CHECK", Len(s.objs) # MAX_OBJS,
           s.mode2_addr \in Objects
    PROVE  /\ Looked(s) \in Scans
           /\ Looked(s).mode2_addr = s.mode2_addr + 1 /\ Looked(s).mode2_cycle = "CHECK"
           /\ Looked(s).objs =
                 IF OnScanline(ReadY(s.mode2_addr))
                 THEN Append(s.objs, [obj |-> s.mode2_addr, x_read |-> ~dma_active])
                 ELSE s.objs
  <1> DEFINE new == [obj |-> s.mode2_addr, x_read |-> ~dma_active]
             q == mode2_dot(s)
             seen == OnScanline(ReadY(s.mode2_addr))
  <1>1. OBJECTS \in Nat /\ s.objs \in Seq(Slots) /\ s.mode2_addr \in 0..(OBJECTS - 1)
    BY OamScanAssumption DEF Scans, Objects
  <1>2. new \in Slots
    <2>1. (~dma_active) \in BOOLEAN
      OBVIOUS
    <2> QED
      BY <2>1, Zenon DEF Slots
  <1>3. q = [s EXCEPT !.mode2_cycle = IF seen THEN "PUSH" ELSE "SKIP"]
    BY DEF mode2_dot
  <1>4. /\ q \in Scans /\ q.objs = s.objs /\ q.mode2_addr = s.mode2_addr
        /\ q.mode2_cycle = IF seen THEN "PUSH" ELSE "SKIP"
    BY <1>3 DEF Scans
  <1>5. Len(q.objs) # MAX_OBJS
    BY <1>4
  <1>6. CASE seen
    <2>1. q.mode2_cycle = "PUSH"
      BY <1>4, <1>6
    <2>2. Looked(s) = [q EXCEPT !.objs = Append(@, [obj |-> q.mode2_addr, x_read |-> ~dma_active]),
                                !.mode2_addr = @ + 1, !.mode2_cycle = "CHECK"]
      BY <1>5, <2>1 DEF mode2_dot, Looked
    <2>3. /\ Looked(s).objs = Append(s.objs, new)
          /\ Looked(s).mode2_addr = s.mode2_addr + 1 /\ Looked(s).mode2_cycle = "CHECK"
      BY <1>4, <2>2 DEF Scans
    <2>4. Append(s.objs, new) \in Seq(Slots) /\ s.mode2_addr + 1 \in 0..OBJECTS
      BY <1>1, <1>2
    <2>5. Looked(s) \in Scans
      BY <1>4, <2>2, <2>3, <2>4 DEF Scans
    <2> QED
      BY <1>6, <2>3, <2>5
  <1>7. CASE ~seen
    <2>1. q.mode2_cycle = "SKIP"
      BY <1>4, <1>7
    <2>2. Looked(s) = [q EXCEPT !.mode2_addr = @ + 1, !.mode2_cycle = "CHECK"]
      BY <1>5, <2>1 DEF mode2_dot, Looked
    <2>3. /\ Looked(s).objs = s.objs
          /\ Looked(s).mode2_addr = s.mode2_addr + 1 /\ Looked(s).mode2_cycle = "CHECK"
      BY <1>4, <2>2 DEF Scans
    <2>4. s.mode2_addr + 1 \in 0..OBJECTS
      BY <1>1
    <2>5. Looked(s) \in Scans
      BY <1>4, <2>2, <2>3, <2>4 DEF Scans
    <2> QED
      BY <1>7, <2>3, <2>5
  <1> QED
    BY <1>6, <1>7

\* An object that the scan pushes is one that the line meets; while a transfer runs, there
\* is none, as no line is that of the value that is read then.
LEMMA PushedMeets ==
    ASSUME NEW i \in Objects, TypeOK
    PROVE  /\ dma_active => ~OnScanline(ReadY(i))
           /\ ~dma_active => (OnScanline(ReadY(i)) <=> Meets(i))
  <1> DEFINE y == ReadY(i)
             height == IF tall THEN 16 ELSE 8
  <1>1. oam[i] \in 0..255 /\ ly_reg \in 0..143
    <2>1. oam \in [Objects -> Ys] /\ ly_reg \in 0..(GB_HEIGHT - 1)
      BY Zenon DEF TypeOK
    <2>2. oam[i] \in Ys
      BY <2>1, Zenon
    <2>3. Ys \subseteq 0..255 /\ GB_HEIGHT \in 1..144
      BY OamScanAssumption, Zenon
    <2>4. oam[i] \in 0..255
      BY <2>2, <2>3, Zenon
    <2>5. ly_reg \in 0..143
      BY <2>1, <2>3
    <2> QED
      BY <2>4, <2>5, Zenon
  <1>2. height \in {8, 16} /\ (IF tall THEN 15 ELSE 7) = height - 1
    <2>1. CASE tall
      BY <2>1
    <2>2. CASE ~tall
      BY <2>2
    <2> QED
      BY <2>1, <2>2
  <1>3. ASSUME dma_active PROVE ~OnScanline(ReadY(i))
    <2>1. y = 255
      BY <1>3, Zenon DEF ReadY
    <2>2. ~(ly_reg >= 255 - 16 /\ ly_reg < 255 - 16 + height)
      BY <1>1, <1>2
    <2> QED
      BY <2>1, <2>2, Zenon DEF OnScanline
  <1>4. ASSUME ~dma_active PROVE OnScanline(ReadY(i)) <=> Meets(i)
    <2>1. y = oam[i]
      BY <1>4, Zenon DEF ReadY
    <2>2. (ly_reg >= oam[i] - 16 /\ ly_reg < oam[i] - 16 + height)
          <=> (\E row \in 0..(height - 1) : oam[i] + row = ly_reg + 16)
      <3>1. ASSUME ly_reg >= oam[i] - 16, ly_reg < oam[i] - 16 + height
            PROVE  ly_reg + 16 - oam[i] \in 0..(height - 1)
                   /\ oam[i] + (ly_reg + 16 - oam[i]) = ly_reg + 16
        BY <1>1, <1>2, <3>1, SMTT(30)
      <3>2. ASSUME NEW row \in 0..(height - 1), oam[i] + row = ly_reg + 16
            PROVE  ly_reg >= oam[i] - 16 /\ ly_reg < oam[i] - 16 + height
        BY <1>1, <1>2, <3>2, SMTT(30)
      <3> QED
        BY <3>1, <3>2, Zenon
    <2> QED
      BY <1>2, <2>1, <2>2, Zenon DEF OnScanline, Meets
  <1> QED
    BY <1>3, <1>4, Zenon

\* The objects that the line meets, of the first n.
Meeting(n) == {i \in 0..(n - 1) : Meets(i)}

\* There are finitely many.
LEMMA MeetingFinite ==
    ASSUME NEW n \in Nat
    PROVE  IsFiniteSet(Meeting(n)) /\ Cardinality(Meeting(n)) \in Nat
  <1>1. IsFiniteSet(0..(n - 1))
    BY FS_Interval
  <1>2. IsFiniteSet(Meeting(n))
    BY <1>1, FS_Subset, Zenon DEF Meeting
  <1> QED
    BY <1>2, FS_CardinalityType, Zenon

\* One object more is counted if the line meets it.
LEMMA MeetingNext ==
    ASSUME NEW n \in Nat
    PROVE  Cardinality(Meeting(n + 1)) = Cardinality(Meeting(n)) + IF Meets(n) THEN 1 ELSE 0
  <1>1. n \notin Meeting(n) /\ n \in 0..((n + 1) - 1)
    BY DEF Meeting
  <1>2. \A i : i \in 0..((n + 1) - 1) <=> i \in 0..(n - 1) \/ i = n
    OBVIOUS
  <1>3. CASE Meets(n)
    <2>1. Meeting(n + 1) = Meeting(n) \cup {n}
      BY <1>2, <1>3, Zenon DEF Meeting
    <2>2. Cardinality(Meeting(n) \cup {n}) = Cardinality(Meeting(n)) + 1
      BY <1>1, MeetingFinite, FS_AddElement, Zenon
    <2> QED
      BY <1>3, <2>1, <2>2
  <1>4. CASE ~Meets(n)
    <2>1. Meeting(n + 1) = Meeting(n)
      BY <1>2, <1>4, Zenon DEF Meeting
    <2> QED
      BY <1>4, <2>1, MeetingFinite
  <1> QED
    BY <1>3, <1>4

\* Earlier counts the objects up to and with its own; it grows from one object that
\* the line meets to the next.
LEMMA EarlierIs ==
    ASSUME NEW i \in Objects
    PROVE  Earlier(i) = Cardinality(Meeting(i + 1))
  <1>1. \A j : (j \in Objects /\ j <= i) <=> j \in 0..((i + 1) - 1)
    BY OamScanAssumption DEF Objects
  <1>2. {j \in Objects : j <= i /\ Meets(j)} = Meeting(i + 1)
    BY <1>1, Zenon DEF Meeting
  <1> QED
    BY <1>2, Zenon DEF Earlier

\* The count only grows.
LEMMA MeetingGrows ==
    ASSUME NEW m \in Nat, NEW n \in Nat, m <= n
    PROVE  Cardinality(Meeting(m)) <= Cardinality(Meeting(n))
  <1>1. Meeting(m) \subseteq Meeting(n)
    BY DEF Meeting
  <1> QED
    BY <1>1, MeetingFinite, FS_Subset, Zenon

\* Of two objects that the line meets the later one has more before it.
LEMMA EarlierGrows ==
    ASSUME NEW i \in Objects, NEW j \in Objects, i < j, Meets(j)
    PROVE  Earlier(i) < Earlier(j)
  <1>1. i + 1 \in Nat /\ j \in Nat /\ i + 1 <= j
    BY DEF Objects
  <1>2. Cardinality(Meeting(i + 1)) <= Cardinality(Meeting(j))
    BY <1>1, MeetingGrows
  <1>3. Cardinality(Meeting(j + 1)) = Cardinality(Meeting(j)) + 1
    BY <1>1, MeetingNext
  <1>4. Cardinality(Meeting(i + 1)) \in Nat /\ Cardinality(Meeting(j)) \in Nat
    BY <1>1, MeetingFinite
  <1> QED
    BY <1>2, <1>3, <1>4, EarlierIs

---------------------------------------------------------------------------
\* What two dots keep.
LEMMA LookedKeeps ==
    ASSUME TypeOK, NEW n \in Objects, NEW s, ScanKept(s, n)
    PROVE  /\ ScanKept(Looked(s), n + 1)
           /\ dma_active => Looked(s).objs = s.objs
           /\ ~dma_active /\ ScanFirst(s) => ScanFirst(Looked(s))
  <1> DEFINE r == Looked(s)
             a == s.mode2_addr
             new == [obj |-> a, x_read |-> ~dma_active]
             taken == Append(s.objs, new)
             seen == OnScanline(ReadY(a))
  <1>0. /\ OBJECTS \in Nat /\ MAX_OBJS \in Nat /\ n \in 0..(OBJECTS - 1)
        /\ s \in Scans /\ s.mode2_cycle = "CHECK" /\ Len(s.objs) <= MAX_OBJS
        /\ s.objs \in Seq(Slots) /\ Len(s.objs) \in Nat /\ a \in Nat
    BY OamScanAssumption DEF ScanKept, Scans, Objects
  <1>1. CASE Len(s.objs) = MAX_OBJS
    <2>1. r = s
      BY <1>1, DotsOfFull
    <2>2. a <= n + 1
      BY <1>0, <1>1 DEF ScanKept
    <2> QED
      BY <1>0, <1>1, <2>1, <2>2 DEF ScanKept
  <1>2. CASE Len(s.objs) < MAX_OBJS
    <2>1. a = n /\ a \in Objects
      BY <1>2 DEF ScanKept
    <2>2. /\ r \in Scans
          /\ r.mode2_addr = a + 1 /\ r.mode2_cycle = "CHECK"
          /\ r.objs = IF seen THEN taken ELSE s.objs
      BY <1>0, <1>2, <2>1, DotsOfOne
    <2>3. /\ \A k \in 1..Len(s.objs) : s.objs[k].obj < a /\ s.objs[k].x_read
          /\ \A k \in 2..Len(s.objs) : s.objs[k - 1].obj < s.objs[k].obj
      BY <1>0 DEF ScanKept
    <2>4. CASE seen
      <3>1. ~dma_active /\ Meets(a)
        BY <2>1, <2>4, PushedMeets, Zenon
      <3>2. new \in Slots /\ new.obj = a /\ new.x_read
        BY <2>1, <3>1 DEF Slots
      <3>3. /\ r.objs = taken /\ taken \in Seq(Slots) /\ Len(taken) = Len(s.objs) + 1
            /\ \A k \in 1..Len(s.objs) : taken[k] = s.objs[k]
            /\ taken[Len(s.objs) + 1] = new
        BY <1>0, <2>2, <2>4, <3>2
      <3>4. ScanKept(r, n + 1)
        <4>1. r \in Scans
          BY <2>2
        <4>2. \A k \in 1..Len(taken) : taken[k].obj < a + 1 /\ taken[k].x_read
          <5>1. SUFFICES ASSUME NEW k \in 1..Len(taken)
                         PROVE  taken[k].obj < a + 1 /\ taken[k].x_read
            OBVIOUS
          <5>2. CASE k \in 1..Len(s.objs)
            <6>1. taken[k] = s.objs[k] /\ s.objs[k] \in Slots
              BY <1>0, <3>3, <5>2
            <6>2. s.objs[k].obj \in Int
              BY <6>1 DEF Slots, Objects
            <6> QED
              BY <1>0, <2>3, <5>2, <6>1, <6>2
          <5>3. CASE k = Len(s.objs) + 1
            BY <1>0, <3>2, <3>3, <5>3
          <5> QED
            BY <1>0, <3>3, <5>2, <5>3
        <4>3. \A k \in 2..Len(taken) : taken[k - 1].obj < taken[k].obj
          <5>1. SUFFICES ASSUME NEW k \in 2..Len(taken)
                         PROVE  taken[k - 1].obj < taken[k].obj
            OBVIOUS
          <5>2. CASE k \in 2..Len(s.objs)
            BY <1>0, <2>3, <3>3, <5>2
          <5>3. CASE k = Len(s.objs) + 1
            <6>1. k - 1 \in 1..Len(s.objs) /\ taken[k - 1] = s.objs[k - 1] /\ taken[k] = new
              BY <1>0, <3>3, <5>1, <5>3
            <6> QED
              BY <2>3, <3>2, <6>1
          <5> QED
            BY <1>0, <3>3, <5>2, <5>3
        <4> QED
          BY <1>0, <1>2, <2>1, <2>2, <3>3, <4>1, <4>2, <4>3, SMTT(30) DEF ScanKept
      <3>5. ASSUME ScanFirst(s) PROVE ScanFirst(r)
        <4>1. Len(s.objs) = Cardinality(Meeting(a))
          BY <3>5, Zenon DEF ScanFirst, Meeting
        <4>2. Cardinality(Meeting(a + 1)) = Len(s.objs) + 1
          BY <1>0, <3>1, <4>1, MeetingNext
        <4>3. Earlier(a) = Len(s.objs) + 1
          BY <2>1, <4>2, EarlierIs
        <4>4. \A k \in 1..Len(taken) : Meets(taken[k].obj) /\ Earlier(taken[k].obj) = k
          <5>1. SUFFICES ASSUME NEW k \in 1..Len(taken)
                         PROVE  Meets(taken[k].obj) /\ Earlier(taken[k].obj) = k
            OBVIOUS
          <5>2. CASE k \in 1..Len(s.objs)
            <6>1. taken[k] = s.objs[k]
              BY <3>3, <5>2
            <6> QED
              BY <3>5, <5>2, <6>1, Zenon DEF ScanFirst
          <5>3. CASE k = Len(s.objs) + 1
            <6>1. taken[k].obj = a
              BY <3>2, <3>3, <5>3
            <6> QED
              BY <3>1, <4>3, <5>3, <6>1, Zenon
          <5> QED
            BY <1>0, <3>3, <5>2, <5>3
        <4> QED
          BY <2>2, <3>3, <4>2, <4>4, Zenon DEF ScanFirst, Meeting
      <3> QED
        BY <3>1, <3>4, <3>5
    <2>5. CASE ~seen
      <3>1. r.objs = s.objs
        BY <2>2, <2>5
      <3>2. ScanKept(r, n + 1)
        <4>1. r \in Scans
          BY <2>2
        <4>2. \A k \in 1..Len(s.objs) : s.objs[k].obj < a + 1 /\ s.objs[k].x_read
          <5>1. SUFFICES ASSUME NEW k \in 1..Len(s.objs)
                         PROVE  s.objs[k].obj < a + 1 /\ s.objs[k].x_read
            OBVIOUS
          <5>2. s.objs[k] \in Slots
            BY <1>0
          <5>3. s.objs[k].obj \in Int
            BY <5>2 DEF Slots, Objects
          <5> QED
            BY <1>0, <2>3, <5>3
        <4> QED
          BY <1>0, <1>2, <2>1, <2>2, <2>3, <3>1, <4>1, <4>2 DEF ScanKept
      <3>3. ASSUME ~dma_active, ScanFirst(s) PROVE ScanFirst(r)
        <4>1. ~Meets(a)
          BY <2>1, <2>5, <3>3, PushedMeets, Zenon
        <4>2. Cardinality(Meeting(a + 1)) = Cardinality(Meeting(a))
          <5>1. Cardinality(Meeting(a + 1)) = Cardinality(Meeting(a)) + 0
            BY <1>0, <4>1, MeetingNext
          <5>2. Cardinality(Meeting(a)) \in Nat
            BY <1>0, MeetingFinite
          <5> QED
            BY <5>1, <5>2
        <4> QED
          BY <2>2, <3>1, <3>3, <4>2, Zenon DEF ScanFirst, Meeting
      <3> QED
        BY <3>1, <3>2, <3>3, Zenon
    <2> QED
      BY <2>4, <2>5, Zenon
  <1> QED
    BY <1>0, <1>1, <1>2

---------------------------------------------------------------------------
\* The variables of the scan, and what is scanned at once.
LEMMA ScanOfState ==
    ASSUME OamScanInv
    PROVE  /\ ScanKept(Scan, dots \div 2) /\ dots \in Nat /\ dots % 4 = 0
           /\ mode \in {"oam", "draw"} /\ quiet => ScanFirst(Scan)
  <1>1. /\ Scan.objs = scanline_objs /\ Scan.mode2_addr = mode2_addr
        /\ Scan.mode2_cycle = mode2_cycle
    BY DEF Scan
  <1>2. Scan \in Scans
    BY Zenon DEF OamScanInv, TypeOK, Scan, Scans
  <1>3. /\ dots \in 0..(2 * OBJECTS) /\ dots % 4 = 0 /\ mode2_cycle = "CHECK"
        /\ Len(scanline_objs) <= MAX_OBJS /\ mode2_addr \in 0..OBJECTS
        /\ IF Len(scanline_objs) < MAX_OBJS THEN 2 * mode2_addr = dots ELSE 2 * mode2_addr <= dots
        /\ \A k \in 1..Len(scanline_objs) : scanline_objs[k].obj < mode2_addr
        /\ \A k \in 1..Len(scanline_objs) : scanline_objs[k].x_read
        /\ \A k \in 2..Len(scanline_objs) : scanline_objs[k - 1].obj < scanline_objs[k].obj
    BY Zenon DEF OamScanInv, TypeOK, ScanInStep, BothRead, NoObjectTwice, MODE2_OAM_T_CYCLES, T_M_RATIO
  <1>4. dots \in Nat /\ dots = 2 * (dots \div 2)
    BY <1>3, OamScanAssumption
  <1>5. IF Len(scanline_objs) < MAX_OBJS THEN mode2_addr = dots \div 2
        ELSE mode2_addr <= dots \div 2
    BY <1>3, <1>4, OamScanAssumption
  <1>6. ScanKept(Scan, dots \div 2)
    BY <1>1, <1>2, <1>3, <1>5, Zenon DEF ScanKept
  <1>7. ASSUME mode \in {"oam", "draw"}, quiet PROVE ScanFirst(Scan)
    BY <1>1, <1>7, Zenon DEF OamScanInv, FirstSoFar, ScanFirst
  <1> QED
    BY <1>3, <1>4, <1>6, <1>7

\* ... and back.
LEMMA StateOfScan ==
    ASSUME NEW s, NEW n \in 0..OBJECTS, ScanKept(s, n), Becomes(s), dots' = 2 * n, n % 2 = 0,
           mode' = "oam" => n < OBJECTS, mode' = "draw" => n = OBJECTS,
           oam' \in [Objects -> Ys], dma_active' \in BOOLEAN, tall' \in BOOLEAN,
           mode' \in {"off", "oam", "draw", "blank"}, ly_reg' \in 0..(GB_HEIGHT - 1)
    PROVE  TypeOK' /\ NoObjectTwice' /\ BothRead' /\ ScanInStep'
  <1>1. /\ scanline_objs' = s.objs /\ mode2_addr' = s.mode2_addr /\ mode2_cycle' = s.mode2_cycle
    BY DEF Becomes
  <1>2. /\ s.objs \in Seq(Slots) /\ s.mode2_addr \in 0..OBJECTS /\ s.mode2_cycle = "CHECK"
        /\ Len(s.objs) <= MAX_OBJS
        /\ IF Len(s.objs) < MAX_OBJS THEN s.mode2_addr = n ELSE s.mode2_addr <= n
        /\ \A k \in 1..Len(s.objs) : s.objs[k].obj < s.mode2_addr /\ s.objs[k].x_read
        /\ \A k \in 2..Len(s.objs) : s.objs[k - 1].obj < s.objs[k].obj
    BY DEF ScanKept, Scans
  <1>3. OBJECTS \in Nat /\ dots' \in 0..(2 * OBJECTS) /\ dots' % 4 = 0
    BY OamScanAssumption
  <1>4. /\ mode' = "oam" => dots' < 2 * OBJECTS
        /\ mode' = "draw" => dots' = 2 * OBJECTS
        /\ IF Len(s.objs) < MAX_OBJS THEN 2 * s.mode2_addr = dots' ELSE 2 * s.mode2_addr <= dots'
    BY <1>2, <1>3, SMTT(30)
  <1>5. TypeOK'
    BY <1>1, <1>2, <1>3, Zenon DEF TypeOK, MODE2_OAM_T_CYCLES
  <1>6. NoObjectTwice' /\ BothRead'
    BY <1>1, <1>2, Zenon DEF NoObjectTwice, BothRead
  <1>7. ScanInStep'
    BY <1>1, <1>2, <1>3, <1>4, Zenon DEF ScanInStep, MODE2_OAM_T_CYCLES, T_M_RATIO
  <1> QED
    BY <1>5, <1>6, <1>7

\* Where the scan stands still, so do the parts about it.
LEMMA ScanStandsStill ==
    ASSUME OamScanInv, UNCHANGED <<scanline_objs, mode2_addr, mode2_cycle, dots>>,
           mode' \in {mode, "blank", "off"},
           ly_reg' = ly_reg,
           oam' \in [Objects -> Ys], dma_active' \in BOOLEAN, tall' \in BOOLEAN
    PROVE  TypeOK' /\ NoObjectTwice' /\ BothRead' /\ ScanInStep'
  <1> DEFINE n == dots \div 2
  <1>1. ScanKept(Scan, n) /\ dots \in Nat /\ dots % 4 = 0
    BY ScanOfState
  <1>2. Becomes(Scan)
    BY DEF Becomes, Scan
  <1>3. /\ mode \in {"off", "oam", "draw", "blank"} /\ ly_reg \in 0..(GB_HEIGHT - 1)
        /\ dots \in 0..(2 * OBJECTS)
        /\ mode = "oam" => dots < 2 * OBJECTS
        /\ mode = "draw" => dots = 2 * OBJECTS
    BY Zenon DEF OamScanInv, TypeOK, ScanInStep, MODE2_OAM_T_CYCLES
  <1>4. OBJECTS \in Nat
    BY OamScanAssumption
  <1>5. /\ n \in 0..OBJECTS /\ dots' = 2 * n /\ n % 2 = 0
        /\ mode = "oam" => n < OBJECTS
        /\ mode = "draw" => n = OBJECTS
    BY <1>1, <1>3, <1>4
  <1>6. /\ mode' \in {"off", "oam", "draw", "blank"} /\ ly_reg' \in 0..(GB_HEIGHT - 1)
        /\ mode' = "oam" => n < OBJECTS
        /\ mode' = "draw" => n = OBJECTS
    BY <1>3, <1>5, Zenon
  <1> HIDE DEF n
  <1> QED
    BY <1>1, <1>2, <1>5, <1>6, StateOfScan, Zenon

\* What the line meets depends on OAM, the line and the size of the objects.
LEMMA FirstOfScan ==
    ASSUME NEW s, Becomes(s), UNCHANGED <<oam, tall, ly_reg>>, ScanFirst(s)
    PROVE  FirstSoFar'
  <1>1. \A i : Meets(i)' = Meets(i)
    BY DEF Meets
  <1>2. \A i : Earlier(i)' = Earlier(i)
    BY <1>1, Zenon DEF Earlier
  <1>3. scanline_objs' = s.objs /\ mode2_addr' = s.mode2_addr
    BY DEF Becomes
  <1>4. {i \in 0..(mode2_addr - 1) : Meets(i)}' = {i \in 0..(s.mode2_addr - 1) : Meets(i)}
    BY <1>1, <1>3, Zenon
  <1> QED
    BY <1>1, <1>2, <1>3, <1>4, Zenon DEF FirstSoFar, ScanFirst

\* set_mode(MODE2_OAM), also at the start of the program.
LEMMA ScanBegins ==
    /\ ScanKept(Begun, 0)
    /\ ScanFirst(Begun)
  <1> DEFINE s == Begun
  <1>1. s.objs = <<>> /\ s.mode2_addr = 0 /\ s.mode2_cycle = "CHECK"
    BY DEF Begun
  <1>2. OBJECTS \in Nat /\ MAX_OBJS \in Nat /\ <<>> \in Seq(Slots) /\ Len(<<>>) = 0
    BY OamScanAssumption
  <1>3. s \in Scans
    BY <1>2 DEF Scans, Begun
  <1>4. ScanKept(s, 0)
    BY <1>1, <1>2, <1>3 DEF ScanKept
  <1>5. {i \in 0..(0 - 1) : Meets(i)} = {}
    OBVIOUS
  <1>6. ScanFirst(s)
    BY <1>1, <1>2, <1>5, FS_EmptySet DEF ScanFirst
  <1> QED
    BY <1>4, <1>6

\* The first state.
LEMMA OamScanInit == OamScanAssumption /\ Init => OamScanInv
  <1> SUFFICES ASSUME Init PROVE OamScanInv
    OBVIOUS
  <1>0. OBJECTS \in Nat \ {0} /\ MAX_OBJS \in Nat \ {0} /\ GB_HEIGHT \in Nat \ {0} /\ 0 \in Ys
    BY OamScanAssumption
  <1>1. TypeOK
    <2>1. oam \in [Objects -> Ys]
      BY <1>0, Zenon DEF Init
    <2>2. dma_active \in BOOLEAN /\ tall \in BOOLEAN
      BY Zenon DEF Init
    <2>3. /\ scanline_objs \in Seq(Slots) /\ Len(scanline_objs) <= MAX_OBJS
          /\ mode2_addr \in 0..OBJECTS /\ dots \in 0..MODE2_OAM_T_CYCLES
          /\ ly_reg \in 0..(GB_HEIGHT - 1)
      BY <1>0 DEF Init, MODE2_OAM_T_CYCLES
    <2> QED
      BY <2>1, <2>2, <2>3, Zenon DEF Init, TypeOK
  <1>2. NoObjectTwice /\ BothRead
    BY DEF Init, NoObjectTwice, BothRead
  <1>3. HiddenByDma /\ HiddenSoFar
    BY Zenon DEF Init, HiddenByDma, HiddenSoFar
  <1>4. ScanInStep
    BY <1>0 DEF Init, ScanInStep, MODE2_OAM_T_CYCLES, T_M_RATIO
  <1>5. FirstSoFar
    <2>1. {i \in 0..(mode2_addr - 1) : Meets(i)} = {}
      BY DEF Init
    <2> QED
      BY <2>1, FS_EmptySet DEF Init, FirstSoFar
  <1> QED
    BY <1>1, <1>2, <1>3, <1>4, <1>5, Zenon DEF OamScanInv

\* An M-cycle of the scan.
LEMMA ScanCycleKeeps == OamScanInv /\ ScanCycle => OamScanInv'
  <1> SUFFICES ASSUME OamScanInv, ScanCycle PROVE OamScanInv'
    OBVIOUS
  <1> DEFINE n == dots \div 2
             s1 == Looked(Scan)
             s2 == Looked(s1)
  <1>0. TypeOK
    BY Zenon DEF OamScanInv
  <1>1. /\ ScanKept(Scan, n) /\ dots \in Nat /\ dots % 4 = 0
        /\ quiet => ScanFirst(Scan)
    BY ScanOfState DEF ScanCycle
  <1>2. /\ OBJECTS \in Nat /\ OBJECTS % 2 = 0
    BY OamScanAssumption
  <1>3. /\ dots < 2 * OBJECTS /\ Becomes(s2) /\ dots' = dots + 4
        /\ mode' = IF dots' = 2 * OBJECTS THEN "draw" ELSE "oam"
        /\ quiet' = (quiet /\ ~dma_active) /\ covered' = (covered /\ dma_active)
        /\ UNCHANGED <<oam, dma_active, tall, ly_reg>>
    BY Zenon DEF OamScanInv, ScanInStep, ScanCycle, Looked, MODE2_OAM_T_CYCLES, T_M_RATIO
  <1>4. /\ n \in Objects /\ n + 1 \in Objects /\ n + 2 \in 0..OBJECTS /\ (n + 1) + 1 = n + 2
        /\ dots' = 2 * (n + 2) /\ (n + 2) % 2 = 0
    BY <1>1, <1>2, <1>3 DEF Objects
  <1>5. /\ mode' = "oam" => n + 2 < OBJECTS
        /\ mode' = "draw" => n + 2 = OBJECTS
        /\ mode' \in {"off", "oam", "draw", "blank"}
    BY <1>2, <1>3, <1>4
  <1> HIDE DEF n
  <1>6. /\ ScanKept(s1, n + 1)
        /\ dma_active => s1.objs = Scan.objs
        /\ ~dma_active /\ ScanFirst(Scan) => ScanFirst(s1)
    BY <1>0, <1>1, <1>4, LookedKeeps
  <1>7. /\ ScanKept(s2, n + 2)
        /\ dma_active => s2.objs = s1.objs
        /\ ~dma_active /\ ScanFirst(s1) => ScanFirst(s2)
    BY <1>0, <1>4, <1>6, LookedKeeps
  <1>8. TypeOK' /\ NoObjectTwice' /\ BothRead' /\ ScanInStep'
    <2>1. /\ oam' \in [Objects -> Ys] /\ dma_active' \in BOOLEAN /\ tall' \in BOOLEAN
          /\ ly_reg' \in 0..(GB_HEIGHT - 1)
      BY <1>0, <1>3, Zenon DEF TypeOK
    <2> QED
      BY <1>3, <1>4, <1>5, <1>7, <2>1, StateOfScan, Zenon
  <1>9. ASSUME covered' PROVE scanline_objs' = <<>>
    <2>1. covered /\ dma_active /\ mode = "oam"
      BY <1>3, <1>9, Zenon DEF ScanCycle
    <2>2. scanline_objs = <<>>
      BY <2>1, Zenon DEF OamScanInv, HiddenSoFar
    <2>3. s2.objs = Scan.objs
      BY <1>6, <1>7, <2>1, Zenon
    <2>4. Scan.objs = scanline_objs
      BY DEF Scan
    <2> QED
      BY <1>3, <2>2, <2>3, <2>4, Zenon DEF Becomes
  <1>10. HiddenByDma' /\ HiddenSoFar'
    BY <1>9, Zenon DEF HiddenByDma, HiddenSoFar
  <1>11. FirstSoFar'
    <2>1. CASE quiet'
      <3>1. quiet /\ ~dma_active
        BY <1>3, <2>1, Zenon
      <3>2. ScanFirst(s2)
        BY <1>1, <1>6, <1>7, <3>1, Zenon
      <3> QED
        BY <1>3, <3>2, FirstOfScan, Zenon
    <2>2. CASE ~quiet'
      BY <2>2, Zenon DEF FirstSoFar
    <2> QED
      BY <2>1, <2>2
  <1> QED
    BY <1>8, <1>10, <1>11, Zenon DEF OamScanInv

\* Between the lines, and when the LCD is turned on, a scan begins anew.
LEMMA BeginningKeeps == OamScanInv /\ (BeginLine \/ LcdOn) => OamScanInv'
  <1> SUFFICES ASSUME OamScanInv, BeginLine \/ LcdOn PROVE OamScanInv'
    OBVIOUS
  <1>0. OBJECTS \in Nat \ {0} /\ GB_HEIGHT \in Nat \ {0} /\ 0 \in 0..OBJECTS /\ 0 < OBJECTS
    BY OamScanAssumption
  <1>1. /\ mode' = "oam" /\ Becomes(Begun) /\ dots' = 0
        /\ UNCHANGED <<oam, dma_active, tall>>
        /\ ly_reg' = 0 \/ ly_reg' = (ly_reg + 1) % GB_HEIGHT
    BY Zenon DEF BeginLine, LcdOn
  <1>2. /\ oam' \in [Objects -> Ys] /\ dma_active' \in BOOLEAN /\ tall' \in BOOLEAN
        /\ ly_reg \in 0..(GB_HEIGHT - 1)
    BY <1>1, Zenon DEF OamScanInv, TypeOK
  <1>3. ly_reg' \in 0..(GB_HEIGHT - 1)
    BY <1>0, <1>1, <1>2
  <1>4. scanline_objs' = <<>> /\ mode2_addr' = 0
    BY <1>1 DEF Becomes, Begun, Scan
  <1>5. TypeOK' /\ NoObjectTwice' /\ BothRead' /\ ScanInStep'
    <2>1. dots' = 2 * 0 /\ 0 % 2 = 0 /\ mode' # "draw" /\ mode' \in {"off", "oam", "draw", "blank"}
      BY <1>1
    <2> QED
      BY <1>0, <1>1, <1>2, <1>3, <2>1, ScanBegins, StateOfScan, Zenon
  <1>6. HiddenByDma' /\ HiddenSoFar'
    BY <1>4, Zenon DEF HiddenByDma, HiddenSoFar
  <1>7. FirstSoFar'
    <2>1. {i \in 0..(mode2_addr' - 1) : Meets(i)'} = {}
      BY <1>4
    <2>2. Cardinality({i \in 0..(mode2_addr' - 1) : Meets(i)'}) = 0
      BY <2>1, FS_EmptySet, Zenon
    <2> QED
      BY <1>4, <2>2 DEF FirstSoFar
  <1> QED
    BY <1>5, <1>6, <1>7, Zenon DEF OamScanInv

\* Every step keeps the invariant.
LEMMA OamScanStep == OamScanInv /\ [Next]_vars => OamScanInv'
  <1> SUFFICES ASSUME OamScanInv, [Next]_vars PROVE OamScanInv'
    OBVIOUS
  <1>0. TypeOK /\ HiddenByDma /\ HiddenSoFar /\ FirstSoFar
    BY Zenon DEF OamScanInv
  <1>1. CASE ScanCycle
    BY <1>1, ScanCycleKeeps
  <1>2. CASE BeginLine \/ LcdOn
    BY <1>2, BeginningKeeps
  <1>3. CASE EndDraw \/ LcdOff
    <2>1. /\ mode' \in {"blank", "off"}
          /\ UNCHANGED <<oam, dma_active, tall, ly_reg, scanline_objs, mode2_addr, mode2_cycle, dots,
                         quiet, covered>>
      BY <1>3, Zenon DEF EndDraw, LcdOff
    <2>2. TypeOK' /\ NoObjectTwice' /\ BothRead' /\ ScanInStep'
      <3>1. /\ oam' \in [Objects -> Ys] /\ dma_active' \in BOOLEAN /\ tall' \in BOOLEAN
        BY <1>0, <2>1, Zenon DEF TypeOK
      <3>2. mode' \in {mode, "blank", "off"}
        BY <2>1, Zenon
      <3> QED
        BY <2>1, <3>1, <3>2, ScanStandsStill, Zenon
    <2>3. mode' # "oam" /\ mode' # "draw"
      BY <2>1
    <2> QED
      BY <2>2, <2>3, Zenon DEF OamScanInv, HiddenByDma, HiddenSoFar, FirstSoFar
  <1>4. CASE ChangeSize \/ DmaSwitch \/ DmaWrite \/ CpuWrite \/ UNCHANGED vars
    <2>1. /\ UNCHANGED scan /\ covered' = covered
          /\ \/ quiet' = FALSE
             \/ quiet' = quiet /\ UNCHANGED <<oam, tall>>
             \/ mode \notin {"oam", "draw"}
      BY <1>4, Zenon DEF ChangeSize, DmaSwitch, DmaWrite, CpuWrite, vars
    <2>2. UNCHANGED <<mode, ly_reg, scanline_objs, mode2_addr, mode2_cycle, dots>>
      BY <2>1, Zenon DEF scan
    <2>3. /\ oam' \in [Objects -> Ys] /\ dma_active' \in BOOLEAN /\ tall' \in BOOLEAN
      <3>1. CASE ChangeSize
        <4>1. oam' = oam /\ dma_active' = dma_active /\ tall' = ~tall
          BY <3>1, Zenon DEF ChangeSize
        <4>2. (~tall) \in BOOLEAN
          OBVIOUS
        <4> QED
          BY <1>0, <4>1, <4>2, Zenon DEF TypeOK
      <3>2. CASE DmaSwitch
        <4>1. oam' = oam /\ tall' = tall /\ dma_active' = ~dma_active
          BY <3>2, Zenon DEF DmaSwitch
        <4>2. (~dma_active) \in BOOLEAN
          OBVIOUS
        <4> QED
          BY <1>0, <4>1, <4>2, Zenon DEF TypeOK
      <3>3. CASE DmaWrite \/ CpuWrite
        <4>1. PICK i \in Objects, y \in Ys : oam' = [oam EXCEPT ![i] = y]
          BY <3>3, Zenon DEF DmaWrite, CpuWrite
        <4>2. oam \in [Objects -> Ys]
          BY <1>0, Zenon DEF TypeOK
        <4>3. oam' \in [Objects -> Ys]
          BY <4>1, <4>2
        <4>4. dma_active' = dma_active /\ tall' = tall
          BY <3>3, Zenon DEF DmaWrite, CpuWrite
        <4> QED
          BY <1>0, <4>3, <4>4, Zenon DEF TypeOK
      <3>4. CASE UNCHANGED vars
        <4>1. oam' = oam /\ tall' = tall /\ dma_active' = dma_active
          BY <3>4, Zenon DEF vars
        <4> QED
          BY <1>0, <4>1, Zenon DEF TypeOK
      <3> QED
        BY <1>4, <3>1, <3>2, <3>3, <3>4, Zenon
    <2>4. TypeOK' /\ NoObjectTwice' /\ BothRead' /\ ScanInStep'
      <3>1. mode' \in {mode, "blank", "off"}
        BY <2>2, Zenon
      <3> QED
        BY <2>2, <2>3, <3>1, ScanStandsStill, Zenon
    <2>5. HiddenByDma' /\ HiddenSoFar'
      BY <1>0, <2>1, <2>2, Zenon DEF HiddenByDma, HiddenSoFar
    <2>6. FirstSoFar'
      <3>1. CASE mode' \in {"oam", "draw"} /\ quiet'
        <4>1. quiet /\ mode \in {"oam", "draw"} /\ UNCHANGED <<oam, tall>>
          BY <2>1, <2>2, <3>1, Zenon
        <4>2. ScanFirst(Scan)
          BY <4>1, ScanOfState, Zenon
        <4>3. Becomes(Scan)
          BY <2>2 DEF Becomes, Scan
        <4> QED
          BY <2>2, <4>1, <4>2, <4>3, FirstOfScan, Zenon
      <3>2. CASE ~(mode' \in {"oam", "draw"} /\ quiet')
        BY <3>2, Zenon DEF FirstSoFar
      <3> QED
        BY <3>1, <3>2, Zenon
    <2> QED
      BY <2>4, <2>5, <2>6, Zenon DEF OamScanInv
  <1> QED
    BY <1>1, <1>2, <1>3, <1>4, Zenon DEF Next

\* Whatever comes between two M-cycles of a scan, no slot is overrun, no object takes two,
\* none is read in halves, and a transfer over all of the scan hides the objects.
THEOREM OamScanInvariant == Spec => []OamScanInv
  BY OamScanInit, OamScanStep, OamScanAssumption, PTL DEF Spec

\* Without a transfer the slots hold the first objects on the line.
THEOREM FirstObjectsShown == Spec => []FirstOnLine
  <1>1. OamScanInv => FirstOnLine
    <2> SUFFICES ASSUME OamScanInv, mode = "draw", quiet
                 PROVE  /\ Len(scanline_objs) =
                              Cardinality({i \in Objects : Meets(i) /\ Earlier(i) <= MAX_OBJS})
                        /\ \A i \in Objects : Meets(i) /\ Earlier(i) <= MAX_OBJS =>
                              scanline_objs[Earlier(i)].obj = i
      BY Zenon DEF FirstOnLine
    <2>1. /\ scanline_objs \in Seq(Slots) /\ Len(scanline_objs) <= MAX_OBJS
          /\ mode2_addr \in 0..OBJECTS /\ dots = 2 * OBJECTS
          /\ IF Len(scanline_objs) < MAX_OBJS THEN 2 * mode2_addr = dots ELSE 2 * mode2_addr <= dots
          /\ \A k \in 1..Len(scanline_objs) : scanline_objs[k].obj < mode2_addr
          /\ Len(scanline_objs) = Cardinality(Meeting(mode2_addr))
          /\ \A k \in 1..Len(scanline_objs) :
                Meets(scanline_objs[k].obj) /\ Earlier(scanline_objs[k].obj) = k
      BY Zenon DEF OamScanInv, TypeOK, ScanInStep, FirstSoFar, MODE2_OAM_T_CYCLES, Meeting
    <2>2. OBJECTS \in Nat /\ MAX_OBJS \in Nat /\ Len(scanline_objs) \in Nat /\ mode2_addr \in Nat
      BY <2>1, OamScanAssumption
    <2>3. mode2_addr = OBJECTS \/ Len(scanline_objs) = MAX_OBJS
      BY <2>1, <2>2
    <2>4. \A i \in Objects : i < mode2_addr /\ Meets(i) => Earlier(i) \in 1..Len(scanline_objs)
      <3> SUFFICES ASSUME NEW i \in Objects, i < mode2_addr, Meets(i)
                   PROVE  Earlier(i) \in 1..Len(scanline_objs)
        BY Zenon
      <3>1. i \in Nat /\ i + 1 \in Nat /\ i + 1 <= mode2_addr
        BY <2>2 DEF Objects
      <3>2. Cardinality(Meeting(i + 1)) <= Len(scanline_objs)
        BY <2>1, <2>2, <3>1, MeetingGrows
      <3>3. Cardinality(Meeting(i + 1)) = Cardinality(Meeting(i)) + 1
        BY <3>1, MeetingNext
      <3>4. Cardinality(Meeting(i)) \in Nat
        BY <3>1, MeetingFinite
      <3> QED
        BY <2>2, <3>2, <3>3, <3>4, EarlierIs
    <2>5. \A i \in Objects : ~(i < mode2_addr) /\ Meets(i) => Earlier(i) > MAX_OBJS
      <3> SUFFICES ASSUME NEW i \in Objects, ~(i < mode2_addr), Meets(i)
                   PROVE  Earlier(i) > MAX_OBJS
        BY Zenon
      <3>1. i \in Nat /\ mode2_addr <= i /\ Len(scanline_objs) = MAX_OBJS
        BY <2>2, <2>3 DEF Objects
      <3>2. MAX_OBJS <= Cardinality(Meeting(i))
        BY <2>1, <2>2, <3>1, MeetingGrows
      <3>3. Cardinality(Meeting(i + 1)) = Cardinality(Meeting(i)) + 1
        BY <3>1, MeetingNext
      <3>4. Cardinality(Meeting(i)) \in Nat
        BY <3>1, MeetingFinite
      <3> QED
        BY <2>2, <3>2, <3>3, <3>4, EarlierIs
    <2>6. \A i \in Objects : Meets(i) => (i < mode2_addr <=> Earlier(i) <= MAX_OBJS)
      <3> SUFFICES ASSUME NEW i \in Objects, Meets(i)
                   PROVE  i < mode2_addr <=> Earlier(i) <= MAX_OBJS
        BY Zenon
      <3>1. Earlier(i) \in Int
        <4>1. i + 1 \in Nat
          BY DEF Objects
        <4> QED
          BY <4>1, EarlierIs, MeetingFinite
      <3> QED
        BY <2>1, <2>2, <2>4, <2>5, <3>1
    <2>7. {i \in Objects : Meets(i) /\ Earlier(i) <= MAX_OBJS} = Meeting(mode2_addr)
      <3>1. \A i : i \in 0..(mode2_addr - 1) <=> i \in Objects /\ i < mode2_addr
        BY <2>1, <2>2 DEF Objects
      <3> QED
        BY <2>6, <3>1, Zenon DEF Meeting
    <2>8. ASSUME NEW i \in Objects, Meets(i), Earlier(i) <= MAX_OBJS
          PROVE  scanline_objs[Earlier(i)].obj = i
      <3> DEFINE k == Earlier(i)
                 j == scanline_objs[k].obj
      <3>1. k \in 1..Len(scanline_objs)
        BY <2>4, <2>6, <2>8, Zenon
      <3>2. Meets(j) /\ Earlier(j) = k
        BY <2>1, <3>1, Zenon
      <3>3. scanline_objs[k] \in Slots
        BY <2>1, <3>1
      <3>4. j \in Objects
        BY <3>3 DEF Slots
      <3>5. i \in Int /\ j \in Int /\ k \in Int
        BY <3>1, <3>4 DEF Objects
      <3>6. ~(i < j) /\ ~(j < i)
        BY <2>8, <3>2, <3>4, <3>5, EarlierGrows
      <3> QED
        BY <3>5, <3>6
    <2> QED
      BY <2>1, <2>7, <2>8, Zenon
  <1> QED
    BY <1>1, OamScanInvariant, PTL

---------------------------------------------------------------------------
\* The rows of the window.

VARIABLES wy_reg, just_enabled, wy_check, window_mode, win_y, used

Rows == INSTANCE WindowRows

\* The one Cardinality is the other.
LEMMA SameCardinality == \A S : Rows!Cardinality(S) = Cardinality(S)
BY DEF Rows!Cardinality, Cardinality

\* The lines of a frame are fewer than the values of a byte, so that the counter
\* goes from one row to the next without wrapping.
LEMMA NextRow ==
    ASSUME NEW lines, NEW ly \in lines, lines \subseteq 0..(Rows!GB_HEIGHT - 1)
    PROVE  Rows!Byte(Cardinality(lines \ {ly}) + 1) = Cardinality(lines)
<1>1. IsFiniteSet(0..(Rows!GB_HEIGHT - 1)) /\ Cardinality(0..(Rows!GB_HEIGHT - 1)) = Rows!GB_HEIGHT
  <2>1. Rows!GB_HEIGHT - 1 \in Int /\ ~(0 > Rows!GB_HEIGHT - 1) /\ (Rows!GB_HEIGHT - 1) - 0 + 1 = Rows!GB_HEIGHT
    BY DEF Rows!GB_HEIGHT
  <2>2. 0 \in Int
    OBVIOUS
  <2>. QED
    BY <2>1, <2>2, FS_Interval, Zenon
<1>2. IsFiniteSet(lines) /\ Cardinality(lines) <= Rows!GB_HEIGHT
  BY <1>1, FS_Subset, ZenonT(40)
<1>3. Cardinality(lines \ {ly}) = Cardinality(lines) - 1
  BY <1>2, FS_RemoveElement
<1>4. Cardinality(lines) \in Nat
  BY <1>2, FS_CardinalityType
<1>. QED
  BY <1>2, <1>3, <1>4 DEF Rows!Byte, Rows!GB_HEIGHT

\* A line that is not counted does not matter.
LEMMA NotCounted ==
    ASSUME NEW lines, NEW ly, ly \notin lines
    PROVE  lines \ {ly} = lines /\ (lines \cup {ly}) \ {ly} = lines
OBVIOUS

\* The first state.
LEMMA InvInit == Rows!Init => Rows!WindowRowsInv
<1>. SUFFICES ASSUME Rows!Init PROVE Rows!WindowRowsInv
  OBVIOUS
<1>1. used = {} /\ mode = "scan" /\ ly_reg = 0 /\ win_y = 0 /\ just_enabled = FALSE
      /\ wy_check = TRUE /\ window_mode = FALSE
  BY DEF Rows!Init
<1>4. Rows!Ranges
  <2>1. used \subseteq 0..(Rows!GB_HEIGHT - 1) /\ used \subseteq 0..ly_reg
    BY <1>1, Zenon
  <2>2. wy_check \in BOOLEAN /\ window_mode \in BOOLEAN /\ just_enabled \in BOOLEAN
    BY <1>1, Zenon
  <2>3. /\ ly_reg \in 0..(Rows!SCANLINES_PER_FRAME - 1) /\ ly_reg < Rows!GB_HEIGHT
        /\ win_y \in Nat
    BY <1>1 DEF Rows!GB_HEIGHT, Rows!SCANLINES_PER_FRAME
  <2>. QED
    BY <1>1, <2>1, <2>2, <2>3 DEF Rows!Ranges
<1>5. Rows!UsedInLine
  BY <1>1 DEF Rows!UsedInLine
<1>2. used \ {ly_reg} = {}
  BY DEF Rows!Init
<1>3. Rows!CountedBefore
  BY <1>2, FS_EmptySet, SameCardinality DEF Rows!Init, Rows!CountedBefore
<1>. QED
  BY <1>3, <1>4, <1>5 DEF Rows!WindowRowsInv

\* Every step keeps the invariant.
LEMMA InvStep == Rows!WindowRowsInv /\ [Rows!Next]_(Rows!vars) => Rows!WindowRowsInv'
<1>. SUFFICES ASSUME Rows!WindowRowsInv, [Rows!Next]_(Rows!vars) PROVE Rows!WindowRowsInv'
  OBVIOUS
<1>. USE DEF Rows!WindowRowsInv
<1>1. CASE Rows!BeginDraw
  <2>1. /\ mode = "scan" /\ mode' = "draw" /\ ly_reg' = ly_reg
        /\ just_enabled' = just_enabled /\ win_y' = win_y
        /\ window_mode' \in BOOLEAN /\ wy_check' \in BOOLEAN
        /\ used' = IF window_mode' THEN used \cup {ly_reg} ELSE used
        /\ ly_reg \notin used
    BY <1>1 DEF Rows!BeginDraw, Rows!Ranges, Rows!UsedInLine
  <2>2. Rows!Ranges'
    BY <2>1 DEF Rows!Ranges, Rows!GB_HEIGHT, Rows!SCANLINES_PER_FRAME
  <2>3. Rows!UsedInLine'
    BY <2>1 DEF Rows!UsedInLine
  <2>4. used' \ {ly_reg'} = used \ {ly_reg}
    BY <2>1, NotCounted
  <2>5. Rows!CountedBefore'
    BY <2>1, <2>4, SameCardinality DEF Rows!CountedBefore
  <2>. QED
    BY <2>2, <2>3, <2>5
<1>2. CASE Rows!WindowBegins
  <2>1. /\ mode = "draw" /\ mode' = "draw" /\ ly_reg' = ly_reg
        /\ just_enabled' = just_enabled /\ win_y' = win_y
        /\ ~window_mode /\ window_mode' = TRUE /\ wy_check' = wy_check
        /\ used' = used \cup {ly_reg}
        /\ ly_reg \notin used
    BY <1>2 DEF Rows!WindowBegins, Rows!UsedInLine
  <2>2. Rows!Ranges'
    BY <2>1 DEF Rows!Ranges, Rows!GB_HEIGHT, Rows!SCANLINES_PER_FRAME
  <2>3. Rows!UsedInLine'
    BY <2>1 DEF Rows!UsedInLine
  <2>4. used' \ {ly_reg'} = used \ {ly_reg}
    BY <2>1, NotCounted
  <2>5. Rows!CountedBefore'
    BY <2>1, <2>4, SameCardinality DEF Rows!CountedBefore
  <2>. QED
    BY <2>2, <2>3, <2>5
<1>3. CASE Rows!EndDraw
  <2>1. /\ mode = "draw" /\ mode' = "hblank"
        /\ UNCHANGED <<ly_reg, just_enabled, wy_check, window_mode, win_y, used>>
    BY <1>3 DEF Rows!EndDraw
  <2>. QED
    BY <2>1, SameCardinality DEF Rows!Ranges, Rows!UsedInLine, Rows!CountedBefore
<1>4. CASE Rows!NextLine
  <2>1. /\ mode \in {"hblank", "vblank"}
        /\ ly_reg' = (ly_reg + 1) % Rows!SCANLINES_PER_FRAME
        /\ win_y' = IF ly_reg' = 0 THEN 0 ELSE Rows!Row
        /\ just_enabled' = (just_enabled /\ ly_reg' # 0)
        /\ used' = IF ly_reg' = 0 THEN {} ELSE used
        /\ window_mode' = window_mode
        /\ IF ly_reg' >= Rows!GB_HEIGHT THEN mode' = "vblank" /\ wy_check' = wy_check
           ELSE mode' = "scan" /\ wy_check' = (ly_reg' >= wy_reg)
    BY <1>4 DEF Rows!NextLine
  <2>2. win_y' \in Nat
    BY <2>1 DEF Rows!Ranges, Rows!Row, Rows!Byte
  <2>3. ly_reg' \in 0..(Rows!SCANLINES_PER_FRAME - 1)
    BY <2>1 DEF Rows!Ranges, Rows!SCANLINES_PER_FRAME
  <2>4. wy_check' \in BOOLEAN /\ window_mode' \in BOOLEAN /\ just_enabled' \in BOOLEAN
    <3>1. window_mode' \in BOOLEAN /\ just_enabled' \in BOOLEAN
      BY <2>1, Zenon DEF Rows!Ranges
    <3>2. (ly_reg' >= wy_reg) \in BOOLEAN
      OBVIOUS
    <3>3. wy_check' \in BOOLEAN
      BY <2>1, <3>2, Zenon DEF Rows!Ranges
    <3>. QED
      BY <3>1, <3>3
  <2>5. CASE mode' = "vblank"
    <3>1. ly_reg' >= Rows!GB_HEIGHT
      BY <2>1, <2>5
    <3>2. used' \subseteq 0..(Rows!GB_HEIGHT - 1)
      BY <2>1 DEF Rows!Ranges
    <3>. QED
      BY <2>2, <2>3, <2>4, <2>5, <3>1, <3>2
      DEF Rows!Ranges, Rows!UsedInLine, Rows!CountedBefore
  <2>6. CASE mode' = "scan" /\ ly_reg' = 0
    <3>1. used' = {} /\ win_y' = 0
      BY <2>1, <2>6
    <3>2. used' \ {ly_reg'} = {}
      BY <3>1
    <3>3. Rows!CountedBefore'
      BY <3>1, <3>2, FS_EmptySet, SameCardinality DEF Rows!CountedBefore
    <3>4. Rows!Ranges' /\ Rows!UsedInLine'
      BY <2>2, <2>3, <2>4, <2>6, <3>1 DEF Rows!Ranges, Rows!UsedInLine, Rows!GB_HEIGHT
    <3>. QED
      BY <3>3, <3>4
  <2>7. CASE mode' = "scan" /\ ly_reg' # 0
    <3>1. mode = "hblank" /\ ly_reg' = ly_reg + 1 /\ ly_reg' < Rows!GB_HEIGHT
      BY <2>1, <2>7 DEF Rows!Ranges, Rows!GB_HEIGHT, Rows!SCANLINES_PER_FRAME
    <3>2. used' = used /\ used \subseteq 0..ly_reg /\ ly_reg' \notin used
      BY <2>1, <2>7, <3>1 DEF Rows!Ranges
    <3>3. used' \subseteq 0..ly_reg' /\ used' \subseteq 0..(Rows!GB_HEIGHT - 1)
      BY <3>1, <3>2 DEF Rows!Ranges
    <3>4. Rows!Ranges' /\ Rows!UsedInLine'
      BY <2>2, <2>3, <2>4, <2>7, <3>1, <3>2, <3>3 DEF Rows!Ranges, Rows!UsedInLine
    <3>5. ASSUME ~just_enabled' PROVE win_y' = Cardinality(used)
      <4>1. ~just_enabled /\ win_y = Cardinality(used \ {ly_reg})
        BY <2>1, <2>7, <3>1, <3>5, SameCardinality DEF Rows!CountedBefore
      <4>2. win_y' = IF window_mode THEN Rows!Byte(win_y + 1) ELSE win_y
        BY <2>1, <2>7 DEF Rows!Row
      <4>3. CASE window_mode
        <5>1. ly_reg \in used /\ used \subseteq 0..(Rows!GB_HEIGHT - 1)
          BY <3>1, <4>3 DEF Rows!UsedInLine, Rows!Ranges
        <5>. QED
          BY <4>1, <4>2, <4>3, <5>1, NextRow
      <4>4. CASE ~window_mode
        <5>1. ly_reg \notin used
          BY <3>1, <4>4 DEF Rows!UsedInLine
        <5>. QED
          BY <4>1, <4>2, <4>4, <5>1, NotCounted
      <4>. QED
        BY <4>3, <4>4
    <3>6. Rows!CountedBefore'
      BY <3>2, <3>5, NotCounted, SameCardinality DEF Rows!CountedBefore
    <3>. QED
      BY <3>4, <3>6
  <2>. QED
    BY <2>1, <2>5, <2>6, <2>7
<1>5. CASE Rows!ppu_wy_write
  BY <1>5, SameCardinality DEF Rows!ppu_wy_write, Rows!Ranges, Rows!UsedInLine, Rows!CountedBefore
<1>6. CASE Rows!LcdOff
  BY <1>6, SameCardinality DEF Rows!LcdOff, Rows!Ranges, Rows!UsedInLine, Rows!CountedBefore
<1>7. CASE Rows!LcdOn
  BY <1>7, SameCardinality DEF Rows!LcdOn, Rows!Ranges, Rows!UsedInLine, Rows!CountedBefore, Rows!GB_HEIGHT, Rows!SCANLINES_PER_FRAME
<1>8. CASE UNCHANGED Rows!vars
  BY <1>8, SameCardinality DEF Rows!vars, Rows!Ranges, Rows!UsedInLine, Rows!CountedBefore
<1>. QED
  BY <1>1, <1>2, <1>3, <1>4, <1>5, <1>6, <1>7, <1>8 DEF Rows!Next

\* The parts of the counter's value that are kept and reset in ppu_tick, set_mode
\* and ppu_lcdc_write fit together in every reachable state.
THEOREM WindowRowsInvariant == Rows!Spec => []Rows!WindowRowsInv
<1>. QED
  BY InvInit, InvStep, PTL DEF Rows!Spec

\* In a frame that is shown, win_y is the number of lines before this one in which
\* the window has begun, whenever the window is drawn.
THEOREM RowsComeInOrder == Rows!Spec => []Rows!RowsInOrder
<1>1. Rows!WindowRowsInv => Rows!RowsInOrder
  <2>. SUFFICES ASSUME Rows!WindowRowsInv, mode = "draw", ~just_enabled
                PROVE  win_y = Cardinality({ly \in used : ly < ly_reg})
    BY SameCardinality DEF Rows!RowsInOrder
  <2>1. used \subseteq 0..ly_reg /\ ly_reg \in Nat
    BY DEF Rows!WindowRowsInv, Rows!Ranges
  <2>2. {ly \in used : ly < ly_reg} = used \ {ly_reg}
    <3>1. \A ly \in used : ly < ly_reg <=> ly # ly_reg
      BY <2>1
    <3>. QED
      BY <3>1, Zenon
  <2>. QED
    BY <2>2, SameCardinality DEF Rows!WindowRowsInv, Rows!CountedBefore
<1>. QED
  BY <1>1, WindowRowsInvariant, PTL

---------------------------------------------------------------------------
\* Mode 3.

\* The place of lx eight pixels before the screen.
Edge == 248

\* What holds of the dots of a line whatever the program writes meanwhile.
KeepsTime == DrawTypeOK /\ InStep /\ WithinBudget /\ EndsInTime

\* The type invariant, of the registers and of the state of a dot.
RegsOK(l) == l \in Registers /\ Len(l.objs) <= MaxObjs

PipeOK(s, l) ==
    /\ s \in Pipes
    /\ Len(s.bg_fifo) <= 8 /\ Len(s.obj_fifo) <= 8
    /\ \A i \in DOMAIN s.obj_fifo : s.obj_fifo[i][1] <= Len(l.objs)
    /\ s.fetch_obj <= Len(l.objs)

\* Every set of numbers has a least one.
LEMMA LeastOf ==
    ASSUME NEW S \in SUBSET Nat, S # {}
    PROVE  \E m \in S : \A k \in S : m <= k
<1> DEFINE R == OpToRel(<, Nat)
<1>1. IsWellFoundedOn(R, Nat)
  BY NatLessThanWellFounded
<1>2. \A m, k \in Nat : <<k, m>> \in R <=> k < m
  BY DEF OpToRel
<1> HIDE DEF R
<1>3. PICK m \in S : \A k \in S : ~ (<<k, m>> \in R)
  BY <1>1, WFMin
<1>4. \A k \in S : m <= k
  <2> TAKE k \in S
  <2>1. m \in Nat /\ k \in Nat
    OBVIOUS
  <2>2. ~(k < m)
    BY <1>2, <1>3, <2>1
  <2> QED BY <2>1, <2>2
<1> QED BY <1>4

\* A slot that check_objs_lx finds is in use, and of an object that begins here.
LEMMA SlotFound ==
    ASSUME NEW l, RegsOK(l), NEW lx \in 0..255
    PROVE  /\ SlotAt(lx, l) \in 0..Len(l.objs)
           /\ SlotAt(lx, l) # NoSlot =>
                  SlotAt(lx, l) \in DOMAIN l.objs /\ l.objs[SlotAt(lx, l)].x = Byte(lx + 8)
<1> DEFINE here == {i \in DOMAIN l.objs : l.obj_on /\ l.objs[i].x = Byte(lx + 8)}
<1>1. l.objs \in Seq(Objs) /\ Len(l.objs) \in Nat /\ DOMAIN l.objs = 1..Len(l.objs)
  BY DEF RegsOK, Registers
<1>2. here \in SUBSET Nat /\ here \subseteq DOMAIN l.objs
  BY <1>1
<1>3. \A i \in here : l.objs[i].x = Byte(lx + 8)
  OBVIOUS
<1>4. SlotAt(lx, l) = IF here = {} THEN NoSlot ELSE CHOOSE i \in here : \A j \in here : i <= j
  BY Zenon DEF SlotAt
<1> HIDE DEF here
<1>5. here # {} => (CHOOSE i \in here : \A j \in here : i <= j) \in here
  <2> SUFFICES ASSUME here # {} PROVE (CHOOSE i \in here : \A j \in here : i <= j) \in here
    OBVIOUS
  <2>1. \E m \in here : \A k \in here : m <= k
    BY <1>2, LeastOf
  <2> QED BY <2>1, Zenon
<1>6. here # {} => SlotAt(lx, l) \in here
  BY <1>4, <1>5, Zenon
<1>7. here = {} => SlotAt(lx, l) = 0
  BY <1>4, Zenon DEF NoSlot
<1> DEFINE q == SlotAt(lx, l)
<1>8. q # NoSlot => q \in here
  BY <1>6, <1>7, Zenon DEF NoSlot
<1>9. q \in DOMAIN l.objs \/ q = 0
  BY <1>2, <1>6, <1>7, Zenon
<1> HIDE DEF q
<1>10. q \in 0..Len(l.objs)
  BY <1>1, <1>9
<1> QED BY <1>2, <1>3, <1>8, <1>10, Zenon DEF q

\* The fields of a record of Pipes.
LEMMA Fields ==
    ASSUME NEW s \in Pipes
    PROVE  /\ s.lx \in 0..255 /\ s.bg_fetch_x \in 0..255 /\ s.bg_fifo \in BgFifos
           /\ s.bg_dot \in 0..7 /\ s.tile \in Maps \X TileStarts /\ s.obj_fifo \in ObjFifos
           /\ s.obj_dot \in 0..6 /\ s.fetch_obj \in 0..MaxObjs /\ s.window_mode \in BOOLEAN
           /\ s.win_x \in 0..255 /\ s.scx_disregard \in 0..7 /\ s.draw_complete \in BOOLEAN
           /\ s.dots \in Nat /\ s.out \in Outs
BY DEF Pipes

\* A record of Pipes stays one when a field is set to a value of its type.
LEMMA SetField ==
    ASSUME NEW s \in Pipes
    PROVE  /\ \A v \in 0..255 : [s EXCEPT !.lx = v] \in Pipes
           /\ \A v \in 0..255 : [s EXCEPT !.bg_fetch_x = v] \in Pipes
           /\ \A v \in BgFifos : [s EXCEPT !.bg_fifo = v] \in Pipes
           /\ \A v \in 0..7 : [s EXCEPT !.bg_dot = v] \in Pipes
           /\ \A v \in Maps \X TileStarts : [s EXCEPT !.tile = v] \in Pipes
           /\ \A v \in ObjFifos : [s EXCEPT !.obj_fifo = v] \in Pipes
           /\ \A v \in 0..6 : [s EXCEPT !.obj_dot = v] \in Pipes
           /\ \A v \in 0..MaxObjs : [s EXCEPT !.fetch_obj = v] \in Pipes
           /\ \A v \in BOOLEAN : [s EXCEPT !.window_mode = v] \in Pipes
           /\ \A v \in 0..255 : [s EXCEPT !.win_x = v] \in Pipes
           /\ \A v \in 0..7 : [s EXCEPT !.scx_disregard = v] \in Pipes
           /\ \A v \in BOOLEAN : [s EXCEPT !.draw_complete = v] \in Pipes
           /\ \A v \in Nat : [s EXCEPT !.dots = v] \in Pipes
           /\ \A v \in Outs : [s EXCEPT !.out = v] \in Pipes
<1>1. \A v \in 0..255 : [s EXCEPT !.lx = v] \in Pipes
  BY SMT DEF Pipes
<1>2. \A v \in 0..255 : [s EXCEPT !.bg_fetch_x = v] \in Pipes
  BY SMT DEF Pipes
<1>3. \A v \in BgFifos : [s EXCEPT !.bg_fifo = v] \in Pipes
  BY SMT DEF Pipes
<1>4. \A v \in 0..7 : [s EXCEPT !.bg_dot = v] \in Pipes
  BY SMT DEF Pipes
<1>5. \A v \in Maps \X TileStarts : [s EXCEPT !.tile = v] \in Pipes
  BY SMT DEF Pipes
<1>6. \A v \in ObjFifos : [s EXCEPT !.obj_fifo = v] \in Pipes
  BY SMT DEF Pipes
<1>7. \A v \in 0..6 : [s EXCEPT !.obj_dot = v] \in Pipes
  BY SMT DEF Pipes
<1>8. \A v \in 0..MaxObjs : [s EXCEPT !.fetch_obj = v] \in Pipes
  BY SMT DEF Pipes
<1>9. \A v \in BOOLEAN : [s EXCEPT !.window_mode = v] \in Pipes
  BY SMT DEF Pipes
<1>10. \A v \in 0..255 : [s EXCEPT !.win_x = v] \in Pipes
  BY SMT DEF Pipes
<1>11. \A v \in 0..7 : [s EXCEPT !.scx_disregard = v] \in Pipes
  BY SMT DEF Pipes
<1>12. \A v \in BOOLEAN : [s EXCEPT !.draw_complete = v] \in Pipes
  BY SMT DEF Pipes
<1>13. \A v \in Nat : [s EXCEPT !.dots = v] \in Pipes
  BY SMT DEF Pipes
<1>14. \A v \in Outs : [s EXCEPT !.out = v] \in Pipes
  BY SMT DEF Pipes
<1> QED BY <1>1, <1>2, <1>3, <1>4, <1>5, <1>6, <1>7, <1>8, <1>9, <1>10, <1>11, <1>12, <1>13, <1>14, Zenon

\* A full FIFO from which obj_fetcher_dot takes what it does not replace.
LEMMA MergedIs ==
    ASSUME NEW l, RegsOK(l), NEW s, PipeOK(s, l), s.fetch_obj # NoSlot
    PROVE  /\ Merged(s, l) \in ObjFifos /\ Len(Merged(s, l)) = 8
           /\ \A i \in DOMAIN Merged(s, l) : Merged(s, l)[i][1] <= Len(l.objs)
<1>1. s.fetch_obj \in 1..MaxObjs /\ s.fetch_obj <= Len(l.objs) /\ s.obj_fifo \in Seq(ObjPixels)
  BY DEF PipeOK, NoSlot, Pipes, ObjFifos
<1> DEFINE old(i) == i <= Len(s.obj_fifo) /\ s.obj_fifo[i][2] \in l.objs[s.obj_fifo[i][1]].opaque
           pix(i) == IF old(i) THEN s.obj_fifo[i] ELSE <<s.fetch_obj, i - 1>>
<1>2. ASSUME NEW i \in 1..8 PROVE pix(i) \in ObjPixels /\ pix(i)[1] <= Len(l.objs)
  <2>1. CASE old(i)
    <3>1. i \in DOMAIN s.obj_fifo /\ s.obj_fifo[i] \in ObjPixels
      BY <2>1, <1>1
    <3>2. s.obj_fifo[i][1] <= Len(l.objs)
      BY <3>1 DEF PipeOK
    <3>3. pix(i) = s.obj_fifo[i]
      BY <2>1
    <3> QED BY <3>1, <3>2, <3>3
  <2>2. CASE ~old(i)
    <3>1. pix(i) = <<s.fetch_obj, i - 1>>
      BY <2>2
    <3>2. <<s.fetch_obj, i - 1>> \in ObjPixels /\ <<s.fetch_obj, i - 1>>[1] = s.fetch_obj
      BY <1>1 DEF ObjPixels
    <3> HIDE DEF pix
    <3> QED BY <3>1, <3>2, <1>1
  <2> QED BY <2>1, <2>2
<1>3. Merged(s, l) = [i \in 1..8 |-> pix(i)]
  BY Zenon DEF Merged
<1> HIDE DEF pix
<1> QED BY <1>2, <1>3 DEF ObjFifos

\* What a record of Pipes keeps when some fields are set.
LEMMA ObjFetch ==
    ASSUME NEW l, RegsOK(l), NEW s, PipeOK(s, l), NEW o, o = obj_fetcher_dot(s, l),
           s.fetch_obj = NoSlot => s.obj_dot = 0
    PROVE  /\ PipeOK(o, l)
           /\ o.lx = s.lx /\ o.bg_fifo = s.bg_fifo /\ o.bg_dot = s.bg_dot
           /\ o.window_mode = s.window_mode /\ o.scx_disregard = s.scx_disregard
           /\ o.draw_complete = s.draw_complete /\ o.dots = s.dots
           /\ o.fetch_obj = NoSlot => o.obj_dot = 0
           /\ o.fetch_obj = NoSlot => ObjLeft(o) <= ObjLeft(s)
           /\ o.fetch_obj # NoSlot => ObjLeft(o) = ObjLeft(s) - 1
<1>1. s \in Pipes /\ s.fetch_obj \in 0..MaxObjs /\ s.obj_dot \in 0..6
  BY Fields DEF PipeOK
<1>2. CASE s.fetch_obj = NoSlot
  <2>1. o = s
    BY <1>2, Zenon DEF obj_fetcher_dot
  <2>2. ObjLeft(o) <= ObjLeft(s)
    BY <2>1, <1>2, SMT DEF ObjLeft
  <2> QED BY <2>1, <2>2, <1>2, Zenon
<1>3. CASE s.fetch_obj # NoSlot /\ s.obj_dot < 6
  <2>1. o = [s EXCEPT !.obj_dot = @ + 1]
    BY <1>3, Zenon DEF obj_fetcher_dot
  <2>2. o \in Pipes
    BY <2>1, <1>1, <1>3 DEF Pipes
  <2>3. /\ o.lx = s.lx /\ o.bg_fifo = s.bg_fifo /\ o.bg_dot = s.bg_dot
        /\ o.window_mode = s.window_mode /\ o.scx_disregard = s.scx_disregard
        /\ o.draw_complete = s.draw_complete /\ o.dots = s.dots
        /\ o.obj_fifo = s.obj_fifo /\ o.fetch_obj = s.fetch_obj /\ o.obj_dot = s.obj_dot + 1
    BY <2>1, <1>1 DEF Pipes
  <2>4. PipeOK(o, l)
    BY <2>2, <2>3, Zenon DEF PipeOK
  <2>5. ObjLeft(o) = ObjLeft(s) - 1
    BY <2>3, <1>1, <1>3 DEF ObjLeft
  <2> QED BY <2>3, <2>4, <2>5, <1>3, Zenon
<1>4. CASE s.fetch_obj # NoSlot /\ ~(s.obj_dot < 6)
  <2> DEFINE m == Merged(s, l)
  <2>0. m \in ObjFifos /\ Len(m) = 8 /\ \A i \in DOMAIN m : m[i][1] <= Len(l.objs)
    BY <1>4, MergedIs
  <2>1. o = [s EXCEPT !.obj_fifo = m, !.obj_dot = 0, !.fetch_obj = NoSlot]
    BY <1>4, Zenon DEF obj_fetcher_dot
  <2> HIDE DEF m
  <2>9. NoSlot \in 0..MaxObjs
    BY DEF NoSlot, MaxObjs
  <2>2. o \in Pipes
    <3> DEFINE s1 == [s EXCEPT !.obj_fifo = m]
               s2 == [s1 EXCEPT !.obj_dot = 0]
    <3>1. s1 \in Pipes
      BY <2>0, <1>1, SetField, Zenon
    <3>2. s2 \in Pipes
      <4> HIDE DEF s1
      <4>1. 0 \in 0..6
        OBVIOUS
      <4> QED BY <3>1, <4>1, SetField, Zenon
    <3>3. o = [s2 EXCEPT !.fetch_obj = NoSlot]
      BY <2>1, Zenon
    <3> HIDE DEF s2
    <3> QED BY <2>9, <3>2, <3>3, SetField, ZenonT(30)
  <2>3. /\ o.lx = s.lx /\ o.bg_fifo = s.bg_fifo /\ o.bg_dot = s.bg_dot
        /\ o.window_mode = s.window_mode /\ o.scx_disregard = s.scx_disregard
        /\ o.draw_complete = s.draw_complete /\ o.dots = s.dots
        /\ o.obj_fifo = m /\ o.fetch_obj = NoSlot /\ o.obj_dot = 0
    BY <2>1, <1>1 DEF Pipes
  <2>4. NoSlot <= Len(l.objs)
    BY DEF NoSlot, RegsOK, Registers
  <2>5. Len(m) <= 8
    BY <2>0
  <2>6. PipeOK(o, l)
    <3>1. Len(o.bg_fifo) <= 8
      BY <2>3, Zenon DEF PipeOK
    <3> QED BY <2>0, <2>2, <2>3, <2>4, <2>5, <3>1, Zenon DEF PipeOK
  <2>7. ObjLeft(o) <= ObjLeft(s)
    BY <2>3, <1>1, <1>4 DEF ObjLeft
  <2> QED BY <2>3, <2>6, <2>7, Zenon
<1> QED BY <1>2, <1>3, <1>4, Zenon

\* The tile that the fetcher of the background looks up, and its pixels.
LEMMA TileIs ==
    ASSUME NEW l, RegsOK(l), NEW s, PipeOK(s, l)
    PROVE  /\ TileAt(s, l) \in Maps \X TileStarts
           /\ TilePixels(s.tile) \in BgFifos /\ Len(TilePixels(s.tile)) = 8
<1>1. \A b \in 0..255 : (b \div 8) * 8 \in TileStarts
  <2> SUFFICES ASSUME NEW b \in 0..255 PROVE (b \div 8) * 8 \in TileStarts
    OBVIOUS
  <2>1. b \div 8 \in 0..31 /\ (b \div 8) * 8 = 8 * (b \div 8)
    OBVIOUS
  <2> QED BY <2>1 DEF TileStarts
<1>2. s.win_x \in 0..255 /\ s.bg_fetch_x \in 0..255 /\ l.scx \in 0..255 /\ s.tile \in Maps \X TileStarts
  BY DEF PipeOK, Pipes, RegsOK, Registers
<1>3. Byte(s.bg_fetch_x + l.scx) \in 0..255
  <2>1. \A n \in Nat : n % 256 \in 0..255
    OBVIOUS
  <2>2. s.bg_fetch_x + l.scx \in Nat
    <3>1. s.bg_fetch_x \in 0..255 /\ l.scx \in 0..255
      BY <1>2, Zenon
    <3>2. \A m, n \in 0..255 : m + n \in Nat
      OBVIOUS
    <3> QED BY <3>1, <3>2, Zenon
  <2> QED BY <2>1, <2>2, Zenon DEF Byte
<1>4. "win" \in Maps /\ "bg" \in Maps
  BY DEF Maps
<1>5. TileAt(s, l) \in Maps \X TileStarts
  <2> DEFINE u == (s.win_x \div 8) * 8
             v == (Byte(s.bg_fetch_x + l.scx) \div 8) * 8
  <2>1. u \in TileStarts /\ v \in TileStarts
    BY <1>1, <1>2, <1>3
  <2>2. TileAt(s, l) = <<"win", u>> \/ TileAt(s, l) = <<"bg", v>>
    BY Zenon DEF TileAt
  <2> HIDE DEF u, v
  <2>3. <<"win", u>> \in Maps \X TileStarts /\ <<"bg", v>> \in Maps \X TileStarts
    BY <1>4, <2>1
  <2> QED BY <2>2, <2>3, Zenon
<1>6. s.tile[1] \in Maps /\ s.tile[2] \in TileStarts
  BY <1>2
<1> DEFINE pix(i) == <<s.tile[1], s.tile[2] + i - 1>>
<1>7. \A i \in 1..8 : pix(i) \in Grounds
  <2> SUFFICES ASSUME NEW i \in 1..8 PROVE pix(i) \in Grounds
    OBVIOUS
  <2>1. PICK k \in 0..31 : s.tile[2] = 8 * k
    BY <1>6 DEF TileStarts
  <2>2. s.tile[2] + i - 1 \in 0..255
    BY <2>1
  <2> QED BY <1>6, <2>2 DEF Grounds
<1>8. TilePixels(s.tile) = [i \in 1..8 |-> pix(i)]
  BY Zenon DEF TilePixels
<1> HIDE DEF pix
<1>9. TilePixels(s.tile) \in BgFifos /\ Len(TilePixels(s.tile)) = 8
  BY <1>7, <1>8 DEF BgFifos
<1> QED BY <1>5, <1>9

\* bg_fetcher_dot: the FIFO stays, or it was empty and is filled.  While it is empty a dot
\* brings it nearer to be filled; if not, the fetcher is one dot further ahead.
LEMMA BgFetch ==
    ASSUME NEW l, RegsOK(l), NEW s, PipeOK(s, l), NEW o, o = bg_fetcher_dot(s, l),
           s.bg_fifo # <<>> => Len(s.bg_fifo) + s.bg_dot >= 7
    PROVE  /\ PipeOK(o, l)
           /\ o.lx = s.lx /\ o.fetch_obj = s.fetch_obj /\ o.obj_dot = s.obj_dot
           /\ o.window_mode = s.window_mode /\ o.scx_disregard = s.scx_disregard
           /\ o.draw_complete = s.draw_complete /\ o.dots = s.dots
           /\ o.bg_fifo # <<>> => Len(o.bg_fifo) + o.bg_dot >= 8 /\ BgLeft(o) <= BgLeft(s)
           /\ o.bg_fifo = <<>> => BgLeft(o) = BgLeft(s) - 1
<1>1. s \in Pipes /\ s.bg_dot \in 0..7 /\ s.bg_fifo \in BgFifos
  BY Fields DEF PipeOK
<1>2. s.bg_fifo \in Seq(Grounds) /\ Len(s.bg_fifo) \in Nat
  BY <1>1 DEF BgFifos
<1>3. s.bg_fifo # <<>> => Len(s.bg_fifo) >= 1
  BY <1>2
<1> DEFINE full == s.bg_fifo # <<>>
\* The FIFO is left alone.
<1>4. ASSUME NEW n \in 0..7, NEW r, r \in Pipes, r.bg_fifo = s.bg_fifo, r.bg_dot = n,
             o = r, r.lx = s.lx, r.fetch_obj = s.fetch_obj, r.obj_dot = s.obj_dot,
             r.window_mode = s.window_mode, r.scx_disregard = s.scx_disregard,
             r.draw_complete = s.draw_complete, r.dots = s.dots, r.obj_fifo = s.obj_fifo,
             (s.bg_dot < 6 /\ n = s.bg_dot + 1) \/ (full /\ n = 7 /\ s.bg_dot >= 6)
      PROVE  /\ PipeOK(o, l)
             /\ o.bg_fifo # <<>> => Len(o.bg_fifo) + o.bg_dot >= 8 /\ BgLeft(o) <= BgLeft(s)
             /\ o.bg_fifo = <<>> => BgLeft(o) = BgLeft(s) - 1
  <2>1. PipeOK(o, l)
    BY <1>4, Zenon DEF PipeOK
  <2>2. full => Len(o.bg_fifo) + o.bg_dot >= 8
    <3> SUFFICES ASSUME full PROVE Len(o.bg_fifo) + o.bg_dot >= 8
      OBVIOUS
    <3> DEFINE len == Len(s.bg_fifo)
    <3>1. len \in Nat /\ len >= 1 /\ len + s.bg_dot >= 7
      BY <1>2, <1>3
    <3>2. (s.bg_dot < 6 /\ n = s.bg_dot + 1) \/ (n = 7 /\ s.bg_dot >= 6)
      BY <1>4, Zenon
    <3>3. Len(o.bg_fifo) = len /\ o.bg_dot = n
      BY <1>4, Zenon
    <3> HIDE DEF len
    <3>4. s.bg_dot \in 0..7
      BY <1>1, Zenon
    <3>5. len + n >= 8
      BY <3>1, <3>2, <3>4
    <3> QED BY <3>3, <3>5, Zenon
  <2>3. BgLeft(o) = IF ~full /\ n < 6 THEN 6 - n ELSE 0
    BY <1>4 DEF BgLeft
  <2>4. BgLeft(s) = IF ~full /\ s.bg_dot < 6 THEN 6 - s.bg_dot ELSE 0
    BY DEF BgLeft
  <2>5. full => BgLeft(o) <= BgLeft(s)
    BY <2>3, <2>4
  <2>6. ~full => BgLeft(o) = BgLeft(s) - 1
    BY <1>1, <1>4, <2>3, <2>4
  <2> QED BY <1>4, <2>1, <2>2, <2>5, <2>6, Zenon
<1>5. CASE s.bg_dot = 0
  <2> DEFINE t == TileAt(s, l)
             r1 == [s EXCEPT !.tile = t]
             r == [r1 EXCEPT !.bg_dot = 1]
  <2>1. o = [s EXCEPT !.tile = t, !.bg_dot = 1]
    BY <1>5 DEF bg_fetcher_dot
  <2>2. o = r
    BY <2>1, Zenon
  <2>3. t \in Maps \X TileStarts
    BY TileIs
  <2> HIDE DEF t
  <2>4. r1 \in Pipes
    BY <1>1, <2>3, SetField, Zenon
  <2>5. r \in Pipes
    <3> HIDE DEF r1
    <3>1. 1 \in 0..7
      OBVIOUS
    <3> QED BY <2>4, <3>1, SetField, Zenon
  <2>6. /\ r.bg_fifo = s.bg_fifo /\ r.bg_dot = 1 /\ r.lx = s.lx /\ r.fetch_obj = s.fetch_obj
        /\ r.obj_dot = s.obj_dot /\ r.window_mode = s.window_mode
        /\ r.scx_disregard = s.scx_disregard /\ r.draw_complete = s.draw_complete
        /\ r.dots = s.dots /\ r.obj_fifo = s.obj_fifo
    BY <1>1 DEF Pipes
  <2> HIDE DEF r
  <2>7. 1 \in 0..7 /\ s.bg_dot < 6 /\ 1 = s.bg_dot + 1
    BY <1>5
  <2>8. /\ PipeOK(o, l)
        /\ o.bg_fifo # <<>> => Len(o.bg_fifo) + o.bg_dot >= 8 /\ BgLeft(o) <= BgLeft(s)
        /\ o.bg_fifo = <<>> => BgLeft(o) = BgLeft(s) - 1
    BY <1>4, <2>2, <2>5, <2>6, <2>7
  <2> QED BY <2>2, <2>6, <2>8, Zenon
<1>6. CASE s.bg_dot \in 1..5
  <2> DEFINE n == s.bg_dot + 1
             r == [s EXCEPT !.bg_dot = n]
  <2>1. o = [s EXCEPT !.bg_dot = @ + 1]
    BY <1>6 DEF bg_fetcher_dot
  <2>2. o = r
    BY <2>1, Zenon
  <2>3. n \in 0..7 /\ s.bg_dot < 6 /\ n = s.bg_dot + 1
    BY <1>6
  <2> HIDE DEF n
  <2>5. r \in Pipes
    BY <1>1, <2>3, SetField, Zenon
  <2>6. /\ r.bg_fifo = s.bg_fifo /\ r.bg_dot = n /\ r.lx = s.lx /\ r.fetch_obj = s.fetch_obj
        /\ r.obj_dot = s.obj_dot /\ r.window_mode = s.window_mode
        /\ r.scx_disregard = s.scx_disregard /\ r.draw_complete = s.draw_complete
        /\ r.dots = s.dots /\ r.obj_fifo = s.obj_fifo
    BY <1>1 DEF Pipes
  <2> HIDE DEF r
  <2>8. /\ PipeOK(o, l)
        /\ o.bg_fifo # <<>> => Len(o.bg_fifo) + o.bg_dot >= 8 /\ BgLeft(o) <= BgLeft(s)
        /\ o.bg_fifo = <<>> => BgLeft(o) = BgLeft(s) - 1
    BY <1>4, <2>2, <2>3, <2>5, <2>6
  <2> QED BY <2>2, <2>6, <2>8, Zenon
<1>7. CASE s.bg_dot \in {6, 7} /\ full
  <2> DEFINE r == [s EXCEPT !.bg_dot = 7]
  <2>2. o = r
    BY <1>7 DEF bg_fetcher_dot
  <2>3. 7 \in 0..7 /\ 7 = 7 /\ s.bg_dot >= 6
    BY <1>7
  <2>5. r \in Pipes
    BY <1>1, <2>3, SetField, Zenon
  <2>6. /\ r.bg_fifo = s.bg_fifo /\ r.bg_dot = 7 /\ r.lx = s.lx /\ r.fetch_obj = s.fetch_obj
        /\ r.obj_dot = s.obj_dot /\ r.window_mode = s.window_mode
        /\ r.scx_disregard = s.scx_disregard /\ r.draw_complete = s.draw_complete
        /\ r.dots = s.dots /\ r.obj_fifo = s.obj_fifo
    BY <1>1 DEF Pipes
  <2> HIDE DEF r
  <2>8. /\ PipeOK(o, l)
        /\ o.bg_fifo # <<>> => Len(o.bg_fifo) + o.bg_dot >= 8 /\ BgLeft(o) <= BgLeft(s)
        /\ o.bg_fifo = <<>> => BgLeft(o) = BgLeft(s) - 1
    BY <1>4, <1>7, <2>2, <2>3, <2>5, <2>6
  <2> QED BY <2>2, <2>6, <2>8, Zenon
<1>8. CASE s.bg_dot \in {6, 7} /\ ~full
  <2> DEFINE t == TilePixels(s.tile)
             x == Byte(s.bg_fetch_x + 8)
             w == IF s.window_mode THEN Byte(s.win_x + 8) ELSE s.win_x
             r1 == [s EXCEPT !.bg_fifo = t]
             r2 == [r1 EXCEPT !.bg_dot = 0]
             r3 == [r2 EXCEPT !.bg_fetch_x = x]
             r == [r3 EXCEPT !.win_x = w]
  <2>1. o = [s EXCEPT !.bg_fifo = t, !.bg_dot = 0, !.bg_fetch_x = Byte(@ + 8),
                      !.win_x = IF s.window_mode THEN Byte(@ + 8) ELSE @]
    BY <1>8 DEF bg_fetcher_dot
  <2>2. o = r
    BY <2>1, Zenon
  <2>3. t \in BgFifos /\ Len(t) = 8
    BY TileIs
  <2>4. x \in 0..255 /\ w \in 0..255
    <3>1. \A k \in 0..255 : Byte(k + 8) \in 0..255
      BY DEF Byte
    <3>2. s.bg_fetch_x \in 0..255 /\ s.win_x \in 0..255
      BY <1>1, Fields
    <3>3. Byte(s.bg_fetch_x + 8) \in 0..255 /\ Byte(s.win_x + 8) \in 0..255
      BY <3>1, <3>2, Zenon
    <3> QED BY <3>2, <3>3, Zenon
  <2> HIDE DEF t, x, w
  <2>5. r1 \in Pipes
    BY <1>1, <2>3, SetField, Zenon
  <2>6. r2 \in Pipes
    <3> HIDE DEF r1
    <3>1. 0 \in 0..7
      OBVIOUS
    <3> QED BY <2>5, <3>1, SetField, Zenon
  <2>7. r3 \in Pipes
    <3> HIDE DEF r2
    <3> QED BY <2>4, <2>6, SetField, Zenon
  <2>8. r \in Pipes
    <3> HIDE DEF r3
    <3> QED BY <2>4, <2>7, SetField, Zenon
  <2>9. /\ r.bg_fifo = t /\ r.bg_dot = 0 /\ r.lx = s.lx /\ r.fetch_obj = s.fetch_obj
        /\ r.obj_dot = s.obj_dot /\ r.window_mode = s.window_mode
        /\ r.scx_disregard = s.scx_disregard /\ r.draw_complete = s.draw_complete
        /\ r.dots = s.dots /\ r.obj_fifo = s.obj_fifo
    BY <1>1 DEF Pipes
  <2> HIDE DEF r
  <2>10. t # <<>> /\ Len(t) <= 8 /\ Len(t) + 0 >= 8
    BY <2>3
  <2>11. PipeOK(o, l)
    BY <2>2, <2>8, <2>9, <2>10, Zenon DEF PipeOK
  <2>12. BgLeft(o) = 0 /\ BgLeft(s) = 0
    <3>1. BgLeft(o) = 0
      BY <2>2, <2>9, <2>10, Zenon DEF BgLeft
    <3>2. ~(s.bg_dot < 6)
      BY <1>8
    <3> QED BY <3>1, <3>2, Zenon DEF BgLeft
  <2>13. o.bg_fifo # <<>> /\ Len(o.bg_fifo) + o.bg_dot >= 8 /\ BgLeft(o) <= BgLeft(s)
    <3>1. BgLeft(o) <= BgLeft(s)
      BY <2>12
    <3> QED BY <3>1, <2>2, <2>9, <2>10, Zenon
  <2> QED BY <2>2, <2>9, <2>11, <2>13, Zenon
<1>9. s.bg_dot = 0 \/ s.bg_dot \in 1..5 \/ s.bg_dot \in {6, 7}
  BY <1>1
<1> QED BY <1>5, <1>6, <1>7, <1>8, <1>9, Zenon

\* The objects of a line whose pixels begin after place p.
Ahead(p, l) == {i \in DOMAIN l.objs : l.objs[i].x \in (p + 1)..(8 + GB_WIDTH)}

\* There are no more of them than slots.
LEMMA AheadFinite ==
    ASSUME NEW l, RegsOK(l), NEW p \in Nat
    PROVE  /\ IsFiniteSet(Ahead(p, l)) /\ Cardinality(Ahead(p, l)) \in Nat
           /\ Cardinality(Ahead(p, l)) <= Len(l.objs)
<1>1. Len(l.objs) \in Nat /\ DOMAIN l.objs = 1..Len(l.objs)
  BY DEF RegsOK, Registers
<1>2. IsFiniteSet(1..Len(l.objs)) /\ Cardinality(1..Len(l.objs)) = Len(l.objs)
  <2>1. 1 \in Int /\ Len(l.objs) \in Int
    BY <1>1
  <2>2. /\ IsFiniteSet(1..Len(l.objs))
        /\ Cardinality(1..Len(l.objs)) = IF 1 > Len(l.objs) THEN 0 ELSE Len(l.objs) - 1 + 1
    BY <2>1, FS_Interval, Zenon
  <2> QED BY <1>1, <2>2
<1>3. Ahead(p, l) \subseteq 1..Len(l.objs)
  BY <1>1 DEF Ahead
<1>4. IsFiniteSet(Ahead(p, l)) /\ Cardinality(Ahead(p, l)) <= Cardinality(1..Len(l.objs))
  BY <1>2, <1>3, FS_Subset, Zenon
<1>5. Cardinality(Ahead(p, l)) \in Nat
  BY <1>4, FS_CardinalityType, Zenon
<1> QED BY <1>2, <1>4, <1>5, Zenon

\* An object that begins here, if it is still on the line, is no longer ahead.
LEMMA AheadStep ==
    ASSUME NEW l, RegsOK(l), NEW p \in Nat, NEW q \in Nat, q = p + 1, q <= 8 + GB_WIDTH
    PROVE  /\ Cardinality(Ahead(q, l)) <= Cardinality(Ahead(p, l))
           /\ \A i \in DOMAIN l.objs : l.objs[i].x = q =>
                  Cardinality(Ahead(q, l)) <= Cardinality(Ahead(p, l)) - 1
<1>0. GB_WIDTH \in 1..160
  BY PixelsAssumption, Zenon
<1>1. IsFiniteSet(Ahead(p, l)) /\ IsFiniteSet(Ahead(q, l))
  BY AheadFinite
<1>2. Ahead(q, l) \subseteq Ahead(p, l)
  BY <1>0 DEF Ahead
<1>3. Cardinality(Ahead(q, l)) <= Cardinality(Ahead(p, l))
  BY <1>1, <1>2, FS_Subset, Zenon
<1>4. ASSUME NEW i \in DOMAIN l.objs, l.objs[i].x = q
      PROVE  Cardinality(Ahead(q, l)) <= Cardinality(Ahead(p, l)) - 1
  <2>1. q \in (p + 1)..(8 + GB_WIDTH)
    BY <1>0
  <2>2. i \in Ahead(p, l)
    BY <1>4, <2>1, Zenon DEF Ahead
  <2>3. q \notin (q + 1)..(8 + GB_WIDTH)
    BY <1>0
  <2>4. i \notin Ahead(q, l)
    BY <1>4, <2>3, Zenon DEF Ahead
  <2>5. Ahead(q, l) \subseteq Ahead(p, l) \ {i}
    BY <1>2, <2>4, Zenon
  <2>6. /\ IsFiniteSet(Ahead(p, l) \ {i})
        /\ Cardinality(Ahead(p, l) \ {i}) = Cardinality(Ahead(p, l)) - 1
    BY <1>1, <2>2, FS_RemoveElement
  <2>7. Cardinality(Ahead(q, l)) <= Cardinality(Ahead(p, l) \ {i})
    BY <2>5, <2>6, FS_Subset, Zenon
  <2> QED BY <2>6, <2>7, Zenon
<1> QED BY <1>3, <1>4, Zenon

\* What is drawn is a pixel at the head of a FIFO, or none.
LEMMA PickedIs ==
    ASSUME NEW l, RegsOK(l), NEW s, PipeOK(s, l), s.bg_fifo # <<>>
    PROVE  Picked(s, l) \in Outs
<1>1. s.bg_fifo \in Seq(Grounds) /\ s.obj_fifo \in Seq(ObjPixels)
  BY DEF PipeOK, Pipes, BgFifos, ObjFifos
<1>2. Head(s.bg_fifo) \in Grounds
  BY <1>1
<1>3. s.obj_fifo # <<>> => Head(s.obj_fifo) \in ObjPixels
  BY <1>1
<1> DEFINE obj == Head(s.obj_fifo)
           pix == <<"obj", obj[1], obj[2]>>
<1>4. \/ s.obj_fifo # <<>> /\ Picked(s, l) = pix
      \/ Picked(s, l) = <<"blank">>
      \/ Picked(s, l) = Head(s.bg_fifo)
  BY Zenon DEF Picked
<1>5. s.obj_fifo # <<>> => obj[1] \in 1..MaxObjs /\ obj[2] \in 0..7
  BY <1>3 DEF ObjPixels
<1>6. s.obj_fifo # <<>> => pix \in {"obj"} \X (1..MaxObjs) \X (0..7)
  <2> HIDE DEF obj
  <2> QED BY <1>5
<1> HIDE DEF pix
<1>7. CASE s.obj_fifo # <<>> /\ Picked(s, l) = pix
  BY <1>6, <1>7, Zenon DEF Outs
<1>8. CASE Picked(s, l) = <<"blank">>
  BY <1>8, Zenon DEF Outs
<1>9. CASE Picked(s, l) = Head(s.bg_fifo)
  BY <1>2, <1>9, Zenon DEF Outs
<1> QED BY <1>4, <1>7, <1>8, <1>9, Zenon

\* The FIFOs after a pixel was taken from them.
LEMMA PoppedIs ==
    ASSUME NEW l, RegsOK(l), NEW s, PipeOK(s, l), s.bg_fifo # <<>>
    PROVE  /\ Tail(s.bg_fifo) \in BgFifos /\ Len(Tail(s.bg_fifo)) = Len(s.bg_fifo) - 1
           /\ Len(s.bg_fifo) \in 1..8
           /\ Tail(s.bg_fifo) = <<>> => Len(s.bg_fifo) = 1
           /\ Popped(s.obj_fifo) \in ObjFifos /\ Len(Popped(s.obj_fifo)) <= 8
           /\ \A i \in DOMAIN Popped(s.obj_fifo) : Popped(s.obj_fifo)[i][1] <= Len(l.objs)
<1> DEFINE b == s.bg_fifo
           f == s.obj_fifo
           g == Popped(f)
<1>1. b \in Seq(Grounds) /\ f \in Seq(ObjPixels) /\ Len(b) <= 8 /\ Len(f) <= 8 /\ b # <<>>
  BY DEF PipeOK, Pipes, BgFifos, ObjFifos
<1>2. \A i \in DOMAIN f : f[i][1] <= Len(l.objs)
  BY DEF PipeOK
<1> HIDE DEF b, f
<1>3. Tail(b) \in BgFifos /\ Len(Tail(b)) = Len(b) - 1 /\ Len(b) \in 1..8
  <2>1. b \in Seq(Grounds) /\ b # <<>> /\ Len(b) <= 8
    BY <1>1, Zenon
  <2>2. Tail(b) \in Seq(Grounds) /\ Len(Tail(b)) = Len(b) - 1
    BY <2>1
  <2>3. Len(b) \in Nat /\ Len(b) # 0
    BY <2>1
  <2>4. Len(b) \in 1..8
    <3> DEFINE n == Len(b)
    <3>1. n \in Nat /\ n # 0 /\ n <= 8
      BY <2>1, <2>3, Zenon
    <3> HIDE DEF n
    <3>2. n \in 1..8
      BY <3>1
    <3> QED BY <3>2 DEF n
  <2> QED BY <2>2, <2>4, Zenon DEF BgFifos
<1>4. Tail(b) = <<>> => Len(b) = 1
  <2> SUFFICES ASSUME Tail(b) = <<>> PROVE Len(b) = 1
    OBVIOUS
  <2>0. Len(<<>>) = 0
    OBVIOUS
  <2>1. Len(Tail(b)) = 0
    BY <2>0, Zenon
  <2> QED BY <1>3, <2>1
<1>5. CASE f = <<>>
  <2>1. g = <<>>
    BY <1>5, Zenon DEF Popped
  <2> HIDE DEF g
  <2>2. g \in ObjFifos /\ Len(g) <= 8 /\ DOMAIN g = {}
    BY <2>1 DEF ObjFifos
  <2>3. \A i \in DOMAIN g : g[i][1] <= Len(l.objs)
    BY <2>2, Zenon
  <2> QED BY <1>3, <1>4, <2>2, <2>3 DEF b, f, g
<1>6. CASE f # <<>>
  <2>1. g = Tail(f)
    BY <1>6, Zenon DEF Popped
  <2>2. g \in Seq(ObjPixels) /\ Len(g) = Len(f) - 1 /\ Len(f) \in Nat
    BY <1>1, <1>6, <2>1
  <2>3. \A i \in DOMAIN g : i + 1 \in DOMAIN f /\ g[i] = f[i + 1]
    BY <1>1, <1>6, <2>1
  <2> HIDE DEF g
  <2>4. \A i \in DOMAIN g : g[i][1] <= Len(l.objs)
    BY <1>2, <2>3, Zenon
  <2>5. g \in ObjFifos /\ Len(g) <= 8
    BY <1>1, <2>2 DEF ObjFifos
  <2> QED BY <1>3, <1>4, <2>4, <2>5 DEF b, f, g
<1> QED BY <1>5, <1>6

\* The next place, where it is still on the line: bytes do not wrap between.
LEMMA PlaceStep ==
    ASSUME NEW x \in 0..255, Byte(x + 8) < 8 + GB_WIDTH
    PROVE  /\ Byte(x + 1) \in 0..255 /\ Byte(x + 8) \in Nat
           /\ Byte(x + 1) # GB_WIDTH =>
                  Byte(Byte(x + 1) + 8) = Byte(x + 8) + 1 /\ Byte(x + 8) + 1 < 8 + GB_WIDTH
<1>0. GB_WIDTH \in 1..160
  BY PixelsAssumption, Zenon
<1>1. \A n \in 0..255 : Byte(n) = n
  BY DEF Byte
<1>2. \A n \in 256..511 : Byte(n) = n - 256
  BY DEF Byte
<1>3. CASE x < 247
  <2>1. x + 1 \in 0..255 /\ x + 8 \in 0..255 /\ (x + 1) + 8 \in 0..255
    BY <1>3
  <2>2. Byte(x + 1) = x + 1 /\ Byte(x + 8) = x + 8 /\ Byte((x + 1) + 8) = (x + 1) + 8
    BY <1>1, <2>1, Zenon
  <2>3. /\ x + 8 \in Nat /\ (x + 1) + 8 = (x + 8) + 1
        /\ x + 8 < 8 + GB_WIDTH /\ x + 1 # GB_WIDTH => (x + 8) + 1 < 8 + GB_WIDTH
    BY <1>0
  <2>4. Byte(x + 8) < 8 + GB_WIDTH
    OBVIOUS
  <2> QED BY <2>1, <2>2, <2>3, <2>4, Zenon
<1>4. CASE x = 247
  <2>1. Byte(x + 8) = 255
    BY <1>1, <1>4
  <2> QED BY <2>1, <1>0
<1>5. CASE x > 247 /\ x < 255
  <2>1. x + 1 \in 0..255 /\ x + 8 \in 256..511 /\ (x + 1) + 8 \in 256..511
    BY <1>5
  <2>2. Byte(x + 1) = x + 1 /\ Byte(x + 8) = (x + 8) - 256 /\ Byte((x + 1) + 8) = ((x + 1) + 8) - 256
    <3>1. Byte(x + 1) = x + 1
      BY <1>1, <2>1
    <3>2. Byte(x + 8) = (x + 8) - 256
      BY <1>2, <2>1
    <3>3. Byte((x + 1) + 8) = ((x + 1) + 8) - 256
      BY <1>2, <2>1
    <3> QED BY <3>1, <3>2, <3>3, Zenon
  <2>3. /\ (x + 8) - 256 \in Nat /\ ((x + 1) + 8) - 256 = ((x + 8) - 256) + 1
        /\ ((x + 8) - 256) + 1 < 8 + GB_WIDTH
    BY <1>0, <1>5
  <2> QED BY <2>1, <2>2, <2>3, ZenonT(30)
<1>6. CASE x = 255
  <2>1. Byte(x + 1) = 0 /\ Byte(x + 8) = 7 /\ Byte(0 + 8) = 8
    BY <1>1, <1>2, <1>6
  <2> QED BY <2>1, <1>0
<1>7. x < 247 \/ x = 247 \/ (x > 247 /\ x < 255) \/ x = 255
  OBVIOUS
<1> QED BY <1>3, <1>4, <1>5, <1>6, <1>7

\* What check_win_lx does to the terms of the budget: a window that starts takes at most
\* the dots that were kept for it.
LEMMA WindowTakes ==
    ASSUME NEW l, NEW s \in Pipes, NEW d, d = check_win_lx(s, l)
    PROVE  /\ d \in Pipes /\ d.obj_fifo = s.obj_fifo
           /\ d.lx = s.lx /\ d.fetch_obj = s.fetch_obj /\ d.obj_dot = s.obj_dot
           /\ d.scx_disregard = s.scx_disregard /\ d.draw_complete = s.draw_complete
           /\ d.dots = s.dots
           /\ d.bg_fifo = <<>> \/ (d.bg_fifo = s.bg_fifo /\ d.bg_dot = s.bg_dot)
           /\ BgLeft(d) + WinLeft(d) <= BgLeft(s) + WinLeft(s)
<1>1. s \in Pipes /\ s.bg_dot \in 0..7
  BY Fields
<1>2. BgLeft(s) \in Nat /\ WinLeft(s) \in Nat
  <2>1. BgLeft(s) \in Nat
    BY <1>1 DEF BgLeft
  <2>2. WinLeft(s) = 0 \/ WinLeft(s) = 6
    BY Zenon DEF WinLeft
  <2> QED BY <2>1, <2>2
<1>3. CASE ~WindowStarts(s, l)
  <2>1. d = s
    BY <1>3, Zenon DEF check_win_lx
  <2>2. BgLeft(s) + WinLeft(s) <= BgLeft(s) + WinLeft(s)
    BY <1>2
  <2> QED BY <2>1, <2>2, Zenon
<1>4. CASE WindowStarts(s, l)
  <2> DEFINE r1 == [s EXCEPT !.bg_dot = 0]
             r2 == [r1 EXCEPT !.bg_fifo = <<>>]
             r == [r2 EXCEPT !.window_mode = TRUE]
  <2>1. d = [[s EXCEPT !.bg_dot = 0] EXCEPT !.bg_fifo = <<>>, !.window_mode = TRUE]
    BY <1>4, Zenon DEF check_win_lx, fetcher_clear
  <2>2. d = r
    BY <2>1, Zenon
  <2>3. 0 \in 0..7 /\ <<>> \in BgFifos /\ TRUE \in BOOLEAN /\ Len(<<>>) <= 8
    BY DEF BgFifos
  <2>4. r1 \in Pipes
    BY <1>1, <2>3, SetField, Zenon
  <2>5. r2 \in Pipes
    <3> HIDE DEF r1
    <3> QED BY <2>3, <2>4, SetField, Zenon
  <2>6. r \in Pipes
    <3> HIDE DEF r2
    <3> QED BY <2>3, <2>5, SetField, Zenon
  <2>7. /\ r.bg_fifo = <<>> /\ r.bg_dot = 0 /\ r.lx = s.lx /\ r.fetch_obj = s.fetch_obj
        /\ r.obj_dot = s.obj_dot
        /\ r.scx_disregard = s.scx_disregard /\ r.draw_complete = s.draw_complete
        /\ r.dots = s.dots /\ r.obj_fifo = s.obj_fifo
    BY <1>1 DEF Pipes
  <2>8. r.window_mode
    BY <1>1 DEF Pipes
  <2> HIDE DEF r
  <2>10. WinLeft(d) = 0 /\ WinLeft(s) = 6
    BY <1>4, <2>2, <2>8, Zenon DEF WinLeft, WindowStarts
  <2>11. BgLeft(d) = 6
    BY <2>2, <2>7 DEF BgLeft
  <2>12. BgLeft(d) + WinLeft(d) <= BgLeft(s) + WinLeft(s)
    BY <1>2, <2>10, <2>11
  <2> QED BY <2>2, <2>6, <2>7, <2>12, Zenon
<1> QED BY <1>3, <1>4

\* The terms of the budget are numbers.
LEMMA LeftIs ==
    ASSUME NEW l, RegsOK(l), NEW s, PipeOK(s, l)
    PROVE  /\ BgLeft(s) \in Nat /\ WinLeft(s) \in Nat /\ ObjLeft(s) \in Nat
           /\ Cardinality(ObjsAhead(s, l)) \in Nat /\ ObjsAhead(s, l) = Ahead(Place(s), l)
           /\ Place(s) \in Nat /\ PixelsLeft(s) \in Int
<1>1. s.bg_dot \in 0..7 /\ s.obj_dot \in 0..6 /\ s.lx \in 0..255 /\ s.scx_disregard \in 0..7
  BY Fields DEF PipeOK
<1>2. BgLeft(s) \in Nat
  BY <1>1 DEF BgLeft
<1>3. ObjLeft(s) \in Nat
  BY <1>1 DEF ObjLeft
<1>4. WinLeft(s) \in Nat
  <2>1. WinLeft(s) = 0 \/ WinLeft(s) = 6
    BY Zenon DEF WinLeft
  <2> QED BY <2>1
<1>5. Place(s) \in Nat
  BY <1>1 DEF Place, Byte
<1>6. ObjsAhead(s, l) = Ahead(Place(s), l)
  BY Zenon DEF ObjsAhead, Ahead
<1>7. Cardinality(ObjsAhead(s, l)) \in Nat
  BY <1>5, <1>6, AheadFinite, Zenon
<1>8. PixelsLeft(s) \in Int
  <2>1. GB_WIDTH \in Int
    BY PixelsAssumption
  <2> QED BY <1>1, <1>5, <2>1 DEF PixelsLeft
<1> QED BY <1>2, <1>3, <1>4, <1>5, <1>6, <1>7, <1>8, Zenon

\* A pixel is drawn, or dropped for SCX, or mode 3 is over.
LEMMA PixelTaken ==
    ASSUME NEW l, RegsOK(l), NEW s, PipeOK(s, l), NEW d, d = DrawPixel(s, l),
           s.fetch_obj = NoSlot, s.obj_dot = 0, s.bg_fifo # <<>>,
           Len(s.bg_fifo) + s.bg_dot >= 8, Place(s) < 8 + GB_WIDTH
    PROVE  /\ PipeOK(d, l) /\ d.dots = s.dots
           /\ d.obj_dot = 0
           /\ d.bg_fifo # <<>> => Len(d.bg_fifo) + d.bg_dot >= 7
           /\ \/ d.draw_complete
              \/ Place(d) < 8 + GB_WIDTH /\ Left(d, l) <= Left(s, l) - 1
<1> DEFINE t == Tail(s.bg_fifo)
           f == Popped(s.obj_fifo)
           p1 == [s EXCEPT !.bg_fifo = t]
           p == [p1 EXCEPT !.obj_fifo = f]
           y == Byte(s.lx + 1)
           o == IF s.lx < GB_WIDTH THEN Picked(s, l) ELSE s.out
           w1 == [p EXCEPT !.lx = y]
           w == [w1 EXCEPT !.out = o]
           k == check_objs_lx(w, l)
<1>1. /\ s \in Pipes /\ s.lx \in 0..255 /\ s.bg_dot \in 0..7 /\ s.scx_disregard \in 0..7
      /\ s.out \in Outs
  BY Fields DEF PipeOK
<1>2. /\ t \in BgFifos /\ Len(t) = Len(s.bg_fifo) - 1 /\ Len(s.bg_fifo) \in 1..8
      /\ t = <<>> => Len(s.bg_fifo) = 1
      /\ f \in ObjFifos /\ Len(f) <= 8
      /\ \A i \in DOMAIN f : f[i][1] <= Len(l.objs)
  BY PoppedIs
<1>3. p1 = [s EXCEPT !.bg_fifo = Tail(@)] /\ p = [s EXCEPT !.bg_fifo = Tail(@), !.obj_fifo = Popped(@)]
  BY Zenon
<1>4. w = [p EXCEPT !.lx = Byte(@ + 1), !.out = IF s.lx < GB_WIDTH THEN Picked(s, l) ELSE @]
  <2>1. p.lx = s.lx /\ p.out = s.out
    BY <1>1 DEF Pipes
  <2> HIDE DEF p
  <2>2. w = [p EXCEPT !.lx = Byte(s.lx + 1), !.out = IF s.lx < GB_WIDTH THEN Picked(s, l) ELSE s.out]
    BY Zenon
  <2> QED BY <2>1, <2>2, Zenon
<1>5. d = IF s.scx_disregard > 0 THEN [p EXCEPT !.scx_disregard = @ - 1]
          ELSE IF w.lx = GB_WIDTH THEN [w EXCEPT !.draw_complete = TRUE]
          ELSE check_win_lx(k, l)
  <2> DEFINE Rest(popped, drawn) ==
                 IF s.scx_disregard > 0 THEN [popped EXCEPT !.scx_disregard = @ - 1]
                 ELSE IF drawn.lx = GB_WIDTH THEN [drawn EXCEPT !.draw_complete = TRUE]
                 ELSE check_win_lx(check_objs_lx(drawn, l), l)
             Drawn(popped) ==
                 [popped EXCEPT !.lx = Byte(@ + 1),
                                !.out = IF s.lx < GB_WIDTH THEN Picked(s, l) ELSE @]
             z == [s EXCEPT !.bg_fifo = Tail(@), !.obj_fifo = Popped(@)]
  <2>1. d = Rest(z, Drawn(z))
    BY Zenon DEF DrawPixel
  <2>2. p = z
    BY <1>3, Zenon
  <2> HIDE DEF z, p
  <2>3. w = Drawn(p)
    BY <1>4, Zenon
  <2> HIDE DEF w, Drawn
  <2>4. d = Rest(p, w)
    BY <2>1, <2>2, <2>3, Zenon
  <2> QED BY <2>4, Zenon
<1> HIDE DEF t, f
<1>21. Len(t) <= 8 /\ (t = <<>> => s.bg_dot >= 7) /\ (t # <<>> => Len(t) + s.bg_dot >= 7)
  <2> DEFINE m == Len(s.bg_fifo)
             n == Len(t)
             b == s.bg_dot
  <2>1. n = m - 1 /\ m \in 1..8 /\ (t = <<>> => m = 1) /\ b \in 0..7 /\ m + b >= 8
    BY <1>1, <1>2, Zenon
  <2> HIDE DEF m, n, b
  <2>2. n <= 8 /\ n + b >= 7 /\ (t = <<>> => b >= 7)
    BY <2>1
  <2> QED BY <2>2, Zenon DEF n, b
<1>6. p1 \in Pipes
  BY <1>1, <1>2, SetField, Zenon
<1>7. p \in Pipes
  <2> HIDE DEF p1
  <2> QED BY <1>2, <1>6, SetField, Zenon
<1>8. y \in 0..255 /\ o \in Outs
  <2>1. y \in 0..255
    <3>1. \A n \in 0..255 : Byte(n + 1) \in 0..255
      BY DEF Byte
    <3> QED BY <1>1, <3>1, Zenon
  <2>2. Picked(s, l) \in Outs
    BY PickedIs
  <2>3. o \in Outs
    BY <1>1, <2>2, Zenon
  <2> QED BY <2>1, <2>3, Zenon
<1> HIDE DEF y, o
<1>9. w1 \in Pipes
  <2> HIDE DEF p
  <2> QED BY <1>7, <1>8, SetField, Zenon
<1>10. w \in Pipes
  <2> HIDE DEF w1
  <2> QED BY <1>8, <1>9, SetField, Zenon
<1>11. /\ p.lx = s.lx /\ p.bg_fifo = t /\ p.obj_fifo = f /\ p.bg_dot = s.bg_dot
       /\ p.fetch_obj = s.fetch_obj /\ p.obj_dot = s.obj_dot
       /\ p.scx_disregard = s.scx_disregard /\ p.dots = s.dots /\ p.window_mode = s.window_mode
  BY <1>1 DEF Pipes
<1>12. /\ w.lx = y /\ w.bg_fifo = t /\ w.obj_fifo = f /\ w.bg_dot = s.bg_dot
       /\ w.fetch_obj = s.fetch_obj /\ w.obj_dot = s.obj_dot
       /\ w.scx_disregard = s.scx_disregard /\ w.dots = s.dots /\ w.window_mode = s.window_mode
  BY <1>1 DEF Pipes
<1>13. /\ PipeOK(w, l) /\ PipeOK(p, l)
  <2> HIDE DEF w, p
  <2> QED BY <1>2, <1>7, <1>10, <1>11, <1>12, <1>21, Zenon DEF PipeOK
<1> HIDE DEF p, w
\* The pixel taken leaves the fetcher far enough ahead.
<1>14. t # <<>> => Len(t) + s.bg_dot >= 7
  BY <1>21, Zenon
<1>15. BgLeft(s) = 0 /\ ObjLeft(s) = 0
  BY Zenon DEF BgLeft, ObjLeft
<1>16. \A r : r.bg_fifo = t /\ r.bg_dot = s.bg_dot => BgLeft(r) = 0
  <2>1. t = <<>> => ~(s.bg_dot < 6)
    BY <1>1, <1>21
  <2> QED BY <2>1, Zenon DEF BgLeft
<1>17. GB_WIDTH \in Int
  BY PixelsAssumption
<1>18. CASE s.scx_disregard > 0
  <2> DEFINE n == s.scx_disregard - 1
             r == [p EXCEPT !.scx_disregard = n]
  <2>1. d = r
    BY <1>5, <1>11, <1>18, Zenon
  <2>2. n \in 0..7
    BY <1>1, <1>18
  <2> HIDE DEF n
  <2>3. r \in Pipes
    BY <1>7, <2>2, SetField, Zenon
  <2>4. /\ r.lx = p.lx /\ r.bg_fifo = p.bg_fifo /\ r.obj_fifo = p.obj_fifo /\ r.bg_dot = p.bg_dot
        /\ r.fetch_obj = p.fetch_obj /\ r.obj_dot = p.obj_dot
        /\ r.scx_disregard = n /\ r.dots = p.dots /\ r.window_mode = p.window_mode
    BY <1>7 DEF Pipes
  <2> HIDE DEF r
  <2>5. PipeOK(d, l)
    BY <1>13, <2>1, <2>3, <2>4, Zenon DEF PipeOK
  <2>6. /\ Place(d) = Place(s) /\ WinLeft(d) = WinLeft(s) /\ ObjLeft(d) = 0 /\ BgLeft(d) = 0
        /\ ObjsAhead(d, l) = ObjsAhead(s, l)
    BY <1>11, <1>16, <2>1, <2>4, Zenon DEF Place, WinLeft, ObjLeft, ObjsAhead
  <2>7. PixelsLeft(d) = PixelsLeft(s) - 1
    <3>1. Place(s) \in Nat
      BY LeftIs
    <3>2. PixelsLeft(d) = ((8 + GB_WIDTH) - Place(s)) + n
      BY <2>1, <2>4, <2>6, <3>1, <2>2, <1>17 DEF PixelsLeft
    <3> QED BY <1>1, <1>17, <3>1, <3>2 DEF PixelsLeft, n
  <2>8. Left(d, l) <= Left(s, l) - 1
    BY LeftIs, <1>15, <2>6, <2>7 DEF Left
  <2> QED BY <1>11, <1>14, <2>1, <2>4, <2>5, <2>6, <2>8, Zenon
<1>19. CASE ~(s.scx_disregard > 0) /\ w.lx = GB_WIDTH
  <2> DEFINE r == [w EXCEPT !.draw_complete = TRUE]
  <2>1. d = r
    BY <1>5, <1>19, Zenon
  <2>2. TRUE \in BOOLEAN
    OBVIOUS
  <2>3. r \in Pipes
    BY <1>10, <2>2, SetField, Zenon
  <2>4. /\ r.bg_fifo = w.bg_fifo /\ r.obj_fifo = w.obj_fifo /\ r.bg_dot = w.bg_dot
        /\ r.fetch_obj = w.fetch_obj /\ r.obj_dot = w.obj_dot /\ r.dots = w.dots
    BY <1>10 DEF Pipes
  <2>5. r.draw_complete
    BY <1>10 DEF Pipes
  <2> HIDE DEF r
  <2>6. PipeOK(d, l)
    BY <1>13, <2>1, <2>3, <2>4, Zenon DEF PipeOK
  <2> QED BY <1>12, <1>14, <2>1, <2>4, <2>5, <2>6, Zenon
<1>20. CASE ~(s.scx_disregard > 0) /\ w.lx # GB_WIDTH
  <2> DEFINE q == SlotAt(y, l)
  <2>1. d = check_win_lx(k, l)
    BY <1>5, <1>20, Zenon
  <2>2. k = [w EXCEPT !.fetch_obj = q]
    BY <1>12, Zenon DEF check_objs_lx
  <2>3. /\ q \in 0..Len(l.objs)
        /\ q # NoSlot => q \in DOMAIN l.objs /\ l.objs[q].x = Byte(y + 8)
    BY <1>8, SlotFound
  <2>4. q \in 0..MaxObjs /\ q <= Len(l.objs)
    <3>1. Len(l.objs) \in Nat /\ Len(l.objs) <= MaxObjs
      BY DEF RegsOK, Registers
    <3>2. q \in 0..Len(l.objs)
      BY <2>3, Zenon
    <3> HIDE DEF q
    <3> QED BY <3>1, <3>2 DEF MaxObjs
  <2> HIDE DEF q, k
  <2>5. k \in Pipes
    BY <1>10, <2>2, <2>4, SetField, Zenon
  <2>6. /\ k.lx = w.lx /\ k.bg_fifo = w.bg_fifo /\ k.obj_fifo = w.obj_fifo /\ k.bg_dot = w.bg_dot
        /\ k.fetch_obj = q /\ k.obj_dot = w.obj_dot
        /\ k.scx_disregard = w.scx_disregard /\ k.dots = w.dots /\ k.window_mode = w.window_mode
    BY <1>10, <2>2 DEF Pipes
  <2>7. PipeOK(k, l)
    BY <1>13, <2>4, <2>5, <2>6, Zenon DEF PipeOK
  <2>8. /\ d \in Pipes /\ d.obj_fifo = k.obj_fifo
        /\ d.lx = k.lx /\ d.fetch_obj = k.fetch_obj /\ d.obj_dot = k.obj_dot
        /\ d.scx_disregard = k.scx_disregard /\ d.dots = k.dots
        /\ d.bg_fifo = <<>> \/ (d.bg_fifo = k.bg_fifo /\ d.bg_dot = k.bg_dot)
        /\ BgLeft(d) + WinLeft(d) <= BgLeft(k) + WinLeft(k)
    BY <2>1, <2>5, WindowTakes
  <2>15. PipeOK(d, l)
    <3>1. Len(<<>>) <= 8
      OBVIOUS
    <3> QED BY <2>7, <2>8, <3>1, Zenon DEF PipeOK
  <2>9. d.bg_fifo # <<>> => Len(d.bg_fifo) + d.bg_dot >= 7
    BY <1>12, <1>14, <2>6, <2>8, Zenon
  <2>10. /\ Place(s) \in Nat /\ Place(d) = Place(s) + 1 /\ Place(d) < 8 + GB_WIDTH
         /\ Place(d) = Byte(y + 8)
    <3>1. d.lx = y /\ y # GB_WIDTH
      BY <1>12, <1>20, <2>6, <2>8, Zenon
    <3>2. Place(d) = Byte(y + 8)
      BY <3>1, Zenon DEF Place
    <3>3. Byte(s.lx + 8) < 8 + GB_WIDTH
      BY Zenon DEF Place
    <3>4. Byte(y + 8) = Byte(s.lx + 8) + 1 /\ Byte(s.lx + 8) + 1 < 8 + GB_WIDTH /\ Byte(s.lx + 8) \in Nat
      BY <1>1, <3>1, <3>3, PlaceStep, ZenonT(30) DEF y
    <3> QED BY <3>2, <3>4, Zenon DEF Place
  <2>11. /\ PixelsLeft(d) = PixelsLeft(s) - 1 /\ BgLeft(d) + WinLeft(d) <= WinLeft(s)
    <3>1. d.scx_disregard = s.scx_disregard
      BY <1>12, <2>6, <2>8, Zenon
    <3>2. PixelsLeft(d) = PixelsLeft(s) - 1
      BY <1>1, <1>17, <2>10, <3>1, SMTT(30) DEF PixelsLeft
    <3>3. BgLeft(k) = 0 /\ WinLeft(k) = WinLeft(s)
      BY <1>12, <1>16, <2>6, Zenon DEF WinLeft
    <3>4. WinLeft(s) \in Nat
      BY LeftIs
    <3> QED BY <2>8, <3>2, <3>3, <3>4
  <2>12. ObjLeft(d) + 6 * Cardinality(ObjsAhead(d, l)) <= 6 * Cardinality(ObjsAhead(s, l))
    <3> DEFINE c == Cardinality(ObjsAhead(d, l))
               e == Cardinality(ObjsAhead(s, l))
               u == Place(s)
               v == Place(d)
    <3>1. u \in Nat /\ v \in Nat /\ v = u + 1 /\ v <= 8 + GB_WIDTH
      BY <1>17, <2>10
    <3>2. /\ c = Cardinality(Ahead(v, l)) /\ e = Cardinality(Ahead(u, l))
          /\ c \in Nat /\ e \in Nat
      BY <2>15, LeftIs, Zenon
    <3> HIDE DEF u, v
    <3>3. /\ Cardinality(Ahead(v, l)) <= Cardinality(Ahead(u, l))
          /\ \A i \in DOMAIN l.objs : l.objs[i].x = v =>
                 Cardinality(Ahead(v, l)) <= Cardinality(Ahead(u, l)) - 1
      BY <3>1, AheadStep
    <3>4. q # NoSlot => c <= e - 1
      BY <2>3, <2>10, <3>2, <3>3, Zenon DEF v
    <3>5. c <= e
      BY <3>2, <3>3, Zenon
    <3>6. ObjLeft(d) = IF q = NoSlot THEN 0 ELSE 6
      <4>1. d.fetch_obj = q /\ d.obj_dot = 0
        BY <1>12, <2>6, <2>8, Zenon
      <4>2. ObjLeft(d) = IF q = NoSlot THEN 0 ELSE 6 - 0
        BY <4>1, Zenon DEF ObjLeft
      <4> QED BY <4>2
    <3> HIDE DEF c, e
    <3>7. ObjLeft(d) + 6 * c <= 6 * e
      BY <3>2, <3>4, <3>5, <3>6
    <3> QED BY <3>7 DEF c, e
  <2>13. Left(d, l) <= Left(s, l) - 1
    <3> DEFINE c == Cardinality(ObjsAhead(d, l))
               e == Cardinality(ObjsAhead(s, l))
    <3>1. /\ BgLeft(d) \in Nat /\ WinLeft(d) \in Nat /\ ObjLeft(d) \in Nat /\ c \in Nat
          /\ PixelsLeft(d) \in Int
      BY <2>15, LeftIs, Zenon
    <3>2. /\ BgLeft(s) \in Nat /\ WinLeft(s) \in Nat /\ ObjLeft(s) \in Nat /\ e \in Nat
          /\ PixelsLeft(s) \in Int
      BY LeftIs, Zenon
    <3>3. /\ Left(d, l) = PixelsLeft(d) + BgLeft(d) + WinLeft(d) + ObjLeft(d) + 6 * c
          /\ Left(s, l) = PixelsLeft(s) + BgLeft(s) + WinLeft(s) + ObjLeft(s) + 6 * e
      BY Zenon DEF Left
    <3>4. ObjLeft(d) + 6 * c <= 6 * e
      BY <2>12
    <3> DEFINE a1 == PixelsLeft(d)
               a2 == BgLeft(d)
               a3 == WinLeft(d)
               a4 == ObjLeft(d)
               b1 == PixelsLeft(s)
               b3 == WinLeft(s)
    <3>5. /\ a1 \in Int /\ a2 \in Nat /\ a3 \in Nat /\ a4 \in Nat /\ c \in Nat
          /\ b1 \in Int /\ b3 \in Nat /\ e \in Nat
          /\ a1 = b1 - 1 /\ a2 + a3 <= b3 /\ a4 + 6 * c <= 6 * e
      BY <2>11, <3>1, <3>2, <3>4, Zenon
    <3>6. Left(d, l) = a1 + a2 + a3 + a4 + 6 * c /\ Left(s, l) = b1 + 0 + b3 + 0 + 6 * e
      BY <1>15, <3>3, Zenon
    <3> HIDE DEF c, e, a1, a2, a3, a4, b1, b3
    <3>7. a1 + a2 + a3 + a4 + 6 * c <= (b1 + 0 + b3 + 0 + 6 * e) - 1
      BY <3>5
    <3> QED BY <3>6, <3>7, Zenon
  <2>14. d.dots = s.dots /\ d.obj_dot = 0
    BY <1>12, <2>6, <2>8, Zenon
  <2> QED BY <2>9, <2>10, <2>13, <2>14, <2>15, Zenon
<1> QED BY <1>18, <1>19, <1>20

\* A dot of mode 3 takes one from the budget.
LEMMA DotTakes ==
    ASSUME NEW l, RegsOK(l), NEW s, PipeOK(s, l), NEW d, d = Dot(s, l),
           s.fetch_obj = NoSlot => s.obj_dot = 0,
           s.bg_fifo # <<>> => Len(s.bg_fifo) + s.bg_dot >= 7, Place(s) < 8 + GB_WIDTH
    PROVE  /\ PipeOK(d, l) /\ d.dots = s.dots + 1 /\ Left(s, l) >= 1
           /\ d.fetch_obj = NoSlot => d.obj_dot = 0
           /\ d.bg_fifo # <<>> => Len(d.bg_fifo) + d.bg_dot >= 7
           /\ \/ d.draw_complete
              \/ Place(d) < 8 + GB_WIDTH /\ Left(d, l) <= Left(s, l) - 1
<1> DEFINE o == obj_fetcher_dot(s, l)
           b == bg_fetcher_dot(o, l)
           p == DrawPixel(b, l)
           n == s.dots + 1
           r == [p EXCEPT !.dots = n]
<1>1. s \in Pipes /\ s.dots \in Nat
  BY Fields DEF PipeOK
<1>2. /\ PipeOK(o, l)
      /\ o.lx = s.lx /\ o.bg_fifo = s.bg_fifo /\ o.bg_dot = s.bg_dot
      /\ o.window_mode = s.window_mode /\ o.scx_disregard = s.scx_disregard
      /\ o.draw_complete = s.draw_complete /\ o.dots = s.dots
      /\ o.fetch_obj = NoSlot => o.obj_dot = 0
      /\ o.fetch_obj = NoSlot => ObjLeft(o) <= ObjLeft(s)
      /\ o.fetch_obj # NoSlot => ObjLeft(o) = ObjLeft(s) - 1
  BY ObjFetch
<1> HIDE DEF o
<1>3. o.bg_fifo # <<>> => Len(o.bg_fifo) + o.bg_dot >= 7
  BY <1>2, Zenon
<1>4. /\ PipeOK(b, l)
      /\ b.lx = o.lx /\ b.fetch_obj = o.fetch_obj /\ b.obj_dot = o.obj_dot
      /\ b.window_mode = o.window_mode /\ b.scx_disregard = o.scx_disregard
      /\ b.draw_complete = o.draw_complete /\ b.dots = o.dots
      /\ b.bg_fifo # <<>> => Len(b.bg_fifo) + b.bg_dot >= 8 /\ BgLeft(b) <= BgLeft(o)
      /\ b.bg_fifo = <<>> => BgLeft(b) = BgLeft(o) - 1
  BY <1>2, <1>3, BgFetch
<1> HIDE DEF b
<1>5. /\ Place(b) = Place(s) /\ PixelsLeft(b) = PixelsLeft(s) /\ WinLeft(b) = WinLeft(s)
      /\ ObjsAhead(b, l) = ObjsAhead(s, l) /\ ObjLeft(b) = ObjLeft(o) /\ BgLeft(o) = BgLeft(s)
  <2>1. Place(b) = Place(s) /\ b.scx_disregard = s.scx_disregard
    BY <1>2, <1>4, Zenon DEF Place
  <2>2. PixelsLeft(b) = PixelsLeft(s)
    BY <2>1, Zenon DEF PixelsLeft
  <2> QED BY <1>2, <1>4, <2>1, <2>2, Zenon DEF WinLeft, ObjsAhead, ObjLeft, BgLeft
<1> DEFINE c == Cardinality(ObjsAhead(s, l))
           a1 == PixelsLeft(s)
           a2 == BgLeft(s)
           a3 == WinLeft(s)
           a4 == ObjLeft(s)
           b2 == BgLeft(b)
           b4 == ObjLeft(b)
<1>6. /\ a1 \in Int /\ a2 \in Nat /\ a3 \in Nat /\ a4 \in Nat /\ c \in Nat
      /\ b2 \in Nat /\ b4 \in Nat
  BY <1>4, LeftIs, Zenon
<1>7. a1 >= 1
  <2>1. Place(s) \in Nat
    BY LeftIs
  <2>2. GB_WIDTH \in Int /\ s.scx_disregard \in 0..7
    BY PixelsAssumption, <1>1, Fields
  <2> QED BY <2>1, <2>2 DEF PixelsLeft
<1>8. Left(s, l) = a1 + a2 + a3 + a4 + 6 * c /\ Left(b, l) = a1 + b2 + a3 + b4 + 6 * c
  BY <1>5, Zenon DEF Left
<1>9. b2 <= a2 /\ b4 <= a4
  <2> HIDE DEF a2, b2, a4, b4
  <2>1. /\ b.fetch_obj = NoSlot => b4 <= a4
        /\ b.fetch_obj # NoSlot => b4 = a4 - 1
        /\ b.bg_fifo # <<>> => b2 <= a2
        /\ b.bg_fifo = <<>> => b2 = a2 - 1
    BY <1>2, <1>4, <1>5, Zenon DEF a2, b2, a4, b4
  <2>2. b4 <= a4
    BY <1>6, <2>1
  <2>3. b2 <= a2
    BY <1>6, <2>1
  <2> QED BY <2>2, <2>3
<1>10. (b.fetch_obj # NoSlot \/ b.bg_fifo = <<>>) => b4 = a4 - 1 \/ b2 = a2 - 1
  BY <1>2, <1>4, <1>5, Zenon
<1> HIDE DEF a1, a2, a3, a4, b2, b4, c
<1>11. Left(s, l) >= 1 /\ Left(b, l) <= Left(s, l)
  <2>1. a1 + a2 + a3 + a4 + 6 * c >= 1
    BY <1>6, <1>7
  <2>2. a1 + b2 + a3 + b4 + 6 * c <= a1 + a2 + a3 + a4 + 6 * c
    BY <1>6, <1>9
  <2> QED BY <1>8, <2>1, <2>2, Zenon
<1>12. /\ PipeOK(p, l) /\ p.dots = s.dots
       /\ p.fetch_obj = NoSlot => p.obj_dot = 0
       /\ p.bg_fifo # <<>> => Len(p.bg_fifo) + p.bg_dot >= 7
       /\ \/ p.draw_complete
          \/ Place(p) < 8 + GB_WIDTH /\ Left(p, l) <= Left(s, l) - 1
  <2>1. CASE b.fetch_obj # NoSlot \/ b.bg_fifo = <<>>
    <3>1. p = b
      BY <2>1, Zenon DEF DrawPixel
    <3>2. a1 + b2 + a3 + b4 + 6 * c <= (a1 + a2 + a3 + a4 + 6 * c) - 1
      <4>1. b4 = a4 - 1 \/ b2 = a2 - 1
        BY <1>10, <2>1, Zenon
      <4>2. b2 + b4 <= a2 + a4 - 1
        <5>1. CASE b4 = a4 - 1
          BY <1>6, <1>9, <5>1
        <5>2. CASE b2 = a2 - 1
          BY <1>6, <1>9, <5>2
        <5> QED BY <4>1, <5>1, <5>2, Zenon
      <4> QED BY <1>6, <4>2, SMTT(60)
    <3>3. Left(p, l) <= Left(s, l) - 1
      BY <1>8, <3>1, <3>2, Zenon
    <3>4. b.bg_fifo # <<>> => Len(b.bg_fifo) + b.bg_dot >= 7
      <4> SUFFICES ASSUME b.bg_fifo # <<>> PROVE Len(b.bg_fifo) + b.bg_dot >= 7
        OBVIOUS
      <4> DEFINE x == Len(b.bg_fifo)
                 y == b.bg_dot
      <4>1. x \in Nat /\ y \in Nat
        <5>1. b.bg_fifo \in Seq(Grounds) /\ b.bg_dot \in 0..7
          BY <1>4, Fields DEF PipeOK, BgFifos
        <5> QED BY <5>1
      <4>2. x + y >= 8
        BY <1>4, Zenon
      <4> HIDE DEF x, y
      <4>3. x + y >= 7
        BY <4>1, <4>2
      <4> QED BY <4>3 DEF x, y
    <3>5. Place(b) < 8 + GB_WIDTH
      BY <1>5, Zenon
    <3> QED BY <1>2, <1>4, <3>1, <3>3, <3>4, <3>5, Zenon
  <2>2. CASE b.fetch_obj = NoSlot /\ b.bg_fifo # <<>>
    <3>1. b.obj_dot = 0 /\ Len(b.bg_fifo) + b.bg_dot >= 8 /\ Place(b) < 8 + GB_WIDTH
      BY <1>2, <1>4, <1>5, <2>2, Zenon
    <3>2. /\ PipeOK(p, l) /\ p.dots = b.dots
          /\ p.obj_dot = 0
          /\ p.bg_fifo # <<>> => Len(p.bg_fifo) + p.bg_dot >= 7
          /\ \/ p.draw_complete
             \/ Place(p) < 8 + GB_WIDTH /\ Left(p, l) <= Left(b, l) - 1
      BY <1>4, <2>2, <3>1, PixelTaken
    <3> HIDE DEF p
    <3>3. Left(p, l) <= Left(b, l) - 1 => Left(p, l) <= Left(s, l) - 1
      <4> DEFINE x == Left(p, l)
                 y == Left(b, l)
                 z == Left(s, l)
      <4>1. x \in Int /\ y \in Int /\ z \in Int
        <5>1. \A q : PipeOK(q, l) => Left(q, l) \in Int
          <6> SUFFICES ASSUME NEW q, PipeOK(q, l) PROVE Left(q, l) \in Int
            OBVIOUS
          <6> QED BY LeftIs, SMTT(30) DEF Left
        <5> QED BY <1>4, <3>2, <5>1, Zenon
      <4>2. y <= z
        BY <1>11, Zenon
      <4> HIDE DEF x, y, z
      <4>3. x <= y - 1 => x <= z - 1
        BY <4>1, <4>2
      <4> QED BY <4>3 DEF x, y, z
    <3> QED BY <1>2, <1>4, <3>2, <3>3, Zenon
  <2> QED BY <2>1, <2>2
<1>13. d = [p EXCEPT !.dots = @ + 1]
  BY Zenon DEF Dot, o, b
<1> HIDE DEF p
<1>14. p \in Pipes /\ n \in Nat
  BY <1>1, <1>12 DEF PipeOK
<1>15. d = r
  BY <1>12, <1>13, Zenon
<1> HIDE DEF n
<1>16. r \in Pipes
  BY <1>14, SetField, Zenon
<1>17. /\ r.lx = p.lx /\ r.bg_fifo = p.bg_fifo /\ r.obj_fifo = p.obj_fifo /\ r.bg_dot = p.bg_dot
       /\ r.fetch_obj = p.fetch_obj /\ r.obj_dot = p.obj_dot
       /\ r.scx_disregard = p.scx_disregard /\ r.dots = n
  BY <1>14 DEF Pipes
<1>18. r.window_mode = p.window_mode /\ r.draw_complete = p.draw_complete
  BY <1>14, Zenon DEF Pipes
<1> HIDE DEF r
<1>19. PipeOK(d, l)
  BY <1>12, <1>15, <1>16, <1>17, Zenon DEF PipeOK
<1>20. Place(d) = Place(p) /\ Left(d, l) = Left(p, l)
  <2>1. Place(d) = Place(p)
    BY <1>15, <1>17, Zenon DEF Place
  <2>2. /\ PixelsLeft(d) = PixelsLeft(p) /\ BgLeft(d) = BgLeft(p) /\ WinLeft(d) = WinLeft(p)
        /\ ObjLeft(d) = ObjLeft(p) /\ ObjsAhead(d, l) = ObjsAhead(p, l)
    BY <2>1, <1>15, <1>17, <1>18, Zenon DEF PixelsLeft, BgLeft, WinLeft, ObjLeft, ObjsAhead
  <2> QED BY <2>1, <2>2, Zenon DEF Left
<1>21. d.dots = s.dots + 1
  BY <1>15, <1>17 DEF n
<1> QED BY <1>11, <1>12, <1>15, <1>17, <1>18, <1>19, <1>20, <1>21, Zenon

\* An object at the left edge takes its dots when mode 3 begins; it is not ahead.
LEMMA AheadAtStart ==
    ASSUME NEW l, RegsOK(l)
    PROVE  \A i \in DOMAIN l.objs : l.objs[i].x = 0 => Cardinality(Ahead(0, l)) <= Len(l.objs) - 1
<1> SUFFICES ASSUME NEW i \in DOMAIN l.objs, l.objs[i].x = 0
             PROVE  Cardinality(Ahead(0, l)) <= Len(l.objs) - 1
  OBVIOUS
<1>1. Len(l.objs) \in Nat /\ DOMAIN l.objs = 1..Len(l.objs)
  BY DEF RegsOK, Registers
<1>2. IsFiniteSet(1..Len(l.objs)) /\ Cardinality(1..Len(l.objs)) = Len(l.objs)
  <2>1. 1 \in Int /\ Len(l.objs) \in Int
    BY <1>1
  <2>2. /\ IsFiniteSet(1..Len(l.objs))
        /\ Cardinality(1..Len(l.objs)) = IF 1 > Len(l.objs) THEN 0 ELSE Len(l.objs) - 1 + 1
    BY <2>1, FS_Interval, Zenon
  <2> QED BY <1>1, <2>2
<1>3. i \in 1..Len(l.objs)
  BY <1>1
<1>4. /\ IsFiniteSet((1..Len(l.objs)) \ {i})
      /\ Cardinality((1..Len(l.objs)) \ {i}) = Cardinality(1..Len(l.objs)) - 1
  BY <1>2, <1>3, FS_RemoveElement
<1>5. 0 \notin (0 + 1)..(8 + GB_WIDTH)
  OBVIOUS
<1>6. Ahead(0, l) \subseteq (1..Len(l.objs)) \ {i}
  <2>1. Ahead(0, l) \subseteq 1..Len(l.objs)
    BY <1>1, Zenon DEF Ahead
  <2>2. i \notin Ahead(0, l)
    BY <1>5, Zenon DEF Ahead
  <2> QED BY <2>1, <2>2, Zenon
<1>7. Cardinality(Ahead(0, l)) <= Cardinality((1..Len(l.objs)) \ {i})
  BY <1>4, <1>6, FS_Subset, Zenon
<1> QED BY <1>2, <1>4, <1>7

\* The terms of a budget at its beginning are at most those of the longest line.
LEMMA BudgetSum ==
    ASSUME NEW width \in 1..160, NEW n \in Nat, NEW x \in 0..7, NEW a1 \in Int, NEW a2 \in Nat,
           NEW a3 \in Nat, NEW a4 \in Nat, NEW c \in Nat,
           a1 = 8 + width - 0 + x, a2 + a3 <= 12, 6 * c + a4 <= 6 * n
    PROVE  /\ a1 + a2 + a3 + a4 + 6 * c <= 6 + (8 + width) + 7 + 6 + 6 * n
           /\ 0 < 8 + width
OBVIOUS

\* The pixels dropped for SCX are less than a tile.
LEMMA Dropped == \A n \in 0..255 : n % 8 \in 0..7
OBVIOUS

\* The line is not over at its start.
LEMMA Start == \A v \in 1..160 : 0 < 8 + v
OBVIOUS

\* set_mode(MODE3_DRAW): the budget is that of the longest line.
LEMMA Mode3Begins ==
    ASSUME NEW l, RegsOK(l), NEW s \in Pipes, NEW d, d = [Mode3(s, l) EXCEPT !.out = <<>>]
    PROVE  /\ PipeOK(d, l) /\ d.dots = 0 /\ d.lx = Edge /\ d.out = <<>>
           /\ d.fetch_obj = NoSlot => d.obj_dot = 0
           /\ d.bg_fifo # <<>> => Len(d.bg_fifo) + d.bg_dot >= 7
           /\ Place(d) < 8 + GB_WIDTH /\ Left(d, l) <= Longest(l)
<1> DEFINE x == l.scx % 8
           r1 == [s EXCEPT !.lx = Edge]
           r2 == [r1 EXCEPT !.bg_fetch_x = Edge]
           r3 == [r2 EXCEPT !.bg_fifo = <<>>]
           r4 == [r3 EXCEPT !.bg_dot = 0]
           r5 == [r4 EXCEPT !.obj_fifo = <<>>]
           r6 == [r5 EXCEPT !.obj_dot = 0]
           r7 == [r6 EXCEPT !.window_mode = FALSE]
           r8 == [r7 EXCEPT !.win_x = 0]
           r9 == [r8 EXCEPT !.scx_disregard = x]
           r10 == [r9 EXCEPT !.draw_complete = FALSE]
           r11 == [r10 EXCEPT !.dots = 0]
           w == check_win_lx(r11, l)
           q == SlotAt(w.lx, l)
           k == [w EXCEPT !.fetch_obj = q]
           e == [k EXCEPT !.out = <<>>]
<1>1. s \in Pipes
  OBVIOUS
<1>2. x \in 0..7
  <2>1. l.scx \in 0..255
    BY DEF RegsOK, Registers
  <2> QED BY <2>1, Dropped, Zenon
<1>3. /\ Edge \in 0..255 /\ 0 \in 0..255 /\ <<>> \in BgFifos /\ <<>> \in ObjFifos /\ 0 \in 0..7
      /\ 0 \in 0..6 /\ FALSE \in BOOLEAN /\ 0 \in Nat /\ x \in 0..7 /\ <<>> \in Outs /\ Len(<<>>) <= 8
  <2>1. <<>> \in Outs
    BY Zenon DEF Outs
  <2> QED BY <1>2, <2>1 DEF BgFifos, ObjFifos, Edge
<1>4. d = [check_objs_lx(check_win_lx(r11, l), l) EXCEPT !.out = <<>>]
  <2>1. r11 = [s EXCEPT !.lx = 248, !.bg_fetch_x = 248, !.bg_fifo = <<>>, !.bg_dot = 0,
                  !.obj_fifo = <<>>, !.obj_dot = 0, !.window_mode = FALSE, !.win_x = 0,
                  !.scx_disregard = l.scx % 8, !.draw_complete = FALSE, !.dots = 0]
    BY Zenon DEF Edge
  <2> HIDE DEF r11
  <2> QED BY <2>1, Zenon DEF Mode3
<1> HIDE DEF x
<1>11. r1 \in Pipes
  BY <1>1, <1>3, SetField, Zenon
<1>12. r2 \in Pipes
  <2> HIDE DEF r1
  <2> QED BY <1>3, <1>11, SetField, Zenon
<1>13. r3 \in Pipes
  <2> HIDE DEF r2
  <2> QED BY <1>3, <1>12, SetField, Zenon
<1>14. r4 \in Pipes
  <2> HIDE DEF r3
  <2> QED BY <1>3, <1>13, SetField, Zenon
<1>15. r5 \in Pipes
  <2> HIDE DEF r4
  <2> QED BY <1>3, <1>14, SetField, Zenon
<1>16. r6 \in Pipes
  <2> HIDE DEF r5
  <2> QED BY <1>3, <1>15, SetField, Zenon
<1>17. r7 \in Pipes
  <2> HIDE DEF r6
  <2> QED BY <1>3, <1>16, SetField, Zenon
<1>18. r8 \in Pipes
  <2> HIDE DEF r7
  <2> QED BY <1>3, <1>17, SetField, Zenon
<1>19. r9 \in Pipes
  <2> HIDE DEF r8
  <2> QED BY <1>3, <1>18, SetField, Zenon
<1>20. r10 \in Pipes
  <2> HIDE DEF r9
  <2> QED BY <1>3, <1>19, SetField, Zenon
<1>21. r11 \in Pipes
  <2> HIDE DEF r10
  <2> QED BY <1>3, <1>20, SetField, Zenon
<1>22. /\ r11.lx = Edge /\ r11.bg_fifo = <<>> /\ r11.bg_dot = 0 /\ r11.obj_fifo = <<>>
       /\ r11.obj_dot = 0 /\ r11.scx_disregard = x /\ r11.dots = 0
  BY <1>1 DEF Pipes
<1>23. ~r11.window_mode
  BY <1>1 DEF Pipes
<1> HIDE DEF r11
<1>24. /\ w \in Pipes /\ w.obj_fifo = <<>> /\ w.lx = Edge /\ w.obj_dot = 0 /\ w.scx_disregard = x
       /\ w.dots = 0 /\ w.bg_fifo = <<>>
       /\ BgLeft(w) + WinLeft(w) <= BgLeft(r11) + WinLeft(r11)
  BY <1>21, <1>22, WindowTakes
<1>25. BgLeft(r11) = 6 /\ WinLeft(r11) = 6
  <2>1. WinLeft(r11) = 6
    BY <1>23, Zenon DEF WinLeft
  <2> QED BY <1>22, <2>1 DEF BgLeft
<1>26. d = [[w EXCEPT !.fetch_obj = SlotAt(w.lx, l)] EXCEPT !.out = <<>>]
  BY <1>4, Zenon DEF check_objs_lx
<1> HIDE DEF w
<1>27. d = e
  BY <1>26, Zenon
<1>28. /\ q \in 0..Len(l.objs)
       /\ q # NoSlot => q \in DOMAIN l.objs /\ l.objs[q].x = 0
  <2>1. Edge \in 0..255 /\ Byte(Edge + 8) = 0
    BY DEF Byte, Edge
  <2>2. /\ SlotAt(Edge, l) \in 0..Len(l.objs)
        /\ SlotAt(Edge, l) # NoSlot =>
               SlotAt(Edge, l) \in DOMAIN l.objs /\ l.objs[SlotAt(Edge, l)].x = Byte(Edge + 8)
    BY <2>1, SlotFound
  <2> QED BY <1>24, <2>1, <2>2, Zenon
<1>29. q \in 0..MaxObjs /\ q <= Len(l.objs) /\ Len(l.objs) \in Nat
  <2>1. Len(l.objs) \in Nat /\ Len(l.objs) <= MaxObjs
    BY DEF RegsOK, Registers
  <2>2. q \in 0..Len(l.objs)
    BY <1>28, Zenon
  <2> HIDE DEF q
  <2> QED BY <2>1, <2>2 DEF MaxObjs
<1> HIDE DEF q
<1>30. k \in Pipes
  BY <1>24, <1>29, SetField, Zenon
<1>31. e \in Pipes
  <2> HIDE DEF k
  <2> QED BY <1>3, <1>30, SetField, Zenon
<1>32. /\ e.lx = Edge /\ e.obj_fifo = <<>> /\ e.obj_dot = 0 /\ e.scx_disregard = x /\ e.dots = 0
       /\ e.bg_fifo = <<>> /\ e.out = <<>> /\ e.fetch_obj = q /\ e.bg_dot = w.bg_dot
  BY <1>24 DEF Pipes
<1>33. e.window_mode = w.window_mode
  BY <1>24, Zenon DEF Pipes
<1> HIDE DEF e, k
<1>34. PipeOK(d, l)
  <2>1. DOMAIN <<>> = {}
    OBVIOUS
  <2> QED BY <1>3, <1>27, <1>29, <1>31, <1>32, <2>1, Zenon DEF PipeOK
<1>35. Place(d) = 0
  <2>1. Byte(Edge + 8) = 0
    BY DEF Byte, Edge
  <2> QED BY <1>27, <1>32, <2>1, Zenon DEF Place
<1>36. /\ PixelsLeft(d) = 8 + GB_WIDTH - 0 + x /\ BgLeft(d) + WinLeft(d) <= 12
       /\ ObjLeft(d) = IF q = NoSlot THEN 0 ELSE 6 - 0
  <2>1. PixelsLeft(d) = 8 + GB_WIDTH - 0 + x
    BY <1>27, <1>32, <1>35, Zenon DEF PixelsLeft
  <2>2. BgLeft(d) = BgLeft(w) /\ WinLeft(d) = WinLeft(w)
    BY <1>24, <1>27, <1>32, <1>33, Zenon DEF BgLeft, WinLeft
  <2>3. ObjLeft(d) = IF q = NoSlot THEN 0 ELSE 6 - 0
    BY <1>27, <1>32, Zenon DEF ObjLeft
  <2> QED BY <1>24, <1>25, <2>1, <2>2, <2>3
<1>37. 6 * Cardinality(ObjsAhead(d, l)) + ObjLeft(d) <= 6 * Len(l.objs)
  <2> DEFINE c == Cardinality(Ahead(0, l))
             n == Len(l.objs)
  <2>0. 0 \in Nat
    OBVIOUS
  <2>1. c \in Nat /\ c <= n
    BY <2>0, AheadFinite
  <2>2. q # NoSlot => c <= n - 1
    BY <1>28, AheadAtStart, Zenon
  <2>3. ObjsAhead(d, l) = Ahead(0, l)
    BY <1>34, <1>35, LeftIs, Zenon
  <2> HIDE DEF c, n
  <2>4. n \in Nat
    BY <1>29 DEF n
  <2>5. 6 * c + ObjLeft(d) <= 6 * n
    BY <1>36, <2>1, <2>2, <2>4
  <2> QED BY <2>3, <2>5 DEF c, n
<1>38. Left(d, l) <= Longest(l)
  <2> DEFINE c == Cardinality(ObjsAhead(d, l))
             n == Len(l.objs)
             a1 == PixelsLeft(d)
             a2 == BgLeft(d)
             a3 == WinLeft(d)
             a4 == ObjLeft(d)
  <2>1. /\ a1 \in Int /\ a2 \in Nat /\ a3 \in Nat /\ a4 \in Nat /\ c \in Nat
    BY <1>34, LeftIs, Zenon
  <2>2. n \in Nat /\ GB_WIDTH \in 1..160 /\ x \in 0..7
    BY <1>2, <1>29, PixelsAssumption, Zenon DEF x
  <2>3. a1 = 8 + GB_WIDTH - 0 + x /\ a2 + a3 <= 12 /\ 6 * c + a4 <= 6 * n
    BY <1>36, <1>37, Zenon
  <2>4. Left(d, l) = a1 + a2 + a3 + a4 + 6 * c /\ Longest(l) = 6 + (8 + GB_WIDTH) + 7 + 6 + 6 * n
    BY Zenon DEF Left, Longest
  <2> HIDE DEF c, n, a1, a2, a3, a4
  <2>5. a1 + a2 + a3 + a4 + 6 * c <= 6 + (8 + GB_WIDTH) + 7 + 6 + 6 * n
    BY <2>1, <2>2, <2>3, BudgetSum, Zenon
  <2> QED BY <2>4, <2>5, Zenon
<1>39. 0 < 8 + GB_WIDTH
  <2>1. GB_WIDTH \in 1..160
    BY PixelsAssumption, Zenon
  <2> QED BY <2>1, Start, Zenon
<1> QED BY <1>27, <1>32, <1>34, <1>35, <1>38, <1>39, Zenon

\* The type invariant, for both variables.
LEMMA Typed == DrawTypeOK <=> RegsOK(line) /\ PipeOK(pipe, line)
BY Zenon DEF DrawTypeOK, RegsOK, PipeOK

\* The longest line takes some dots.
LEMMA LongestIs == ASSUME NEW l, RegsOK(l) PROVE Longest(l) \in Nat
<1>1. Len(l.objs) \in Nat
  BY DEF RegsOK, Registers
<1>2. GB_WIDTH \in 1..160
  BY PixelsAssumption, Zenon
<1>3. ASSUME NEW n \in Nat, NEW w \in 1..160 PROVE 6 + (8 + w) + 7 + 6 + 6 * n \in Nat
  OBVIOUS
<1> QED BY <1>1, <1>2, <1>3, Zenon DEF Longest

\* What a line may begin with.
LEMMA LinesOK == \A l \in Lines : RegsOK(l)
BY PixelsAssumption, Zenon DEF RegsOK

\* The first state.
LEMMA DrawInitially == DrawInit => KeepsTime
<1> SUFFICES ASSUME DrawInit PROVE KeepsTime
  OBVIOUS
<1>1. RegsOK(line) /\ pipe = Blank
  BY LinesOK, Zenon DEF DrawInit
<1>2. /\ <<>> \in BgFifos /\ <<>> \in ObjFifos /\ <<>> \in Outs /\ NoSlot \in 0..MaxObjs
      /\ <<"bg", 0>> \in Maps \X TileStarts
  <2>1. <<>> \in BgFifos /\ <<>> \in ObjFifos /\ NoSlot \in 0..MaxObjs
    BY DEF BgFifos, ObjFifos, NoSlot, MaxObjs
  <2>2. <<>> \in Outs
    BY Zenon DEF Outs
  <2>3. "bg" \in Maps
    BY DEF Maps
  <2>4. 0 \in TileStarts
    <3>1. 0 \in 0..31 /\ 8 * 0 = 0
      OBVIOUS
    <3> QED BY <3>1 DEF TileStarts
  <2>5. <<"bg", 0>> \in Maps \X TileStarts
    BY <2>3, <2>4
  <2> QED BY <2>1, <2>2, <2>5, Zenon
<1>3. Blank \in Pipes
  BY <1>2 DEF Blank, Pipes
<1>4. /\ Blank.bg_fifo = <<>> /\ Blank.obj_fifo = <<>> /\ Blank.fetch_obj = NoSlot
      /\ Blank.obj_dot = 0 /\ Blank.dots = 0
  BY DEF Blank
<1>5. Blank.draw_complete
  BY DEF Blank
<1>6. PipeOK(pipe, line)
  <2>1. NoSlot <= Len(line.objs)
    <3>1. Len(line.objs) \in Nat
      BY <1>1 DEF RegsOK, Registers
    <3> QED BY <3>1 DEF NoSlot
  <2>2. Len(<<>>) <= 8 /\ DOMAIN <<>> = {}
    OBVIOUS
  <2> QED BY <1>1, <1>3, <1>4, <2>1, <2>2, Zenon DEF PipeOK
<1>7. pipe.dots <= Longest(line)
  BY <1>1, <1>4, LongestIs
<1> QED BY <1>1, <1>4, <1>5, <1>6, <1>7, Typed, Zenon DEF KeepsTime, InStep, WithinBudget, EndsInTime

\* Registers keep their types when the program sets them.
LEMMA Written ==
    ASSUME NEW l, RegsOK(l), NEW w \in Writes,
           NEW n, n = [w EXCEPT !.objs = l.objs, !.wy_check = l.wy_check]
    PROVE  RegsOK(n) /\ n.objs = l.objs
<1>1. w \in Registers /\ l \in Registers
  BY PixelsAssumption, Zenon DEF RegsOK
<1> DEFINE lists == Seq(Objs)
           c == l.wy_check
           v == l.objs
           r1 == [w EXCEPT !.objs = v]
           r == [r1 EXCEPT !.wy_check = c]
<1>2. Registers = [scx : 0..255, wx : 0..255, wy_check : BOOLEAN, bg_win_on : BOOLEAN,
                   win_on : BOOLEAN, obj_on : BOOLEAN, objs : lists]
  BY Zenon DEF Registers
<1> HIDE DEF lists
<1>3. v \in lists /\ c \in BOOLEAN
  BY <1>1, <1>2
<1>4. n = r
  BY Zenon
<1> HIDE DEF v, c
<1>5. r1 \in Registers /\ r1.objs = v
  BY <1>1, <1>2, <1>3
<1> HIDE DEF r1
<1>6. r.objs = v
  BY <1>2, <1>5
<1>7. ASSUME NEW b \in BOOLEAN PROVE [r1 EXCEPT !.wy_check = b] \in Registers
  BY <1>2, <1>5
<1>8. r \in Registers
  BY <1>3, <1>7, Zenon
<1> QED BY <1>4, <1>6, <1>8, Zenon DEF RegsOK, v

\* Every step keeps KeepsTime.
LEMMA DrawStep == KeepsTime /\ [DrawNext]_draw_vars => KeepsTime'
<1> SUFFICES ASSUME KeepsTime, [DrawNext]_draw_vars PROVE KeepsTime'
  OBVIOUS
<1>1. RegsOK(line) /\ PipeOK(pipe, line)
  BY Typed, Zenon DEF KeepsTime
<1>2. /\ pipe.fetch_obj = NoSlot => pipe.obj_dot = 0
      /\ pipe.bg_fifo # <<>> => Len(pipe.bg_fifo) + pipe.bg_dot >= 7
      /\ ~pipe.draw_complete => Place(pipe) < 8 + GB_WIDTH
      /\ ~pipe.draw_complete => pipe.dots + Left(pipe, line) <= Longest(line)
      /\ pipe.dots <= Longest(line)
  BY Zenon DEF KeepsTime, InStep, WithinBudget, EndsInTime
\* What is to be shown of the state after a step.
<1>3. ASSUME RegsOK(line)', PipeOK(pipe, line)',
             pipe'.fetch_obj = NoSlot => pipe'.obj_dot = 0,
             pipe'.bg_fifo # <<>> => Len(pipe'.bg_fifo) + pipe'.bg_dot >= 7,
             ~pipe'.draw_complete => /\ Place(pipe') < 8 + GB_WIDTH
                                     /\ pipe'.dots + Left(pipe', line') <= Longest(line'),
             pipe'.dots <= Longest(line')
      PROVE  KeepsTime'
  <2>1. DrawTypeOK'
    BY <1>3, Zenon DEF DrawTypeOK, RegsOK, PipeOK
  <2>2. InStep' /\ WithinBudget' /\ EndsInTime'
    BY <1>3, Zenon DEF InStep, WithinBudget, EndsInTime
  <2> QED BY <2>1, <2>2, Zenon DEF KeepsTime
<1>4. CASE BeginDraw
  <2>1. PICK l \in Lines : line' = l /\ pipe' = [Mode3(pipe, l) EXCEPT !.out = <<>>]
    BY <1>4, Zenon DEF BeginDraw
  <2>2. RegsOK(l) /\ pipe \in Pipes
    BY <1>1, LinesOK, Zenon DEF PipeOK
  <2> DEFINE d == pipe'
  <2>3. d = [Mode3(pipe, l) EXCEPT !.out = <<>>]
    BY <2>1, Zenon
  <2> HIDE DEF d
  <2>4. /\ PipeOK(d, l) /\ d.dots = 0
        /\ d.fetch_obj = NoSlot => d.obj_dot = 0
        /\ d.bg_fifo # <<>> => Len(d.bg_fifo) + d.bg_dot >= 7
        /\ Place(d) < 8 + GB_WIDTH /\ Left(d, l) <= Longest(l)
    BY <2>2, <2>3, Mode3Begins
  <2>5. d.dots + Left(d, l) <= Longest(l) /\ d.dots <= Longest(l)
    <3>1. Left(d, l) \in Int
      BY <2>2, <2>4, LeftIs DEF Left
    <3>2. Longest(l) \in Nat
      BY <2>2, LongestIs
    <3> QED BY <2>4, <3>1, <3>2
  <2> QED BY <1>3, <2>1, <2>2, <2>4, <2>5, Zenon DEF d, RegsOK, PipeOK
<1>5. CASE mode3_dot
  <2>1. ~pipe.draw_complete /\ pipe' = Dot(pipe, line) /\ line' = line
    BY <1>5, Zenon DEF mode3_dot
  <2> DEFINE d == pipe'
  <2>2. d = Dot(pipe, line) /\ Place(pipe) < 8 + GB_WIDTH
    BY <1>2, <2>1, Zenon
  <2> HIDE DEF d
  <2>3. /\ PipeOK(d, line) /\ d.dots = pipe.dots + 1 /\ Left(pipe, line) >= 1
        /\ d.fetch_obj = NoSlot => d.obj_dot = 0
        /\ d.bg_fifo # <<>> => Len(d.bg_fifo) + d.bg_dot >= 7
        /\ \/ d.draw_complete
           \/ Place(d) < 8 + GB_WIDTH /\ Left(d, line) <= Left(pipe, line) - 1
    BY <1>1, <1>2, <2>2, DotTakes
  <2>4. /\ d.dots <= Longest(line)
        /\ Left(d, line) <= Left(pipe, line) - 1 => d.dots + Left(d, line) <= Longest(line)
    <3> DEFINE x == Left(d, line)
               y == Left(pipe, line)
               z == Longest(line)
               n == pipe.dots
               m == d.dots
    <3>1. x \in Int /\ y \in Int /\ z \in Nat /\ n \in Nat
      <4>1. \A q : PipeOK(q, line) => Left(q, line) \in Int
        <5> SUFFICES ASSUME NEW q, PipeOK(q, line) PROVE Left(q, line) \in Int
          OBVIOUS
        <5> QED BY <1>1, LeftIs DEF Left
      <4>2. x \in Int /\ y \in Int
        BY <1>1, <2>3, <4>1, Zenon
      <4>3. pipe.dots \in Nat
        BY <1>1, Fields, Zenon DEF PipeOK
      <4> QED BY <1>1, <4>2, <4>3, LongestIs, Zenon
    <3>2. n + y <= z /\ m = n + 1 /\ y >= 1
      BY <1>2, <2>1, <2>3, Zenon
    <3> HIDE DEF x, y, z, n, m
    <3>3. m <= z /\ (x <= y - 1 => m + x <= z)
      BY <3>1, <3>2
    <3> QED BY <3>3 DEF x, y, z, m
  <2> QED BY <1>1, <1>3, <2>1, <2>3, <2>4, Zenon DEF d, RegsOK, PipeOK
<1>6. CASE RegisterWrite
  <2>1. PICK w \in Writes : line' = [w EXCEPT !.objs = line.objs, !.wy_check = line.wy_check]
    BY <1>6, Zenon DEF RegisterWrite
  <2>2. pipe' = pipe
    BY <1>6, Zenon DEF RegisterWrite
  <2> DEFINE n == line'
  <2>3. n = [w EXCEPT !.objs = line.objs, !.wy_check = line.wy_check]
    BY <2>1, Zenon
  <2> HIDE DEF n
  <2>4. RegsOK(n) /\ n.objs = line.objs
    BY <1>1, <2>3, Written
  <2>5. Longest(n) = Longest(line) /\ Left(pipe, n) = Left(pipe, line)
    BY <2>4, Zenon DEF Longest, Left, ObjsAhead
  <2>6. PipeOK(pipe, n)
    BY <1>1, <2>4, Zenon DEF PipeOK
  <2> QED BY <1>2, <1>3, <2>2, <2>4, <2>5, <2>6, Zenon DEF n, RegsOK, PipeOK
<1>7. CASE UNCHANGED draw_vars
  <2>1. line' = line /\ pipe' = pipe
    BY <1>7, Zenon DEF draw_vars
  <2> QED BY <1>1, <1>2, <1>3, <2>1, Zenon DEF RegsOK, PipeOK
<1> QED BY <1>4, <1>5, <1>6, <1>7 DEF DrawNext

---------------------------------------------------------------------------
\* What is drawn.

\* The fields that a dot of the fetcher of the objects changes.
LEMMA ObjDotIs ==
    ASSUME NEW l, NEW s \in Pipes, NEW o, o = obj_fetcher_dot(s, l)
    PROVE  /\ o.lx = s.lx /\ o.bg_fetch_x = s.bg_fetch_x /\ o.bg_fifo = s.bg_fifo
           /\ o.bg_dot = s.bg_dot /\ o.tile = s.tile /\ o.win_x = s.win_x
           /\ o.scx_disregard = s.scx_disregard /\ o.out = s.out
           /\ o.window_mode = s.window_mode /\ o.draw_complete = s.draw_complete
           /\ \/ o.fetch_obj = s.fetch_obj /\ o.obj_fifo = s.obj_fifo
              \/ s.fetch_obj # NoSlot /\ o.fetch_obj = NoSlot /\ o.obj_fifo = Merged(s, l)
<1>1. CASE s.fetch_obj = NoSlot
  <2>1. o = s
    BY <1>1, Zenon DEF obj_fetcher_dot
  <2> QED BY <2>1, Zenon
<1>2. CASE s.fetch_obj # NoSlot /\ s.obj_dot < 6
  <2> DEFINE n == s.obj_dot + 1
             r == [s EXCEPT !.obj_dot = n]
  <2>1. o = r
    BY <1>2, Zenon DEF obj_fetcher_dot
  <2> HIDE DEF n
  <2>2. /\ r.lx = s.lx /\ r.bg_fetch_x = s.bg_fetch_x /\ r.bg_fifo = s.bg_fifo
        /\ r.bg_dot = s.bg_dot /\ r.tile = s.tile /\ r.win_x = s.win_x
        /\ r.scx_disregard = s.scx_disregard /\ r.out = s.out
        /\ r.fetch_obj = s.fetch_obj /\ r.obj_fifo = s.obj_fifo
    BY DEF Pipes
  <2>3. r.window_mode = s.window_mode /\ r.draw_complete = s.draw_complete
    BY Zenon DEF Pipes
  <2> QED BY <2>1, <2>2, <2>3, Zenon
<1>3. CASE s.fetch_obj # NoSlot /\ ~(s.obj_dot < 6)
  <2> DEFINE m == Merged(s, l)
             none == NoSlot
             r == [s EXCEPT !.obj_fifo = m, !.obj_dot = 0, !.fetch_obj = none]
  <2>1. o = r
    BY <1>3, Zenon DEF obj_fetcher_dot
  <2> HIDE DEF m, none
  <2>2. /\ r.lx = s.lx /\ r.bg_fetch_x = s.bg_fetch_x /\ r.bg_fifo = s.bg_fifo
        /\ r.bg_dot = s.bg_dot /\ r.tile = s.tile /\ r.win_x = s.win_x
        /\ r.scx_disregard = s.scx_disregard /\ r.out = s.out
        /\ r.fetch_obj = none /\ r.obj_fifo = m
    BY DEF Pipes
  <2>3. r.window_mode = s.window_mode /\ r.draw_complete = s.draw_complete
    BY Zenon DEF Pipes
  <2> QED BY <1>3, <2>1, <2>2, <2>3, Zenon DEF m, none
<1> QED BY <1>1, <1>2, <1>3, Zenon

\* The fields that a dot of the fetcher of the background changes.
LEMMA BgDotIs ==
    ASSUME NEW l, NEW s \in Pipes, NEW o, o = bg_fetcher_dot(s, l)
    PROVE  /\ o.lx = s.lx /\ o.obj_fifo = s.obj_fifo /\ o.fetch_obj = s.fetch_obj
           /\ o.scx_disregard = s.scx_disregard /\ o.out = s.out
           /\ o.window_mode = s.window_mode /\ o.draw_complete = s.draw_complete
           /\ \/ /\ o.bg_fifo = s.bg_fifo /\ o.bg_fetch_x = s.bg_fetch_x /\ o.win_x = s.win_x
                 /\ \/ s.bg_dot = 0 /\ o.tile = TileAt(s, l)
                    \/ s.bg_dot > 0 /\ o.tile = s.tile
              \/ /\ s.bg_dot > 0 /\ s.bg_fifo = <<>>
                 /\ o.bg_dot = 0 /\ o.bg_fifo = TilePixels(s.tile)
                 /\ o.bg_fetch_x = Byte(s.bg_fetch_x + 8)
                 /\ o.win_x = IF s.window_mode THEN Byte(s.win_x + 8) ELSE s.win_x
<1>1. s.bg_dot \in 0..7
  BY Fields
<1> DEFINE full == s.bg_fifo # <<>>
<1>2. CASE s.bg_dot = 0
  <2> DEFINE t == TileAt(s, l)
             r == [s EXCEPT !.tile = t, !.bg_dot = 1]
  <2>1. o = r
    BY <1>2 DEF bg_fetcher_dot
  <2> HIDE DEF t
  <2>2. /\ r.lx = s.lx /\ r.bg_fetch_x = s.bg_fetch_x /\ r.bg_fifo = s.bg_fifo
        /\ r.obj_fifo = s.obj_fifo /\ r.tile = t /\ r.win_x = s.win_x
        /\ r.scx_disregard = s.scx_disregard /\ r.out = s.out /\ r.fetch_obj = s.fetch_obj
    BY DEF Pipes
  <2>3. r.window_mode = s.window_mode /\ r.draw_complete = s.draw_complete
    BY Zenon DEF Pipes
  <2> QED BY <1>2, <2>1, <2>2, <2>3, Zenon DEF t
<1>3. CASE s.bg_dot \in 1..5 \/ (s.bg_dot \in {6, 7} /\ full)
  <2> DEFINE n == IF s.bg_dot \in 1..5 THEN s.bg_dot + 1 ELSE 7
             r == [s EXCEPT !.bg_dot = n]
  <2>1. o = r
    <3>1. CASE s.bg_dot \in 1..5
      <4>1. o = [s EXCEPT !.bg_dot = @ + 1]
        BY <3>1 DEF bg_fetcher_dot
      <4> QED BY <3>1, <4>1, Zenon
    <3>2. CASE s.bg_dot \in {6, 7} /\ full
      <4>1. o = [s EXCEPT !.bg_dot = 7]
        BY <3>2 DEF bg_fetcher_dot
      <4>2. n = 7
        BY <3>2
      <4> QED BY <4>1, <4>2, Zenon
    <3> QED BY <1>3, <3>1, <3>2, Zenon
  <2>4. s.bg_dot > 0
    BY <1>3
  <2> HIDE DEF n
  <2>2. /\ r.lx = s.lx /\ r.bg_fetch_x = s.bg_fetch_x /\ r.bg_fifo = s.bg_fifo
        /\ r.obj_fifo = s.obj_fifo /\ r.tile = s.tile /\ r.win_x = s.win_x
        /\ r.scx_disregard = s.scx_disregard /\ r.out = s.out /\ r.fetch_obj = s.fetch_obj
    BY DEF Pipes
  <2>3. r.window_mode = s.window_mode /\ r.draw_complete = s.draw_complete
    BY Zenon DEF Pipes
  <2> QED BY <2>1, <2>2, <2>3, <2>4, Zenon
<1>4. CASE s.bg_dot \in {6, 7} /\ ~full
  <2> DEFINE t == TilePixels(s.tile)
             x == Byte(s.bg_fetch_x + 8)
             w == IF s.window_mode THEN Byte(s.win_x + 8) ELSE s.win_x
             r == [s EXCEPT !.bg_fifo = t, !.bg_dot = 0, !.bg_fetch_x = x, !.win_x = w]
  <2>1. o = [s EXCEPT !.bg_fifo = t, !.bg_dot = 0, !.bg_fetch_x = Byte(@ + 8),
                      !.win_x = IF s.window_mode THEN Byte(@ + 8) ELSE @]
    BY <1>4 DEF bg_fetcher_dot
  <2>2. o = r
    BY <2>1, Zenon
  <2>3. s.bg_dot > 0
    BY <1>4
  <2> HIDE DEF t, x, w
  <2>4. /\ r.lx = s.lx /\ r.bg_fetch_x = x /\ r.bg_fifo = t /\ r.bg_dot = 0
        /\ r.obj_fifo = s.obj_fifo /\ r.win_x = w
        /\ r.scx_disregard = s.scx_disregard /\ r.out = s.out /\ r.fetch_obj = s.fetch_obj
    BY DEF Pipes
  <2>5. r.window_mode = s.window_mode /\ r.draw_complete = s.draw_complete
    BY Zenon DEF Pipes
  <2> HIDE DEF r
  <2> QED BY <1>4, <2>2, <2>3, <2>4, <2>5, Zenon DEF t, x, w
<1>5. s.bg_dot = 0 \/ s.bg_dot \in 1..5 \/ s.bg_dot \in {6, 7}
  BY <1>1
<1> QED BY <1>2, <1>3, <1>4, <1>5, Zenon

\* The fields that a pixel changes.
LEMMA PixelIs ==
    ASSUME NEW l, RegsOK(l), NEW s, PipeOK(s, l), NEW d, d = DrawPixel(s, l)
    PROVE  \/ d = s /\ (s.fetch_obj # NoSlot \/ s.bg_fifo = <<>>)
           \/ /\ s.fetch_obj = NoSlot /\ s.bg_fifo # <<>>
              /\ s.scx_disregard > 0 /\ d.scx_disregard = s.scx_disregard - 1
              /\ d.bg_fifo = Tail(s.bg_fifo) /\ d.obj_fifo = Popped(s.obj_fifo)
              /\ d.lx = s.lx /\ d.fetch_obj = s.fetch_obj /\ d.out = s.out
              /\ d.bg_dot = s.bg_dot /\ d.tile = s.tile /\ d.bg_fetch_x = s.bg_fetch_x
              /\ d.win_x = s.win_x /\ d.window_mode = s.window_mode
              /\ d.draw_complete = s.draw_complete
           \/ /\ s.fetch_obj = NoSlot /\ s.bg_fifo # <<>> /\ ~(s.scx_disregard > 0)
              /\ d.lx = Byte(s.lx + 1)
              /\ d.out = IF s.lx < GB_WIDTH THEN Picked(s, l) ELSE s.out
              /\ \/ d.lx = GB_WIDTH /\ d.draw_complete
                 \/ /\ d.lx # GB_WIDTH /\ d.draw_complete = s.draw_complete
                    /\ d.scx_disregard = s.scx_disregard
                    /\ d.fetch_obj = SlotAt(d.lx, l) /\ d.obj_fifo = Popped(s.obj_fifo)
                    /\ d.bg_fetch_x = s.bg_fetch_x /\ d.win_x = s.win_x /\ d.tile = s.tile
                    /\ LET starts == /\ ~s.window_mode /\ l.bg_win_on /\ l.win_on
                                     /\ l.wy_check /\ Byte(d.lx + 7) = l.wx
                       IN  \/ /\ starts /\ d.bg_fifo = <<>> /\ d.bg_dot = 0 /\ d.window_mode
                           \/ /\ ~starts /\ d.bg_fifo = Tail(s.bg_fifo) /\ d.bg_dot = s.bg_dot
                              /\ d.window_mode = s.window_mode
<1> DEFINE t == Tail(s.bg_fifo)
           f == Popped(s.obj_fifo)
           y == Byte(s.lx + 1)
           o == IF s.lx < GB_WIDTH THEN Picked(s, l) ELSE s.out
           p == [s EXCEPT !.bg_fifo = t, !.obj_fifo = f]
           w == [p EXCEPT !.lx = y, !.out = o]
           q == SlotAt(y, l)
           k == [w EXCEPT !.fetch_obj = q]
<1>1. s \in Pipes
  BY DEF PipeOK
<1>2. CASE s.fetch_obj # NoSlot \/ s.bg_fifo = <<>>
  BY <1>2, Zenon DEF DrawPixel
<1>3. CASE ~(s.fetch_obj # NoSlot \/ s.bg_fifo = <<>>)
  <2>1. p = [s EXCEPT !.bg_fifo = Tail(@), !.obj_fifo = Popped(@)]
    BY Zenon
  <2>2. w = [p EXCEPT !.lx = Byte(@ + 1), !.out = IF s.lx < GB_WIDTH THEN Picked(s, l) ELSE @]
    <3>1. p.lx = s.lx /\ p.out = s.out
      BY <1>1 DEF Pipes
    <3> HIDE DEF p
    <3>2. w = [p EXCEPT !.lx = Byte(s.lx + 1), !.out = IF s.lx < GB_WIDTH THEN Picked(s, l) ELSE s.out]
      BY Zenon
    <3> QED BY <3>1, <3>2, Zenon
  <2>3. d = IF s.scx_disregard > 0 THEN [p EXCEPT !.scx_disregard = @ - 1]
            ELSE IF w.lx = GB_WIDTH THEN [w EXCEPT !.draw_complete = TRUE]
            ELSE check_win_lx(check_objs_lx(w, l), l)
    <3> DEFINE Rest(popped, drawn) ==
                   IF s.scx_disregard > 0 THEN [popped EXCEPT !.scx_disregard = @ - 1]
                   ELSE IF drawn.lx = GB_WIDTH THEN [drawn EXCEPT !.draw_complete = TRUE]
                   ELSE check_win_lx(check_objs_lx(drawn, l), l)
               Drawn(popped) ==
                   [popped EXCEPT !.lx = Byte(@ + 1),
                                  !.out = IF s.lx < GB_WIDTH THEN Picked(s, l) ELSE @]
               z == [s EXCEPT !.bg_fifo = Tail(@), !.obj_fifo = Popped(@)]
    <3>1. d = Rest(z, Drawn(z))
      BY <1>3, Zenon DEF DrawPixel
    <3>2. p = z
      BY <2>1, Zenon
    <3> HIDE DEF z, p
    <3>3. w = Drawn(p)
      BY <2>2, Zenon
    <3> HIDE DEF w, Drawn
    <3>4. d = Rest(p, w)
      BY <3>1, <3>2, <3>3, Zenon
    <3> QED BY <3>4, Zenon
  <2> HIDE DEF t, f, y, o
  <2>4. /\ p.lx = s.lx /\ p.bg_fifo = t /\ p.obj_fifo = f /\ p.bg_dot = s.bg_dot /\ p.tile = s.tile
        /\ p.fetch_obj = s.fetch_obj /\ p.bg_fetch_x = s.bg_fetch_x /\ p.win_x = s.win_x
        /\ p.scx_disregard = s.scx_disregard /\ p.out = s.out
    BY <1>1 DEF Pipes
  <2>5. p.window_mode = s.window_mode /\ p.draw_complete = s.draw_complete
    BY <1>1, Zenon DEF Pipes
  <2>6. CASE s.scx_disregard > 0
    <3> DEFINE n == s.scx_disregard - 1
               r == [p EXCEPT !.scx_disregard = n]
    <3>1. d = r
      BY <2>3, <2>4, <2>6, Zenon
    <3> HIDE DEF n
    <3>2. /\ r.lx = s.lx /\ r.bg_fifo = t /\ r.obj_fifo = f /\ r.bg_dot = s.bg_dot /\ r.tile = s.tile
          /\ r.fetch_obj = s.fetch_obj /\ r.bg_fetch_x = s.bg_fetch_x /\ r.win_x = s.win_x
          /\ r.scx_disregard = n /\ r.out = s.out
      BY <1>1 DEF Pipes
    <3>3. r.window_mode = s.window_mode /\ r.draw_complete = s.draw_complete
      BY <1>1, Zenon DEF Pipes
    <3> QED BY <1>3, <2>6, <3>1, <3>2, <3>3, Zenon DEF t, f, n
  <2>7. CASE ~(s.scx_disregard > 0)
    <3>1. /\ w.lx = y /\ w.bg_fifo = t /\ w.obj_fifo = f /\ w.bg_dot = s.bg_dot /\ w.tile = s.tile
          /\ w.fetch_obj = s.fetch_obj /\ w.bg_fetch_x = s.bg_fetch_x /\ w.win_x = s.win_x
          /\ w.scx_disregard = s.scx_disregard /\ w.out = o
      BY <1>1 DEF Pipes
    <3>2. w.window_mode = s.window_mode /\ w.draw_complete = s.draw_complete
      BY <1>1, Zenon DEF Pipes
    <3>3. CASE w.lx = GB_WIDTH
      <4> DEFINE r == [w EXCEPT !.draw_complete = TRUE]
      <4>1. d = r
        BY <2>3, <2>7, <3>3, Zenon
      <4>2. r.lx = y /\ r.out = o
        BY <1>1 DEF Pipes
      <4>3. r.draw_complete
        BY <1>1, Zenon DEF Pipes
      <4> QED BY <1>3, <2>7, <3>1, <3>3, <4>1, <4>2, <4>3, Zenon DEF y, o
    <3>4. CASE w.lx # GB_WIDTH
      <4>1. d = check_win_lx(k, l)
        <5>1. k = check_objs_lx(w, l)
          BY <3>1, Zenon DEF check_objs_lx
        <5> HIDE DEF k, w
        <5> QED BY <2>3, <2>7, <3>4, <5>1, Zenon
      <4> HIDE DEF q
      <4>2. /\ k.lx = y /\ k.bg_fifo = t /\ k.obj_fifo = f /\ k.bg_dot = s.bg_dot /\ k.tile = s.tile
            /\ k.fetch_obj = q /\ k.bg_fetch_x = s.bg_fetch_x /\ k.win_x = s.win_x
            /\ k.scx_disregard = s.scx_disregard /\ k.out = o
        BY <1>1 DEF Pipes
      <4>3. k.window_mode = s.window_mode /\ k.draw_complete = s.draw_complete
        BY <1>1, Zenon DEF Pipes
      <4> DEFINE starts == /\ ~s.window_mode /\ l.bg_win_on /\ l.win_on
                           /\ l.wy_check /\ Byte(y + 7) = l.wx
      <4>4. starts <=> WindowStarts(k, l)
        <5> HIDE DEF k
        <5> QED BY <4>2, <4>3, Zenon DEF WindowStarts
      <4>5. CASE ~starts
        <5>1. d = k
          BY <4>1, <4>4, <4>5, Zenon DEF check_win_lx
        <5> HIDE DEF k
        <5> QED BY <1>3, <2>7, <3>1, <3>4, <4>2, <4>3, <4>5, <5>1, Zenon DEF t, f, y, o, q
      <4>6. CASE starts
        <5> DEFINE r == [[k EXCEPT !.bg_dot = 0] EXCEPT !.bg_fifo = <<>>, !.window_mode = TRUE]
        <5>1. d = r
          <6> HIDE DEF k
          <6> QED BY <4>1, <4>4, <4>6, Zenon DEF check_win_lx, fetcher_clear
        <5>2. /\ r.lx = y /\ r.bg_fifo = <<>> /\ r.obj_fifo = f /\ r.bg_dot = 0 /\ r.tile = s.tile
              /\ r.fetch_obj = q /\ r.bg_fetch_x = s.bg_fetch_x /\ r.win_x = s.win_x
              /\ r.scx_disregard = s.scx_disregard /\ r.out = o
          BY <1>1 DEF Pipes
        <5>3. r.window_mode /\ r.draw_complete = s.draw_complete
          BY <1>1, Zenon DEF Pipes
        <5> HIDE DEF r
        <5> QED BY <1>3, <2>7, <3>1, <3>4, <4>6, <5>1, <5>2, <5>3, ZenonT(30) DEF t, f, y, o, q
      <4> QED BY <4>5, <4>6, Zenon
    <3> QED BY <3>3, <3>4, Zenon
  <2> QED BY <2>6, <2>7, Zenon
<1> QED BY <1>2, <1>3, Zenon

\* The pixels of a tile.
LEMMA TilePixelIs ==
    ASSUME NEW t
    PROVE  /\ DOMAIN TilePixels(t) = 1..8
           /\ \A i \in 1..8 : TilePixels(t)[i] = <<t[1], t[2] + i - 1>>
BY Zenon DEF TilePixels

\* Bytes wrap.
LEMMA ByteOf == \A x \in Int : \A b \in 0..255 : \A k \in 0..3 : x = b + 256 * k => Byte(x) = b
<1> SUFFICES ASSUME NEW x \in Int, NEW b \in 0..255, NEW k \in 0..3, x = b + 256 * k PROVE Byte(x) = b
  OBVIOUS
<1>1. b % 256 = b /\ (b + 256) % 256 = b /\ (b + 512) % 256 = b /\ (b + 768) % 256 = b
  OBVIOUS
<1>2. x = b \/ x = b + 256 \/ x = b + 512 \/ x = b + 768
  OBVIOUS
<1>3. x % 256 = b
  BY <1>1, <1>2
<1> QED BY <1>3, Zenon DEF Byte

\* The same, of the sum itself.
LEMMA ByteOfSum == \A b \in 0..255 : \A k \in 0..3 : Byte(b + 256 * k) = b
<1> SUFFICES ASSUME NEW b \in 0..255, NEW k \in 0..3 PROVE Byte(b + 256 * k) = b
  OBVIOUS
<1>1. b + 256 * k \in Int
  OBVIOUS
<1> QED BY <1>1, ByteOf

\* A number and its place among the tiles.
LEMMA EightsOf == \A n \in 0..255 : /\ n \div 8 \in 0..31 /\ n % 8 \in 0..7
                                    /\ n = 8 * (n \div 8) + (n % 8)
OBVIOUS

\* What a number of less than four wraps is.
LEMMA WrapsOf == \A n \in 0..1023 : \E k \in 0..3 : Byte(n) \in 0..255 /\ n = Byte(n) + 256 * k
<1> TAKE n \in 0..1023
<1>1. n \div 256 \in 0..3 /\ n % 256 \in 0..255 /\ n = (n % 256) + 256 * (n \div 256)
  OBVIOUS
<1> QED BY <1>1, ZenonT(30) DEF Byte

\* Adding to a byte wraps once.
LEMMA ByteAdd ==
    ASSUME NEW x \in 0..511, NEW k \in 0..511
    PROVE  Byte(Byte(x) + k) = Byte(x + k)
<1> DEFINE b == Byte(x)
           y == b + k
           c == Byte(y)
           z == x + k
<1>1. PICK m \in 0..1 : b \in 0..255 /\ x = b + 256 * m
  <2>1. x \in 0..1023
    OBVIOUS
  <2>2. PICK m \in 0..3 : b \in 0..255 /\ x = b + 256 * m
    BY <2>1, WrapsOf, ZenonT(30)
  <2> HIDE DEF b
  <2>3. m \in 0..1
    BY <2>2
  <2> QED BY <2>2, <2>3
<1> HIDE DEF b
<1>2. PICK n \in 0..2 : c \in 0..255 /\ y = c + 256 * n
  <2>1. y \in 0..1023 /\ y <= 766
    BY <1>1
  <2> HIDE DEF y
  <2>2. PICK n \in 0..3 : c \in 0..255 /\ y = c + 256 * n
    BY <2>1, WrapsOf, ZenonT(30)
  <2> HIDE DEF c
  <2>3. n \in 0..2
    BY <2>1, <2>2
  <2> QED BY <2>2, <2>3
<1> HIDE DEF c
<1>3. m + n \in 0..3 /\ z = c + 256 * (m + n) /\ z \in Int
  BY <1>1, <1>2
<1> HIDE DEF z
<1> DEFINE p == m + n
<1>5. p \in 0..3 /\ z = c + 256 * p
  BY <1>3, Zenon
<1> HIDE DEF p
<1>6. c \in 0..255
  BY <1>2, Zenon
<1>7. Byte(c + 256 * p) = c
  BY <1>5, <1>6, ByteOfSum
<1>4. Byte(z) = c
  BY <1>5, <1>7, Zenon
<1> QED BY <1>4, Zenon DEF z, c, y, b

\* The column of pixel i of a tile.
ColumnAt(i, start, column) == start + i - 1 = column

\* SCX is a tiles and r pixels, and the fetcher asks for tile g of the map when pixel x is
\* next, with dis still to drop.
Asks(a, r, g, x, dis, scx, fx) ==
    /\ a \in 0..31 /\ g \in 0..31 /\ r \in 0..7 /\ x \in 0..255 /\ dis \in 0..7 /\ dis <= r
    /\ scx = 8 * a + r /\ fx = 8 * g /\ fx = Byte(x + (r - dis) + 0)

\* The column that the fetcher asks for is that of the next pixel, or of the first pixel of
\* its tile while SCX still drops some.
LEMMA ColumnOf ==
    ASSUME NEW a, NEW r, NEW g, NEW x, NEW dis, NEW scx, NEW fx,
           Asks(a, r, g, x, dis, scx, fx), NEW i \in 1..8
    PROVE  ColumnAt(i, (Byte(fx + scx) \div 8) * 8, Byte(x + scx - dis + i - 1))
<1>0. /\ a \in 0..31 /\ g \in 0..31 /\ r \in 0..7 /\ x \in 0..255 /\ dis \in 0..7 /\ dis <= r
      /\ scx = 8 * a + r /\ fx = 8 * g
  BY Zenon DEF Asks
<1> DEFINE n == x + (r - dis) + 0
           h == IF g + a < 32 THEN g + a ELSE (g + a) - 32
           u == IF g + a < 32 THEN 0 ELSE 1
           left == fx + scx
           right == x + scx - dis + i - 1
           b == 8 * h + r
           c == 8 * h + i - 1
           tile == 8 * g
<1>1. tile = Byte(n)
  BY Zenon DEF Asks
<1>3. n \in 0..1023 /\ n <= 262
  BY <1>0
<1> HIDE DEF n, tile
<1>4. PICK m \in 0..3 : n = tile + 256 * m
  <2>1. PICK m \in 0..3 : Byte(n) \in 0..255 /\ n = Byte(n) + 256 * m
    BY <1>3, WrapsOf, ZenonT(40)
  <2> QED BY <1>1, <2>1, Zenon
<1>5. m <= 1
  BY <1>0, <1>3, <1>4 DEF tile
<1>6. x + (r - dis) + 0 = 8 * g + 256 * m
  BY <1>4, Zenon DEF n, tile
<1>10. left \in Int /\ right \in Int
  BY <1>0
<1>7. h \in 0..31 /\ u \in 0..1 /\ g + a = h + 32 * u
  BY <1>0
<1> HIDE DEF h, u
<1> DEFINE v == m + u
<1>8. b \in 0..255 /\ c \in 0..255
  BY <1>0, <1>7
<1>9. v \in 0..3 /\ u \in 0..3
  BY <1>0, <1>5, <1>7
<1>13. left = b + 256 * u
  BY <1>0, <1>7
<1>14. right = c + 256 * v
  <2>1. right = (8 * g + 256 * m) + 8 * a + i - 1
    BY <1>0, <1>6
  <2>2. (8 * g + 256 * m) + 8 * a + i - 1 = c + 256 * v
    BY <1>0, <1>7
  <2> QED BY <2>1, <2>2
<1>12. ((b \div 8) * 8) + i - 1 = c
  <2>1. \A k \in 0..31 : \A y \in 0..7 : ((8 * k + y) \div 8) * 8 = 8 * k
    OBVIOUS
  <2>2. (b \div 8) * 8 = 8 * h
    BY <1>0, <1>7, <2>1, Zenon
  <2> QED BY <1>0, <1>7, <2>2
<1> HIDE DEF left, right, b, c, v
<1>11. Byte(left) = b /\ Byte(right) = c
  <2>1. Byte(left) = b
    BY <1>8, <1>9, <1>10, <1>13, ByteOf
  <2>2. Byte(right) = c
    BY <1>8, <1>9, <1>10, <1>14, ByteOf, SMTT(30)
  <2> QED BY <2>1, <2>2
<1>15. ((Byte(left) \div 8) * 8) + i - 1 = Byte(right)
  BY <1>11, <1>12, Zenon
<1> QED BY <1>15, Zenon DEF left, right, ColumnAt

\* What GroundInPlace says of the fetcher and the FIFO, for the background and for the window.
BgAhead(fetch_x, fifo, lx, scx, drop) ==
    /\ fetch_x = Byte(lx + ((scx % 8) - drop) + Len(fifo)) /\ fetch_x % 8 = 0
    /\ \A i \in DOMAIN fifo : fifo[i] = <<"bg", Byte(lx + scx - drop + i - 1)>>

WinAhead(win_x, fifo, at) ==
    /\ win_x = at + Len(fifo) /\ win_x % 8 = 0
    /\ \A i \in DOMAIN fifo : fifo[i] = <<"win", at + i - 1>>

\* A byte that does not wrap.
LEMMA ByteSmall == \A n \in 0..255 : Byte(n) = n
BY DEF Byte

\* The next tile begins at a multiple of 8, too.
LEMMA NextTile == \A n \in 0..31 : Byte(8 * n + 8) % 8 = 0
<1> SUFFICES ASSUME NEW n \in 0..31 PROVE Byte(8 * n + 8) % 8 = 0
  OBVIOUS
<1>1. CASE n = 31
  <2>1. (8 * n + 8) % 256 = 0
    BY <1>1
  <2>2. 0 % 8 = 0
    OBVIOUS
  <2> QED BY <2>1, <2>2, Zenon DEF Byte
<1>2. CASE n # 31
  <2>1. 8 * n + 8 \in 0..255
    BY <1>2
  <2>2. (8 * n + 8) % 256 = 8 * n + 8
    BY <2>1
  <2>3. (8 * n + 8) % 8 = 0
    OBVIOUS
  <2> QED BY <2>2, <2>3, Zenon DEF Byte
<1> QED BY <1>1, <1>2, Zenon

\* A tile of the background comes into the empty FIFO.
LEMMA BgFills ==
    ASSUME NEW fetch_x \in 0..255, NEW lx \in 0..255, NEW scx \in 0..255, NEW drop \in 0..7,
           drop <= scx % 8, BgAhead(fetch_x, <<>>, lx, scx, drop),
           NEW fifo, DOMAIN fifo = 1..8, Len(fifo) = 8,
           \A i \in 1..8 : fifo[i] = <<"bg", ((Byte(fetch_x + scx) \div 8) * 8) + i - 1>>
    PROVE  BgAhead(Byte(fetch_x + 8), fifo, lx, scx, drop)
<1> DEFINE a == scx \div 8
           r == scx % 8
           g == fetch_x \div 8
           k == r - drop
           e == lx + k
<1>1. /\ a \in 0..31 /\ r \in 0..7 /\ scx = 8 * a + r
      /\ g \in 0..31 /\ fetch_x = 8 * g + (fetch_x % 8)
  BY EightsOf, Zenon
<1>2. fetch_x % 8 = 0 /\ fetch_x = Byte(e + 0)
  <2>1. Len(<<>>) = 0
    OBVIOUS
  <2> QED BY <2>1, Zenon DEF BgAhead
<1>3. drop <= r
  BY Zenon
<1> HIDE DEF a, r, g
<1>4. fetch_x = 8 * g
  <2>1. fetch_x = 8 * g + 0
    BY <1>1, <1>2, Zenon
  <2> QED BY <1>1, <2>1
<1>5. k \in 0..7 /\ e \in 0..262 /\ e = lx + (r - drop) /\ e + 0 \in 0..511 /\ e + 0 = e
  BY <1>1, <1>3
<1>6. fetch_x = Byte(lx + (r - drop) + 0)
  BY <1>2, Zenon
<1>7. ASSUME NEW i \in 1..8
      PROVE  ((Byte(fetch_x + scx) \div 8) * 8) + i - 1 = Byte(lx + scx - drop + i - 1)
  <2>1. a \in 0..31 /\ r \in 0..7 /\ g \in 0..31 /\ scx = 8 * a + r
    BY <1>1, Zenon
  <2>2. ColumnAt(i, (Byte(fetch_x + scx) \div 8) * 8, Byte(lx + scx - drop + i - 1))
    <3>1. Asks(a, r, g, lx, drop, scx, fetch_x)
      BY <2>1, <1>3, <1>4, <1>6, Zenon DEF Asks
    <3> QED BY <3>1, ColumnOf, Zenon
  <2> QED BY <2>2, Zenon DEF ColumnAt
<1>8. \A i \in DOMAIN fifo : fifo[i] = <<"bg", Byte(lx + scx - drop + i - 1)>>
  BY <1>7, Zenon
<1>9. Byte(fetch_x + 8) = Byte(lx + (r - drop) + Len(fifo))
  <2> HIDE DEF e
  <2>1. Byte(Byte(e) + 8) = Byte(e + 8)
    <3>1. 8 \in 0..511 /\ e \in 0..511
      BY <1>5
    <3> QED BY <3>1, ByteAdd, ZenonT(40)
  <2> QED BY <1>2, <1>5, <2>1, Zenon DEF e
<1>10. Byte(fetch_x + 8) % 8 = 0
  <2> QED BY <1>1, <1>4, NextTile, Zenon
<1> QED BY <1>8, <1>9, <1>10, Zenon DEF BgAhead, r

\* A tile of the window comes into the empty FIFO.
LEMMA WinFills ==
    ASSUME NEW win_x \in 0..255, NEW at \in 0..167, WinAhead(win_x, <<>>, at),
           NEW fifo, DOMAIN fifo = 1..8, Len(fifo) = 8,
           \A i \in 1..8 : fifo[i] = <<"win", ((win_x \div 8) * 8) + i - 1>>
    PROVE  WinAhead(Byte(win_x + 8), fifo, at)
<1>1. win_x = at /\ win_x % 8 = 0
  <2>1. Len(<<>>) = 0 /\ at + 0 = at
    OBVIOUS
  <2> QED BY <2>1, Zenon DEF WinAhead
<1>2. (win_x \div 8) * 8 = at
  BY <1>1
<1>3. \A i \in DOMAIN fifo : fifo[i] = <<"win", at + i - 1>>
  BY <1>2, Zenon
<1>4. Byte(win_x + 8) = at + 8
  <2>1. at + 8 \in 0..255
    OBVIOUS
  <2> QED BY <1>1, <2>1, ByteSmall, Zenon
<1>5. Byte(win_x + 8) % 8 = 0
  <2> DEFINE n == win_x \div 8
  <2>1. n \in 0..31 /\ win_x = 8 * n + (win_x % 8)
    BY EightsOf, Zenon
  <2> HIDE DEF n
  <2>2. win_x = 8 * n
    BY <1>1, <2>1
  <2> QED BY <2>1, <2>2, NextTile, Zenon
<1> QED BY <1>3, <1>4, <1>5, Zenon DEF WinAhead

\* The FIFO without its first pixel.
LEMMA TailIs ==
    ASSUME NEW S, NEW fifo \in Seq(S), fifo # <<>>
    PROVE  /\ Len(fifo) \in Nat /\ Len(fifo) >= 1 /\ Len(Tail(fifo)) = Len(fifo) - 1
           /\ \A i \in DOMAIN Tail(fifo) :
                 i \in Nat /\ i >= 1 /\ i + 1 \in DOMAIN fifo /\ Tail(fifo)[i] = fifo[i + 1]
<1>1. Len(fifo) \in Nat /\ Len(fifo) # 0
  OBVIOUS
<1>2. Len(Tail(fifo)) = Len(fifo) - 1
  OBVIOUS
<1>3. ASSUME NEW i \in DOMAIN Tail(fifo)
      PROVE  i \in Nat /\ i >= 1 /\ i + 1 \in DOMAIN fifo /\ Tail(fifo)[i] = fifo[i + 1]
  OBVIOUS
<1> QED BY <1>1, <1>2, <1>3

\* A pixel of the window is taken.
LEMMA WinMoves ==
    ASSUME NEW win_x, NEW at \in Int, NEW S, NEW fifo \in Seq(S), fifo # <<>>,
           WinAhead(win_x, fifo, at)
    PROVE  WinAhead(win_x, Tail(fifo), at + 1)
<1>1. /\ Len(fifo) \in Nat /\ Len(fifo) >= 1 /\ Len(Tail(fifo)) = Len(fifo) - 1
      /\ \A i \in DOMAIN Tail(fifo) :
            i \in Nat /\ i >= 1 /\ i + 1 \in DOMAIN fifo /\ Tail(fifo)[i] = fifo[i + 1]
  BY TailIs
<1>2. at + Len(fifo) = (at + 1) + Len(Tail(fifo))
  BY <1>1
<1>3. ASSUME NEW i \in DOMAIN Tail(fifo) PROVE Tail(fifo)[i] = <<"win", (at + 1) + i - 1>>
  <2>1. i \in Nat /\ i + 1 \in DOMAIN fifo /\ Tail(fifo)[i] = fifo[i + 1]
    BY <1>1, Zenon
  <2>2. at + (i + 1) - 1 = (at + 1) + i - 1
    BY <2>1
  <2>3. fifo[i + 1] = <<"win", at + (i + 1) - 1>>
    BY <2>1, Zenon DEF WinAhead
  <2> QED BY <2>1, <2>2, <2>3, Zenon
<1> QED BY <1>2, <1>3, Zenon DEF WinAhead

\* A pixel of the background is taken, either because SCX drops it or to be shown.
LEMMA BgMoves ==
    ASSUME NEW fetch_x, NEW lx \in 0..255, NEW scx \in 0..255, NEW drop \in 0..7, drop <= scx % 8,
           NEW S, NEW fifo \in Seq(S), fifo # <<>>, Len(fifo) <= 8,
           BgAhead(fetch_x, fifo, lx, scx, drop)
    PROVE  /\ drop > 0 => BgAhead(fetch_x, Tail(fifo), lx, scx, drop - 1)
           /\ drop = 0 => BgAhead(fetch_x, Tail(fifo), Byte(lx + 1), scx, 0)
<1> DEFINE r == scx % 8
<1>1. /\ Len(fifo) \in Nat /\ Len(fifo) >= 1 /\ Len(Tail(fifo)) = Len(fifo) - 1
      /\ \A i \in DOMAIN Tail(fifo) :
            i \in Nat /\ i >= 1 /\ i + 1 \in DOMAIN fifo /\ Tail(fifo)[i] = fifo[i + 1]
  BY TailIs
<1>2. r \in 0..7 /\ drop <= r /\ r <= scx
  <2>1. r \in 0..7 /\ r <= scx
    OBVIOUS
  <2> QED BY <2>1, Zenon
<1>3. /\ fetch_x = Byte(lx + (r - drop) + Len(fifo)) /\ fetch_x % 8 = 0
      /\ \A i \in DOMAIN fifo : fifo[i] = <<"bg", Byte(lx + scx - drop + i - 1)>>
  BY Zenon DEF BgAhead
<1> HIDE DEF r
<1>4. DOMAIN fifo = 1..Len(fifo)
  OBVIOUS
<1>5. ASSUME drop > 0 PROVE BgAhead(fetch_x, Tail(fifo), lx, scx, drop - 1)
  <2>1. lx + (r - (drop - 1)) + Len(Tail(fifo)) = lx + (r - drop) + Len(fifo)
    BY <1>1, <1>2
  <2>2. ASSUME NEW i \in DOMAIN Tail(fifo)
        PROVE  Tail(fifo)[i] = <<"bg", Byte(lx + scx - (drop - 1) + i - 1)>>
    <3>1. i \in Nat /\ i + 1 \in DOMAIN fifo /\ Tail(fifo)[i] = fifo[i + 1]
      BY <1>1, Zenon
    <3>2. lx + scx - drop + (i + 1) - 1 = lx + scx - (drop - 1) + i - 1
      BY <3>1
    <3>3. fifo[i + 1] = <<"bg", Byte(lx + scx - drop + (i + 1) - 1)>>
      BY <1>3, <3>1, Zenon
    <3> QED BY <3>1, <3>2, <3>3, Zenon
  <2>3. fetch_x = Byte(lx + (r - (drop - 1)) + Len(Tail(fifo)))
    BY <1>3, <2>1, Zenon
  <2> QED BY <1>3, <2>2, <2>3, Zenon DEF BgAhead, r
<1>6. ASSUME drop = 0 PROVE BgAhead(fetch_x, Tail(fifo), Byte(lx + 1), scx, 0)
  <2> DEFINE m == Len(Tail(fifo))
             c == r - 0
             d == c + m
  <2>0. lx + 1 \in 0..511
    OBVIOUS
  <2>1. m \in 0..7 /\ c \in 0..7 /\ d \in 0..511 /\ Len(fifo) = m + 1
    <3> DEFINE n == Len(fifo)
    <3>1. n \in Nat /\ n >= 1 /\ n <= 8 /\ m = n - 1
      BY <1>1, Zenon
    <3>2. c \in 0..7
      BY <1>2
    <3> HIDE DEF m, c, n
    <3>3. m \in 0..7 /\ n = m + 1 /\ c + m \in 0..511
      BY <3>1, <3>2
    <3> QED BY <3>2, <3>3, Zenon DEF n
  <2>2. lx + (r - drop) + Len(fifo) = (lx + 1) + d
    BY <1>2, <1>6, <2>1
  <2>3. Byte(Byte(lx + 1) + d) = Byte((lx + 1) + d)
    <3> HIDE DEF d
    <3> QED BY <2>0, <2>1, ByteAdd, ZenonT(40)
  <2>4. Byte(lx + 1) + d = Byte(lx + 1) + (r - 0) + m
    <3>1. Byte(lx + 1) \in Int
      BY DEF Byte
    <3> QED BY <2>1, <3>1, SMTT(30)
  <2>5. fetch_x = Byte(Byte(lx + 1) + (r - 0) + Len(Tail(fifo)))
    <3> HIDE DEF d, m
    <3> QED BY <1>3, <2>2, <2>3, <2>4, Zenon DEF m
  <2>6. ASSUME NEW i \in DOMAIN Tail(fifo)
        PROVE  Tail(fifo)[i] = <<"bg", Byte(Byte(lx + 1) + scx - 0 + i - 1)>>
    <3>1. i \in Nat /\ i >= 1 /\ i + 1 \in DOMAIN fifo /\ Tail(fifo)[i] = fifo[i + 1]
      BY <1>1, Zenon
    <3>2. i <= 8
      BY <1>1, <1>4, <3>1
    <3> DEFINE w == scx + i - 1
    <3>3. w \in 0..511 /\ lx + scx - drop + (i + 1) - 1 = (lx + 1) + w
      BY <1>6, <3>1, <3>2
    <3>4. Byte(Byte(lx + 1) + w) = Byte((lx + 1) + w)
      <4> HIDE DEF w
      <4> QED BY <2>0, <3>3, ByteAdd, ZenonT(40)
    <3>5. Byte(lx + 1) + w = Byte(lx + 1) + scx - 0 + i - 1
      <4>1. Byte(lx + 1) \in Int
        BY DEF Byte
      <4> QED BY <3>1, <4>1
    <3>6. fifo[i + 1] = <<"bg", Byte(lx + scx - drop + (i + 1) - 1)>>
      BY <1>3, <3>1, Zenon
    <3> HIDE DEF w
    <3> QED BY <3>1, <3>3, <3>4, <3>5, <3>6, Zenon
  <2> QED BY <1>3, <2>5, <2>6, Zenon DEF BgAhead, r
<1> QED BY <1>5, <1>6, Zenon

\* GroundInPlace in these terms.
LEMMA GroundIs ==
    ASSUME NEW s, NEW l
    PROVE  GroundInPlace(s, l) <=>
               /\ s.window_mode <=> l.wy_check /\ l.win_on /\ l.wx < Place(s)
               /\ s.scx_disregard <= l.scx % 8 /\ (s.scx_disregard > 0 => Place(s) = 0)
               /\ s.bg_dot > 0 => s.tile = TileAt(s, l)
               /\ s.window_mode => WinAhead(s.win_x, s.bg_fifo, Place(s) - l.wx - 1)
               /\ ~s.window_mode =>
                     /\ BgAhead(s.bg_fetch_x, s.bg_fifo, s.lx, l.scx, s.scx_disregard)
                     /\ s.win_x = 0
BY Zenon DEF GroundInPlace, BgAhead, WinAhead

\* The fetcher of the objects leaves the background alone.
LEMMA GroundWaits ==
    ASSUME NEW l, NEW s \in Pipes, NEW o, o = obj_fetcher_dot(s, l), GroundInPlace(s, l)
    PROVE  GroundInPlace(o, l)
<1>1. /\ o.lx = s.lx /\ o.bg_fetch_x = s.bg_fetch_x /\ o.bg_fifo = s.bg_fifo
      /\ o.bg_dot = s.bg_dot /\ o.tile = s.tile /\ o.win_x = s.win_x
      /\ o.scx_disregard = s.scx_disregard /\ o.window_mode = s.window_mode
  BY ObjDotIs
<1>2. Place(o) = Place(s) /\ TileAt(o, l) = TileAt(s, l)
  BY <1>1, Zenon DEF Place, TileAt
<1> QED BY <1>1, <1>2, GroundIs, Zenon

\* The place of a pixel is counted from eight before the screen.
LEMMA PlaceIs ==
    ASSUME NEW s \in Pipes
    PROVE  /\ Place(s) \in 0..255
           /\ s.lx <= 160 => Place(s) = s.lx + 8
<1>1. s.lx \in 0..255
  BY Fields
<1> DEFINE x == s.lx
<1>2. x \in 0..255
  BY <1>1, Zenon
<1> HIDE DEF x
<1>3. Byte(x + 8) \in 0..255
  <2>1. x + 8 \in 0..1023
    BY <1>2
  <2> QED BY <2>1, WrapsOf, ZenonT(30)
<1>4. x <= 160 => Byte(x + 8) = x + 8
  <2>1. x <= 160 => x + 8 \in 0..255
    BY <1>2
  <2> QED BY <2>1, ByteSmall, Zenon
<1> QED BY <1>3, <1>4, Zenon DEF x, Place

\* The fetcher of the background stays in place.
LEMMA GroundFetched ==
    ASSUME NEW l, RegsOK(l), NEW s, PipeOK(s, l), Place(s) < 8 + GB_WIDTH,
           NEW o, o = bg_fetcher_dot(s, l), GroundInPlace(s, l)
    PROVE  GroundInPlace(o, l)
<1>1. s \in Pipes
  BY Zenon DEF PipeOK
<1>2. /\ s.bg_fetch_x \in 0..255 /\ s.lx \in 0..255 /\ s.win_x \in 0..255 /\ s.scx_disregard \in 0..7
  BY <1>1, Fields
<1>3. l.scx \in 0..255 /\ l.wx \in 0..255
  BY DEF RegsOK, Registers
<1>4. /\ o.lx = s.lx /\ o.scx_disregard = s.scx_disregard /\ o.window_mode = s.window_mode
      /\ \/ /\ o.bg_fifo = s.bg_fifo /\ o.bg_fetch_x = s.bg_fetch_x /\ o.win_x = s.win_x
            /\ \/ s.bg_dot = 0 /\ o.tile = TileAt(s, l)
               \/ s.bg_dot > 0 /\ o.tile = s.tile
         \/ /\ s.bg_dot > 0 /\ s.bg_fifo = <<>>
            /\ o.bg_dot = 0 /\ o.bg_fifo = TilePixels(s.tile)
            /\ o.bg_fetch_x = Byte(s.bg_fetch_x + 8)
            /\ o.win_x = IF s.window_mode THEN Byte(s.win_x + 8) ELSE s.win_x
  BY <1>1, BgDotIs
<1>5. /\ s.window_mode <=> l.wy_check /\ l.win_on /\ l.wx < Place(s)
      /\ s.scx_disregard <= l.scx % 8 /\ (s.scx_disregard > 0 => Place(s) = 0)
      /\ s.bg_dot > 0 => s.tile = TileAt(s, l)
      /\ s.window_mode => WinAhead(s.win_x, s.bg_fifo, Place(s) - l.wx - 1)
      /\ ~s.window_mode => /\ BgAhead(s.bg_fetch_x, s.bg_fifo, s.lx, l.scx, s.scx_disregard)
                           /\ s.win_x = 0
  BY GroundIs, Zenon
<1>6. Place(o) = Place(s)
  BY <1>4, Zenon DEF Place
<1>7. CASE /\ o.bg_fifo = s.bg_fifo /\ o.bg_fetch_x = s.bg_fetch_x /\ o.win_x = s.win_x
           /\ \/ s.bg_dot = 0 /\ o.tile = TileAt(s, l)
              \/ s.bg_dot > 0 /\ o.tile = s.tile
  <2>1. o.tile = TileAt(s, l)
    BY <1>5, <1>7, Zenon
  <2>2. TileAt(o, l) = TileAt(s, l)
    BY <1>4, <1>7, Zenon DEF TileAt
  <2> QED BY <1>4, <1>5, <1>6, <1>7, <2>1, <2>2, GroundIs, Zenon
<1>8. CASE /\ s.bg_dot > 0 /\ s.bg_fifo = <<>>
           /\ o.bg_dot = 0 /\ o.bg_fifo = TilePixels(s.tile)
           /\ o.bg_fetch_x = Byte(s.bg_fetch_x + 8)
           /\ o.win_x = IF s.window_mode THEN Byte(s.win_x + 8) ELSE s.win_x
  <2> DEFINE t == s.tile
             f == TilePixels(t)
  <2>1. t = TileAt(s, l)
    BY <1>5, <1>8, Zenon
  <2>2. /\ DOMAIN f = 1..8 /\ \A i \in 1..8 : f[i] = <<t[1], t[2] + i - 1>>
    BY TilePixelIs, Zenon
  <2>3. Len(f) = 8
    BY TileIs, Zenon
  <2>4. ~(o.bg_dot > 0)
    BY <1>8
  <2> HIDE DEF f
  <2>5. CASE s.window_mode
    <3> DEFINE at == Place(s) - l.wx - 1
    <3>1. at \in 0..167
      <4>1. l.wx < Place(s)
        BY <1>5, <2>5, Zenon
      <4>2. Place(s) \in 0..255 /\ GB_WIDTH \in 1..160
        BY <1>1, PlaceIs, PixelsAssumption, Zenon
      <4> DEFINE x == Place(s)
      <4> HIDE DEF x
      <4>3. x \in 0..255 /\ l.wx < x /\ x < 8 + GB_WIDTH
        BY <4>1, <4>2, Zenon DEF x
      <4>4. \A m \in 1..160 : \A w, y \in 0..255 : w < y /\ y < 8 + m => y - w - 1 \in 0..167
        OBVIOUS
      <4> QED BY <1>3, <4>2, <4>3, <4>4, Zenon DEF x
    <3>2. WinAhead(s.win_x, <<>>, at)
      BY <1>5, <1>8, <2>5, Zenon
    <3>3. t[1] = "win" /\ t[2] = (s.win_x \div 8) * 8
      BY <2>1, <2>5 DEF TileAt
    <3>4. \A i \in 1..8 : f[i] = <<"win", ((s.win_x \div 8) * 8) + i - 1>>
      BY <2>2, <3>3, Zenon
    <3> HIDE DEF at
    <3>5. WinAhead(Byte(s.win_x + 8), f, at)
      BY <1>2, <2>2, <2>3, <3>1, <3>2, <3>4, WinFills
    <3> QED BY <1>4, <1>5, <1>6, <1>8, <2>4, <2>5, <3>5, GroundIs, Zenon DEF f, at
  <2>6. CASE ~s.window_mode
    <3>1. BgAhead(s.bg_fetch_x, <<>>, s.lx, l.scx, s.scx_disregard)
      BY <1>5, <1>8, <2>6, Zenon
    <3>2. t[1] = "bg" /\ t[2] = (Byte(s.bg_fetch_x + l.scx) \div 8) * 8
      BY <2>1, <2>6 DEF TileAt
    <3>3. \A i \in 1..8 : f[i] = <<"bg", ((Byte(s.bg_fetch_x + l.scx) \div 8) * 8) + i - 1>>
      BY <2>2, <3>2, Zenon
    <3> DEFINE fetch_x == s.bg_fetch_x
               lx == s.lx
               scx == l.scx
               drop == s.scx_disregard
    <3>6. /\ fetch_x \in 0..255 /\ lx \in 0..255 /\ scx \in 0..255 /\ drop \in 0..7
          /\ drop <= scx % 8 /\ BgAhead(fetch_x, <<>>, lx, scx, drop)
          /\ \A i \in 1..8 : f[i] = <<"bg", ((Byte(fetch_x + scx) \div 8) * 8) + i - 1>>
      BY <1>2, <1>3, <1>5, <3>1, <3>3, Zenon
    <3> HIDE DEF fetch_x, lx, scx, drop
    <3>7. BgAhead(Byte(fetch_x + 8), f, lx, scx, drop)
      BY <2>2, <2>3, <3>6, BgFills
    <3>4. BgAhead(Byte(s.bg_fetch_x + 8), f, s.lx, l.scx, s.scx_disregard)
      BY <3>7, Zenon DEF fetch_x, lx, scx, drop
    <3>5. o.win_x = 0
      BY <1>5, <1>8, <2>6, Zenon
    <3> QED BY <1>4, <1>5, <1>6, <1>8, <2>4, <2>6, <3>4, <3>5, GroundIs, Zenon DEF f
  <2> QED BY <2>5, <2>6
<1> QED BY <1>4, <1>7, <1>8, Zenon

\* set_mode(MODE3_DRAW), with no pixel drawn yet.
Fresh(d, s, l) == d = [Mode3(s, l) EXCEPT !.out = <<>>]

\* A line of which pixels are promised begins with nothing in the FIFOs and without the window.
LEMMA Mode3Is ==
    ASSUME NEW l, RegsOK(l), Promise!Asked(l), NEW s \in Pipes,
           NEW d, Fresh(d, s, l)
    PROVE  /\ d.lx = Edge /\ d.bg_fetch_x = Edge /\ d.bg_fifo = <<>> /\ d.bg_dot = 0
           /\ d.obj_fifo = <<>> /\ d.win_x = 0 /\ d.scx_disregard = l.scx % 8
           /\ d.fetch_obj = SlotAt(Edge, l) /\ ~d.window_mode
<1> DEFINE x == l.scx % 8
           r == [s EXCEPT !.lx = 248, !.bg_fetch_x = 248, !.bg_fifo = <<>>, !.bg_dot = 0,
                  !.obj_fifo = <<>>, !.obj_dot = 0, !.window_mode = FALSE, !.win_x = 0,
                  !.scx_disregard = x, !.draw_complete = FALSE, !.dots = 0]
           q == SlotAt(r.lx, l)
           e == [[r EXCEPT !.fetch_obj = q] EXCEPT !.out = <<>>]
<1>1. d = [check_objs_lx(check_win_lx(r, l), l) EXCEPT !.out = <<>>]
  <2> HIDE DEF r
  <2>1. r = [s EXCEPT !.lx = 248, !.bg_fetch_x = 248, !.bg_fifo = <<>>, !.bg_dot = 0,
                  !.obj_fifo = <<>>, !.obj_dot = 0, !.window_mode = FALSE, !.win_x = 0,
                  !.scx_disregard = l.scx % 8, !.draw_complete = FALSE, !.dots = 0]
    BY Zenon DEF r
  <2> QED BY <2>1, Zenon DEF Mode3, Fresh
<1> HIDE DEF x
<1>2. /\ r.lx = 248 /\ r.bg_fetch_x = 248 /\ r.bg_fifo = <<>> /\ r.bg_dot = 0
      /\ r.obj_fifo = <<>> /\ r.win_x = 0 /\ r.scx_disregard = x
  BY DEF Pipes
<1>3. r.window_mode = FALSE
  BY Zenon DEF Pipes
<1>4. check_win_lx(r, l) = r
  <2>1. Byte(248 + 7) = 255
    BY DEF Byte
  <2> HIDE DEF r
  <2>2. ~WindowStarts(r, l)
    BY <1>2, <2>1 DEF WindowStarts, Promise!Asked
  <2> QED BY <2>2, Zenon DEF check_win_lx
<1>5. d = e
  <2> HIDE DEF r
  <2> QED BY <1>1, <1>4, Zenon DEF check_objs_lx
<1> HIDE DEF q
<1>6. /\ e.lx = Edge /\ e.bg_fetch_x = Edge /\ e.bg_fifo = <<>> /\ e.bg_dot = 0
      /\ e.obj_fifo = <<>> /\ e.win_x = 0 /\ e.scx_disregard = x /\ e.fetch_obj = q
  BY DEF Pipes, Edge
<1>7. ~e.window_mode
  BY Zenon DEF Pipes
<1>8. q = SlotAt(Edge, l)
  BY <1>2 DEF q, Edge
<1> HIDE DEF e, r
<1> QED BY <1>5, <1>6, <1>7, <1>8, Zenon DEF x

\* The line begins in place.
LEMMA GroundBegins ==
    ASSUME NEW l, RegsOK(l), Promise!Asked(l), NEW s \in Pipes,
           NEW d, Fresh(d, s, l)
    PROVE  Place(d) = 0 /\ GroundInPlace(d, l)
<1>1. /\ d.lx = Edge /\ d.bg_fetch_x = Edge /\ d.bg_fifo = <<>> /\ d.bg_dot = 0
      /\ d.win_x = 0 /\ d.scx_disregard = l.scx % 8 /\ ~d.window_mode
  BY Mode3Is, Zenon
<1>2. l.scx \in 0..255 /\ l.wx \in 0..255
  BY DEF RegsOK, Registers
<1>3. Place(d) = 0
  <2>1. Byte(Edge + 8) = 0
    BY DEF Byte, Edge
  <2> QED BY <1>1, <2>1, Zenon DEF Place
<1> DEFINE y == l.scx % 8
<1>4. y \in 0..7
  BY <1>2, Dropped, Zenon
<1> HIDE DEF y
<1>5. y <= y /\ ~(l.wx < 0) /\ ~(0 > 0)
  <2>1. y <= y
    BY <1>4
  <2>2. ~(l.wx < 0) /\ ~(0 > 0)
    BY <1>2
  <2> QED BY <2>1, <2>2, Zenon
<1>6. BgAhead(Edge, <<>>, Edge, l.scx, y)
  <2>1. Edge + (y - y) + Len(<<>>) = Edge /\ DOMAIN <<>> = {}
    BY <1>4 DEF Edge
  <2>2. Edge = Byte(Edge) /\ Edge % 8 = 0
    BY DEF Byte, Edge
  <2> QED BY <2>1, <2>2, Zenon DEF BgAhead, y
<1> QED BY <1>1, <1>3, <1>5, <1>6, GroundIs, Zenon DEF y

\* A pixel is taken, and the window begins at its place.
LEMMA GroundTaken ==
    ASSUME NEW l, RegsOK(l), Promise!Asked(l), NEW s, PipeOK(s, l), Place(s) < 8 + GB_WIDTH,
           GroundInPlace(s, l), NEW d, d = DrawPixel(s, l), ~d.draw_complete
    PROVE  GroundInPlace(d, l)
<1>1. s \in Pipes
  BY Zenon DEF PipeOK
<1>2. /\ s.lx \in 0..255 /\ s.scx_disregard \in 0..7 /\ s.bg_fifo \in Seq(Grounds)
      /\ s.window_mode \in BOOLEAN
  BY <1>1, Fields DEF BgFifos
<1>3. l.scx \in 0..255 /\ l.wx \in 0..255
  BY DEF RegsOK, Registers
<1>4. /\ s.window_mode <=> l.wy_check /\ l.win_on /\ l.wx < Place(s)
      /\ s.scx_disregard <= l.scx % 8 /\ (s.scx_disregard > 0 => Place(s) = 0)
      /\ s.bg_dot > 0 => s.tile = TileAt(s, l)
      /\ s.window_mode => WinAhead(s.win_x, s.bg_fifo, Place(s) - l.wx - 1)
      /\ ~s.window_mode => /\ BgAhead(s.bg_fetch_x, s.bg_fifo, s.lx, l.scx, s.scx_disregard)
                           /\ s.win_x = 0
  BY GroundIs, Zenon
<1>5. Place(s) \in 0..255 /\ Len(s.bg_fifo) <= 8
  BY <1>1, PlaceIs, Zenon DEF PipeOK
<1>6. CASE d = s
  BY <1>6, Zenon
<1>7. CASE /\ s.fetch_obj = NoSlot /\ s.bg_fifo # <<>>
           /\ s.scx_disregard > 0 /\ d.scx_disregard = s.scx_disregard - 1
           /\ d.bg_fifo = Tail(s.bg_fifo) /\ d.lx = s.lx
           /\ d.bg_dot = s.bg_dot /\ d.tile = s.tile /\ d.bg_fetch_x = s.bg_fetch_x
           /\ d.win_x = s.win_x /\ d.window_mode = s.window_mode
  <2>1. Place(d) = Place(s) /\ Place(s) = 0
    BY <1>4, <1>7, Zenon DEF Place
  <2>2. ~(l.wx < 0)
    BY <1>3
  <2>3. ~s.window_mode /\ ~d.window_mode
    BY <1>4, <1>7, <2>1, <2>2, Zenon
  <2>4. TileAt(d, l) = TileAt(s, l)
    BY <1>7, Zenon DEF TileAt
  <2> DEFINE drop == s.scx_disregard
             fifo == s.bg_fifo
             fetch_x == s.bg_fetch_x
             lx == s.lx
             scx == l.scx
  <2>5. /\ drop \in 0..7 /\ fifo \in Seq(Grounds) /\ fifo # <<>> /\ Len(fifo) <= 8
        /\ drop > 0 /\ drop <= scx % 8 /\ BgAhead(fetch_x, fifo, lx, scx, drop)
        /\ lx \in 0..255 /\ scx \in 0..255
    BY <1>2, <1>3, <1>4, <1>5, <1>7, <2>3, Zenon
  <2> HIDE DEF drop, fifo, fetch_x, lx, scx
  <2>6. BgAhead(fetch_x, Tail(fifo), lx, scx, drop - 1)
    BY <2>5, BgMoves
  <2>7. scx % 8 \in 0..7
    BY <2>5
  <2>8. drop - 1 <= scx % 8
    BY <2>5, <2>7
  <2>9. BgAhead(d.bg_fetch_x, d.bg_fifo, d.lx, l.scx, d.scx_disregard) /\ d.scx_disregard <= l.scx % 8
    BY <1>7, <2>6, <2>8, Zenon DEF drop, fifo, fetch_x, lx, scx
  <2> QED BY <1>4, <1>7, <2>1, <2>2, <2>3, <2>4, <2>9, GroundIs, Zenon
<1>8. CASE /\ s.fetch_obj = NoSlot /\ s.bg_fifo # <<>> /\ ~(s.scx_disregard > 0)
           /\ d.lx = Byte(s.lx + 1) /\ d.lx # GB_WIDTH
           /\ d.scx_disregard = s.scx_disregard
           /\ d.bg_fetch_x = s.bg_fetch_x /\ d.win_x = s.win_x /\ d.tile = s.tile
           /\ LET starts == /\ ~s.window_mode /\ l.bg_win_on /\ l.win_on
                            /\ l.wy_check /\ Byte(d.lx + 7) = l.wx
              IN  \/ /\ starts /\ d.bg_fifo = <<>> /\ d.bg_dot = 0 /\ d.window_mode
                  \/ /\ ~starts /\ d.bg_fifo = Tail(s.bg_fifo) /\ d.bg_dot = s.bg_dot
                     /\ d.window_mode = s.window_mode
  <2>1. Place(d) = Place(s) + 1
    <3>1. Byte(s.lx + 8) < 8 + GB_WIDTH
      BY Zenon DEF Place
    <3>2. Byte(s.lx + 1) # GB_WIDTH => Byte(Byte(s.lx + 1) + 8) = Byte(s.lx + 8) + 1
      BY <1>2, <3>1, PlaceStep, Zenon
    <3> QED BY <1>8, <3>2, Zenon DEF Place
  <2>2. Byte(d.lx + 7) = Place(s)
    <3> DEFINE x == s.lx
    <3>1. x \in 0..255
      BY <1>2, Zenon
    <3> HIDE DEF x
    <3>2. x + 1 \in 0..511 /\ 7 \in 0..511 /\ (x + 1) + 7 = x + 8
      BY <3>1
    <3>3. Byte(Byte(x + 1) + 7) = Byte((x + 1) + 7)
      BY <3>2, ByteAdd, ZenonT(40)
    <3> QED BY <1>8, <3>2, <3>3, Zenon DEF x, Place
  <2>3. s.scx_disregard = 0
    BY <1>2, <1>8
  <2> DEFINE y == Place(s)
             wx == l.wx
  <2>4. y \in 0..255 /\ wx \in 0..255 /\ wx = l.wx /\ y = Place(s)
    BY <1>3, <1>5, Zenon
  <2> HIDE DEF y, wx
  <2>5. /\ wx < y + 1 <=> wx < y \/ wx = y
        /\ wx = y => ~(wx < y) /\ (y + 1) - wx - 1 = 0
        /\ y - wx - 1 \in Int /\ (y - wx - 1) + 1 = (y + 1) - wx - 1
    BY <2>4
  <2>10. /\ 0 <= l.scx % 8 /\ ~(0 > 0)
    <3>1. l.scx % 8 \in 0..7
      BY <1>3
    <3> QED BY <3>1
  <2>6. CASE /\ ~s.window_mode /\ l.bg_win_on /\ l.win_on /\ l.wy_check /\ Byte(d.lx + 7) = l.wx
             /\ d.bg_fifo = <<>> /\ d.bg_dot = 0 /\ d.window_mode
    <3>1. wx = y
      BY <2>2, <2>4, <2>6, Zenon
    <3>2. WinAhead(0, <<>>, 0)
      <4>1. Len(<<>>) = 0 /\ 0 = 0 + Len(<<>>) /\ 0 % 8 = 0 /\ DOMAIN <<>> = {}
        OBVIOUS
      <4> QED BY <4>1, Zenon DEF WinAhead
    <3>3. WinAhead(d.win_x, d.bg_fifo, Place(d) - l.wx - 1)
      BY <1>4, <1>8, <2>1, <2>4, <2>5, <2>6, <3>1, <3>2, Zenon
    <3>4. l.wx < Place(d)
      BY <2>1, <2>4, <2>5, <3>1, Zenon
    <3>5. ~(d.bg_dot > 0)
      BY <2>6
    <3> QED BY <1>8, <2>3, <2>6, <2>10, <3>3, <3>4, <3>5, GroundIs, Zenon
  <2>7. CASE /\ ~(~s.window_mode /\ l.bg_win_on /\ l.win_on /\ l.wy_check /\ Byte(d.lx + 7) = l.wx)
             /\ d.bg_fifo = Tail(s.bg_fifo) /\ d.bg_dot = s.bg_dot
             /\ d.window_mode = s.window_mode
    <3>1. TileAt(d, l) = TileAt(s, l)
      BY <1>8, <2>7, Zenon DEF TileAt
    <3>2. d.window_mode <=> l.wy_check /\ l.win_on /\ l.wx < Place(d)
      <4>1. ~s.window_mode /\ l.win_on /\ l.wy_check => wx # y
        BY <2>2, <2>4, <2>7, Zenon DEF Promise!Asked
      <4> QED BY <1>4, <2>1, <2>4, <2>5, <2>7, <4>1, Zenon
    <3>3. s.window_mode => WinAhead(d.win_x, d.bg_fifo, Place(d) - l.wx - 1)
      <4> SUFFICES ASSUME s.window_mode PROVE WinAhead(d.win_x, d.bg_fifo, Place(d) - l.wx - 1)
        OBVIOUS
      <4> DEFINE at == y - wx - 1
                 fifo == s.bg_fifo
                 win_x == s.win_x
      <4>1. at \in Int /\ fifo \in Seq(Grounds) /\ fifo # <<>> /\ WinAhead(win_x, fifo, at)
        BY <1>2, <1>4, <1>8, <2>4, <2>5, Zenon
      <4> HIDE DEF at, fifo, win_x
      <4>2. WinAhead(win_x, Tail(fifo), at + 1)
        BY <4>1, WinMoves
      <4>3. at + 1 = Place(d) - l.wx - 1
        BY <2>1, <2>4, <2>5, Zenon DEF at
      <4> QED BY <1>8, <2>7, <4>2, <4>3, Zenon DEF fifo, win_x
    <3>4. ~s.window_mode => BgAhead(d.bg_fetch_x, d.bg_fifo, d.lx, l.scx, d.scx_disregard)
      <4> SUFFICES ASSUME ~s.window_mode
                   PROVE  BgAhead(d.bg_fetch_x, d.bg_fifo, d.lx, l.scx, d.scx_disregard)
        OBVIOUS
      <4> DEFINE drop == s.scx_disregard
                 fifo == s.bg_fifo
                 fetch_x == s.bg_fetch_x
                 lx == s.lx
                 scx == l.scx
      <4>1. /\ drop \in 0..7 /\ fifo \in Seq(Grounds) /\ fifo # <<>> /\ Len(fifo) <= 8
            /\ drop = 0 /\ drop <= scx % 8 /\ BgAhead(fetch_x, fifo, lx, scx, drop)
            /\ lx \in 0..255 /\ scx \in 0..255
        BY <1>2, <1>3, <1>4, <1>5, <1>8, <2>3, Zenon
      <4> HIDE DEF drop, fifo, fetch_x, lx, scx
      <4>2. BgAhead(fetch_x, Tail(fifo), Byte(lx + 1), scx, 0)
        BY <4>1, BgMoves
      <4> QED BY <1>8, <2>3, <2>7, <4>2, Zenon DEF fifo, fetch_x, lx, scx
    <3> QED BY <1>4, <1>8, <2>3, <2>7, <2>10, <3>1, <3>2, <3>3, <3>4, GroundIs, Zenon
  <2> QED BY <1>8, <2>6, <2>7, Zenon
<1>9. \/ d.draw_complete
      \/ d = s
      \/ /\ s.fetch_obj = NoSlot /\ s.bg_fifo # <<>>
         /\ s.scx_disregard > 0 /\ d.scx_disregard = s.scx_disregard - 1
         /\ d.bg_fifo = Tail(s.bg_fifo) /\ d.lx = s.lx
         /\ d.bg_dot = s.bg_dot /\ d.tile = s.tile /\ d.bg_fetch_x = s.bg_fetch_x
         /\ d.win_x = s.win_x /\ d.window_mode = s.window_mode
      \/ /\ s.fetch_obj = NoSlot /\ s.bg_fifo # <<>> /\ ~(s.scx_disregard > 0)
         /\ d.lx = Byte(s.lx + 1) /\ d.lx # GB_WIDTH
         /\ d.scx_disregard = s.scx_disregard
         /\ d.bg_fetch_x = s.bg_fetch_x /\ d.win_x = s.win_x /\ d.tile = s.tile
         /\ LET starts == /\ ~s.window_mode /\ l.bg_win_on /\ l.win_on
                          /\ l.wy_check /\ Byte(d.lx + 7) = l.wx
            IN  \/ /\ starts /\ d.bg_fifo = <<>> /\ d.bg_dot = 0 /\ d.window_mode
                \/ /\ ~starts /\ d.bg_fifo = Tail(s.bg_fifo) /\ d.bg_dot = s.bg_dot
                   /\ d.window_mode = s.window_mode
  BY PixelIs
<1> QED BY <1>6, <1>7, <1>8, <1>9, Zenon

\* What ObjsInPlace says of the FIFO: place is that of its first pixel, F the objects fetched.
Shown(p, F, l) == {j \in F : p - l.objs[j].x \in l.objs[j].opaque}

Holds(pixel, p, F, l) ==
    \/ Shown(p, F, l) = {} /\ pixel[2] \notin l.objs[pixel[1]].opaque
    \/ \E j \in Shown(p, F, l) :
          /\ \A k \in Shown(p, F, l) : l.objs[j].x <= l.objs[k].x
          /\ pixel = <<j, p - l.objs[j].x>>

Reaches(F, upto, l) == \A j \in F : l.objs[j].x > 0 => l.objs[j].x + 8 <= upto

Filled(place, F, fifo, l) ==
    /\ Reaches(F, place + Len(fifo), l)
    /\ \A i \in DOMAIN fifo : place + i - 1 >= 8 => Holds(fifo[i], place + i - 1, F, l)

\* ObjsInPlace in these terms.
LEMMA ObjsIs ==
    ASSUME NEW s, NEW l
    PROVE  ObjsInPlace(s, l) <=> /\ s.fetch_obj \in {NoSlot, SlotAt(s.lx, l)}
                                 /\ Filled(Place(s), Fetched(s, l), s.obj_fifo, l)
BY Zenon DEF ObjsInPlace, Filled, Reaches, Holds, Shown, OpaqueAt

\* The objects of a line.
LEMMA ObjIs ==
    ASSUME NEW l, RegsOK(l), NEW j \in DOMAIN l.objs
    PROVE  j \in Nat /\ j >= 1 /\ l.objs[j].x \in 0..255 /\ l.objs[j].opaque \subseteq 0..7
<1>1. l.objs \in Seq(Objs) /\ DOMAIN l.objs = 1..Len(l.objs) /\ Len(l.objs) \in Nat
  BY DEF RegsOK, Registers
<1>2. l.objs[j] \in Objs
  BY <1>1
<1> QED BY <1>1, <1>2, SMTT(30) DEF Objs

\* A pixel that the FIFO has no room for is not opaque, or it is off the screen.
LEMMA NotReached ==
    ASSUME NEW l, RegsOK(l), NEW F \in SUBSET DOMAIN l.objs, NEW upto \in Int,
           NEW p \in Int, p >= 8, p >= upto, Reaches(F, upto, l)
    PROVE  Shown(p, F, l) = {}
<1> SUFFICES ASSUME NEW j \in F, p - l.objs[j].x \in l.objs[j].opaque PROVE FALSE
  BY Zenon DEF Shown
<1>1. j \in DOMAIN l.objs
  OBVIOUS
<1>2. l.objs[j].x \in 0..255 /\ l.objs[j].opaque \subseteq 0..7
  BY <1>1, ObjIs
<1>3. l.objs[j].x > 0 => l.objs[j].x + 8 <= upto
  BY Zenon DEF Reaches
<1> DEFINE x == l.objs[j].x
<1>4. p - x \in 0..7
  BY <1>2, Zenon
<1>5. x \in 0..255 /\ (x > 0 => x + 8 <= upto)
  BY <1>2, <1>3, Zenon
<1> HIDE DEF x
<1> QED BY <1>4, <1>5

\* obj_fifo_fill keeps what is there and adds the object that begins here, behind it.
LEMMA MergeFills ==
    ASSUME NEW l, RegsOK(l), NEW s, PipeOK(s, l), NEW place \in Nat,
           NEW F \in SUBSET DOMAIN l.objs, \A j \in F : l.objs[j].x < place,
           s.fetch_obj \in DOMAIN l.objs, l.objs[s.fetch_obj].x = place,
           Filled(place, F, s.obj_fifo, l)
    PROVE  Filled(place, F \cup {s.fetch_obj}, Merged(s, l), l)
<1> DEFINE q == s.fetch_obj
           G == F \cup {q}
           m == Merged(s, l)
           fifo == s.obj_fifo
           old(i) == i <= Len(fifo) /\ fifo[i][2] \in l.objs[fifo[i][1]].opaque
<1>0. q # NoSlot
  BY ObjIs DEF NoSlot
<1>1. fifo \in Seq(ObjPixels) /\ Len(fifo) \in Nat /\ DOMAIN fifo = 1..Len(fifo)
  <2>1. fifo \in ObjFifos
    BY Fields DEF PipeOK
  <2> HIDE DEF fifo
  <2> QED BY <2>1 DEF ObjFifos
<1>2. /\ DOMAIN m = 1..8
      /\ \A i \in 1..8 : m[i] = IF old(i) THEN fifo[i] ELSE <<q, i - 1>>
  BY Zenon DEF Merged
<1>3. Len(m) = 8
  BY <1>0, MergedIs
<1>4. q \in DOMAIN l.objs /\ l.objs[q].x = place
  BY Zenon
<1>5. l.objs[q].opaque \subseteq 0..7
  BY <1>4, ObjIs
<1>6. /\ Reaches(F, place + Len(fifo), l)
      /\ \A i \in DOMAIN fifo : place + i - 1 >= 8 => Holds(fifo[i], place + i - 1, F, l)
  BY Zenon DEF Filled
<1> HIDE DEF q, m, fifo
<1>7. Reaches(G, place + Len(m), l)
  <2> SUFFICES ASSUME NEW j \in G PROVE l.objs[j].x + 8 <= place + Len(m)
    BY Zenon DEF Reaches
  <2> DEFINE x == l.objs[j].x
  <2>1. x \in Nat /\ x <= place
    <3>1. CASE j \in F
      <4>1. x \in 0..255 /\ x < place
        BY <3>1, ObjIs
      <4> HIDE DEF x
      <4> QED BY <4>1
    <3>2. CASE j = q
      <4>1. x = place
        BY <1>4, <3>2, Zenon
      <4> HIDE DEF x
      <4> QED BY <4>1
    <3> QED BY <3>1, <3>2
  <2> HIDE DEF x
  <2>2. x + 8 <= place + Len(m)
    BY <1>3, <2>1
  <2> QED BY <2>2 DEF x
<1>8. ASSUME NEW i \in 1..8, place + i - 1 >= 8
      PROVE  Holds(m[i], place + i - 1, G, l)
  <2> DEFINE p == place + i - 1
  <2>0. SUFFICES Holds(m[i], p, G, l)
    BY Zenon
  <2>1. p \in Int /\ p >= 8 /\ p - place = i - 1
    BY <1>8
  <2> HIDE DEF p
  <2>2. \A j : j \in Shown(p, G, l) <=> j \in Shown(p, F, l) \/ (j = q /\ i - 1 \in l.objs[q].opaque)
    BY <1>4, <2>1, Zenon DEF Shown
  <2>3. \A j \in Shown(p, F, l) : j \in F /\ p - l.objs[j].x \in l.objs[j].opaque
    BY Zenon DEF Shown
\* Nothing is there: the new object shows its pixel.
  <2>4. ASSUME Shown(p, F, l) = {}, m[i] = <<q, i - 1>> PROVE Holds(m[i], p, G, l)
    <3>1. m[i] = <<q, i - 1>>
      BY <2>4, Zenon
    <3>2. CASE i - 1 \in l.objs[q].opaque
      <4>1. q \in Shown(p, G, l) /\ \A k \in Shown(p, G, l) : k = q
        BY <2>2, <2>4, <3>2, Zenon
      <4>2. l.objs[q].x <= l.objs[q].x
        BY <1>4
      <4>3. m[i] = <<q, p - l.objs[q].x>>
        BY <1>4, <2>1, <3>1, Zenon
      <4> QED BY <4>1, <4>2, <4>3, Zenon DEF Holds
    <3>3. CASE i - 1 \notin l.objs[q].opaque
      <4>1. Shown(p, G, l) = {}
        BY <2>2, <2>4, <3>3, Zenon
      <4>2. m[i][1] = q /\ m[i][2] = i - 1
        BY <3>1
      <4> QED BY <3>3, <4>1, <4>2, Zenon DEF Holds
    <3> QED BY <3>2, <3>3, Zenon
  <2>5. CASE i <= Len(fifo)
    <3>1. Holds(fifo[i], p, F, l)
      <4>1. i \in DOMAIN fifo
        BY <1>1, <2>5
      <4> QED BY <1>6, <1>8, <4>1, Zenon DEF p
    <3>2. CASE old(i)
      <4>1. m[i] = fifo[i] /\ fifo[i][2] \in l.objs[fifo[i][1]].opaque
        BY <1>2, <3>2, Zenon
      <4>2. PICK j \in Shown(p, F, l) : /\ \A k \in Shown(p, F, l) : l.objs[j].x <= l.objs[k].x
                                        /\ fifo[i] = <<j, p - l.objs[j].x>>
        BY <3>1, <4>1, Zenon DEF Holds
      <4>3. l.objs[j].x <= l.objs[q].x
        <5>1. j \in F
          BY <2>3, Zenon
        <5>2. l.objs[j].x \in 0..255 /\ l.objs[j].x < place
          BY <5>1, ObjIs
        <5> QED BY <1>4, <5>2, SMTT(30)
      <4>4. j \in Shown(p, G, l) /\ \A k \in Shown(p, G, l) : l.objs[j].x <= l.objs[k].x
        BY <2>2, <4>2, <4>3, Zenon
      <4>5. m[i] = <<j, p - l.objs[j].x>>
        BY <4>1, <4>2, Zenon
      <4> HIDE DEF old
      <4> QED BY <4>4, <4>5, Zenon DEF Holds
    <3>3. CASE ~old(i)
      <4>1. fifo[i][2] \notin l.objs[fifo[i][1]].opaque
        BY <2>5, <3>3, Zenon
      <4>2. Shown(p, F, l) = {}
        <5>1. SUFFICES ASSUME NEW j \in Shown(p, F, l), fifo[i] = <<j, p - l.objs[j].x>>
                       PROVE  FALSE
          BY <3>1, Zenon DEF Holds
        <5>2. fifo[i][1] = j /\ fifo[i][2] = p - l.objs[j].x
          BY <5>1
        <5> QED BY <2>3, <4>1, <5>2, Zenon
      <4>3. m[i] = <<q, i - 1>>
        BY <1>2, <3>3, Zenon
      <4> HIDE DEF old
      <4> QED BY <2>4, <4>2, <4>3, Zenon
    <3> QED BY <3>2, <3>3, Zenon
  <2>6. CASE ~(i <= Len(fifo))
    <3>1. place + Len(fifo) \in Int /\ p >= place + Len(fifo)
      BY <1>1, <2>1, <2>6
    <3>2. Shown(p, F, l) = {}
      BY <1>6, <2>1, <3>1, NotReached
    <3>3. m[i] = <<q, i - 1>>
      BY <1>2, <2>6, Zenon
    <3> HIDE DEF old
    <3> QED BY <2>4, <3>2, <3>3, Zenon
  <2> QED BY <2>5, <2>6, Zenon
<1> QED BY <1>2, <1>7, <1>8, Zenon DEF Filled, q, m

\* The slot found at a place is that of the first object there.
LEMMA SlotIsFirst ==
    ASSUME NEW l, RegsOK(l), l.obj_on, NEW lx \in 0..255
    PROVE  /\ SlotAt(lx, l) # NoSlot => FirstThere(SlotAt(lx, l), l)
           /\ SlotAt(lx, l) = NoSlot => \A j \in DOMAIN l.objs : l.objs[j].x # Byte(lx + 8)
<1> DEFINE here == {i \in DOMAIN l.objs : l.obj_on /\ l.objs[i].x = Byte(lx + 8)}
           q == SlotAt(lx, l)
<1>1. l.objs \in Seq(Objs) /\ Len(l.objs) \in Nat /\ DOMAIN l.objs = 1..Len(l.objs)
  BY DEF RegsOK, Registers
<1>2. here \in SUBSET Nat /\ here \subseteq DOMAIN l.objs
  BY <1>1
<1>3. \A i \in DOMAIN l.objs : i \in here <=> l.objs[i].x = Byte(lx + 8)
  BY Zenon
<1>4. q = IF here = {} THEN NoSlot ELSE CHOOSE i \in here : \A j \in here : i <= j
  BY Zenon DEF SlotAt
<1> HIDE DEF here, q
<1>5. here # {} => q \in here /\ \A j \in here : q <= j
  <2> SUFFICES ASSUME here # {} PROVE q \in here /\ \A j \in here : q <= j
    OBVIOUS
  <2>1. \E m \in here : \A k \in here : m <= k
    BY <1>2, LeastOf
  <2> QED BY <1>4, <2>1, Zenon
<1>6. here # {} => q # NoSlot
  <2>1. q \in here => q # NoSlot
    BY <1>1, <1>2 DEF NoSlot
  <2> QED BY <1>5, <2>1, Zenon
<1>7. here # {} => FirstThere(q, l)
  <2> SUFFICES ASSUME here # {}, NEW i \in 1..(q - 1) PROVE l.objs[i].x # l.objs[q].x
    BY Zenon DEF FirstThere
  <2>1. q \in here /\ \A j \in here : q <= j
    BY <1>5, Zenon
  <2>2. i \in DOMAIN l.objs /\ ~(q <= i)
    BY <1>1, <1>2, <2>1
  <2> QED BY <1>2, <1>3, <2>1, <2>2, Zenon
<1>8. here = {} => q = NoSlot
  BY <1>4, Zenon
<1>9. here = {} => \A j \in DOMAIN l.objs : l.objs[j].x # Byte(lx + 8)
  BY <1>3, Zenon
<1> QED BY <1>6, <1>7, <1>8, <1>9, Zenon DEF q

\* Of two objects at the same place only one is first.
LEMMA OneFirst ==
    ASSUME NEW l, RegsOK(l), NEW i \in DOMAIN l.objs, NEW j \in DOMAIN l.objs,
           FirstThere(i, l), FirstThere(j, l), l.objs[i].x = l.objs[j].x
    PROVE  i = j
<1>1. i \in Nat /\ j \in Nat /\ i >= 1 /\ j >= 1
  BY ObjIs
<1>2. i < j => i \in 1..(j - 1)
  BY <1>1
<1>3. j < i => j \in 1..(i - 1)
  BY <1>1
<1>4. ~(i < j) /\ ~(j < i)
  BY <1>2, <1>3, Zenon DEF FirstThere
<1> QED BY <1>1, <1>4

\* The objects that are fetched at a place, the one that begins there included or not.
FetchedAt(place, here, l) ==
    {j \in DOMAIN l.objs : FirstThere(j, l) /\ l.objs[j].x <= place /\ (l.objs[j].x = place => here)}

\* The objects already in the FIFO are those of the places passed.
LEMMA FetchedIs ==
    ASSUME NEW s, NEW l
    PROVE  Fetched(s, l) = FetchedAt(Place(s), s.fetch_obj = NoSlot, l)
BY Zenon DEF Fetched, FetchedAt

\* Fetching the object at a place adds it.
LEMMA FetchedMore ==
    ASSUME NEW l, RegsOK(l), NEW place \in Nat, NEW q \in DOMAIN l.objs, FirstThere(q, l),
           l.objs[q].x = place
    PROVE  /\ FetchedAt(place, TRUE, l) = FetchedAt(place, FALSE, l) \cup {q}
           /\ FetchedAt(place, FALSE, l) \in SUBSET DOMAIN l.objs
           /\ \A j \in FetchedAt(place, FALSE, l) : l.objs[j].x < place
<1>1. \A j \in DOMAIN l.objs : FirstThere(j, l) /\ l.objs[j].x = place => j = q
  BY OneFirst
<1>2. \A j \in DOMAIN l.objs : l.objs[j].x <= place /\ l.objs[j].x # place => l.objs[j].x < place
  <2> SUFFICES ASSUME NEW j \in DOMAIN l.objs, l.objs[j].x <= place, l.objs[j].x # place
               PROVE  l.objs[j].x < place
    BY Zenon
  <2>1. l.objs[j].x \in 0..255
    BY ObjIs
  <2> QED BY <2>1
<1>3. place <= place
  OBVIOUS
<1>4. \A j : j \in FetchedAt(place, TRUE, l) <=> j \in FetchedAt(place, FALSE, l) \/ j = q
  BY <1>1, <1>3, Zenon DEF FetchedAt
<1>5. FetchedAt(place, FALSE, l) \in SUBSET DOMAIN l.objs
  BY Zenon DEF FetchedAt
<1>6. \A j \in FetchedAt(place, FALSE, l) : l.objs[j].x < place
  BY <1>2, Zenon DEF FetchedAt
<1>7. FetchedAt(place, TRUE, l) = FetchedAt(place, FALSE, l) \cup {q}
  BY <1>4, Zenon
<1> QED BY <1>5, <1>6, <1>7, Zenon

\* The next place adds none before the object there is fetched.
LEMMA FetchedOn ==
    ASSUME NEW l, RegsOK(l), NEW place \in Nat, NEW here,
           here => \A j \in DOMAIN l.objs : l.objs[j].x # place + 1
    PROVE  FetchedAt(place + 1, here, l) = FetchedAt(place, TRUE, l)
<1>1. \A j \in DOMAIN l.objs : (l.objs[j].x <= place + 1 /\ (l.objs[j].x = place + 1 => here))
                               <=> l.objs[j].x <= place
  <2> TAKE j \in DOMAIN l.objs
  <2> DEFINE x == l.objs[j].x
  <2>1. x \in 0..255
    BY ObjIs
  <2>2. here => x # place + 1
    BY Zenon
  <2> HIDE DEF x
  <2>3. (x <= place + 1 /\ x # place + 1) <=> x <= place
    BY <2>1
  <2>4. x = place + 1 => ~(x <= place)
    BY <2>1
  <2> QED BY <2>2, <2>3, <2>4, Zenon DEF x
<1>2. \A j : j \in FetchedAt(place + 1, here, l) <=> j \in FetchedAt(place, TRUE, l)
  BY <1>1, Zenon DEF FetchedAt
<1> QED BY <1>2, Zenon

\* At the edge there are none but those at 0.
LEMMA FetchedAtEdge ==
    ASSUME NEW l, RegsOK(l), NEW here
    PROVE  \A j \in FetchedAt(0, here, l) : ~(l.objs[j].x > 0)
<1> SUFFICES ASSUME NEW j \in DOMAIN l.objs, l.objs[j].x <= 0 PROVE ~(l.objs[j].x > 0)
  BY Zenon DEF FetchedAt
<1>1. l.objs[j].x \in 0..255
  BY ObjIs
<1> QED BY <1>1

\* What is in the FIFO at the edge does not come to the screen.
LEMMA FilledAtEdge ==
    ASSUME NEW l, NEW F, \A j \in F : ~(l.objs[j].x > 0), NEW S, NEW fifo \in Seq(S), Len(fifo) <= 8
    PROVE  Filled(0, F, fifo, l)
<1>1. DOMAIN fifo = 1..Len(fifo) /\ Len(fifo) \in Nat
  OBVIOUS
<1>2. \A i \in DOMAIN fifo : ~(0 + i - 1 >= 8)
  BY <1>1
<1> QED BY <1>2, Zenon DEF Filled, Reaches

\* The first pixel leaves the FIFO.
LEMMA FilledMoves ==
    ASSUME NEW l, RegsOK(l), NEW place \in Nat, NEW F \in SUBSET DOMAIN l.objs,
           NEW S, NEW fifo \in Seq(S), Filled(place, F, fifo, l)
    PROVE  Filled(place + 1, F, Popped(fifo), l)
<1> DEFINE f == Popped(fifo)
           n == Len(fifo)
           m == Len(f)
<1>1. n \in Nat /\ m \in Nat /\ place + n <= place + 1 + m
      /\ \A i \in DOMAIN f : i \in Nat /\ i >= 1 /\ i + 1 \in DOMAIN fifo /\ f[i] = fifo[i + 1]
  <2>1. CASE fifo = <<>>
    <3>1. f = <<>>
      BY <2>1, Zenon DEF Popped
    <3> QED BY <2>1, <3>1
  <2>2. CASE fifo # <<>>
    <3>1. f = Tail(fifo)
      BY <2>2, Zenon DEF Popped
    <3>2. /\ Len(fifo) \in Nat /\ Len(fifo) >= 1 /\ Len(Tail(fifo)) = Len(fifo) - 1
          /\ \A i \in DOMAIN Tail(fifo) :
                i \in Nat /\ i >= 1 /\ i + 1 \in DOMAIN fifo /\ Tail(fifo)[i] = fifo[i + 1]
      BY <2>2, TailIs
    <3>3. n \in Nat /\ n >= 1 /\ m = n - 1
      BY <3>1, <3>2, Zenon
    <3> HIDE DEF n, m
    <3>4. m \in Nat /\ place + n <= place + 1 + m
      BY <3>3
    <3> QED BY <3>1, <3>2, <3>3, <3>4, Zenon
  <2> QED BY <2>1, <2>2
<1> HIDE DEF f
<1>2. /\ Reaches(F, place + n, l)
      /\ \A i \in DOMAIN fifo : place + i - 1 >= 8 => Holds(fifo[i], place + i - 1, F, l)
  BY Zenon DEF Filled
<1> HIDE DEF n, m
<1>3. Reaches(F, place + 1 + m, l)
  <2> SUFFICES ASSUME NEW j \in F, l.objs[j].x > 0 PROVE l.objs[j].x + 8 <= place + 1 + m
    BY Zenon DEF Reaches
  <2>1. l.objs[j].x + 8 <= place + n
    BY <1>2, Zenon DEF Reaches
  <2>2. j \in DOMAIN l.objs
    OBVIOUS
  <2> DEFINE x == l.objs[j].x
  <2>3. x \in 0..255 /\ x + 8 <= place + n
    BY <2>1, <2>2, ObjIs
  <2> HIDE DEF x
  <2>4. x + 8 <= place + 1 + m
    BY <1>1, <2>3
  <2> QED BY <2>4 DEF x
<1>4. ASSUME NEW i \in DOMAIN f, place + 1 + i - 1 >= 8
      PROVE  Holds(f[i], place + 1 + i - 1, F, l)
  <2>1. i \in Nat /\ i + 1 \in DOMAIN fifo /\ f[i] = fifo[i + 1]
    BY <1>1, Zenon
  <2>2. place + (i + 1) - 1 = place + 1 + i - 1
    BY <2>1
  <2> QED BY <1>2, <1>4, <2>1, <2>2, Zenon
<1> QED BY <1>3, <1>4, Zenon DEF Filled, f, m

\* ObjsInPlace with FetchedAt.
LEMMA ObjsAre ==
    ASSUME NEW s, NEW l
    PROVE  ObjsInPlace(s, l) <=>
               /\ s.fetch_obj \in {NoSlot, SlotAt(s.lx, l)}
               /\ Filled(Place(s), FetchedAt(Place(s), s.fetch_obj = NoSlot, l), s.obj_fifo, l)
BY ObjsIs, FetchedIs, Zenon

\* The same fields, the same objects.
LEMMA ObjsSame ==
    ASSUME NEW l, NEW s, NEW o, o.lx = s.lx, o.fetch_obj = s.fetch_obj, o.obj_fifo = s.obj_fifo,
           ObjsInPlace(s, l)
    PROVE  ObjsInPlace(o, l)
<1>1. Place(o) = Place(s)
  BY Zenon DEF Place
<1> QED BY <1>1, ObjsAre, Zenon

\* The fetcher of the background leaves the objects alone.
LEMMA ObjsWait ==
    ASSUME NEW l, NEW s \in Pipes, NEW o, o = bg_fetcher_dot(s, l), ObjsInPlace(s, l)
    PROVE  ObjsInPlace(o, l)
<1>1. o.lx = s.lx /\ o.obj_fifo = s.obj_fifo /\ o.fetch_obj = s.fetch_obj
  BY BgDotIs
<1> QED BY <1>1, ObjsSame, Zenon

\* The object that begins here is fetched.
LEMMA ObjsFetched ==
    ASSUME NEW l, RegsOK(l), l.obj_on, NEW s, PipeOK(s, l), NEW o, o = obj_fetcher_dot(s, l),
           ObjsInPlace(s, l)
    PROVE  ObjsInPlace(o, l)
<1>0. s \in Pipes
  BY Zenon DEF PipeOK
<1>1. /\ o.lx = s.lx
      /\ \/ o.fetch_obj = s.fetch_obj /\ o.obj_fifo = s.obj_fifo
         \/ s.fetch_obj # NoSlot /\ o.fetch_obj = NoSlot /\ o.obj_fifo = Merged(s, l)
  BY <1>0, ObjDotIs
<1>2. CASE o.fetch_obj = s.fetch_obj /\ o.obj_fifo = s.obj_fifo
  BY <1>1, <1>2, ObjsSame, Zenon
<1>3. CASE s.fetch_obj # NoSlot /\ o.fetch_obj = NoSlot /\ o.obj_fifo = Merged(s, l)
  <2> DEFINE q == s.fetch_obj
             place == Place(s)
  <2>1. q = SlotAt(s.lx, l) /\ Filled(place, FetchedAt(place, s.fetch_obj = NoSlot, l), s.obj_fifo, l)
    BY <1>3, ObjsAre, Zenon
  <2>2. (s.fetch_obj = NoSlot) = FALSE
    BY <1>3
  <2>3. s.lx \in 0..255 /\ place \in Nat
    <3>1. Place(s) \in 0..255
      BY <1>0, PlaceIs, Zenon
    <3> HIDE DEF place
    <3>2. \A n \in 0..255 : n \in Nat
      OBVIOUS
    <3> QED BY <1>0, <3>1, <3>2, Fields DEF place
  <2>4. q \in DOMAIN l.objs /\ l.objs[q].x = place
    BY <1>3, <2>1, <2>3, SlotFound, Zenon DEF Place
  <2>5. FirstThere(q, l)
    BY <1>3, <2>1, <2>3, SlotIsFirst, Zenon
  <2> HIDE DEF q, place
  <2>6. /\ FetchedAt(place, TRUE, l) = FetchedAt(place, FALSE, l) \cup {q}
        /\ FetchedAt(place, FALSE, l) \in SUBSET DOMAIN l.objs
        /\ \A j \in FetchedAt(place, FALSE, l) : l.objs[j].x < place
    BY <2>3, <2>4, <2>5, FetchedMore
  <2>7. Filled(place, FetchedAt(place, FALSE, l), s.obj_fifo, l)
    BY <2>1, <2>2
  <2> DEFINE F == FetchedAt(place, FALSE, l)
  <2> HIDE DEF F
  <2>8. Filled(place, F \cup {s.fetch_obj}, Merged(s, l), l)
    <3>1. s.fetch_obj \in DOMAIN l.objs /\ l.objs[s.fetch_obj].x = place
      BY <2>4, Zenon DEF q
    <3>2. F \in SUBSET DOMAIN l.objs /\ \A j \in F : l.objs[j].x < place
      BY <2>6, Zenon DEF F
    <3>3. Filled(place, F, s.obj_fifo, l)
      BY <2>7, Zenon DEF F
    <3> QED BY <2>3, <3>1, <3>2, <3>3, MergeFills
  <2>9. Filled(place, FetchedAt(place, TRUE, l), o.obj_fifo, l)
    BY <1>3, <2>6, <2>8, Zenon DEF F, q
  <2>10. (o.fetch_obj = NoSlot) = TRUE
    BY <1>3
  <2>11. Place(o) = place
    BY <1>1, Zenon DEF Place, place
  <2>12. Filled(Place(o), FetchedAt(Place(o), o.fetch_obj = NoSlot, l), o.obj_fifo, l)
    BY <2>9, <2>10, <2>11
  <2> QED BY <1>3, <2>12, ObjsAre, Zenon
<1> QED BY <1>1, <1>2, <1>3, Zenon

\* No pixel of an object is in the FIFO when the line begins.
LEMMA ObjsBegin ==
    ASSUME NEW l, RegsOK(l), Promise!Asked(l), NEW s \in Pipes, NEW d, Fresh(d, s, l)
    PROVE  ObjsInPlace(d, l)
<1>1. d.lx = Edge /\ d.obj_fifo = <<>> /\ d.fetch_obj = SlotAt(Edge, l)
  BY Mode3Is, Zenon
<1>2. Place(d) = 0
  BY GroundBegins, Zenon
<1> DEFINE F == FetchedAt(0, d.fetch_obj = NoSlot, l)
<1>3. \A j \in F : ~(l.objs[j].x > 0)
  BY FetchedAtEdge, Zenon
<1> HIDE DEF F
<1>4. <<>> \in Seq(ObjPixels) /\ Len(<<>>) <= 8
  OBVIOUS
<1>5. Filled(0, F, <<>>, l)
  BY <1>3, <1>4, FilledAtEdge, Zenon
<1> QED BY <1>1, <1>2, <1>5, ObjsAre, Zenon DEF F

\* A pixel is taken, and the object at the next place found.
LEMMA ObjsTaken ==
    ASSUME NEW l, RegsOK(l), l.obj_on, NEW s, PipeOK(s, l), Place(s) < 8 + GB_WIDTH,
           GroundInPlace(s, l), ObjsInPlace(s, l), NEW d, d = DrawPixel(s, l), ~d.draw_complete
    PROVE  ObjsInPlace(d, l)
<1>1. s \in Pipes
  BY Zenon DEF PipeOK
<1>2. s.lx \in 0..255 /\ s.obj_fifo \in Seq(ObjPixels) /\ Len(s.obj_fifo) <= 8
  <2>1. s.lx \in 0..255 /\ s.obj_fifo \in ObjFifos
    BY <1>1, Fields
  <2> QED BY <2>1, Zenon DEF ObjFifos, PipeOK
<1> DEFINE place == Place(s)
           fifo == s.obj_fifo
<1>3. place \in Nat
  <2>1. Place(s) \in 0..255
    BY <1>1, PlaceIs, Zenon
  <2> HIDE DEF place
  <2>2. \A n \in 0..255 : n \in Nat
    OBVIOUS
  <2> QED BY <2>1, <2>2, Zenon DEF place
<1>4. /\ s.fetch_obj \in {NoSlot, SlotAt(s.lx, l)}
      /\ Filled(place, FetchedAt(place, s.fetch_obj = NoSlot, l), fifo, l)
  BY ObjsAre, Zenon
<1>5. CASE d = s
  BY <1>5, Zenon
<1>6. CASE /\ s.fetch_obj = NoSlot /\ s.scx_disregard > 0
           /\ d.obj_fifo = Popped(s.obj_fifo) /\ d.lx = s.lx /\ d.fetch_obj = s.fetch_obj
  <2>1. Place(d) = 0
    BY <1>6, GroundIs, Zenon DEF Place
  <2> DEFINE f == Popped(fifo)
             F == FetchedAt(0, d.fetch_obj = NoSlot, l)
  <2>2. f \in Seq(ObjPixels) /\ Len(f) <= 8
    <3>1. fifo \in Seq(ObjPixels) /\ Len(fifo) <= 8
      BY <1>2, Zenon
    <3> HIDE DEF fifo, f
    <3>2. CASE fifo = <<>>
      <4>1. f = <<>>
        BY <3>2, Zenon DEF f, Popped
      <4> QED BY <4>1
    <3>3. CASE fifo # <<>>
      <4>1. f = Tail(fifo)
        BY <3>3, Zenon DEF f, Popped
      <4> QED BY <3>1, <3>3, <4>1
    <3> QED BY <3>2, <3>3
  <2>3. \A j \in F : ~(l.objs[j].x > 0)
    BY FetchedAtEdge, Zenon
  <2> HIDE DEF f, F
  <2>4. Filled(0, F, f, l)
    BY <2>2, <2>3, FilledAtEdge, Zenon
  <2> QED BY <1>6, <2>1, <2>4, ObjsAre, Zenon DEF f, F
<1>7. CASE /\ s.fetch_obj = NoSlot /\ d.lx = Byte(s.lx + 1) /\ d.lx # GB_WIDTH
           /\ d.fetch_obj = SlotAt(d.lx, l) /\ d.obj_fifo = Popped(s.obj_fifo)
  <2>1. Place(d) = place + 1 /\ d.lx \in 0..255
    <3>1. Byte(s.lx + 8) < 8 + GB_WIDTH
      BY Zenon DEF Place
    <3>2. /\ Byte(s.lx + 1) \in 0..255
          /\ Byte(s.lx + 1) # GB_WIDTH => Byte(Byte(s.lx + 1) + 8) = Byte(s.lx + 8) + 1
      BY <1>2, <3>1, PlaceStep, Zenon
    <3> QED BY <1>7, <3>2, Zenon DEF Place
  <2> DEFINE here == d.fetch_obj = NoSlot
  <2>2. here => \A j \in DOMAIN l.objs : l.objs[j].x # place + 1
    <3>1. d.fetch_obj = NoSlot => \A j \in DOMAIN l.objs : l.objs[j].x # Byte(d.lx + 8)
      BY <1>7, <2>1, SlotIsFirst, Zenon
    <3> QED BY <2>1, <3>1, Zenon DEF Place
  <2>3. (s.fetch_obj = NoSlot) = TRUE
    BY <1>7
  <2>4. Filled(place, FetchedAt(place, TRUE, l), fifo, l)
    BY <1>4, <2>3
  <2> HIDE DEF here, place, fifo
  <2>5. FetchedAt(place + 1, here, l) = FetchedAt(place, TRUE, l)
    BY <1>3, <2>2, FetchedOn, Zenon
  <2> DEFINE F == FetchedAt(place, TRUE, l)
  <2>6. F \in SUBSET DOMAIN l.objs
    BY Zenon DEF FetchedAt
  <2> HIDE DEF F
  <2>7. Filled(place + 1, F, Popped(fifo), l)
    <3>1. fifo \in Seq(ObjPixels) /\ Filled(place, F, fifo, l)
      BY <1>2, <2>4, Zenon DEF F, fifo
    <3> QED BY <1>3, <2>6, <3>1, FilledMoves, Zenon
  <2>8. d.fetch_obj \in {NoSlot, SlotAt(d.lx, l)}
    BY <1>7, Zenon
  <2>9. Filled(Place(d), FetchedAt(Place(d), d.fetch_obj = NoSlot, l), d.obj_fifo, l)
    BY <1>7, <2>1, <2>5, <2>7, Zenon DEF F, fifo, here
  <2> QED BY <2>8, <2>9, ObjsAre, Zenon
<1>8. \/ d.draw_complete
      \/ d = s
      \/ /\ s.fetch_obj = NoSlot /\ s.scx_disregard > 0
         /\ d.obj_fifo = Popped(s.obj_fifo) /\ d.lx = s.lx /\ d.fetch_obj = s.fetch_obj
      \/ /\ s.fetch_obj = NoSlot /\ d.lx = Byte(s.lx + 1) /\ d.lx # GB_WIDTH
         /\ d.fetch_obj = SlotAt(d.lx, l) /\ d.obj_fifo = Popped(s.obj_fifo)
  BY PixelIs
<1> QED BY <1>5, <1>6, <1>7, <1>8, Zenon

\* A dot: the fetchers first, and then the pixel; b is the state between.
LEMMA DotIs ==
    ASSUME NEW l, RegsOK(l), NEW s, PipeOK(s, l),
           s.fetch_obj = NoSlot => s.obj_dot = 0,
           s.bg_fifo # <<>> => Len(s.bg_fifo) + s.bg_dot >= 7, Place(s) < 8 + GB_WIDTH,
           NEW b, b = bg_fetcher_dot(obj_fetcher_dot(s, l), l),
           NEW p, p = DrawPixel(b, l), NEW d, d = Dot(s, l)
    PROVE  /\ PipeOK(b, l) /\ b.lx = s.lx /\ b.out = s.out /\ b.draw_complete = s.draw_complete
           /\ Place(b) < 8 + GB_WIDTH
           /\ GroundInPlace(s, l) => GroundInPlace(b, l)
           /\ l.obj_on /\ ObjsInPlace(s, l) => ObjsInPlace(b, l)
           /\ d.lx = p.lx /\ d.bg_fetch_x = p.bg_fetch_x /\ d.bg_fifo = p.bg_fifo
           /\ d.bg_dot = p.bg_dot /\ d.tile = p.tile /\ d.obj_fifo = p.obj_fifo
           /\ d.fetch_obj = p.fetch_obj /\ d.win_x = p.win_x /\ d.out = p.out
           /\ d.scx_disregard = p.scx_disregard
           /\ d.window_mode = p.window_mode /\ d.draw_complete = p.draw_complete
<1> DEFINE o == obj_fetcher_dot(s, l)
           n == p.dots + 1
           r == [p EXCEPT !.dots = n]
<1>1. s \in Pipes
  BY Zenon DEF PipeOK
<1>2. /\ PipeOK(o, l) /\ o.lx = s.lx /\ o.bg_fifo = s.bg_fifo /\ o.bg_dot = s.bg_dot
      /\ o.draw_complete = s.draw_complete /\ (o.fetch_obj = NoSlot => o.obj_dot = 0)
  BY ObjFetch
<1>3. o.out = s.out
  BY <1>1, ObjDotIs
<1>4. o \in Pipes /\ (o.bg_fifo # <<>> => Len(o.bg_fifo) + o.bg_dot >= 7)
  BY <1>2, Zenon DEF PipeOK
<1>5. Place(o) < 8 + GB_WIDTH
  BY <1>2, Zenon DEF Place
<1>6. GroundInPlace(s, l) => GroundInPlace(o, l)
  BY <1>1, GroundWaits
<1>7. l.obj_on /\ ObjsInPlace(s, l) => ObjsInPlace(o, l)
  BY ObjsFetched
<1>8. b = bg_fetcher_dot(o, l)
  BY Zenon
<1> HIDE DEF o
<1>9. /\ PipeOK(b, l) /\ b.lx = o.lx /\ b.fetch_obj = o.fetch_obj /\ b.obj_dot = o.obj_dot
      /\ b.draw_complete = o.draw_complete
      /\ b.bg_fifo # <<>> => Len(b.bg_fifo) + b.bg_dot >= 8
  BY <1>2, <1>4, <1>8, BgFetch
<1>10. b.out = o.out
  BY <1>4, <1>8, BgDotIs
<1>11. Place(b) < 8 + GB_WIDTH
  BY <1>5, <1>9, Zenon DEF Place
<1>12. GroundInPlace(o, l) => GroundInPlace(b, l)
  BY <1>2, <1>5, <1>8, GroundFetched
<1>13. ObjsInPlace(o, l) => ObjsInPlace(b, l)
  BY <1>4, <1>8, ObjsWait
<1>14. p \in Pipes
  <2>1. CASE b.fetch_obj # NoSlot \/ b.bg_fifo = <<>>
    <3>1. p = b
      BY <2>1, Zenon DEF DrawPixel
    <3> QED BY <1>9, <3>1, Zenon DEF PipeOK
  <2>2. CASE b.fetch_obj = NoSlot /\ b.bg_fifo # <<>>
    <3>1. b.obj_dot = 0 /\ Len(b.bg_fifo) + b.bg_dot >= 8
      BY <1>2, <1>9, <2>2, Zenon
    <3>2. PipeOK(p, l)
      BY <1>9, <1>11, <2>2, <3>1, PixelTaken
    <3> QED BY <3>2, Zenon DEF PipeOK
  <2> QED BY <2>1, <2>2
<1>15. d = r
  <2>1. d = [p EXCEPT !.dots = @ + 1]
    BY Zenon DEF Dot
  <2> QED BY <2>1, Zenon
<1> HIDE DEF n
<1>16. /\ r.lx = p.lx /\ r.bg_fetch_x = p.bg_fetch_x /\ r.bg_fifo = p.bg_fifo
       /\ r.bg_dot = p.bg_dot /\ r.tile = p.tile /\ r.obj_fifo = p.obj_fifo
       /\ r.fetch_obj = p.fetch_obj /\ r.win_x = p.win_x /\ r.out = p.out
       /\ r.scx_disregard = p.scx_disregard
  BY <1>14 DEF Pipes
<1>17. r.window_mode = p.window_mode /\ r.draw_complete = p.draw_complete
  BY <1>14, Zenon DEF Pipes
<1> HIDE DEF r
<1>18. /\ b.lx = s.lx /\ b.out = s.out /\ b.draw_complete = s.draw_complete
  BY <1>2, <1>3, <1>9, <1>10, Zenon
<1>19. /\ GroundInPlace(s, l) => GroundInPlace(b, l)
       /\ l.obj_on /\ ObjsInPlace(s, l) => ObjsInPlace(b, l)
  BY <1>6, <1>7, <1>12, <1>13, Zenon
<1> QED BY <1>9, <1>11, <1>15, <1>16, <1>17, <1>18, <1>19, Zenon

\* The same fields, the same ground.
LEMMA GroundSame ==
    ASSUME NEW l, NEW s, NEW o, o.lx = s.lx, o.bg_fetch_x = s.bg_fetch_x, o.bg_fifo = s.bg_fifo,
           o.bg_dot = s.bg_dot, o.tile = s.tile, o.win_x = s.win_x,
           o.scx_disregard = s.scx_disregard, o.window_mode = s.window_mode, GroundInPlace(s, l)
    PROVE  GroundInPlace(o, l)
<1>1. Place(o) = Place(s) /\ TileAt(o, l) = TileAt(s, l)
  BY Zenon DEF Place, TileAt
<1> QED BY <1>1, GroundIs, Zenon

\* A dot keeps the line in place.
LEMMA DotInPlace ==
    ASSUME NEW l, RegsOK(l), Promise!Asked(l), NEW s, PipeOK(s, l),
           s.fetch_obj = NoSlot => s.obj_dot = 0,
           s.bg_fifo # <<>> => Len(s.bg_fifo) + s.bg_dot >= 7, Place(s) < 8 + GB_WIDTH,
           GroundInPlace(s, l), l.obj_on => ObjsInPlace(s, l),
           NEW d, d = Dot(s, l), ~d.draw_complete
    PROVE  GroundInPlace(d, l) /\ (l.obj_on => ObjsInPlace(d, l))
<1> DEFINE b == bg_fetcher_dot(obj_fetcher_dot(s, l), l)
           p == DrawPixel(b, l)
<1>1. /\ PipeOK(b, l) /\ Place(b) < 8 + GB_WIDTH
      /\ GroundInPlace(s, l) => GroundInPlace(b, l)
      /\ l.obj_on /\ ObjsInPlace(s, l) => ObjsInPlace(b, l)
      /\ d.lx = p.lx /\ d.bg_fetch_x = p.bg_fetch_x /\ d.bg_fifo = p.bg_fifo
      /\ d.bg_dot = p.bg_dot /\ d.tile = p.tile /\ d.obj_fifo = p.obj_fifo
      /\ d.fetch_obj = p.fetch_obj /\ d.win_x = p.win_x
      /\ d.scx_disregard = p.scx_disregard
      /\ d.window_mode = p.window_mode /\ d.draw_complete = p.draw_complete
  BY DotIs
<1> HIDE DEF b
<1>2. p = DrawPixel(b, l) /\ ~p.draw_complete
  BY <1>1, Zenon
<1>3. GroundInPlace(b, l) /\ (l.obj_on => ObjsInPlace(b, l))
  BY <1>1, Zenon
<1> HIDE DEF p
<1>4. GroundInPlace(p, l)
  BY <1>1, <1>2, <1>3, GroundTaken
<1>5. l.obj_on => ObjsInPlace(p, l)
  BY <1>1, <1>2, <1>3, ObjsTaken
<1>6. GroundInPlace(d, l)
  BY <1>1, <1>4, GroundSame, Zenon
<1>7. l.obj_on => ObjsInPlace(d, l)
  BY <1>1, <1>5, ObjsSame, Zenon
<1> QED BY <1>6, <1>7, Zenon

\* Before the first line no pixel is to be drawn.
LEMMA InPlaceInitially == DrawInit => InPlace
<1> SUFFICES ASSUME DrawInit PROVE InPlace
  OBVIOUS
<1>1. line \in Lines /\ pipe = Blank
  BY Zenon DEF DrawInit
<1>2. Blank.draw_complete
  BY DEF Blank
<1> QED BY <1>1, <1>2, Zenon DEF InPlace

\* Every step keeps the FIFOs in place, or it sets a register.
LEMMA InPlaceStep == KeepsTime /\ InPlace /\ [DrawNext]_draw_vars => InPlace'
<1> SUFFICES ASSUME KeepsTime, InPlace, [DrawNext]_draw_vars PROVE InPlace'
  OBVIOUS
<1>1. RegsOK(line) /\ PipeOK(pipe, line)
  BY Typed, Zenon DEF KeepsTime
<1>2. /\ pipe.fetch_obj = NoSlot => pipe.obj_dot = 0
      /\ pipe.bg_fifo # <<>> => Len(pipe.bg_fifo) + pipe.bg_dot >= 7
      /\ ~pipe.draw_complete => Place(pipe) < 8 + GB_WIDTH
  BY Zenon DEF KeepsTime, InStep
<1>3. sure => /\ line \in Lines
              /\ ~pipe.draw_complete /\ Promise!Asked(line) =>
                     GroundInPlace(pipe, line) /\ (line.obj_on => ObjsInPlace(pipe, line))
  BY Zenon DEF InPlace
\* What is to be shown of the state after a step.
<1>4. ASSUME sure' => /\ line' \in Lines
                      /\ ~pipe'.draw_complete /\ Promise!Asked(line') =>
                            GroundInPlace(pipe', line') /\ (line'.obj_on => ObjsInPlace(pipe', line'))
      PROVE  InPlace'
  BY <1>4, Zenon DEF InPlace
<1>5. CASE BeginDraw
  <2>1. PICK l \in Lines : line' = l /\ pipe' = [Mode3(pipe, l) EXCEPT !.out = <<>>]
    BY <1>5, Zenon DEF BeginDraw
  <2>2. RegsOK(l) /\ pipe \in Pipes
    BY <1>1, LinesOK, Zenon DEF PipeOK
  <2> DEFINE d == pipe'
  <2>3. Fresh(d, pipe, l)
    BY <2>1, Zenon DEF Fresh
  <2> HIDE DEF d
  <2>4. Promise!Asked(l) => GroundInPlace(d, l) /\ ObjsInPlace(d, l)
    BY <2>2, <2>3, GroundBegins, ObjsBegin, Zenon
  <2> QED BY <1>4, <2>1, <2>4, Zenon DEF d
<1>6. CASE mode3_dot
  <2>1. ~pipe.draw_complete /\ pipe' = Dot(pipe, line) /\ line' = line /\ sure' = sure
    BY <1>6, Zenon DEF mode3_dot
  <2> DEFINE d == pipe'
  <2>2. d = Dot(pipe, line) /\ Place(pipe) < 8 + GB_WIDTH
    BY <1>2, <2>1, Zenon
  <2> HIDE DEF d
  <2>3. sure /\ ~d.draw_complete /\ Promise!Asked(line) =>
            GroundInPlace(d, line) /\ (line.obj_on => ObjsInPlace(d, line))
    <3> SUFFICES ASSUME sure, ~d.draw_complete, Promise!Asked(line)
                 PROVE  GroundInPlace(d, line) /\ (line.obj_on => ObjsInPlace(d, line))
      OBVIOUS
    <3>1. GroundInPlace(pipe, line) /\ (line.obj_on => ObjsInPlace(pipe, line))
      BY <1>3, <2>1, Zenon
    <3> QED BY <1>1, <1>2, <2>2, <3>1, DotInPlace
  <2> QED BY <1>3, <1>4, <2>1, <2>3, Zenon DEF d
<1>7. CASE RegisterWrite
  BY <1>4, <1>7, Zenon DEF RegisterWrite
<1>8. CASE UNCHANGED draw_vars
  <2>1. line' = line /\ pipe' = pipe /\ sure' = sure
    BY <1>8, Zenon DEF draw_vars
  <2> QED BY <1>3, <1>4, <2>1, Zenon
<1> QED BY <1>5, <1>6, <1>7, <1>8, Zenon DEF DrawNext

\* The places of the screen are eight further on.
LEMMA OnScreen ==
    ASSUME NEW s \in Pipes, s.lx < GB_WIDTH
    PROVE  s.lx \in 0..159 /\ Place(s) = s.lx + 8 /\ Place(s) \in 8..167
<1>1. s.lx \in 0..255
  BY Fields
<1>2. GB_WIDTH \in 1..160
  BY PixelsAssumption, Zenon
<1> DEFINE x == s.lx
<1>3. x \in 0..255 /\ x < GB_WIDTH
  BY <1>1, Zenon
<1> HIDE DEF x
<1>4. x \in 0..159 /\ x <= 160 /\ x + 8 \in 8..167
  BY <1>2, <1>3
<1> DEFINE y == Place(s)
<1>5. s.lx <= 160 => y = s.lx + 8
  BY PlaceIs
<1>6. x <= 160 => y = x + 8
  BY <1>5, Zenon DEF x
<1> HIDE DEF y
<1>7. x \in 0..159 /\ y = x + 8 /\ y \in 8..167
  BY <1>4, <1>6
<1> QED BY <1>7 DEF x, y

\* The first pixel of the FIFO of background and window is that of the map at this place.
LEMMA GroundShown ==
    ASSUME NEW s, PipeOK(s, line), RegsOK(line), s.lx < GB_WIDTH, s.bg_fifo # <<>>,
           GroundInPlace(s, line)
    PROVE  /\ Head(s.bg_fifo) = Promise!Ground(s.lx)
           /\ s.window_mode => line.win_on
<1>1. s \in Pipes
  BY Zenon DEF PipeOK
<1>2. s.lx \in 0..159 /\ Place(s) = s.lx + 8 /\ Place(s) \in 8..167
  BY <1>1, OnScreen
<1>3. line.scx \in 0..255 /\ line.wx \in 0..255
  BY DEF RegsOK, Registers
<1>4. s.bg_fifo \in Seq(Grounds) /\ s.scx_disregard \in 0..7
  BY <1>1, Fields DEF BgFifos
<1>5. 1 \in DOMAIN s.bg_fifo /\ Head(s.bg_fifo) = s.bg_fifo[1]
  BY <1>4
<1>6. /\ s.window_mode <=> line.wy_check /\ line.win_on /\ line.wx < Place(s)
      /\ s.scx_disregard > 0 => Place(s) = 0
      /\ s.window_mode => WinAhead(s.win_x, s.bg_fifo, Place(s) - line.wx - 1)
      /\ ~s.window_mode => BgAhead(s.bg_fetch_x, s.bg_fifo, s.lx, line.scx, s.scx_disregard)
  BY GroundIs, Zenon
<1> DEFINE x == s.lx
           wx == line.wx
           scx == line.scx
<1>7. x \in 0..159 /\ wx \in 0..255 /\ scx \in 0..255 /\ Place(s) = x + 8
  BY <1>2, <1>3, Zenon
<1>8. s.scx_disregard = 0
  <2> DEFINE y == Place(s)
  <2>3. y \in 8..167
    BY <1>2, Zenon
  <2> HIDE DEF y
  <2>4. y # 0
    BY <2>3
  <2>1. Place(s) # 0
    BY <2>4, Zenon DEF y
  <2>2. ~(s.scx_disregard > 0)
    BY <1>6, <2>1, Zenon
  <2> QED BY <1>4, <2>2
<1> HIDE DEF x, wx, scx
<1>9. /\ wx < x + 8 <=> wx - 7 <= x
      /\ (x + 8) - wx - 1 + 1 - 1 = x - (wx - 7)
      /\ x + scx - 0 + 1 - 1 = x + scx
  BY <1>7
<1>10. s.window_mode <=> Promise!InWindow(x)
  BY <1>6, <1>7, <1>9, Zenon DEF Promise!InWindow, wx
<1>11. CASE s.window_mode
  <2>1. s.bg_fifo[1] = <<"win", Place(s) - line.wx - 1 + 1 - 1>>
    BY <1>5, <1>6, <1>11, Zenon DEF WinAhead
  <2>2. s.bg_fifo[1] = <<"win", x - (line.wx - 7)>>
    BY <1>7, <1>9, <2>1, Zenon DEF wx
  <2> QED BY <1>5, <1>6, <1>10, <1>11, <2>2, Zenon DEF Promise!Ground, x
<1>12. CASE ~s.window_mode
  <2>1. s.bg_fifo[1] = <<"bg", Byte(s.lx + line.scx - s.scx_disregard + 1 - 1)>>
    BY <1>5, <1>6, <1>12, Zenon DEF BgAhead
  <2>2. s.bg_fifo[1] = <<"bg", Byte(x + line.scx)>>
    BY <1>8, <1>9, <2>1, Zenon DEF x, scx
  <2>3. Promise!Ground(x) = <<"bg", (x + line.scx) % 256>>
    BY <1>10, <1>12, Zenon DEF Promise!Ground
  <2>4. Byte(x + line.scx) = (x + line.scx) % 256
    BY Zenon DEF Byte
  <2> QED BY <1>5, <1>12, <2>2, <2>3, <2>4, Zenon DEF x
<1> QED BY <1>11, <1>12

\* The objects of LineSpec with an opaque pixel here are those that have been fetched.
LEMMA OpaqueIs ==
    ASSUME NEW s, PipeOK(s, line), RegsOK(line), s.lx < GB_WIDTH, s.fetch_obj = NoSlot
    PROVE  Promise!Opaque(s.lx) = Shown(Place(s), Fetched(s, line), line)
<1>1. s \in Pipes
  BY Zenon DEF PipeOK
<1>2. s.lx \in 0..159 /\ Place(s) = s.lx + 8 /\ Place(s) \in 8..167
  BY <1>1, OnScreen
<1>3. ASSUME NEW j \in DOMAIN line.objs
      PROVE  /\ Promise!First(j) <=> FirstThere(j, line)
             /\ Promise!Column(j, s.lx) = Place(s) - line.objs[j].x
             /\ Place(s) - line.objs[j].x \in line.objs[j].opaque =>
                   Place(s) - line.objs[j].x \in 0..7 /\ line.objs[j].x <= Place(s)
  <2> DEFINE x == line.objs[j].x
             y == s.lx
             place == Place(s)
  <2>1. x \in 0..255 /\ line.objs[j].opaque \subseteq 0..7
    BY ObjIs
  <2>2. y \in 0..159 /\ place = y + 8
    BY <1>2, Zenon
  <2> HIDE DEF x, y, place
  <2>3. y - (x - 8) = place - x
    BY <2>1, <2>2
  <2>4. place - x \in 0..7 => x <= place
    BY <2>1, <2>2
  <2>5. Promise!Column(j, y) = place - x
    BY <2>3, Zenon DEF Promise!Column, x
  <2>6. Promise!First(j) <=> FirstThere(j, line)
    BY Zenon DEF Promise!First, FirstThere
  <2> QED BY <2>1, <2>4, <2>5, <2>6, Zenon DEF x, y, place
<1>4. \A j : j \in Promise!Opaque(s.lx) <=> j \in Shown(Place(s), Fetched(s, line), line)
  BY <1>3, Zenon DEF Promise!Opaque, Promise!Covering, Shown, Fetched
<1> QED BY <1>4, Zenon

\* The pixel that is drawn is the one that LineSpec asks for.
LEMMA PixelShown ==
    ASSUME NEW s, PipeOK(s, line), RegsOK(line), Promise!Asked(line), s.lx < GB_WIDTH,
           s.fetch_obj = NoSlot, s.bg_fifo # <<>>, GroundInPlace(s, line),
           line.obj_on => ObjsInPlace(s, line)
    PROVE  Picked(s, line) = Promise!Pixel(s.lx)
<1> DEFINE x == s.lx
           place == Place(s)
           fifo == s.obj_fifo
           F == Fetched(s, line)
           ground == Head(s.bg_fifo)
           obj == Head(s.obj_fifo)
           shows == /\ line.obj_on
                    /\ ground[2] \in Zero \/ ~line.objs[obj[1]].behind
                    /\ obj[2] \in line.objs[obj[1]].opaque
<1>1. s \in Pipes
  BY Zenon DEF PipeOK
<1>2. ground = Promise!Ground(x) /\ (s.window_mode => line.win_on)
  BY GroundShown
<1>3. Picked(s, line) = IF fifo # <<>> /\ shows THEN <<"obj", obj[1], obj[2]>> ELSE ground
  BY <1>2, Zenon DEF Picked, Promise!Asked
<1>4. Promise!Opaque(x) = Shown(place, F, line)
  BY OpaqueIs
<1>5. place \in Int /\ place >= 8 /\ place + 1 - 1 = place /\ place = x + 8 /\ x \in Int
  <2>1. s.lx \in 0..159 /\ Place(s) = s.lx + 8 /\ Place(s) \in 8..167
    BY <1>1, OnScreen
  <2>2. x \in 0..159 /\ place = x + 8 /\ place \in 8..167
    BY <2>1, Zenon
  <2> HIDE DEF x, place
  <2> QED BY <2>2
<1>6. F \in SUBSET DOMAIN line.objs /\ \A j \in F : FirstThere(j, line)
  BY Zenon DEF Fetched
<1>7. fifo \in Seq(ObjPixels)
  <2>1. fifo \in ObjFifos
    BY <1>1, Fields
  <2> QED BY <2>1, Zenon DEF ObjFifos
<1> HIDE DEF x, place, fifo, F, ground
<1>8. CASE ~line.obj_on
  BY <1>2, <1>3, <1>8, Zenon DEF Promise!Pixel, x
<1>9. CASE line.obj_on
  <2>1. Filled(place, F, fifo, line)
    BY <1>9, ObjsIs, Zenon DEF place, F, fifo
  <2>2. CASE fifo = <<>>
    <3>1. Reaches(F, place + 0, line) /\ place + 0 \in Int /\ place >= place + 0
      <4>1. Len(<<>>) = 0
        OBVIOUS
      <4>2. Reaches(F, place + 0, line)
        BY <2>1, <2>2, <4>1, Zenon DEF Filled
      <4> QED BY <1>5, <4>2
    <3>2. Shown(place, F, line) = {}
      BY <1>5, <1>6, <3>1, NotReached
    <3> QED BY <1>2, <1>3, <1>4, <2>2, <3>2, Zenon DEF Promise!Pixel, x
  <2>3. CASE fifo # <<>>
    <3>1. 1 \in DOMAIN fifo /\ obj = fifo[1]
      BY <1>7, <2>3 DEF fifo
    <3> HIDE DEF obj
    <3>2. Holds(obj, place, F, line)
      BY <1>5, <2>1, <3>1, Zenon DEF Filled
    <3>3. CASE Shown(place, F, line) = {}
      <4>1. obj[2] \notin line.objs[obj[1]].opaque
        BY <3>2, <3>3, Zenon DEF Holds
      <4> QED BY <1>2, <1>3, <1>4, <3>3, <4>1, Zenon DEF Promise!Pixel, x
    <3>4. CASE Shown(place, F, line) # {}
      <4>1. PICK j \in Shown(place, F, line) :
                   /\ \A k \in Shown(place, F, line) : line.objs[j].x <= line.objs[k].x
                   /\ obj = <<j, place - line.objs[j].x>>
        BY <3>2, <3>4, Zenon DEF Holds
      <4>2. j \in F /\ place - line.objs[j].x \in line.objs[j].opaque
        BY Zenon DEF Shown
      <4>3. obj[1] = j /\ obj[2] = place - line.objs[j].x
        BY <4>1
      <4> DEFINE front == Promise!Front(x)
      <4>4. /\ front \in Shown(place, F, line)
            /\ \A k \in Shown(place, F, line) : line.objs[front].x <= line.objs[k].x
        BY <1>4, <4>1, Zenon DEF Promise!Front
      <4> HIDE DEF front
      <4>5. front = j
        <5>1. front \in F /\ front \in DOMAIN line.objs /\ j \in DOMAIN line.objs
          BY <1>6, <4>2, <4>4, Zenon DEF Shown
        <5>2. line.objs[front].x <= line.objs[j].x /\ line.objs[j].x <= line.objs[front].x
          BY <4>1, <4>4, Zenon
        <5>3. line.objs[front].x \in 0..255 /\ line.objs[j].x \in 0..255
          <6>1. \A i \in DOMAIN line.objs : line.objs[i].x \in 0..255
            BY ObjIs
          <6> QED BY <5>1, <6>1, Zenon
        <5>6. \A m, n \in 0..255 : m <= n /\ n <= m => m = n
          OBVIOUS
        <5>4. line.objs[front].x = line.objs[j].x
          BY <5>2, <5>3, <5>6, Zenon
        <5> QED BY <1>6, <4>2, <5>1, <5>4, OneFirst, Zenon
      <4>6. Promise!Column(j, x) = place - line.objs[j].x
        <5>1. j \in DOMAIN line.objs
          BY <1>6, <4>2, Zenon
        <5> DEFINE y == line.objs[j].x
        <5>2. y \in 0..255
          BY <5>1, ObjIs
        <5> HIDE DEF y
        <5>3. x - (y - 8) = place - y
          BY <1>5, <5>2
        <5> QED BY <5>3, Zenon DEF y, Promise!Column
      <4>7. Promise!Pixel(x) = IF ~(line.objs[j].behind /\ Promise!Ground(x)[2] \notin Zero)
                               THEN <<"obj", j, place - line.objs[j].x>> ELSE Promise!Ground(x)
        <5>1. Promise!Front(x) = j /\ Promise!Opaque(x) # {}
          BY <1>4, <3>4, <4>5, Zenon DEF front
        <5>2. Promise!Pixel(x) =
                  IF ~(line.objs[Promise!Front(x)].behind /\ Promise!Ground(x)[2] \notin Zero)
                  THEN <<"obj", Promise!Front(x), Promise!Column(Promise!Front(x), x)>>
                  ELSE Promise!Ground(x)
          BY <1>9, <5>1, Zenon DEF Promise!Pixel
        <5> QED BY <4>6, <5>1, <5>2, Zenon
      <4>8. shows <=> ~(line.objs[j].behind /\ Promise!Ground(x)[2] \notin Zero)
        BY <1>2, <1>9, <4>2, <4>3, Zenon
      <4>9. <<"obj", obj[1], obj[2]>> = <<"obj", j, place - line.objs[j].x>>
        BY <4>3, Zenon
      <4> HIDE DEF shows
      <4>10. Picked(s, line) = IF shows THEN <<"obj", j, place - line.objs[j].x>> ELSE ground
        BY <1>3, <2>3, <4>9, Zenon
      <4> QED BY <1>2, <4>7, <4>8, <4>10, Zenon DEF x
    <3> QED BY <3>3, <3>4
  <2> QED BY <2>2, <2>3
<1> QED BY <1>8, <1>9

\* The pixel that LineSpec draws next.
Upcoming(x) == IF x <= GB_WIDTH THEN x ELSE 0

\* lx before the screen, on it, and at its right edge.
LEMMA NextPixel ==
    ASSUME NEW x \in 0..255, Byte(x + 8) < 8 + GB_WIDTH
    PROVE  /\ x < GB_WIDTH => /\ Upcoming(x) = x /\ Upcoming(x) < GB_WIDTH
                              /\ Upcoming(Byte(x + 1)) = Upcoming(x) + 1
           /\ ~(x < GB_WIDTH) => Upcoming(Byte(x + 1)) = Upcoming(x)
<1>1. GB_WIDTH \in 1..160
  BY PixelsAssumption, Zenon
<1>2. CASE x < GB_WIDTH
  <2>1. x + 1 \in 0..255 /\ x <= GB_WIDTH /\ x + 1 <= GB_WIDTH
    BY <1>1, <1>2
  <2>2. Byte(x + 1) = x + 1
    BY <2>1, ByteSmall, Zenon
  <2> QED BY <1>2, <2>1, <2>2, Zenon DEF Upcoming
<1>3. CASE ~(x < GB_WIDTH)
  <2>1. x >= 248
    <3>1. SUFFICES ASSUME x < 248 PROVE FALSE
      BY <1>1
    <3>2. x + 8 \in 0..255
      BY <3>1
    <3>3. Byte(x + 8) = x + 8
      BY <3>2, ByteSmall, Zenon
    <3>4. ~(x + 8 < 8 + GB_WIDTH)
      BY <1>1, <1>3
    <3> QED BY <3>3, <3>4, Zenon
  <2>2. Byte(x + 1) = 0 \/ Byte(x + 1) > 160
    BY <2>1 DEF Byte
  <2>3. ~(x <= GB_WIDTH)
    BY <1>1, <2>1
  <2>4. Upcoming(x) = 0
    BY <2>3, Zenon DEF Upcoming
  <2>5. Byte(x + 1) \in Int
    BY DEF Byte
  <2> DEFINE y == Byte(x + 1)
  <2> HIDE DEF y
  <2>6. y = 0 \/ ~(y <= GB_WIDTH)
    BY <1>1, <2>2, <2>5 DEF y
  <2>7. Upcoming(y) = 0
    BY <2>6, Zenon DEF Upcoming
  <2> QED BY <1>3, <2>4, <2>7, Zenon DEF y
<1> QED BY <1>2, <1>3, Zenon

\* The first state is one of LineSpec.
LEMMA PromiseInit == DrawInit => Promise!Init
<1> SUFFICES ASSUME DrawInit PROVE Promise!Init
  OBVIOUS
<1>1. pipe = Blank /\ sure = TRUE
  BY Zenon DEF DrawInit
<1>2. Blank.lx = 0 /\ Blank.out = <<>>
  BY DEF Blank
<1>3. (IF pipe.lx <= GB_WIDTH THEN pipe.lx ELSE 0) = 0
  BY <1>1, <1>2, Zenon
<1> QED BY <1>1, <1>2, <1>3, Zenon DEF Promise!Init

\* A dot draws the next pixel of LineSpec, or none.
LEMMA DotDraws ==
    ASSUME KeepsTime, InPlace, mode3_dot
    PROVE  Promise!Draw \/ UNCHANGED Promise!linevars
<1> DEFINE b == bg_fetcher_dot(obj_fetcher_dot(pipe, line), line)
           p == DrawPixel(b, line)
           d == pipe'
           x == pipe.lx
<1>1. RegsOK(line) /\ PipeOK(pipe, line)
  BY Typed, Zenon DEF KeepsTime
<1>2. ~pipe.draw_complete /\ d = Dot(pipe, line) /\ line' = line /\ sure' = sure
  BY Zenon DEF mode3_dot
<1>3. /\ pipe.fetch_obj = NoSlot => pipe.obj_dot = 0
      /\ pipe.bg_fifo # <<>> => Len(pipe.bg_fifo) + pipe.bg_dot >= 7
      /\ Place(pipe) < 8 + GB_WIDTH
  BY <1>2, Zenon DEF KeepsTime, InStep
<1> HIDE DEF d
<1>4. /\ PipeOK(b, line) /\ b.lx = pipe.lx /\ b.out = pipe.out
      /\ GroundInPlace(pipe, line) => GroundInPlace(b, line)
      /\ line.obj_on /\ ObjsInPlace(pipe, line) => ObjsInPlace(b, line)
      /\ d.lx = p.lx /\ d.out = p.out
  BY <1>1, <1>2, <1>3, DotIs
<1> HIDE DEF b, p
<1>5. x \in 0..255 /\ Byte(x + 8) < 8 + GB_WIDTH
  <2>1. pipe.lx \in 0..255
    BY <1>1, Fields DEF PipeOK
  <2>2. Byte(pipe.lx + 8) < 8 + GB_WIDTH
    BY <1>3, Zenon DEF Place
  <2> QED BY <2>1, <2>2, Zenon
<1> DEFINE q == Upcoming(x)
<1>6. (IF pipe.lx <= GB_WIDTH THEN pipe.lx ELSE 0) = q
  BY Zenon DEF Upcoming
<1>7. (IF pipe.lx <= GB_WIDTH THEN pipe.lx ELSE 0)' = Upcoming(d.lx)
  BY Zenon DEF Upcoming, d
<1>8. \/ p = b
      \/ p.lx = b.lx /\ p.out = b.out
      \/ /\ b.fetch_obj = NoSlot /\ b.bg_fifo # <<>> /\ p.lx = Byte(b.lx + 1)
         /\ p.out = IF b.lx < GB_WIDTH THEN Picked(b, line) ELSE b.out
  <2>1. p = DrawPixel(b, line)
    BY Zenon DEF p
  <2> QED BY <1>1, <1>4, <2>1, PixelIs
<1> HIDE DEF x
<1>9. CASE p = b \/ (p.lx = b.lx /\ p.out = b.out)
  <2>1. pipe'.lx = pipe.lx /\ pipe'.out = pipe.out
    BY <1>4, <1>9, Zenon DEF d
  <2> QED BY <1>2, <2>1, Zenon DEF Promise!linevars
<1>10. CASE /\ b.fetch_obj = NoSlot /\ b.bg_fifo # <<>> /\ p.lx = Byte(b.lx + 1)
            /\ p.out = IF b.lx < GB_WIDTH THEN Picked(b, line) ELSE b.out
  <2>1. d.lx = Byte(x + 1)
    BY <1>4, <1>10, Zenon DEF x
  <2>2. /\ x < GB_WIDTH => q = x /\ q < GB_WIDTH /\ Upcoming(Byte(x + 1)) = q + 1
        /\ ~(x < GB_WIDTH) => Upcoming(Byte(x + 1)) = q
    BY <1>5, NextPixel, Zenon
  <2> HIDE DEF q
  <2>3. CASE x < GB_WIDTH
    <3>1. sure /\ Promise!Asked(line) => d.out = Promise!Pixel(q)
      <4> SUFFICES ASSUME sure, Promise!Asked(line) PROVE d.out = Promise!Pixel(q)
        OBVIOUS
      <4>1. GroundInPlace(b, line) /\ (line.obj_on => ObjsInPlace(b, line))
        BY <1>2, <1>4, Zenon DEF InPlace
      <4>2. b.lx < GB_WIDTH
        BY <1>4, <2>3, Zenon DEF x
      <4>3. Picked(b, line) = Promise!Pixel(b.lx)
        BY <1>1, <1>4, <1>10, <4>1, <4>2, PixelShown
      <4>4. d.out = Picked(b, line)
        BY <1>4, <1>10, <4>2, Zenon
      <4> QED BY <1>4, <2>2, <2>3, <4>3, <4>4, Zenon DEF x
    <3>2. (IF pipe.lx <= GB_WIDTH THEN pipe.lx ELSE 0)'
              = (IF pipe.lx <= GB_WIDTH THEN pipe.lx ELSE 0) + 1
      BY <1>6, <1>7, <2>1, <2>2, <2>3, Zenon
    <3>3. (IF pipe.lx <= GB_WIDTH THEN pipe.lx ELSE 0) < GB_WIDTH
      BY <1>6, <2>2, <2>3, Zenon
    <3> DEFINE n == IF pipe.lx <= GB_WIDTH THEN pipe.lx ELSE 0
    <3>4. sure /\ Promise!Asked(line) => pipe'.out = Promise!Pixel(n)
      BY <1>6, <3>1, Zenon DEF d
    <3> QED BY <1>2, <3>2, <3>3, <3>4, Zenon DEF Promise!Draw
  <2>4. CASE ~(x < GB_WIDTH)
    <3>1. d.out = pipe.out
      BY <1>4, <1>10, <2>4, Zenon DEF x
    <3>2. (IF pipe.lx <= GB_WIDTH THEN pipe.lx ELSE 0)'
              = (IF pipe.lx <= GB_WIDTH THEN pipe.lx ELSE 0)
      BY <1>6, <1>7, <2>1, <2>2, <2>4, Zenon
    <3> QED BY <1>2, <3>1, <3>2, Zenon DEF Promise!linevars, d
  <2> QED BY <2>3, <2>4
<1> QED BY <1>8, <1>9, <1>10, Zenon

\* Every step is one of LineSpec, or leaves its variables.
LEMMA PromiseStep ==
    KeepsTime /\ InPlace /\ [DrawNext]_draw_vars => [Promise!Next]_(Promise!linevars)
<1> SUFFICES ASSUME KeepsTime, InPlace, [DrawNext]_draw_vars
             PROVE  Promise!Next \/ UNCHANGED Promise!linevars
  BY Zenon
<1>1. CASE BeginDraw
  <2>1. PICK l \in Lines : line' = l /\ pipe' = [Mode3(pipe, l) EXCEPT !.out = <<>>]
    BY <1>1, Zenon DEF BeginDraw
  <2>2. sure' = TRUE
    BY <1>1, Zenon DEF BeginDraw
  <2>3. RegsOK(l) /\ pipe \in Pipes
    BY LinesOK, Typed, Zenon DEF KeepsTime, PipeOK
  <2> DEFINE d == pipe'
  <2>4. d = [Mode3(pipe, l) EXCEPT !.out = <<>>]
    BY <2>1, Zenon
  <2> HIDE DEF d
  <2>5. d.lx = Edge /\ d.out = <<>>
    BY <2>3, <2>4, Mode3Begins
  <2>6. ~(Edge <= GB_WIDTH)
    <3>1. GB_WIDTH \in 1..160
      BY PixelsAssumption, Zenon
    <3> QED BY <3>1 DEF Edge
  <2>7. (IF pipe.lx <= GB_WIDTH THEN pipe.lx ELSE 0)' = 0
    BY <2>5, <2>6, Zenon DEF d
  <2> QED BY <2>2, <2>5, <2>7, Zenon DEF Promise!Next, Promise!NewLine, d
<1>2. CASE mode3_dot
  BY <1>2, DotDraws, Zenon DEF Promise!Next
<1>3. CASE RegisterWrite
  <2>1. sure' = FALSE /\ pipe' = pipe
    BY <1>3, Zenon DEF RegisterWrite
  <2> QED BY <2>1, Zenon DEF Promise!Next, Promise!Disturb
<1>4. CASE UNCHANGED draw_vars
  <2>1. line' = line /\ pipe' = pipe /\ sure' = sure
    BY <1>4, Zenon DEF draw_vars
  <2> QED BY <2>1, Zenon DEF Promise!linevars
<1> QED BY <1>1, <1>2, <1>3, <1>4, Zenon DEF DrawNext

\* For every width of the screen up to that of the LCD, all registers and lists of objects,
\* and whatever the program writes in the middle of a line: the FIFOs and fetchers keep
\* their ranges, and a line takes no more dots than its pixels and the stops for SCX, window
\* and objects (mode3_dot, ppu.c:359-421).  In a line not written into, the FIFOs hold at
\* every dot what the places ahead ask for (InPlace).
THEOREM PixelsInvariant == DrawSpec => []PixelsInv
<1>1. DrawInit => KeepsTime /\ InPlace
  BY DrawInitially, InPlaceInitially, Zenon
<1>2. KeepsTime /\ InPlace /\ [DrawNext]_draw_vars => KeepsTime' /\ InPlace'
  BY DrawStep, InPlaceStep, Zenon
<1>3. KeepsTime /\ InPlace => PixelsInv
  BY Zenon DEF KeepsTime, PixelsInv
<1> QED BY <1>1, <1>2, <1>3, PTL DEF DrawSpec

\* For every width of the screen up to that of the LCD, all registers and all lists of objects,
\* mode 3 draws what LineSpec asks for: the pixels come out once each and from left to right
\* (mode3_dot, ppu.c:359-421), whatever the program writes meanwhile; and in a line in which it
\* writes nothing, with the background on and WX below 255, each is the pixel that SCX, the
\* window and the objects ask for, though fetchers and FIFOs stop and restart one another.
THEOREM LineComesOut == DrawSpec => ImplementsPromise
<1>1. DrawInit => KeepsTime /\ InPlace
  BY DrawInitially, InPlaceInitially, Zenon
<1>2. KeepsTime /\ InPlace /\ [DrawNext]_draw_vars => KeepsTime' /\ InPlace'
  BY DrawStep, InPlaceStep, Zenon
<1> QED BY <1>1, <1>2, PromiseInit, PromiseStep, PTL DEF DrawSpec, ImplementsPromise, Promise!Spec
===========================================================================
