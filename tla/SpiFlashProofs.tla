--------------------------- MODULE SpiFlashProofs ---------------------------
(***************************************************************************)
(* Lemmas about SpiFlash, for any geometry of the chip: the rounding of    *)
(* addresses, the sectors of the two chip families, and what one step of   *)
(* the driver does to the chip.                                            *)
(***************************************************************************)
EXTENDS SpiFlash, FiniteSetTheorems, TLAPS

------------------------------------------------------------------------------
(* Arithmetic.                                                              *)

Multiple(a, s) == \E q \in Int : a = q * s

LEMMA MinPair ==
  ASSUME NEW a \in Int, NEW b \in Int
  PROVE  Min({a, b}) = IF a <= b THEN a ELSE b
BY DEF Min

LEMMA Division ==
  ASSUME NEW a \in Int, NEW s \in Nat \ {0}
  PROVE  /\ a % s \in 0..(s - 1) /\ a \div s \in Int
         /\ a = (a \div s) * s + (a % s)
<1>1. a % s \in 0..(s - 1)
  OBVIOUS
<1>2. a \div s \in Int
  OBVIOUS
<1>3. a = s * (a \div s) + (a % s)
  OBVIOUS
<1> QED BY <1>1, <1>2, <1>3

LEMMA ProductLess ==
  ASSUME NEW q \in Int, NEW d \in Int, NEW s \in Nat \ {0}, q < d
  PROVE  q * s + s <= d * s
<1>1. PICK k \in Nat : d = q + 1 + k
  <2>1. d - q - 1 \in Nat /\ d = q + 1 + (d - q - 1)
    OBVIOUS
  <2> QED BY <2>1
<1>2. d * s = q * s + s + k * s
  BY <1>1
<1>3. k * s \in Nat /\ q * s \in Int
  OBVIOUS
<1> HIDE <1>1
<1> QED BY <1>2, <1>3

LEMMA DivisionUnique ==
  ASSUME NEW q \in Int, NEW d \in Int, NEW s \in Nat \ {0}, NEW r \in 0..(s - 1), NEW m \in 0..(s - 1),
         q * s + r = d * s + m
  PROVE  q = d /\ r = m
<1> DEFINE x == q * s
           y == d * s
<1>1. x \in Int /\ y \in Int /\ x + r = y + m
  OBVIOUS
<1>2. (q < d => x + s <= y) /\ (d < q => y + s <= x) /\ (q = d => x = y)
  BY ProductLess
<1> HIDE DEF x, y
<1> QED BY <1>1, <1>2

LEMMA MultipleMod ==
  ASSUME NEW a \in Int, NEW s \in Nat \ {0}, Multiple(a, s), NEW r \in 0..(s - 1)
  PROVE  (a + r) % s = r
<1>1. PICK q \in Int : a = q * s
  BY DEF Multiple
<1> DEFINE b == a + r
<1>2. b \in Int
  OBVIOUS
<1>3. b = q * s + r
  BY <1>1
<1> HIDE DEF b
<1>4. /\ b % s \in 0..(s - 1) /\ b \div s \in Int
      /\ b = (b \div s) * s + (b % s)
  BY <1>2, Division
<1>5. b % s = r
  BY <1>3, <1>4, DivisionUnique
<1> QED BY <1>5 DEF b

LEMMA SmallMod ==
  ASSUME NEW s \in Nat \ {0}, NEW r \in 0..(s - 1)
  PROVE  r % s = r
<1>1. Multiple(0, s)
  BY DEF Multiple
<1>2. (0 + r) % s = r
  BY <1>1, MultipleMod
<1>3. 0 + r = r
  OBVIOUS
<1> QED BY <1>2, <1>3

LEMMA ModMultiple ==
  ASSUME NEW a \in Int, NEW s \in Nat \ {0}, a % s = 0
  PROVE  Multiple(a, s)
<1>1. a \div s \in Int /\ a = (a \div s) * s + (a % s)
  BY Division
<1>2. a = (a \div s) * s
  BY <1>1
<1> QED BY <1>1, <1>2 DEF Multiple

\* Between two multiples lies room for at least one more.
LEMMA MultipleLess ==
  ASSUME NEW a \in Int, NEW b \in Int, NEW s \in Nat \ {0}, Multiple(a, s), Multiple(b, s), a < b
  PROVE  a + s <= b
<1>1. PICK q \in Int : a = q * s
  BY DEF Multiple
<1>2. PICK d \in Int : b = d * s
  BY DEF Multiple
<1>3. q < d
  <2> SUFFICES ASSUME d <= q PROVE FALSE
    OBVIOUS
  <2>1. d < q => b + s <= a
    BY <1>1, <1>2, ProductLess
  <2>2. d = q => b = a
    BY <1>1, <1>2
  <2> QED BY <2>1, <2>2
<1> QED BY <1>1, <1>2, <1>3, ProductLess

LEMMA MultipleSum ==
  ASSUME NEW a \in Int, NEW b \in Int, NEW s \in Nat \ {0}, Multiple(a, s), Multiple(b, s)
  PROVE  Multiple(a + b, s)
<1>1. PICK q \in Int : a = q * s
  BY DEF Multiple
<1>2. PICK d \in Int : b = d * s
  BY DEF Multiple
<1>3. a + b = (q + d) * s /\ q + d \in Int
  BY <1>1, <1>2
<1> QED BY <1>3 DEF Multiple

LEMMA MultipleTrans ==
  ASSUME NEW a \in Int, NEW b \in Int, NEW s \in Nat \ {0}, Multiple(a, b), Multiple(b, s)
  PROVE  Multiple(a, s)
<1>1. PICK q \in Int : a = q * b
  BY DEF Multiple
<1>2. PICK d \in Int : b = d * s
  BY DEF Multiple
<1>3. a = (q * d) * s /\ q * d \in Int
  BY <1>1, <1>2
<1> QED BY <1>3 DEF Multiple

LEMMA AlignFacts ==
  ASSUME NEW a \in Int, NEW s \in Nat \ {0}
  PROVE  /\ Align(a, s) \in Int /\ Multiple(Align(a, s), s)
         /\ Align(a, s) <= a /\ a < Align(a, s) + s
<1>1. /\ a % s \in 0..(s - 1) /\ a \div s \in Int
      /\ a = (a \div s) * s + (a % s)
  BY Division
<1>2. Align(a, s) \in Int /\ Align(a, s) <= a /\ a < Align(a, s) + s
  BY <1>1 DEF Align
<1>3. Align(a, s) = (a \div s) * s
  BY <1>1 DEF Align
<1> QED BY <1>1, <1>2, <1>3 DEF Multiple

LEMMA AlignSelf ==
  ASSUME NEW a \in Int, NEW s \in Nat \ {0}, Multiple(a, s)
  PROVE  Align(a, s) = a
<1>1. (a + 0) % s = 0
  BY MultipleMod
<1>2. a + 0 = a
  OBVIOUS
<1> QED BY <1>1, <1>2 DEF Align

\* Rounding keeps an address on its side of a multiple.
LEMMA AlignAbove ==
  ASSUME NEW a \in Int, NEW b \in Int, NEW s \in Nat \ {0}, Multiple(b, s), b <= a
  PROVE  b <= Align(a, s)
<1>1. /\ Align(a, s) \in Int /\ Multiple(Align(a, s), s) /\ a < Align(a, s) + s
  BY AlignFacts
<1>2. Align(a, s) < b => Align(a, s) + s <= b
  BY <1>1, MultipleLess
<1> QED BY <1>1, <1>2

LEMMA AlignUpFacts ==
  ASSUME NEW a \in Int, NEW s \in Nat \ {0}
  PROVE  /\ AlignUp(a, s) \in Int /\ Multiple(AlignUp(a, s), s) /\ a <= AlignUp(a, s)
         /\ \A b \in Int : Multiple(b, s) /\ a <= b => AlignUp(a, s) <= b
<1> DEFINE u == AlignUp(a, s)
           c == a + s - 1
<1>1. c \in Int
  OBVIOUS
<1>2. u \in Int /\ Multiple(u, s) /\ u <= c /\ c < u + s
  BY <1>1, AlignFacts DEF AlignUp
<1> HIDE DEF u
<1>3. a <= u
  BY <1>2
<1>4. ASSUME NEW b \in Int, Multiple(b, s), a <= b PROVE u <= b
  <2>1. b < u => b + s <= u
    BY <1>2, <1>4, MultipleLess
  <2> QED BY <1>2, <1>4, <2>1
<1> QED BY <1>2, <1>3, <1>4 DEF u


------------------------------------------------------------------------------
(* Sectors.                                                                 *)

LEMMA Geometry ==
  /\ PageSize \in Nat \ {0} /\ SectorSize \in Nat \ {0} /\ SmallSector \in Nat \ {0}
  /\ MaxXfer \in Nat \ {0}
  /\ SmallEnd \in Nat /\ FlashSize \in Nat /\ AddrSpace \in Nat /\ MaxTimeouts \in Nat
  /\ SmallEnd <= AddrSpace /\ AddrSpace <= FlashSize
  /\ Multiple(SmallEnd, SectorSize) /\ Multiple(SectorSize, SmallSector)
<1>1. /\ PageSize \in Nat \ {0} /\ SectorSize \in Nat \ {0} /\ SmallSector \in Nat \ {0}
      /\ MaxXfer \in Nat \ {0}
      /\ SmallEnd \in Nat /\ FlashSize \in Nat /\ AddrSpace \in Nat /\ MaxTimeouts \in Nat
      /\ SmallEnd <= AddrSpace /\ AddrSpace <= FlashSize
      /\ SmallEnd % SectorSize = 0 /\ SectorSize % SmallSector = 0
  BY GeometryAssumption
<1>2. Multiple(SmallEnd, SectorSize)
  BY <1>1, ModMultiple
<1>3. Multiple(SectorSize, SmallSector)
  BY <1>1, ModMultiple
<1> QED BY <1>1, <1>2, <1>3

DriverType == driver \in {"stmicro", "spansion"}

\* An area of whole sectors within reach of three address bytes.
Whole(lo, hi) ==
  /\ lo \in Nat /\ hi \in Nat /\ lo < hi /\ hi <= AddrSpace
  /\ Multiple(lo, SectorSize) /\ Multiple(hi, SectorSize)

OnSector(a) == Multiple(a, sec_size(a))

\* The ends of such an area, and of the region of small sectors, are sector
\* boundaries for either size.
LEMMA Boundary ==
  ASSUME NEW b \in Int, Multiple(b, SectorSize)
  PROVE  Multiple(b, SectorSize) /\ Multiple(b, SmallSector)
<1>1. Multiple(b, SmallSector)
  BY Geometry, MultipleTrans
<1> QED BY <1>1

LEMMA SectorSizes ==
  ASSUME DriverType, NEW a \in Nat, a < AddrSpace
  PROVE  /\ sec_size(a) \in {SectorSize, SmallSector} /\ sec_size(a) \in Nat \ {0}
         /\ driver = "stmicro" => sec_size(a) = SectorSize
         /\ driver = "spansion" => sec_size(a) = IF a < SmallEnd THEN SmallSector ELSE SectorSize
BY Geometry DEF DriverType, sec_size

LEMMA SectorStart ==
  ASSUME DriverType, NEW a \in Nat, a < AddrSpace
  PROVE  LET s == Align(a, sec_size(a))
         IN  s \in Nat /\ s <= a /\ sec_size(s) = sec_size(a) /\ OnSector(s)
<1> DEFINE s == Align(a, sec_size(a))
           z == sec_size(a)
<1>1. z \in Nat \ {0} /\ z \in {SectorSize, SmallSector}
  BY SectorSizes
<1>2. s \in Int /\ Multiple(s, z) /\ s <= a
  BY <1>1, AlignFacts
<1>3. 0 <= s
  <2>1. Multiple(0, z)
    BY <1>1 DEF Multiple
  <2> QED BY <1>1, <2>1, AlignAbove
<1>4. s \in Nat /\ s < AddrSpace
  BY <1>2, <1>3, Geometry
<1>5. sec_size(s) = z
  <2>1. CASE driver = "stmicro"
    BY <1>4, <2>1, SectorSizes
  <2>2. CASE driver = "spansion" /\ a < SmallEnd
    <3>1. s < SmallEnd
      BY <1>2, <2>2, Geometry
    <3> QED BY <1>4, <2>2, <3>1, SectorSizes
  <2>3. CASE driver = "spansion" /\ ~(a < SmallEnd)
    <3>1. z = SectorSize
      BY <2>3, SectorSizes
    <3>2. SmallEnd <= Align(a, SectorSize)
      BY <2>3, Geometry, AlignAbove
    <3>3. ~(s < SmallEnd)
      BY <1>2, <3>1, <3>2, Geometry
    <3> QED BY <1>4, <2>3, <3>1, <3>3, SectorSizes
  <2> QED BY <2>1, <2>2, <2>3 DEF DriverType
<1>6. OnSector(s)
  BY <1>2, <1>5 DEF OnSector
<1> QED BY <1>2, <1>4, <1>5, <1>6

\* A sector that begins in an area of whole sectors ends in it.
LEMMA SectorInside ==
  ASSUME DriverType, NEW lo, NEW hi, Whole(lo, hi), NEW a \in Nat, a < hi, OnSector(a)
  PROVE  a + sec_size(a) <= hi
<1>1. a < AddrSpace /\ hi \in Nat
  BY Geometry DEF Whole
<1>2. sec_size(a) \in Nat \ {0} /\ sec_size(a) \in {SectorSize, SmallSector}
  BY <1>1, SectorSizes
<1>3. Multiple(hi, sec_size(a))
  BY <1>1, <1>2, Boundary DEF Whole
<1> QED BY <1>1, <1>2, <1>3, MultipleLess DEF OnSector

\* The sector of an address of the area begins in the area.
LEMMA SectorStartInside ==
  ASSUME DriverType, NEW lo, NEW hi, Whole(lo, hi), NEW a \in Nat, lo <= a, a < hi
  PROVE  lo <= Align(a, sec_size(a)) /\ Align(a, sec_size(a)) < hi
<1>1. a < AddrSpace /\ hi \in Nat /\ lo \in Nat
  BY Geometry DEF Whole
<1>2. sec_size(a) \in Nat \ {0} /\ sec_size(a) \in {SectorSize, SmallSector}
  BY <1>1, SectorSizes
<1>3. Multiple(lo, sec_size(a))
  BY <1>1, <1>2, Boundary DEF Whole
<1>4. lo <= Align(a, sec_size(a))
  BY <1>1, <1>2, <1>3, AlignAbove
<1>5. Align(a, sec_size(a)) \in Int /\ Align(a, sec_size(a)) <= a
  BY <1>2, AlignFacts
<1> QED BY <1>1, <1>4, <1>5

\* The end of a sector is the beginning of the next.
LEMMA SectorNext ==
  ASSUME DriverType, NEW a \in Nat, OnSector(a), a + sec_size(a) < AddrSpace, a < AddrSpace
  PROVE  a + sec_size(a) \in Nat /\ OnSector(a + sec_size(a))
<1> DEFINE z == sec_size(a)
<1>1. /\ z \in Nat \ {0} /\ z \in {SectorSize, SmallSector}
      /\ driver = "stmicro" => z = SectorSize
      /\ driver = "spansion" => z = IF a < SmallEnd THEN SmallSector ELSE SectorSize
  BY SectorSizes
<1>a. Multiple(a, z)
  BY DEF OnSector
<1> HIDE DEF z
<1>b. Multiple(z, z)
  <2>1. z = 1 * z
    BY <1>1
  <2> QED BY <2>1 DEF Multiple
<1>2. Multiple(z, z) /\ Multiple(a, z)
  BY <1>a, <1>b
<1> DEFINE n == a + z
<1>3. Multiple(n, z) /\ n \in Nat
  BY <1>1, <1>2, MultipleSum
<1>4. n < AddrSpace
  BY DEF z
<1>6. n = a + z
  OBVIOUS
<1> HIDE DEF n
<1>5. sec_size(n) = z \/ n = SmallEnd
  <2>0. /\ driver = "stmicro" => sec_size(n) = SectorSize
        /\ driver = "spansion" => sec_size(n) = IF n < SmallEnd THEN SmallSector ELSE SectorSize
    BY <1>3, <1>4, SectorSizes
  <2>1. CASE driver = "stmicro"
    BY <1>1, <2>0, <2>1
  <2>2. CASE driver = "spansion" /\ a < SmallEnd
    <3>1. Multiple(SmallEnd, z)
      BY <1>1, Geometry, Boundary
    <3>2. n <= SmallEnd
      BY <1>1, <1>2, <1>6, <2>2, <3>1, Geometry, MultipleLess
    <3> QED BY <1>1, <1>3, <2>0, <2>2, <3>2, Geometry
  <2>3. CASE driver = "spansion" /\ ~(a < SmallEnd)
    BY <1>1, <1>6, <2>0, <2>3, Geometry
  <2> QED BY <2>1, <2>2, <2>3 DEF DriverType
<1>7. Multiple(n, sec_size(n))
  <2>1. CASE sec_size(n) = z
    BY <1>3, <2>1
  <2>2. CASE n = SmallEnd
    <3>1. sec_size(n) \in {SectorSize, SmallSector}
      BY <1>3, <1>4, SectorSizes
    <3>2. Multiple(n, SectorSize) /\ Multiple(n, SmallSector)
      BY <2>2, Geometry, Boundary
    <3> QED BY <3>1, <3>2
  <2> QED BY <1>5, <2>1, <2>2
<1> QED BY <1>3, <1>7 DEF OnSector, n, z

\* Where spi_flash_erase stops: within the area, and not before the end of what
\* it was told to erase, unless that is the end of a Spansion chip.
LEMMA EraseEnd ==
  ASSUME DriverType, NEW lo, NEW hi, Whole(lo, hi), NEW off \in Nat, NEW len \in Nat, off + len <= hi
  PROVE  /\ erase_end(off, len) \in Int /\ erase_end(off, len) <= hi
         /\ ~(driver = "spansion" /\ off + len = FlashSize) => off + len <= erase_end(off, len)
<1> DEFINE e == off + len
           z == sec_size(e)
<1>1. e \in Nat /\ hi \in Nat /\ e <= hi /\ hi <= FlashSize /\ e <= FlashSize
  BY Geometry DEF Whole
<1> HIDE DEF e
<1>2. z \in {SectorSize, SmallSector, 0} /\ (z = 0 => driver = "spansion" /\ e = FlashSize)
  BY <1>1, Geometry DEF DriverType, sec_size
<1> HIDE DEF z
<1>3. erase_end(off, len) = IF z = 0 THEN 0 ELSE AlignUp(e, z)
  BY DEF erase_end, z, e
<1>4. CASE z = 0
  BY <1>1, <1>2, <1>3, <1>4 DEF e
<1>5. CASE z # 0
  <2>1. z \in Nat \ {0}
    BY <1>2, <1>5, Geometry
  <2>2. Multiple(hi, z)
    BY <1>1, <1>2, <1>5, Boundary DEF Whole
  <2>3. AlignUp(e, z) \in Int /\ e <= AlignUp(e, z) /\ AlignUp(e, z) <= hi
    BY <1>1, <2>1, <2>2, AlignUpFacts
  <2> QED BY <1>3, <1>5, <2>3 DEF e
<1> QED BY <1>4, <1>5


------------------------------------------------------------------------------
(* What the commands of the driver make the chip do.                        *)

\* The three address bytes carry the address.
LEMMA WireSame == ASSUME NEW a \in Nat, a < AddrSpace PROVE Wire(a) = a
<1>1. AddrSpace \in Nat \ {0} /\ a \in 0..(AddrSpace - 1)
  BY Geometry
<1> QED BY <1>1, SmallMod DEF Wire

LEMMA EraseSectorEffect ==
  ASSUME DriverType, EraseSector, call.pos \in Nat, call.pos < AddrSpace, OnSector(call.pos)
  PROVE  pend' = IF WIP THEN pend
                 ELSE [c \in call.pos..(call.pos + sec_size(call.pos) - 1) |-> Erased]
<1>1. Wire(call.pos) = call.pos
  BY WireSame
<1>2. sec_size(call.pos) \in Nat \ {0}
  BY SectorSizes
<1>3. Align(call.pos, sec_size(call.pos)) = call.pos
  BY <1>2, AlignSelf DEF OnSector
<1> QED BY <1>1, <1>3 DEF EraseSector, ChipStart

LEMMA Chunk ==
  ASSUME call.sz \in Nat, call.actual \in Nat, call.actual < call.sz, call.at \in Nat
  PROVE  /\ chunk_len \in Nat \ {0} /\ chunk_len <= call.sz - call.actual
         /\ (call.at % PageSize) + chunk_len <= PageSize
         /\ \/ call.actual + chunk_len = call.sz
            \/ (call.at \div PageSize + 1) * PageSize = call.at + chunk_len
<1>0. call.at \in Int /\ PageSize \in Nat \ {0}
  BY Geometry
<1>1. /\ call.at % PageSize \in 0..(PageSize - 1) /\ call.at \div PageSize \in Int
      /\ call.at = (call.at \div PageSize) * PageSize + (call.at % PageSize)
  BY ONLY <1>0, Division
<1> DEFINE m == call.at % PageSize
           d == (call.at \div PageSize) * PageSize
<1>2. m \in 0..(PageSize - 1) /\ d \in Int /\ call.at = d + m
  BY <1>1, Geometry
<1>3. (call.at \div PageSize + 1) * PageSize = d + PageSize
  BY <1>1, Geometry
<1> HIDE DEF d
<1>4. chunk_len = IF call.sz - call.actual <= PageSize - m THEN call.sz - call.actual ELSE PageSize - m
  BY <1>2, Geometry, MinPair DEF chunk_len
<1> HIDE DEF m
<1>5. /\ chunk_len \in Nat \ {0} /\ chunk_len <= call.sz - call.actual
      /\ m + chunk_len <= PageSize
      /\ call.actual + chunk_len = call.sz \/ d + PageSize = call.at + chunk_len
  BY <1>2, <1>4, Geometry
<1> QED BY <1>3, <1>5 DEF m

\* A page program does not wrap: chunk_len leaves off at the end of the page.
LEMMA WritePageEffect ==
  ASSUME WritePage, call.sz \in Nat, call.actual \in Nat, call.pos \in Nat,
         call.at \in Nat, call.at < AddrSpace
  PROVE  /\ WIP => pend' = pend
         /\ ~WIP => /\ DOMAIN pend' = call.at..(call.at + chunk_len - 1)
                    /\ \A c \in DOMAIN pend' :
                         pend'[c] = Program(flash[c], call.data[call.pos + call.actual + (c - call.at)])
<1> DEFINE page == Align(Wire(call.at), PageSize)
           src(c) == call.pos + call.actual + ((c - call.at) % PageSize)
           cells == {page + ((call.at + k) % PageSize) : k \in 0..(chunk_len - 1)}
           new == [c \in cells |-> Program(flash[c], call.data[src(c)])]
           m == call.at % PageSize
<1>1. pend' = IF WIP THEN pend ELSE new
  BY DEF WritePage, ChipStart
<1>2. call.actual < call.sz
  BY DEF WritePage
<1>3. chunk_len \in Nat \ {0} /\ m + chunk_len <= PageSize
  BY <1>2, Chunk
<1>0. call.at \in Int /\ PageSize \in Nat \ {0}
  BY Geometry
<1>4. m \in 0..(PageSize - 1)
  BY <1>0, Division
<1>5. page = call.at - m
  BY WireSame DEF Align
<1>6. page \in Int /\ Multiple(page, PageSize)
  <2>1. Wire(call.at) = call.at
    BY WireSame
  <2>2. Align(call.at, PageSize) \in Int /\ Multiple(Align(call.at, PageSize), PageSize)
    BY <1>0, AlignFacts
  <2> QED BY <2>1, <2>2
<1> HIDE DEF page, m
<1>7. ASSUME NEW k \in 0..(chunk_len - 1)
      PROVE  page + ((call.at + k) % PageSize) = call.at + k
  <2>1. m + k \in 0..(PageSize - 1)
    BY <1>3, <1>4, Geometry
  <2>2. (page + (m + k)) % PageSize = m + k
    BY <1>6, <2>1, Geometry, MultipleMod
  <2>3. page + (m + k) = call.at + k
    BY <1>4, <1>5, <1>6, <2>1
  <2> QED BY <2>2, <2>3
<1>8. cells = call.at..(call.at + chunk_len - 1)
  <2>1. cells = {call.at + k : k \in 0..(chunk_len - 1)}
    BY <1>7
  <2>2. ASSUME NEW c \in call.at..(call.at + chunk_len - 1)
        PROVE  c - call.at \in 0..(chunk_len - 1) /\ c = call.at + (c - call.at)
    BY <1>3
  <2>3. ASSUME NEW k \in 0..(chunk_len - 1) PROVE call.at + k \in call.at..(call.at + chunk_len - 1)
    BY <1>3
  <2> HIDE DEF cells
  <2> QED BY <2>1, <2>2, <2>3
<1>9. ASSUME NEW c \in call.at..(call.at + chunk_len - 1)
      PROVE  src(c) = call.pos + call.actual + (c - call.at)
  <2>1. c - call.at \in 0..(PageSize - 1)
    BY <1>3, <1>4, Geometry
  <2>2. (c - call.at) % PageSize = c - call.at
    BY <2>1, Geometry, SmallMod
  <2> QED BY <2>2
<1> HIDE DEF cells, src
<1> QED BY <1>1, <1>8, <1>9
==============================================================================
