----------------------------- MODULE FlashProof -----------------------------
(***************************************************************************)
(* What the driver of Flash stores, proved for every size of page, sector  *)
(* and chip and for every call.                                            *)
(***************************************************************************)
EXTENDS Flash, TLAPS

-----------------------------------------------------------------------------
(* Sectors and pages as intervals *)

LEMMA DivisionAndRest ==
  ASSUME NEW p \in Nat, p > 0, NEW a \in Int
  PROVE  /\ a \div p \in Int /\ a % p \in 0 .. p - 1
         /\ a = p * (a \div p) + (a % p)
<1>1. a = (a \div p) * p + (a % p)
  OBVIOUS
<1>2. a \div p \in Int
  OBVIOUS
<1>3. a % p \in 0 .. p - 1
  OBVIOUS
<1>. QED  BY <1>1, <1>2, <1>3

\* Quotients are ordered as the numbers are.
LEMMA QuotientBounds ==
  ASSUME NEW p \in Nat, p > 0, NEW q \in Int, NEW m \in Int
  PROVE  /\ p * q < p * m => q < m
         /\ q <= m => p * q <= p * m
         /\ q < m => p * q + p <= p * m
<1>1. q <= m => p * q <= p * m
  OBVIOUS
<1>2. m <= q => p * m <= p * q
  OBVIOUS
<1>3. q < m => p * (q + 1) <= p * m
  OBVIOUS
<1>4. p * (q + 1) = p * q + p
  OBVIOUS
<1>. QED  BY <1>1, <1>2, <1>3, <1>4

LEMMA DivisionIsUnique ==
  ASSUME NEW p \in Nat, p > 0, NEW q \in Int, NEW r \in 0 .. p - 1
  PROVE  (p * q + r) % p = r /\ (p * q + r) \div p = q
<1>. DEFINE a == p * q + r
<1>1. a \in Int
  OBVIOUS
<1>2. /\ a \div p \in Int /\ a % p \in 0 .. p - 1
      /\ a = p * (a \div p) + (a % p)
  BY <1>1, DivisionAndRest
<1>3. PICK x \in Int, y \in 0 .. p - 1 : x = a \div p /\ y = a % p
  BY <1>2
<1>4. p * q + r = p * x + y
  BY <1>2, <1>3
<1>5. /\ q < x => p * q + p <= p * x
      /\ x < q => p * x + p <= p * q
  BY QuotientBounds
<1>6. q = x
  BY <1>4, <1>5
<1>7. y = r
  BY <1>4, <1>6
<1>. QED  BY <1>3, <1>6, <1>7

LEMMA QuotientOfNatural ==
  ASSUME NEW p \in Nat, p > 0, NEW a \in Nat
  PROVE  a \div p \in Nat
<1>1. PICK q \in Int, r \in 0 .. p - 1 : q = a \div p /\ a = p * q + r
  BY DivisionAndRest
<1>2. q < 0 => p * q + p <= p * 0
  BY QuotientBounds
<1>. QED  BY <1>1, <1>2

LEMMA Sizes ==
  /\ PAGE_LEN \in Nat /\ PAGE_LEN > 0 /\ PAGE_NUM \in Nat /\ PAGE_NUM > 0
  /\ Sectors \in Nat /\ Sectors > 0
  /\ SECTOR_SIZE \in Nat /\ CHIP_SIZE \in Nat
  /\ PAGE_LEN <= SECTOR_SIZE /\ SECTOR_SIZE <= CHIP_SIZE /\ UINT = 4 * CHIP_SIZE
<1>1. /\ PAGE_LEN \in Nat /\ PAGE_LEN > 0 /\ PAGE_NUM \in Nat /\ PAGE_NUM > 0
      /\ Sectors \in Nat /\ Sectors > 0
  BY FlashAssumption
<1>2. SECTOR_SIZE \in Nat /\ PAGE_LEN * 1 <= SECTOR_SIZE
  <2>1. SECTOR_SIZE \in Nat
    BY <1>1 DEF SECTOR_SIZE
  <2>. QED  BY <1>1, <2>1, QuotientBounds DEF SECTOR_SIZE
<1>3. CHIP_SIZE \in Nat /\ SECTOR_SIZE * 1 <= CHIP_SIZE
  <2>1. CHIP_SIZE \in Nat
    BY <1>1, <1>2 DEF CHIP_SIZE
  <2>2. SECTOR_SIZE > 0
    BY <1>1, <1>2
  <2>. QED  BY <1>1, <1>2, <2>1, <2>2, QuotientBounds DEF CHIP_SIZE
<1>. QED  BY <1>1, <1>2, <1>3 DEF UINT

\* The page with the number n of a sector.
LEMMA PageFits ==
  ASSUME NEW n \in 0 .. PAGE_NUM - 1
  PROVE  /\ n * PAGE_LEN \in Nat /\ n * PAGE_LEN + PAGE_LEN <= SECTOR_SIZE
         /\ (n + 1) * PAGE_LEN = n * PAGE_LEN + PAGE_LEN
<1>1. PAGE_LEN \in Nat /\ PAGE_LEN > 0 /\ PAGE_NUM \in Nat
  BY Sizes
<1>2. PAGE_LEN * n + PAGE_LEN <= PAGE_LEN * PAGE_NUM
  BY <1>1, QuotientBounds
<1>3. n * PAGE_LEN = PAGE_LEN * n /\ n * PAGE_LEN \in Nat
  BY <1>1
<1>4. (n + 1) * PAGE_LEN = n * PAGE_LEN + PAGE_LEN
  BY <1>1
<1>. QED  BY <1>1, <1>2, <1>3, <1>4 DEF SECTOR_SIZE

LEMMA SectorBase ==
  ASSUME NEW a \in Nat
  PROVE  /\ a \div SECTOR_SIZE \in Nat /\ a % SECTOR_SIZE \in 0 .. SECTOR_SIZE - 1
         /\ SectorOf(a) = SECTOR_SIZE * (a \div SECTOR_SIZE) /\ SectorOf(a) \in Nat
         /\ a = SectorOf(a) + (a % SECTOR_SIZE)
<1>1. SECTOR_SIZE \in Nat /\ SECTOR_SIZE > 0
  BY Sizes
<1>2. PICK q \in Nat, r \in 0 .. SECTOR_SIZE - 1 :
        q = a \div SECTOR_SIZE /\ r = a % SECTOR_SIZE /\ a = SECTOR_SIZE * q + r
  BY <1>1, DivisionAndRest, QuotientOfNatural
<1>3. SECTOR_SIZE * q \in Nat
  BY <1>1
<1>4. SectorOf(a) = SECTOR_SIZE * q
  BY <1>1, <1>2, <1>3 DEF SectorOf
<1>. QED  BY <1>1, <1>2, <1>3, <1>4

\* The bytes of a sector have its base, wherever on the chip it lies.
LEMMA SameSector ==
  ASSUME NEW a \in Nat, NEW j \in 0 .. SECTOR_SIZE - 1
  PROVE  /\ SectorOf(SectorOf(a) + j) = SectorOf(a)
         /\ (SectorOf(a) + j) \div SECTOR_SIZE = a \div SECTOR_SIZE
<1>1. SECTOR_SIZE \in Nat /\ SECTOR_SIZE > 0
  BY Sizes
<1>2. PICK q \in Nat : q = a \div SECTOR_SIZE /\ SectorOf(a) = SECTOR_SIZE * q
  BY SectorBase
<1>3. (SECTOR_SIZE * q + j) % SECTOR_SIZE = j /\ (SECTOR_SIZE * q + j) \div SECTOR_SIZE = q
  BY <1>1, DivisionIsUnique
<1>4. SECTOR_SIZE * q \in Nat
  BY <1>1
<1>5. SectorOf(SECTOR_SIZE * q + j) = SECTOR_SIZE * q
  BY <1>1, <1>3, <1>4 DEF SectorOf
<1>. QED  BY <1>2, <1>3, <1>5

\* A sector does not reach over the end of the chip, whatever address bits
\* the chip ignores.
LEMMA SectorOnChip ==
  ASSUME NEW a \in Nat
  PROVE  /\ SectorOf(a) % CHIP_SIZE \in Nat /\ (SectorOf(a) % CHIP_SIZE) + SECTOR_SIZE <= CHIP_SIZE
         /\ \A j \in 0 .. SECTOR_SIZE - 1 :
              (SectorOf(a) + j) % CHIP_SIZE = (SectorOf(a) % CHIP_SIZE) + j
         /\ SectorOf(a) < CHIP_SIZE => SectorOf(a) % CHIP_SIZE = SectorOf(a)
<1>1. /\ SECTOR_SIZE \in Nat /\ SECTOR_SIZE > 0 /\ Sectors \in Nat /\ Sectors > 0
      /\ CHIP_SIZE \in Nat /\ CHIP_SIZE > 0
  BY Sizes
<1>2. PICK q \in Nat : SectorOf(a) = SECTOR_SIZE * q
  BY SectorBase
<1>3. PICK u \in Int, v \in 0 .. Sectors - 1 : q = Sectors * u + v
  <2>1. q \in Int
    OBVIOUS
  <2>2. /\ q \div Sectors \in Int /\ q % Sectors \in 0 .. Sectors - 1
        /\ q = Sectors * (q \div Sectors) + (q % Sectors)
    BY <1>1, <2>1, DivisionAndRest
  <2>. QED  BY <2>2
<1>4. PICK low \in Nat : low = SECTOR_SIZE * v
  BY <1>1
<1>5. low + SECTOR_SIZE <= CHIP_SIZE
  BY <1>1, <1>4, QuotientBounds DEF CHIP_SIZE
<1>6. SECTOR_SIZE * q = CHIP_SIZE * u + low
  <2>1. SECTOR_SIZE * (Sectors * u + v) = (SECTOR_SIZE * Sectors) * u + SECTOR_SIZE * v
    BY <1>1
  <2>. QED  BY <1>3, <1>4, <2>1 DEF CHIP_SIZE
<1>7. ASSUME NEW j \in 0 .. SECTOR_SIZE - 1
      PROVE  (SectorOf(a) + j) % CHIP_SIZE = low + j
  <2>1. low + j \in 0 .. CHIP_SIZE - 1
    BY <1>1, <1>5
  <2>2. (CHIP_SIZE * u + (low + j)) % CHIP_SIZE = low + j
    BY <1>1, <2>1, DivisionIsUnique
  <2>3. CHIP_SIZE * u \in Int
    BY <1>1
  <2>4. SectorOf(a) + j = CHIP_SIZE * u + (low + j)
    BY <1>1, <1>2, <1>6, <2>3
  <2>. QED  BY <2>2, <2>4
<1>8. SectorOf(a) % CHIP_SIZE = low
  <2>1. (SectorOf(a) + 0) % CHIP_SIZE = low + 0
    BY <1>1, <1>7
  <2>2. SectorOf(a) \in Nat
    BY SectorBase
  <2>. QED  BY <2>1, <2>2
<1>9. SectorOf(a) < CHIP_SIZE => SectorOf(a) % CHIP_SIZE = SectorOf(a)
  <2>1. SectorOf(a) \in Nat
    BY SectorBase
  <2>. QED  BY <1>1, <2>1
<1>. QED  BY <1>5, <1>7, <1>8, <1>9

\* A page lies within its sector.
LEMMA PageOfSector ==
  ASSUME NEW a \in Nat, a % PAGE_LEN = 0
  PROVE  /\ (a % SECTOR_SIZE) \div PAGE_LEN \in 0 .. PAGE_NUM - 1
         /\ a = SectorOf(a) + ((a % SECTOR_SIZE) \div PAGE_LEN) * PAGE_LEN
         /\ a + PAGE_LEN <= SectorOf(a) + SECTOR_SIZE
<1>1. /\ PAGE_LEN \in Nat /\ PAGE_LEN > 0 /\ PAGE_NUM \in Nat /\ PAGE_NUM > 0
      /\ SECTOR_SIZE \in Nat /\ SECTOR_SIZE > 0
  BY Sizes
<1>2. PICK q \in Nat, r \in 0 .. SECTOR_SIZE - 1 :
        /\ q = a \div SECTOR_SIZE /\ r = a % SECTOR_SIZE /\ SectorOf(a) = SECTOR_SIZE * q
        /\ a = SectorOf(a) + r
  BY SectorBase
<1>3. PICK x \in Nat : a = PAGE_LEN * x
  <2>1. a = PAGE_LEN * (a \div PAGE_LEN) + (a % PAGE_LEN) /\ a \div PAGE_LEN \in Nat
    BY <1>1, DivisionAndRest, QuotientOfNatural
  <2>. QED  BY <1>1, <2>1
<1>4. PICK y \in Int : y = x - PAGE_NUM * q
  BY <1>1
<1>5. r = PAGE_LEN * y
  <2>1. PAGE_LEN * (x - PAGE_NUM * q) = PAGE_LEN * x - (PAGE_LEN * PAGE_NUM) * q
    BY <1>1
  <2>2. PAGE_LEN * y = a - SECTOR_SIZE * q
    BY <1>3, <1>4, <2>1 DEF SECTOR_SIZE
  <2>3. SECTOR_SIZE * q \in Int
    BY <1>1
  <2>. QED  BY <1>2, <2>2, <2>3
<1>6. y < PAGE_NUM
  <2>1. PAGE_LEN * y < PAGE_LEN * PAGE_NUM
    BY <1>1, <1>5 DEF SECTOR_SIZE
  <2>. QED  BY <1>1, <2>1, QuotientBounds
<1>7. -1 < y
  <2>1. PAGE_LEN * (-1) < PAGE_LEN * y
    BY <1>1, <1>5
  <2>2. -1 \in Int
    OBVIOUS
  <2>. QED  BY <1>1, <2>1, <2>2, QuotientBounds
<1>8. (PAGE_LEN * y + 0) \div PAGE_LEN = y
  BY <1>1, DivisionIsUnique
<1>9. r \div PAGE_LEN = y
  BY <1>1, <1>5, <1>8
<1>10. y \in 0 .. PAGE_NUM - 1
  BY <1>1, <1>6, <1>7
<1>11. y * PAGE_LEN = r /\ r + PAGE_LEN <= SECTOR_SIZE
  BY <1>1, <1>5, <1>10, PageFits
<1>12. SectorOf(a) \in Nat
  BY SectorBase
<1>. QED  BY <1>1, <1>2, <1>9, <1>10, <1>11, <1>12

LEMMA SectorOfAddress ==
  ASSUME NEW a \in Address
  PROVE  SectorOf(a) + SECTOR_SIZE <= CHIP_SIZE /\ SectorOf(a) % CHIP_SIZE = SectorOf(a)
<1>1. SectorOf(a) \in Nat /\ SectorOf(a) < CHIP_SIZE
  BY Sizes, SectorBase DEF Address
<1>2. a \in Nat
  BY Sizes DEF Address
<1>. QED  BY <1>1, <1>2, SectorOnChip

\* Which pages begin after a whole number of pages.
LEMMA PageAligned ==
  /\ \A a \in Nat : SectorOf(a) % PAGE_LEN = 0
  /\ \A n \in Nat : ((n * SECTOR_SIZE) % UINT) % PAGE_LEN = 0
<1>1. /\ PAGE_LEN \in Nat /\ PAGE_LEN > 0 /\ PAGE_NUM \in Nat /\ PAGE_NUM > 0
      /\ SECTOR_SIZE \in Nat /\ CHIP_SIZE \in Nat /\ CHIP_SIZE > 0 /\ Sectors \in Nat
      /\ UINT = 4 * CHIP_SIZE
  BY Sizes
<1>2. ASSUME NEW x \in Int PROVE (PAGE_LEN * x) % PAGE_LEN = 0
  <2>1. (PAGE_LEN * x + 0) % PAGE_LEN = 0
    BY <1>1, DivisionIsUnique
  <2>. QED  BY <1>1, <2>1
<1>3. ASSUME NEW x \in Int PROVE SECTOR_SIZE * x = PAGE_LEN * (PAGE_NUM * x)
  BY <1>1 DEF SECTOR_SIZE
<1>4. \A a \in Nat : SectorOf(a) % PAGE_LEN = 0
  <2>1. TAKE a \in Nat
  <2>2. PICK q \in Nat : SectorOf(a) = SECTOR_SIZE * q
    BY SectorBase
  <2>3. PICK x \in Int : x = PAGE_NUM * q
    BY <1>1
  <2>. QED  BY <1>2, <1>3, <2>2, <2>3
<1>5. \A n \in Nat : ((n * SECTOR_SIZE) % UINT) % PAGE_LEN = 0
  <2>1. TAKE n \in Nat
  <2>2. PICK m \in Nat : m = n * SECTOR_SIZE
    BY <1>1
  <2>3. UINT \in Nat /\ UINT > 0
    BY <1>1
  <2>4. PICK q \in Int, r \in 0 .. UINT - 1 : m = UINT * q + r /\ r = m % UINT
    <3>1. m \in Int
      OBVIOUS
    <3>2. /\ m \div UINT \in Int /\ m % UINT \in 0 .. UINT - 1
          /\ m = UINT * (m \div UINT) + (m % UINT)
      BY <2>3, <3>1, DivisionAndRest
    <3>. QED  BY <3>2
  <2>5. UINT * q = SECTOR_SIZE * (4 * (Sectors * q))
    <3>1. (4 * (SECTOR_SIZE * Sectors)) * q = SECTOR_SIZE * (4 * (Sectors * q))
      BY <1>1
    <3>. QED  BY <1>1, <3>1 DEF CHIP_SIZE
  <2>6. PICK x \in Int : x = n - 4 * (Sectors * q)
    BY <1>1
  <2>7. r = SECTOR_SIZE * x
    <3>1. SECTOR_SIZE * (n - 4 * (Sectors * q)) = n * SECTOR_SIZE - SECTOR_SIZE * (4 * (Sectors * q))
      BY <1>1
    <3>2. r = m - UINT * q
      <4>1. UINT * q \in Int
        BY <2>3
      <4>. QED  BY <2>2, <2>3, <2>4, <4>1
    <3>. QED  BY <2>2, <2>5, <2>6, <3>1, <3>2
  <2>8. PICK y \in Int : y = PAGE_NUM * x
    BY <1>1
  <2>. QED  BY <1>2, <1>3, <2>2, <2>4, <2>7, <2>8
<1>. QED  BY <1>4, <1>5
-----------------------------------------------------------------------------
(* The invariant *)

\* Between calls the locals are as a call finds them; during one the arguments
\* are those that were checked, and what is written begins a page.
CallInv ==
  /\ need_erase => pc = "erase"
  /\ current_sector_num \in Nat
  /\ pc = "idle" => _data_ptr = 0 /\ _programmed_len = 0 /\ cmd = PAGE_PROGRAM_CMD
  /\ pc # "idle" =>
       /\ address \in Unsigned /\ data_len \in Unsigned
       /\ address % PAGE_LEN = 0 /\ _address % PAGE_LEN = 0
       /\ \A i \in 0 .. data_len - 1 : data[i] \in Content
       /\ before.chip \in [Address -> Content]
  /\ pc = "page" => _data_len <= PAGE_LEN
  /\ pc = "pages" => _data_ptr <= page_num * PAGE_LEN
  /\ pc = "rewrite" => flash_buffer \in [0 .. SECTOR_SIZE - 1 -> Content]

Blank(content, range) == \A a \in range : content[a % CHIP_SIZE] = Erased

\* The pages of the sector of a from the one with the number n on.
PagesFrom(a, n) == SectorOf(a) + n * PAGE_LEN .. SectorOf(a) + SECTOR_SIZE - 1

\* Only what is blank is programmed, and an erase under way leaves it blank.
BlankInv ==
  /\ busy => Blank(chip, Address)
  /\ pc = "page" => Blank(chip, PageOf(_address))
  /\ pc \in {"pages", "rewrite"} => Blank(chip, PagesFrom(_address, page_num))

\* Byte a of the chip when n pages of the call's sector have been rewritten.
Rewritten(n, a) ==
  IF ~InSector(a, address) THEN before.chip[a]
  ELSE IF a < SectorOf(address) + n * PAGE_LEN THEN Wanted[a] ELSE Erased

\* How far a plain call has come.  It goes on "across" only if its data ends
\* with the sector, and then nothing is left to write.
PlainInv ==
  pc # "idle" /\ Plain =>
    /\ ~busy /\ _address = address /\ _data_len = data_len /\ pc # "pages"
    /\ address + data_len <= SectorOf(address) + SECTOR_SIZE
    /\ accross_sector_flag =>
         pc # "loop" /\ (current_sector_num + 1) * SECTOR_SIZE = address + data_len
    /\ pc \in {"loop", "page"} => _data_ptr = 0 /\ _programmed_len = 0 /\ cmd = PAGE_PROGRAM_CMD
    /\ pc \in {"loop", "page", "erase"} => chip = before.chip
    /\ pc = "rewrite" =>
         /\ \A i \in 0 .. SECTOR_SIZE - 1 : flash_buffer[i] = Wanted[SectorOf(address) + i]
         /\ \A a \in Address : chip[a] = Rewritten(page_num, a)
    /\ pc = "across" => chip = Wanted /\ accross_sector_flag

FlashInv == TypeOK /\ CallInv /\ BlankInv /\ PlainInv

\* A step programs no byte that was not erased before.
ChangesErased == \A a \in Address : chip'[a] # chip[a] => chip[a] = Erased \/ chip'[a] = Erased

-----------------------------------------------------------------------------
(* Reading and programming *)

LEMMA OnTheChip == \A a \in Nat : a % CHIP_SIZE \in Address
<1>1. CHIP_SIZE \in Nat /\ CHIP_SIZE > 0
  BY Sizes
<1>2. TAKE a \in Nat
<1>3. a % CHIP_SIZE \in 0 .. CHIP_SIZE - 1
  BY <1>1, DivisionAndRest
<1>. QED  BY <1>3 DEF Address

LEMMA BytesRead ==
  ASSUME chip \in [Address -> Content], busy \in BOOLEAN, busy => Blank(chip, Address),
         NEW range \in SUBSET Nat, NEW bytes \in Reads(range)
  PROVE  /\ \A a \in range : bytes[a] \in Content
         /\ ~busy => \A a \in range : bytes[a] = chip[a % CHIP_SIZE]
         /\ Empty(bytes) => Blank(chip, range)
<1>1. CASE busy
  <2>1. bytes \in [range -> {Erased, Mixed}]
    BY <1>1 DEF Reads
  <2>2. Blank(chip, range)
    <3>1. ASSUME NEW a \in range PROVE chip[a % CHIP_SIZE] = Erased
      <4>1. a % CHIP_SIZE \in Address
        BY OnTheChip
      <4>2. (a % CHIP_SIZE) % CHIP_SIZE = a % CHIP_SIZE
        BY <4>1, Sizes DEF Address
      <4>. QED  BY <1>1, <4>1, <4>2 DEF Blank
    <3>. QED  BY <3>1 DEF Blank
  <2>. QED  BY <1>1, <2>1, <2>2 DEF Content
<1>2. CASE ~busy
  <2>1. bytes = [a \in range |-> chip[a % CHIP_SIZE]]
    BY <1>2 DEF Reads
  <2>2. \A a \in range : bytes[a] = chip[a % CHIP_SIZE] /\ a % CHIP_SIZE \in Address
    BY <2>1, OnTheChip
  <2>3. Empty(bytes) => Blank(chip, range)
    BY <2>1 DEF Empty, Blank
  <2>. QED  BY <1>2, <2>2, <2>3
<1>. QED  BY <1>1, <1>2

LEMMA AndOfErased ==
  /\ \A new : And(Erased, new) = new
  /\ \A old, new \in Content : And(old, new) \in Content
<1>1. \A new : And(Erased, new) = new
  BY DEF And
<1>2. \A old, new \in Content : And(old, new) \in Content
  BY DEF And, Content
<1>. QED  BY <1>1, <1>2

\* What is programmed where the chip is blank is then there, and only there.
LEMMA Programmed ==
  ASSUME chip \in [Address -> Content], busy \in BOOLEAN,
         NEW a \in Nat, NEW len \in Nat, NEW new, Program(a, len, new),
         \A i \in 0 .. len - 1 : new[i] \in Content,
         Blank(chip, a .. a + len - 1)
  PROVE  /\ chip' \in [Address -> Content] /\ busy' = FALSE
         /\ busy => chip' = chip
         /\ ~busy => \A b \in Address :
              chip'[b] = IF b \in a % CHIP_SIZE .. (a % CHIP_SIZE) + len - 1
                           THEN new[b - (a % CHIP_SIZE)] ELSE chip[b]
         /\ ChangesErased
<1>. DEFINE at == a % CHIP_SIZE
<1>1. CHIP_SIZE \in Nat /\ CHIP_SIZE > 0
  BY Sizes
<1>2. at \in Address /\ at \in Nat
  BY OnTheChip DEF Address
<1>3. ASSUME NEW b \in Address, b \in at .. at + len - 1
      PROVE  chip[b] = Erased /\ b - at \in 0 .. len - 1
  <2>1. PICK q \in Int : a = CHIP_SIZE * q + at
    <3>1. a \in Int
      OBVIOUS
    <3>2. a \div CHIP_SIZE \in Int /\ a = CHIP_SIZE * (a \div CHIP_SIZE) + (a % CHIP_SIZE)
      BY <1>1, <3>1, DivisionAndRest
    <3>. QED  BY <3>2
  <2>. HIDE DEF at
  <2>2. PICK k \in 0 .. len - 1 : b = at + k
    <3>1. b - at \in 0 .. len - 1 /\ b = at + (b - at)
      BY <1>2, <1>3 DEF Address
    <3>. QED  BY <3>1
  <2>3. at + k \in 0 .. CHIP_SIZE - 1
    BY <2>2 DEF Address
  <2>4. (CHIP_SIZE * q + (at + k)) % CHIP_SIZE = at + k
    BY <1>1, <2>3, DivisionIsUnique
  <2>5. CHIP_SIZE * q \in Int
    BY <1>1
  <2>6. a + k = CHIP_SIZE * q + (at + k)
    BY <1>2, <2>1, <2>5
  <2>7. a + k \in a .. a + len - 1
    OBVIOUS
  <2>8. chip[(a + k) % CHIP_SIZE] = Erased
    BY <2>7 DEF Blank
  <2>. QED  BY <1>2, <2>2, <2>4, <2>6, <2>8
<1>4. CASE busy
  <2>1. chip' = chip /\ busy' = FALSE
    BY <1>4 DEF Program
  <2>. QED  BY <1>4, <2>1 DEF ChangesErased
<1>5. CASE ~busy
  <2>1. /\ chip' = [b \in Address |-> IF b \in at .. at + len - 1 THEN And(chip[b], new[b - at])
                                                                  ELSE chip[b]]
        /\ busy' = FALSE
    BY <1>5 DEF Program
  <2>. HIDE DEF at
  <2>2. ASSUME NEW b \in Address
        PROVE  chip'[b] = IF b \in at .. at + len - 1 THEN new[b - at] ELSE chip[b]
    BY <1>3, <2>1, AndOfErased
  <2>3. ASSUME NEW b \in Address
        PROVE  chip'[b] \in Content /\ (chip'[b] # chip[b] => chip[b] = Erased)
    BY <1>3, <2>2
  <2>4. chip' \in [Address -> Content]
    BY <2>1, <2>3
  <2>. QED  BY <1>5, <2>1, <2>2, <2>3, <2>4 DEF ChangesErased, at
<1>. QED  BY <1>4, <1>5

\* The same for a page of a sector: the pages after it stay blank.
LEMMA PageProgrammed ==
  ASSUME chip \in [Address -> Content], busy \in BOOLEAN,
         NEW a \in Nat, NEW n \in 0 .. PAGE_NUM - 1, NEW new,
         Program(SectorOf(a) + n * PAGE_LEN, PAGE_LEN, new),
         \A i \in 0 .. PAGE_LEN - 1 : new[i] \in Content,
         Blank(chip, PagesFrom(a, n))
  PROVE  /\ chip' \in [Address -> Content] /\ busy' = FALSE
         /\ Blank(chip', PagesFrom(a, n + 1))
         /\ ~busy /\ a \in Address => \A b \in Address :
              chip'[b] = IF b \in SectorOf(a) + n * PAGE_LEN .. SectorOf(a) + (n + 1) * PAGE_LEN - 1
                           THEN new[b - (SectorOf(a) + n * PAGE_LEN)] ELSE chip[b]
         /\ ChangesErased
<1>1. /\ CHIP_SIZE \in Nat /\ CHIP_SIZE > 0 /\ PAGE_LEN \in Nat /\ PAGE_LEN > 0
      /\ SECTOR_SIZE \in Nat
  BY Sizes
<1>2. PICK m \in Nat : m = n * PAGE_LEN /\ m + PAGE_LEN <= SECTOR_SIZE
                       /\ (n + 1) * PAGE_LEN = m + PAGE_LEN
  BY PageFits
<1>3. PICK s \in Nat : s = SectorOf(a)
  BY SectorBase
<1>4. PICK low \in Nat : /\ low = s % CHIP_SIZE /\ low + SECTOR_SIZE <= CHIP_SIZE
                         /\ \A j \in 0 .. SECTOR_SIZE - 1 : (s + j) % CHIP_SIZE = low + j
  BY <1>3, SectorOnChip
<1>5. (s + m) % CHIP_SIZE = low + m
  BY <1>1, <1>2, <1>4
<1>6. s + m \in Nat /\ Program(s + m, PAGE_LEN, new)
  BY <1>2, <1>3
<1>7. Blank(chip, s + m .. s + m + PAGE_LEN - 1)
  BY <1>1, <1>2, <1>3 DEF Blank, PagesFrom
<1>8. /\ chip' \in [Address -> Content] /\ busy' = FALSE
      /\ busy => chip' = chip
      /\ ~busy => \A b \in Address :
           chip'[b] = IF b \in (s + m) % CHIP_SIZE .. ((s + m) % CHIP_SIZE) + PAGE_LEN - 1
                        THEN new[b - ((s + m) % CHIP_SIZE)] ELSE chip[b]
      /\ ChangesErased
  BY <1>1, <1>6, <1>7, Programmed
<1>9. Blank(chip', PagesFrom(a, n + 1))
  <2>1. SUFFICES ASSUME NEW b \in s + (m + PAGE_LEN) .. s + SECTOR_SIZE - 1
                 PROVE  chip'[b % CHIP_SIZE] = Erased
    BY <1>2, <1>3 DEF Blank, PagesFrom
  <2>2. chip[b % CHIP_SIZE] = Erased
    BY <1>1, <1>2, <1>3 DEF Blank, PagesFrom
  <2>3. b - s \in 0 .. SECTOR_SIZE - 1 /\ b = s + (b - s)
    BY <1>1, <1>2
  <2>4. b % CHIP_SIZE = low + (b - s)
    BY <1>4, <2>3
  <2>5. low + (b - s) \in Address /\ low + (b - s) >= low + m + PAGE_LEN
    BY <1>1, <1>2, <1>4, <2>3 DEF Address
  <2>. QED  BY <1>1, <1>5, <1>8, <2>2, <2>4, <2>5
<1>10. ASSUME ~busy, a \in Address, NEW b \in Address
       PROVE  chip'[b] = IF b \in s + m .. s + (m + PAGE_LEN) - 1 THEN new[b - (s + m)] ELSE chip[b]
  <2>1. low = s
    BY <1>3, <1>4, <1>10, SectorOfAddress
  <2>. QED  BY <1>1, <1>5, <1>8, <1>10, <2>1
<1>. QED  BY <1>2, <1>3, <1>8, <1>9, <1>10

-----------------------------------------------------------------------------
(* The steps of a call *)

LEMMA FlashInit == Init => FlashInv
<1>. SUFFICES ASSUME Init PROVE FlashInv
  OBVIOUS
<1>1. /\ CHIP_SIZE \in Nat /\ CHIP_SIZE > 0 /\ PAGE_NUM \in Nat /\ PAGE_NUM > 0 /\ UINT = 4 * CHIP_SIZE
  BY Sizes
<1>2. TypeOK
  <2>1. chip \in [Address -> Content]
    BY DEF Init, Content
  <2>2. busy \in BOOLEAN /\ need_erase \in BOOLEAN /\ accross_sector_flag \in BOOLEAN
    BY DEF Init
  <2>3. pc \in Steps
    BY DEF Init, Steps
  <2>4. /\ _address \in Unsigned /\ _data_len \in Unsigned
        /\ _data_ptr \in Unsigned /\ _programmed_len \in Unsigned
        /\ page_num \in 0 .. PAGE_NUM - 1 /\ cmd = PAGE_PROGRAM_CMD
    BY <1>1 DEF Init, Unsigned
  <2>. QED  BY <2>1, <2>2, <2>3, <2>4 DEF TypeOK
<1>. QED  BY <1>2 DEF Init, FlashInv, CallInv, BlankInv, PlainInv

\* A call that returns leaves nothing but the flag behind.
LEMMA ReturnKeeps ==
  ASSUME FlashInv, Returned, pc' = "idle", need_erase' = FALSE,
         accross_sector_flag' \in BOOLEAN, chip' \in [Address -> Content], busy' = FALSE
  PROVE  FlashInv'
<1>1. /\ CHIP_SIZE \in Nat /\ CHIP_SIZE > 0 /\ PAGE_NUM \in Nat /\ PAGE_NUM > 0 /\ UINT = 4 * CHIP_SIZE
  BY Sizes
<1>2. TypeOK'
  <2>1. /\ _address' \in Unsigned /\ _data_len' \in Unsigned
        /\ _data_ptr' \in Unsigned /\ _programmed_len' \in Unsigned
        /\ page_num' \in 0 .. PAGE_NUM - 1 /\ cmd' = PAGE_PROGRAM_CMD
    BY <1>1 DEF Returned, Unsigned
  <2>2. pc' \in Steps
    BY DEF Steps
  <2>3. busy' \in BOOLEAN /\ need_erase' \in BOOLEAN
    OBVIOUS
  <2>. QED  BY <2>1, <2>2, <2>3 DEF TypeOK
<1>3. CallInv' /\ BlankInv' /\ PlainInv'
  BY DEF Returned, CallInv, BlankInv, PlainInv
<1>. QED  BY <1>2, <1>3 DEF FlashInv

\* Whether a call is plain, and what it wants, is settled when it is made.
LEMMA SameCall ==
  ASSUME UNCHANGED argVars
  PROVE  /\ Plain' <=> Plain
         /\ Wanted' = Wanted
         /\ \A n, a : (Rewritten(n, a))' = Rewritten(n, a)
BY DEF argVars, Plain, FitsTheChip, Wanted, Rewritten

LEMMA Naturals ==
  ASSUME TypeOK
  PROVE  /\ _address \in Nat /\ _data_len \in Nat /\ _data_ptr \in Nat /\ _programmed_len \in Nat
         /\ page_num \in Nat /\ CHIP_SIZE \in Nat /\ SECTOR_SIZE \in Nat /\ PAGE_LEN \in Nat
         /\ SectorOf(_address) \in Nat
<1>1. /\ CHIP_SIZE \in Nat /\ SECTOR_SIZE \in Nat /\ PAGE_LEN \in Nat /\ PAGE_NUM \in Nat
      /\ UINT \in Nat
  BY Sizes
<1>2. /\ _address \in Nat /\ _data_len \in Nat /\ _data_ptr \in Nat /\ _programmed_len \in Nat
      /\ page_num \in Nat
  BY <1>1 DEF TypeOK, Unsigned
<1>. QED  BY <1>1, <1>2, SectorBase

LEMMA CallKeeps ==
  ASSUME FlashInv, NEW a \in Unsigned, NEW d \in Data, NEW len \in Lengths, Call(a, d, len)
  PROVE  FlashInv'
<1>1. /\ CHIP_SIZE \in Nat /\ CHIP_SIZE > 0 /\ UINT = 4 * CHIP_SIZE /\ SECTOR_SIZE \in Nat
      /\ PAGE_LEN \in Nat
  BY Sizes
<1>2. /\ a \in Unsigned /\ len \in Unsigned /\ a \in Nat /\ len \in Nat /\ a % PAGE_LEN = 0
      /\ 0 \in Unsigned
  BY <1>1, FlashAssumption DEF Unsigned, Call
<1>3. /\ pc = "idle" /\ pc' = "loop" /\ address' = a /\ data_len' = len /\ data' = d
      /\ before' = [chip |-> chip, busy |-> busy, across |-> accross_sector_flag]
      /\ _address' = a /\ _data_len' = len
      /\ UNCHANGED <<chip, busy, need_erase, accross_sector_flag, _data_ptr, _programmed_len,
                     current_sector_num, page_num, flash_buffer, cmd>>
  BY DEF Call, loopVars
<1>4. TypeOK'
  BY <1>1, <1>2, <1>3 DEF FlashInv, TypeOK, Steps
<1>5. CallInv'
  <2>1. \A i \in 0 .. len - 1 : d[i] \in Content
    BY <1>1, <1>2, FlashAssumption DEF Content, Unsigned
  <2>. QED  BY <1>2, <1>3, <2>1 DEF FlashInv, TypeOK, CallInv
<1>6. BlankInv'
  BY <1>3 DEF FlashInv, BlankInv
<1>7. PlainInv'
  <2>1. SUFFICES ASSUME Plain' PROVE ~busy /\ ~accross_sector_flag
                                     /\ a + len <= SectorOf(a) + SECTOR_SIZE
    BY <1>3 DEF FlashInv, CallInv, PlainInv
  <2>2. a + PAGE_LEN <= SectorOf(a) + SECTOR_SIZE /\ SectorOf(a) \in Nat
    BY <1>2, PageOfSector, SectorBase
  <2>3. ~busy /\ ~accross_sector_flag
    BY <1>3, <2>1 DEF Plain
  <2>4. CASE len <= PAGE_LEN
    BY <1>1, <1>2, <2>2, <2>3, <2>4
  <2>5. CASE len > PAGE_LEN
    <3>1. InSector(a, a + len - 1)
      BY <1>1, <1>2, <1>3, <2>1, <2>5 DEF Plain
    <3>2. PICK e \in Nat : e = a + len - 1
      BY <1>1, <1>2, <2>5
    <3>3. PICK s \in Nat : s = SectorOf(e) /\ a \in s .. s + SECTOR_SIZE - 1
                           /\ e <= s + SECTOR_SIZE - 1
      <4>1. SectorOf(e) \in Nat /\ e <= SectorOf(e) + SECTOR_SIZE - 1
        BY <1>1, SectorBase
      <4>. QED  BY <3>1, <3>2, <4>1 DEF InSector, SectorAt
    <3>4. SectorOf(a) = s
      <4>1. a - s \in 0 .. SECTOR_SIZE - 1 /\ s + (a - s) = a
        BY <1>1, <1>2, <3>3
      <4>. QED  BY <3>3, <4>1, SameSector
    <3>. QED  BY <1>1, <1>2, <2>3, <3>2, <3>3, <3>4
  <2>. QED  BY <1>1, <1>2, <2>4, <2>5
<1>. QED  BY <1>4, <1>5, <1>6, <1>7 DEF FlashInv

LEMMA SinglePageKeeps ==
  ASSUME FlashInv, SinglePage
  PROVE  FlashInv'
<1>1. PICK bytes \in Reads(PageOf(_address)) :
        /\ need_erase' = (need_erase \/ ~Empty(bytes))
        /\ pc' = IF need_erase' THEN "erase" ELSE "page"
  BY DEF SinglePage
<1>2. /\ pc = "loop" /\ _data_len <= PAGE_LEN
      /\ UNCHANGED <<chip, busy, accross_sector_flag, argVars, _address, _data_len, _data_ptr,
                     _programmed_len, current_sector_num, page_num, flash_buffer, cmd>>
  BY DEF SinglePage, partVars, loopVars
<1>3. need_erase' \in BOOLEAN /\ pc' \in {"erase", "page"} /\ (pc' = "page" <=> ~need_erase')
  BY <1>1
<1>4. pc' = "page" => Blank(chip, PageOf(_address))
  <2>1. PageOf(_address) \in SUBSET Nat
    BY Naturals DEF FlashInv, PageOf
  <2>2. Empty(bytes) => Blank(chip, PageOf(_address))
    BY <2>1, BytesRead DEF FlashInv, TypeOK, BlankInv
  <2>. QED  BY <1>1, <2>2
<1>5. TypeOK'
  BY <1>2, <1>3 DEF FlashInv, TypeOK, Steps
<1>6. CallInv'
  BY <1>2, <1>3 DEF FlashInv, CallInv, argVars
<1>7. BlankInv'
  BY <1>2, <1>3, <1>4 DEF FlashInv, BlankInv, PageOf
<1>8. PlainInv'
  <2>1. (Plain' <=> Plain) /\ address' = address /\ data_len' = data_len /\ before' = before
    BY <1>2, SameCall DEF argVars
  <2>. QED  BY <1>2, <1>3, <2>1 DEF FlashInv, PlainInv, SectorOf
<1>. QED  BY <1>5, <1>6, <1>7, <1>8 DEF FlashInv

LEMMA SeveralPagesKeeps ==
  ASSUME FlashInv, SeveralPages
  PROVE  FlashInv'
<1>. DEFINE end    == (_address + data_len - _programmed_len) % UINT
            across == SectorOf(_address) # SectorOf(end)
<1>1. PICK bytes \in Reads(RestOfSector(_address)) :
        /\ need_erase' = (need_erase \/ ~Empty(bytes))
        /\ pc' = IF need_erase' THEN "erase" ELSE "pages"
        /\ page_num' = IF need_erase' THEN page_num
                                      ELSE (_address % SECTOR_SIZE) \div PAGE_LEN
  BY DEF SeveralPages
<1>2. /\ pc = "loop" /\ _data_len > PAGE_LEN
      /\ _data_ptr' = IF need_erase' THEN _data_ptr ELSE 0
      /\ accross_sector_flag' = (accross_sector_flag \/ across)
      /\ current_sector_num' = IF across THEN _address \div SECTOR_SIZE ELSE current_sector_num
      /\ UNCHANGED <<chip, busy, argVars, _address, _data_len, _programmed_len, flash_buffer, cmd>>
  BY DEF SeveralPages
<1>. HIDE DEF across, end
<1>3. /\ need_erase' \in BOOLEAN /\ pc' \in {"erase", "pages"} /\ (pc' = "pages" <=> ~need_erase')
      /\ accross_sector_flag' \in BOOLEAN
  BY <1>1, <1>2
<1>4. /\ _address \in Nat /\ _data_len \in Nat /\ _data_ptr \in Nat /\ page_num \in Nat
      /\ CHIP_SIZE \in Nat /\ SECTOR_SIZE \in Nat /\ PAGE_LEN \in Nat /\ SectorOf(_address) \in Nat
      /\ UINT = 4 * CHIP_SIZE /\ CHIP_SIZE > 0
  BY Naturals, Sizes DEF FlashInv
<1>5. PICK first \in 0 .. PAGE_NUM - 1 :
        /\ first = (_address % SECTOR_SIZE) \div PAGE_LEN
        /\ _address = SectorOf(_address) + first * PAGE_LEN
  <2>1. _address % PAGE_LEN = 0
    BY <1>2 DEF FlashInv, CallInv
  <2>. QED  BY <1>4, <2>1, PageOfSector
<1>6. first * PAGE_LEN \in Nat
  BY PageFits
<1>7. /\ \A a \in RestOfSector(_address) : bytes[a] \in Content
      /\ ~busy => \A a \in RestOfSector(_address) : bytes[a] = chip[a % CHIP_SIZE]
      /\ Empty(bytes) => Blank(chip, RestOfSector(_address))
      /\ DOMAIN bytes = RestOfSector(_address)
  <2>1. RestOfSector(_address) \in SUBSET Nat
    BY <1>4 DEF RestOfSector, SectorAt
  <2>2. DOMAIN bytes = RestOfSector(_address)
    BY DEF Reads
  <2>. QED  BY <2>1, <2>2, BytesRead DEF FlashInv, TypeOK, BlankInv
<1>8. TypeOK'
  <2>1. page_num' \in 0 .. PAGE_NUM - 1
    BY <1>1, <1>5 DEF FlashInv, TypeOK
  <2>2. _data_ptr' \in Unsigned
    BY <1>2, <1>4 DEF FlashInv, TypeOK, Unsigned
  <2>. QED  BY <1>2, <1>3, <2>1, <2>2 DEF FlashInv, TypeOK, Steps
<1>9. CallInv'
  <2>1. current_sector_num' \in Nat
    BY <1>2, <1>4, SectorBase DEF FlashInv, CallInv
  <2>2. pc' = "pages" => _data_ptr' = 0 /\ page_num' = first
    BY <1>1, <1>2, <1>3, <1>5
  <2>. QED  BY <1>2, <1>3, <1>6, <2>1, <2>2 DEF FlashInv, CallInv, argVars
<1>10. BlankInv'
  <2>1. ASSUME pc' = "pages"
        PROVE  Blank(chip, PagesFrom(_address, first)) /\ page_num' = first
    <3>1. Empty(bytes)
      BY <1>1, <1>3, <2>1
    <3>2. PagesFrom(_address, first) \subseteq RestOfSector(_address)
      BY <1>4, <1>5, <1>6 DEF PagesFrom, RestOfSector, SectorAt
    <3>. QED  BY <1>1, <1>3, <1>5, <1>7, <2>1, <3>1, <3>2 DEF Blank
  <2>. QED  BY <1>2, <1>3, <2>1 DEF FlashInv, BlankInv, PagesFrom, SectorOf
<1>11. PlainInv'
  <2>1. (Plain' <=> Plain) /\ address' = address /\ data_len' = data_len /\ before' = before
    BY <1>2, SameCall DEF argVars
  <2>2. SUFFICES ASSUME Plain
                 PROVE  /\ need_erase'
                        /\ accross_sector_flag' =>
                             (current_sector_num' + 1) * SECTOR_SIZE = address + data_len
    BY <1>2, <1>3, <2>1 DEF FlashInv, PlainInv, SectorOf
  <2>3. /\ ~busy /\ _address = address /\ _data_len = data_len /\ ~accross_sector_flag
        /\ address + data_len <= SectorOf(address) + SECTOR_SIZE
        /\ _programmed_len = 0 /\ chip = before.chip
    BY <1>2, <2>2 DEF FlashInv, PlainInv
  <2>4. address \in Address /\ data_len \in Nat /\ address + data_len <= CHIP_SIZE
    BY <1>2, <1>4, <2>2 DEF FlashInv, CallInv, Plain, FitsTheChip, Unsigned
  \* A byte of the rest of the sector is not blank.
  <2>5. need_erase'
    <3>1. PICK a \in RestOfSector(address) : before.chip[a] # Erased
      BY <1>2, <1>4, <2>2, <2>3 DEF Plain
    <3>2. a \in 0 .. CHIP_SIZE - 1
      BY <1>4, <2>3, <2>4, SectorOfAddress DEF RestOfSector, SectorAt
    <3>3. a % CHIP_SIZE = a
      BY <1>4, <3>2
    <3>4. bytes[a] # Erased
      BY <1>7, <2>3, <3>1, <3>3
    <3>. QED  BY <1>1, <1>7, <2>3, <3>1, <3>4 DEF Empty
  \* The end of the data is in another sector only if it is that of this one.
  <2>6. ASSUME across
        PROVE  (current_sector_num' + 1) * SECTOR_SIZE = address + data_len
    <3>1. PICK e \in Nat : e = address + data_len
      BY <1>4, <2>3, <2>4
    <3>2. end = e
      BY <1>4, <2>3, <2>4, <3>1 DEF end
    <3>3. PICK s \in Nat : s = SectorOf(address)
      BY <1>4, <2>3
    <3>4. e = s + SECTOR_SIZE
      <4>1. SUFFICES ASSUME e # s + SECTOR_SIZE PROVE FALSE
        OBVIOUS
      <4>2. e >= s
        BY <1>4, <1>5, <1>6, <2>3, <3>1, <3>3
      <4>3. e - s \in 0 .. SECTOR_SIZE - 1 /\ s + (e - s) = e
        BY <1>4, <2>3, <3>1, <3>3, <4>1, <4>2
      <4>4. SectorOf(e) = s
        BY <1>4, <2>3, <3>3, <4>3, SameSector
      <4>. QED  BY <2>3, <2>6, <3>2, <3>3, <4>4 DEF across
    <3>5. PICK q \in Nat : q = current_sector_num' /\ s = SECTOR_SIZE * q
      BY <1>2, <1>4, <2>3, <2>6, <3>3, SectorBase
    <3>6. (q + 1) * SECTOR_SIZE = SECTOR_SIZE * q + SECTOR_SIZE
      BY <1>4
    <3>. QED  BY <3>1, <3>4, <3>5, <3>6
  <2>. QED  BY <1>2, <2>3, <2>5, <2>6
<1>. QED  BY <1>8, <1>9, <1>10, <1>11 DEF FlashInv

\* Byte i of the caller's buffer, or what lies behind it.
LEMMA SourceType ==
  ASSUME FlashInv, pc # "idle", NEW junk \in Byte \cup {Erased}, NEW i \in Nat
  PROVE  Source(junk, i) \in Content /\ (i < data_len => Source(junk, i) = data[i])
<1>1. data_len \in Nat /\ \A k \in 0 .. data_len - 1 : data[k] \in Content
  BY Sizes DEF FlashInv, CallInv, Unsigned
<1>2. junk \in Content
  BY DEF Content
<1>. QED  BY <1>1, <1>2 DEF Source

LEMMA ProgramPageKeeps ==
  ASSUME FlashInv, ProgramPage
  PROVE  FlashInv' /\ ChangesErased /\ (Plain => chip' = Wanted)
<1>1. /\ pc = "page" /\ pc' = "idle" /\ Returned
      /\ UNCHANGED <<need_erase, accross_sector_flag>>
  BY DEF ProgramPage
<1>2. /\ _address \in Nat /\ _data_len \in Nat /\ _data_ptr \in Nat /\ CHIP_SIZE \in Nat
      /\ PAGE_LEN \in Nat /\ _data_len <= PAGE_LEN
  BY <1>1, Naturals DEF FlashInv, CallInv
<1>3. ~need_erase /\ accross_sector_flag \in BOOLEAN /\ need_erase \in BOOLEAN
  BY <1>1 DEF FlashInv, CallInv, TypeOK
<1>4. CASE cmd = PAGE_PROGRAM_CMD
  <2>1. PICK junk \in Byte \cup {Erased} :
          Program(_address, _data_len, [i \in 0 .. PAGE_LEN - 1 |-> Source(junk, _data_ptr + i)])
    BY <1>4 DEF ProgramPage
  <2>. DEFINE new == [i \in 0 .. PAGE_LEN - 1 |-> Source(junk, _data_ptr + i)]
  <2>2. \A i \in 0 .. _data_len - 1 : /\ new[i] \in Content /\ new[i] = Source(junk, _data_ptr + i)
                                      /\ _data_ptr + i \in Nat
    <3>1. TAKE i \in 0 .. _data_len - 1
    <3>2. i \in 0 .. PAGE_LEN - 1 /\ _data_ptr + i \in Nat
      BY <1>2
    <3>. QED  BY <1>1, <3>2, SourceType
  <2>3. Blank(chip, _address .. _address + _data_len - 1)
    BY <1>1, <1>2 DEF FlashInv, BlankInv, Blank, PageOf
  <2>. HIDE DEF new
  <2>4. /\ chip' \in [Address -> Content] /\ busy' = FALSE
        /\ ~busy => \A b \in Address :
             chip'[b] = IF b \in _address % CHIP_SIZE .. (_address % CHIP_SIZE) + _data_len - 1
                          THEN new[b - (_address % CHIP_SIZE)] ELSE chip[b]
        /\ ChangesErased
    <3>1. Program(_address, _data_len, new)
      BY <2>1 DEF new
    <3>. QED  BY <1>2, <2>2, <2>3, <3>1, Programmed DEF FlashInv, TypeOK
  <2>5. ASSUME Plain PROVE chip' = Wanted
    <3>1. /\ ~busy /\ _address = address /\ _data_len = data_len /\ _data_ptr = 0
          /\ chip = before.chip
      BY <1>1, <2>5 DEF FlashInv, PlainInv
    <3>2. address \in 0 .. CHIP_SIZE - 1
      BY <2>5 DEF Plain, FitsTheChip, Address
    <3>3. _address % CHIP_SIZE = address
      BY <1>2, <3>1, <3>2
    <3>4. ASSUME NEW b \in Address PROVE chip'[b] = Wanted[b]
      <4>1. CASE b \in address .. address + data_len - 1
        <5>1. PICK i \in 0 .. _data_len - 1 : i = b - address
          BY <1>2, <3>1, <3>2, <4>1 DEF Address
        <5>2. new[i] = data[i]
          BY <1>1, <1>2, <2>2, <3>1, SourceType
        <5>. QED  BY <2>4, <3>1, <3>3, <4>1, <5>1, <5>2 DEF Wanted
      <4>2. CASE b \notin address .. address + data_len - 1
        BY <2>4, <3>1, <3>3, <4>2 DEF Wanted
      <4>. QED  BY <4>1, <4>2
    <3>. QED  BY <2>4, <3>4 DEF Wanted
  <2>. QED  BY <1>1, <1>3, <2>4, <2>5, ReturnKeeps
<1>5. CASE cmd # PAGE_PROGRAM_CMD
  <2>1. chip' = chip /\ busy' = FALSE
    BY <1>5 DEF ProgramPage
  <2>2. ~Plain
    BY <1>1, <1>5 DEF FlashInv, PlainInv
  <2>3. ChangesErased /\ chip' \in [Address -> Content]
    BY <2>1 DEF ChangesErased, FlashInv, TypeOK
  <2>. QED  BY <1>1, <1>3, <2>1, <2>2, <2>3, ReturnKeeps
<1>. QED  BY <1>4, <1>5

LEMMA ProgramPagesKeeps ==
  ASSUME FlashInv, ProgramPages
  PROVE  FlashInv' /\ ChangesErased /\ (pc' = "idle" => ~Plain)
<1>. DEFINE a == SectorOf(_address) + page_num * PAGE_LEN
<1>1. PICK junk \in Byte \cup {Erased} :
        Program(a, PAGE_LEN, [i \in 0 .. PAGE_LEN - 1 |-> Source(junk, _data_ptr + i)])
  BY DEF ProgramPages
<1>. DEFINE new == [i \in 0 .. PAGE_LEN - 1 |-> Source(junk, _data_ptr + i)]
<1>2. pc = "pages" /\ UNCHANGED <<need_erase, accross_sector_flag>>
  BY DEF ProgramPages
<1>3. /\ _address \in Nat /\ _data_ptr \in Nat /\ page_num \in 0 .. PAGE_NUM - 1
      /\ CHIP_SIZE \in Nat /\ CHIP_SIZE > 0 /\ SECTOR_SIZE \in Nat /\ SECTOR_SIZE <= CHIP_SIZE
      /\ UINT = 4 * CHIP_SIZE
      /\ PAGE_LEN \in Nat /\ PAGE_LEN > 0 /\ PAGE_NUM \in Nat /\ SectorOf(_address) \in Nat
  BY Naturals, Sizes DEF FlashInv, TypeOK
<1>4. /\ page_num * PAGE_LEN \in Nat /\ page_num * PAGE_LEN + PAGE_LEN <= SECTOR_SIZE
      /\ (page_num + 1) * PAGE_LEN = page_num * PAGE_LEN + PAGE_LEN
  BY <1>3, PageFits
<1>5. ~need_erase /\ ~Plain /\ _data_ptr <= page_num * PAGE_LEN
  BY <1>2 DEF FlashInv, CallInv, PlainInv
<1>6. \A i \in 0 .. PAGE_LEN - 1 : new[i] \in Content
  <2>1. TAKE i \in 0 .. PAGE_LEN - 1
  <2>2. _data_ptr + i \in Nat
    BY <1>3
  <2>. QED  BY <1>2, <2>2, SourceType
<1>7. /\ chip' \in [Address -> Content] /\ busy' = FALSE
      /\ Blank(chip', PagesFrom(_address, page_num + 1))
      /\ ChangesErased
  <2>1. Blank(chip, PagesFrom(_address, page_num))
    BY <1>2 DEF FlashInv, BlankInv
  <2>2. Program(SectorOf(_address) + page_num * PAGE_LEN, PAGE_LEN, new)
    BY <1>1
  <2>. HIDE DEF new
  <2>. QED  BY <1>3, <1>6, <2>1, <2>2, PageProgrammed DEF FlashInv, TypeOK
<1>8. CASE MorePages
  <2>1. /\ page_num' = page_num + 1 /\ _data_ptr' = _data_ptr + PAGE_LEN /\ cmd' = LowByte(a)
        /\ UNCHANGED <<pc, argVars, _address, _data_len, _programmed_len, current_sector_num,
                       flash_buffer>>
    BY <1>8 DEF ProgramPages
  <2>2. TypeOK'
    <3>1. page_num' \in 0 .. PAGE_NUM - 1
      BY <1>3, <1>8, <2>1 DEF MorePages
    <3>2. _data_ptr' \in Unsigned
      BY <1>3, <1>4, <1>5, <2>1 DEF Unsigned
    <3>3. cmd' \in 0 .. PAGE_LEN - 1
      <4>1. a \in Int
        BY <1>3, <1>4
      <4>. HIDE DEF a
      <4>. QED  BY <1>3, <2>1, <4>1, DivisionAndRest DEF LowByte
    <3>. QED  BY <1>2, <1>7, <2>1, <3>1, <3>2, <3>3 DEF FlashInv, TypeOK
  <2>3. CallInv'
    <3>1. _data_ptr' <= page_num' * PAGE_LEN
      BY <1>3, <1>4, <1>5, <2>1
    <3>. QED  BY <1>2, <2>1, <3>1 DEF FlashInv, CallInv, argVars
  <2>4. BlankInv'
    BY <1>2, <1>7, <2>1 DEF BlankInv, PagesFrom, SectorOf
  <2>5. PlainInv'
    BY <1>5, <2>1, SameCall DEF PlainInv
  <2>. QED  BY <1>2, <1>5, <1>7, <2>1, <2>2, <2>3, <2>4, <2>5 DEF FlashInv
<1>9. CASE ~MorePages
  <2>1. pc' = "idle" /\ Returned
    BY <1>9 DEF ProgramPages
  <2>. QED  BY <1>2, <1>5, <1>7, <2>1, ReturnKeeps DEF FlashInv, TypeOK
<1>. QED  BY <1>8, <1>9

LEMMA SectorErased ==
  ASSUME FlashInv, NEW a \in Nat, EraseSector(a)
  PROVE  /\ chip' \in [Address -> Content] /\ busy' = FALSE
         /\ Blank(chip', SectorAt(a))
         /\ ~busy /\ a \in Address =>
              \A b \in Address : chip'[b] = IF InSector(b, a) THEN Erased ELSE chip[b]
         /\ ChangesErased
<1>1. CHIP_SIZE \in Nat /\ SECTOR_SIZE \in Nat /\ SectorOf(a) \in Nat
  BY Sizes, SectorBase
<1>2. SectorAt(a) \in SUBSET Nat
  BY <1>1 DEF SectorAt
<1>3. chip \in [Address -> Content] /\ busy \in BOOLEAN /\ Erased \in Content
  BY DEF FlashInv, TypeOK, Content
<1>4. CASE busy
  <2>1. chip' = chip /\ busy' = FALSE
    BY <1>4 DEF EraseSector
  <2>2. Blank(chip, SectorAt(a))
    <3>1. ASSUME NEW b \in SectorAt(a) PROVE chip[b % CHIP_SIZE] = Erased
      <4>1. b % CHIP_SIZE \in Address
        BY <1>2, OnTheChip
      <4>2. (b % CHIP_SIZE) % CHIP_SIZE = b % CHIP_SIZE
        BY <1>1, <4>1 DEF Address
      <4>. QED  BY <1>4, <4>1, <4>2 DEF FlashInv, BlankInv, Blank
    <3>. QED  BY <3>1 DEF Blank
  <2>. QED  BY <1>3, <1>4, <2>1, <2>2 DEF ChangesErased
<1>5. CASE ~busy
  <2>1. /\ chip' = [b \in Address |-> IF b \in OnChip(SectorAt(a)) THEN Erased ELSE chip[b]]
        /\ busy' = FALSE
    BY <1>5 DEF EraseSector
  <2>2. Blank(chip', SectorAt(a))
    <3>1. ASSUME NEW b \in SectorAt(a) PROVE chip'[b % CHIP_SIZE] = Erased
      <4>1. b % CHIP_SIZE \in Address /\ b % CHIP_SIZE \in OnChip(SectorAt(a))
        BY <1>2, OnTheChip DEF OnChip
      <4>. QED  BY <2>1, <4>1
    <3>. QED  BY <3>1 DEF Blank
  <2>3. ASSUME a \in Address, NEW b \in Address
        PROVE  b \in OnChip(SectorAt(a)) <=> InSector(b, a)
    <3>1. SectorOf(a) + SECTOR_SIZE <= CHIP_SIZE
      BY <2>3, SectorOfAddress
    <3>2. \A x \in SectorAt(a) : x % CHIP_SIZE = x
      BY <1>1, <3>1 DEF SectorAt
    <3>. QED  BY <3>2 DEF OnChip, InSector
  <2>4. chip' \in [Address -> Content] /\ ChangesErased
    BY <1>3, <2>1 DEF ChangesErased
  <2>. QED  BY <1>5, <2>1, <2>2, <2>3, <2>4
<1>. QED  BY <1>3, <1>4, <1>5

LEMMA EraseKeeps ==
  ASSUME FlashInv, Erase
  PROVE  FlashInv' /\ ChangesErased /\ pc' # "idle"
<1>1. /\ pc = "erase" /\ pc' = "rewrite" /\ need_erase' = FALSE /\ page_num' = 0
      /\ EraseSector(_address)
      /\ UNCHANGED <<accross_sector_flag, argVars, _address, _data_len, _data_ptr,
                     _programmed_len, current_sector_num, cmd>>
  BY DEF Erase, partVars
<1>2. PICK junk \in Byte \cup {Erased}, bytes \in Reads(SectorAt(_address)) :
        flash_buffer' = Overlaid(bytes, _address, _data_len, junk)
  BY DEF Erase
<1>3. /\ _address \in Nat /\ _data_len \in Nat /\ CHIP_SIZE \in Nat /\ SECTOR_SIZE \in Nat
      /\ PAGE_LEN \in Nat /\ PAGE_NUM \in Nat /\ PAGE_NUM > 0 /\ SectorOf(_address) \in Nat
  BY Naturals, Sizes DEF FlashInv
<1>4. PICK at \in 0 .. SECTOR_SIZE - 1 : at = _address % SECTOR_SIZE /\ _address = SectorOf(_address) + at
  BY <1>3, SectorBase
<1>5. /\ chip' \in [Address -> Content] /\ busy' = FALSE
      /\ Blank(chip', SectorAt(_address))
      /\ ~busy /\ _address \in Address =>
           \A b \in Address : chip'[b] = IF InSector(b, _address) THEN Erased ELSE chip[b]
      /\ ChangesErased
  BY <1>1, <1>3, SectorErased
<1>6. /\ \A b \in SectorAt(_address) : bytes[b] \in Content
      /\ ~busy => \A b \in SectorAt(_address) : bytes[b] = chip[b % CHIP_SIZE]
  <2>1. SectorAt(_address) \in SUBSET Nat
    BY <1>3 DEF SectorAt
  <2>. QED  BY <2>1, BytesRead DEF FlashInv, TypeOK, BlankInv
<1>7. /\ flash_buffer' = [i \in 0 .. SECTOR_SIZE - 1 |->
            IF i \in CopiedTo(_address, _data_len) THEN Source(junk, i - at)
                                                   ELSE bytes[SectorOf(_address) + i]]
      /\ \A i \in 0 .. SECTOR_SIZE - 1 :
           /\ SectorOf(_address) + i \in SectorAt(_address)
           /\ i >= at => i - at \in Nat
           /\ i \in CopiedTo(_address, _data_len) => i >= at
  <2>1. flash_buffer' = [i \in 0 .. SECTOR_SIZE - 1 |->
            IF i \in CopiedTo(_address, _data_len) THEN Source(junk, i - at)
                                                   ELSE bytes[SectorOf(_address) + i]]
    BY <1>2, <1>4 DEF Overlaid
  <2>2. \A i \in 0 .. SECTOR_SIZE - 1 :
           /\ SectorOf(_address) + i \in SectorAt(_address)
           /\ i >= at => i - at \in Nat
    BY <1>3 DEF SectorAt
  <2>3. \A i \in CopiedTo(_address, _data_len) : i >= at
    BY <1>4 DEF CopiedTo
  <2>. QED  BY <2>1, <2>2, <2>3
<1>8. TypeOK'
  <2>1. page_num' \in 0 .. PAGE_NUM - 1
    BY <1>1, <1>3
  <2>2. busy' \in BOOLEAN /\ need_erase' \in BOOLEAN
    BY <1>1, <1>5
  <2>3. pc' \in Steps
    BY <1>1 DEF Steps
  <2>. QED  BY <1>1, <1>5, <2>1, <2>2, <2>3 DEF FlashInv, TypeOK
<1>9. CallInv'
  <2>1. \A i \in 0 .. SECTOR_SIZE - 1 :
           i \in CopiedTo(_address, _data_len) => Source(junk, i - at) \in Content
    BY <1>1, <1>7, SourceType
  <2>2. flash_buffer' \in [0 .. SECTOR_SIZE - 1 -> Content]
    BY <1>6, <1>7, <2>1
  <2>. QED  BY <1>1, <2>2 DEF FlashInv, CallInv, argVars
<1>10. BlankInv'
  <2>1. Blank(chip', PagesFrom(_address, 0))
    <3>1. 0 * PAGE_LEN = 0
      BY <1>3
    <3>2. PagesFrom(_address, 0) = SectorAt(_address)
      BY <1>3, <3>1 DEF PagesFrom, SectorAt
    <3>. QED  BY <1>5, <3>2
  <2>. QED  BY <1>1, <1>5, <2>1 DEF BlankInv, PagesFrom, SectorOf
<1>11. PlainInv'
  <2>1. /\ (Plain' <=> Plain) /\ Wanted' = Wanted
        /\ \A n, a : (Rewritten(n, a))' = Rewritten(n, a)
        /\ address' = address /\ data_len' = data_len /\ data' = data /\ before' = before
    BY <1>1, SameCall DEF argVars
  <2>2. SUFFICES ASSUME Plain
                 PROVE  /\ \A i \in 0 .. SECTOR_SIZE - 1 :
                             flash_buffer'[i] = Wanted[SectorOf(address) + i]
                        /\ \A a \in Address : chip'[a] = Rewritten(0, a)
    <3>1. ASSUME Plain
          PROVE  /\ _address = address /\ _data_len = data_len
                 /\ address + data_len <= SectorOf(address) + SECTOR_SIZE
                 /\ accross_sector_flag =>
                      (current_sector_num + 1) * SECTOR_SIZE = address + data_len
      BY <1>1, <3>1, Zenon DEF FlashInv, PlainInv
    <3>. QED  BY <1>1, <1>5, <2>1, <3>1 DEF PlainInv, Rewritten, SectorOf, Wanted, InSector, SectorAt
  <2>3. /\ ~busy /\ _address = address /\ _data_len = data_len /\ chip = before.chip
    BY <1>1, <2>2 DEF FlashInv, PlainInv
  <2>4. address \in Address /\ data_len \in Nat
    BY <1>3, <2>2, <2>3 DEF Plain, FitsTheChip
  \* The end of the data does not wrap: it lies in the sector.
  <2>5. \A i \in 0 .. SECTOR_SIZE - 1 :
          i \in CopiedTo(_address, _data_len) <=> i >= at /\ i < at + data_len
    <3>1. /\ SECTOR_SIZE <= CHIP_SIZE /\ CHIP_SIZE > 0 /\ UINT = 4 * CHIP_SIZE
          /\ address + data_len <= SectorOf(address) + SECTOR_SIZE
      BY <1>1, <2>2, Sizes DEF FlashInv, PlainInv
    <3>2. at + data_len <= SECTOR_SIZE
      BY <1>3, <1>4, <2>3, <2>4, <3>1
    <3>3. (at + data_len) % UINT = at + data_len
      BY <1>3, <1>4, <2>4, <3>1, <3>2
    <3>. QED  BY <1>4, <2>3, <3>3 DEF CopiedTo
  <2>6. ASSUME NEW i \in 0 .. SECTOR_SIZE - 1
        PROVE  flash_buffer'[i] = Wanted[SectorOf(address) + i]
    <3>1. PICK b \in Address : b = SectorOf(address) + i
      <4>1. SectorOf(address) + SECTOR_SIZE <= CHIP_SIZE
        BY <2>4, SectorOfAddress
      <4>. QED  BY <1>3, <2>3, <4>1 DEF Address
    <3>2. b \in address .. address + data_len - 1 <=> i >= at /\ i < at + data_len
      BY <1>3, <1>4, <2>3, <3>1 DEF Address
    <3>3. CASE i >= at /\ i < at + data_len
      <4>1. b - address = i - at /\ i - at \in Nat /\ i - at < data_len
        BY <1>3, <1>4, <2>3, <3>1, <3>3
      <4>2. Source(junk, i - at) = data[i - at]
        BY <1>1, <4>1, SourceType
      <4>. QED  BY <1>7, <2>3, <2>5, <3>1, <3>2, <3>3, <4>1, <4>2 DEF Wanted
    <3>4. CASE ~(i >= at /\ i < at + data_len)
      <4>1. b % CHIP_SIZE = b
        BY <1>3 DEF Address
      <4>2. flash_buffer'[i] = chip[b]
        BY <1>6, <1>7, <2>3, <2>5, <3>1, <3>4, <4>1
      <4>. QED  BY <2>3, <3>1, <3>2, <3>4, <4>2 DEF Wanted
    <3>. QED  BY <3>3, <3>4
  <2>7. ASSUME NEW b \in Address PROVE chip'[b] = Rewritten(0, b)
    <3>1. InSector(b, address) => ~(b < SectorOf(address) + 0 * PAGE_LEN)
      BY <1>3, <2>3 DEF InSector, SectorAt
    <3>. QED  BY <1>5, <2>3, <2>4, <3>1 DEF Rewritten
  <2>. QED  BY <2>6, <2>7
<1>. QED  BY <1>1, <1>5, <1>8, <1>9, <1>10, <1>11 DEF FlashInv

LEMMA RewriteKeeps ==
  ASSUME FlashInv, Rewrite
  PROVE  FlashInv' /\ ChangesErased /\ (pc' = "idle" /\ Plain => chip' = Wanted)
<1>. DEFINE a == SectorOf(_address) + page_num * PAGE_LEN
            new == [i \in 0 .. PAGE_LEN - 1 |-> flash_buffer[page_num * PAGE_LEN + i]]
<1>1. /\ pc = "rewrite" /\ UNCHANGED <<need_erase, accross_sector_flag>>
      /\ Program(a, PAGE_LEN, new)
  BY DEF Rewrite
<1>2. /\ _address \in Nat /\ page_num \in 0 .. PAGE_NUM - 1
      /\ CHIP_SIZE \in Nat /\ SECTOR_SIZE \in Nat
      /\ PAGE_LEN \in Nat /\ PAGE_LEN > 0 /\ PAGE_NUM \in Nat /\ SectorOf(_address) \in Nat
  BY Naturals, Sizes DEF FlashInv, TypeOK
<1>3. /\ page_num * PAGE_LEN \in Nat /\ page_num * PAGE_LEN + PAGE_LEN <= SECTOR_SIZE
      /\ (page_num + 1) * PAGE_LEN = page_num * PAGE_LEN + PAGE_LEN
  BY <1>2, PageFits
<1>4. ~need_erase /\ flash_buffer \in [0 .. SECTOR_SIZE - 1 -> Content]
  BY <1>1 DEF FlashInv, CallInv
<1>5. \A i \in 0 .. PAGE_LEN - 1 : /\ page_num * PAGE_LEN + i \in 0 .. SECTOR_SIZE - 1
                                   /\ new[i] = flash_buffer[page_num * PAGE_LEN + i]
                                   /\ new[i] \in Content
  BY <1>2, <1>3, <1>4
<1>6. /\ chip' \in [Address -> Content] /\ busy' = FALSE
      /\ Blank(chip', PagesFrom(_address, page_num + 1))
      /\ ~busy /\ _address \in Address => \A b \in Address :
           chip'[b] = IF b \in a .. SectorOf(_address) + (page_num + 1) * PAGE_LEN - 1
                        THEN new[b - a] ELSE chip[b]
      /\ ChangesErased
  <2>1. Blank(chip, PagesFrom(_address, page_num))
    BY <1>1 DEF FlashInv, BlankInv
  <2>2. Program(SectorOf(_address) + page_num * PAGE_LEN, PAGE_LEN, new)
    BY <1>1
  <2>. HIDE DEF new
  <2>. QED  BY <1>2, <1>5, <2>1, <2>2, PageProgrammed DEF FlashInv, TypeOK
<1>7. LowByte(a) \in 0 .. PAGE_LEN - 1
  <2>1. a \in Int
    BY <1>2, <1>3
  <2>. HIDE DEF a
  <2>. QED  BY <1>2, <2>1, DivisionAndRest DEF LowByte
\* A page of a plain call comes to hold what is wanted there.
<1>8. ASSUME Plain
      PROVE  /\ \A b \in Address : chip'[b] = Rewritten(page_num + 1, b)
             /\ address + data_len <= SectorOf(address) + SECTOR_SIZE
             /\ _address = address /\ _data_len = data_len
             /\ \A i \in 0 .. SECTOR_SIZE - 1 : flash_buffer[i] = Wanted[SectorOf(address) + i]
             /\ accross_sector_flag => (current_sector_num + 1) * SECTOR_SIZE = address + data_len
  <2>1. /\ ~busy /\ _address = address /\ _data_len = data_len
        /\ address + data_len <= SectorOf(address) + SECTOR_SIZE
        /\ accross_sector_flag => (current_sector_num + 1) * SECTOR_SIZE = address + data_len
        /\ \A i \in 0 .. SECTOR_SIZE - 1 : flash_buffer[i] = Wanted[SectorOf(address) + i]
        /\ \A b \in Address : chip[b] = Rewritten(page_num, b)
    BY <1>1, <1>8, Zenon DEF FlashInv, PlainInv
  <2>2. address \in Address
    BY <1>8 DEF Plain, FitsTheChip
  <2>3. ASSUME NEW b \in Address PROVE chip'[b] = Rewritten(page_num + 1, b)
    <3>. DEFINE s == SectorOf(address)
    <3>1. PICK m \in Nat : /\ m = page_num * PAGE_LEN /\ m + PAGE_LEN <= SECTOR_SIZE
                           /\ (page_num + 1) * PAGE_LEN = m + PAGE_LEN
      BY <1>3
    <3>2. s \in Nat /\ b \in Nat
      BY <1>2, <2>1 DEF Address
    <3>3. /\ chip'[b] = IF b \in s + m .. s + (m + PAGE_LEN) - 1 THEN new[b - (s + m)] ELSE chip[b]
          /\ chip[b] = IF ~InSector(b, address) THEN before.chip[b]
                       ELSE IF b < s + m THEN Wanted[b] ELSE Erased
          /\ Rewritten(page_num + 1, b) = IF ~InSector(b, address) THEN before.chip[b]
                       ELSE IF b < s + (m + PAGE_LEN) THEN Wanted[b] ELSE Erased
      BY <1>6, <2>1, <2>2, <3>1 DEF Rewritten
    <3>4. InSector(b, address) <=> b \in s .. s + SECTOR_SIZE - 1
      BY DEF InSector, SectorAt
    <3>5. CASE b \in s + m .. s + (m + PAGE_LEN) - 1
      <4>1. PICK i \in 0 .. PAGE_LEN - 1 : i = b - (s + m)
        BY <1>2, <3>1, <3>2, <3>5
      <4>2. new[i] = flash_buffer[m + i] /\ m + i \in 0 .. SECTOR_SIZE - 1
        BY <1>5, <3>1
      <4>3. flash_buffer[m + i] = Wanted[s + (m + i)]
        BY <2>1, <4>2
      <4>4. s + (m + i) = b
        BY <3>1, <3>2, <4>1
      <4>. HIDE DEF new, s
      <4>. QED  BY <1>2, <3>1, <3>2, <3>3, <3>4, <3>5, <4>1, <4>2, <4>3, <4>4
    <3>6. CASE b \notin s + m .. s + (m + PAGE_LEN) - 1
      <4>. HIDE DEF new, s
      <4>. QED  BY <1>2, <3>1, <3>2, <3>3, <3>4, <3>6
    <3>. QED  BY <3>5, <3>6
  <2>. QED  BY <2>1, <2>3
<1>9. CASE MorePages
  <2>1. /\ page_num' = page_num + 1 /\ cmd' = LowByte(a)
        /\ UNCHANGED <<pc, argVars, _address, _data_len, _data_ptr, _programmed_len,
                       current_sector_num, flash_buffer>>
    BY <1>9 DEF Rewrite, partVars
  <2>2. TypeOK'
    <3>1. page_num' \in 0 .. PAGE_NUM - 1
      BY <1>2, <1>9, <2>1 DEF MorePages
    <3>. QED  BY <1>1, <1>6, <1>7, <2>1, <3>1 DEF FlashInv, TypeOK
  <2>3. CallInv'
    BY <1>1, <2>1 DEF FlashInv, CallInv, argVars
  <2>4. BlankInv'
    BY <1>1, <1>6, <2>1 DEF BlankInv, PagesFrom, SectorOf
  <2>5. PlainInv'
    <3>1. /\ (Plain' <=> Plain) /\ Wanted' = Wanted
          /\ \A n, b : (Rewritten(n, b))' = Rewritten(n, b)
          /\ address' = address /\ data_len' = data_len /\ before' = before
      BY <2>1, SameCall DEF argVars
    <3>. QED  BY <1>1, <1>6, <1>8, <2>1, <3>1 DEF PlainInv, Rewritten, SectorOf, Wanted, InSector, SectorAt
  <2>. QED  BY <1>1, <1>6, <2>1, <2>2, <2>3, <2>4, <2>5 DEF FlashInv
<1>10. CASE ~MorePages
  <2>1. ASSUME Plain PROVE chip' = Wanted
    <3>1. (page_num + 1) * PAGE_LEN = SECTOR_SIZE
      <4>1. page_num + 1 = PAGE_NUM
        BY <1>2, <1>10 DEF MorePages
      <4>. QED  BY <1>2, <4>1 DEF SECTOR_SIZE
    <3>2. address \in Nat /\ data_len \in Nat /\ SectorOf(address) <= address /\ SectorOf(address) \in Nat
      <4>1. address \in Nat /\ data_len \in Nat
        BY <1>1, Sizes DEF FlashInv, CallInv, Unsigned
      <4>. QED  BY <1>2, <4>1, SectorBase
    <3>3. ASSUME NEW b \in Address PROVE chip'[b] = Wanted[b]
      <4>1. chip'[b] = Rewritten(page_num + 1, b)
        BY <1>8, <2>1
      <4>2. CASE InSector(b, address)
        BY <1>2, <3>1, <3>2, <4>1, <4>2 DEF Rewritten, InSector, SectorAt
      <4>3. CASE ~InSector(b, address)
        <5>1. b \notin address .. address + data_len - 1
          BY <1>2, <1>8, <2>1, <3>2, <4>3 DEF InSector, SectorAt, Address
        <5>. QED  BY <4>1, <4>3, <5>1 DEF Rewritten, Wanted
      <4>. QED  BY <4>2, <4>3
    <3>. QED  BY <1>6, <3>3 DEF Wanted
  <2>2. CASE accross_sector_flag
    <3>1. /\ pc' = "across" /\ page_num' = 0 /\ cmd' = LowByte(a)
          /\ UNCHANGED <<argVars, _address, _data_len, _data_ptr, _programmed_len, current_sector_num>>
      BY <1>10, <2>2 DEF Rewrite, partVars
    <3>2. TypeOK'
      <4>1. page_num' \in 0 .. PAGE_NUM - 1
        BY <1>2, <3>1
      <4>2. pc' \in Steps
        BY <3>1 DEF Steps
      <4>. QED  BY <1>1, <1>6, <1>7, <3>1, <4>1, <4>2 DEF FlashInv, TypeOK
    <3>3. CallInv'
      BY <1>1, <3>1 DEF FlashInv, CallInv, argVars
    <3>4. BlankInv'
      BY <1>1, <1>6, <3>1 DEF BlankInv
    <3>5. PlainInv'
      <4>1. /\ (Plain' <=> Plain) /\ Wanted' = Wanted
            /\ address' = address /\ data_len' = data_len /\ before' = before
        BY <3>1, SameCall DEF argVars
      <4>. QED  BY <1>1, <1>6, <1>8, <2>1, <2>2, <3>1, <4>1 DEF PlainInv, SectorOf
    <3>. QED  BY <1>1, <1>6, <3>1, <3>2, <3>3, <3>4, <3>5 DEF FlashInv
  <2>3. CASE ~accross_sector_flag
    <3>1. pc' = "idle" /\ Returned
      BY <1>10, <2>3 DEF Rewrite
    <3>. QED  BY <1>1, <1>4, <1>6, <2>1, <3>1, ReturnKeeps DEF FlashInv, TypeOK
  <2>. QED  BY <2>2, <2>3
<1>. QED  BY <1>9, <1>10

LEMMA AccrossSectorKeeps ==
  ASSUME FlashInv, AccrossSector
  PROVE  FlashInv' /\ chip' = chip /\ (Plain => chip' = Wanted /\ pc' = "idle")
<1>. DEFINE top        == (current_sector_num + 1) * SECTOR_SIZE
            programmed == (top - address) % UINT
            remaining  == (data_len - programmed) % UINT
<1>1. /\ pc = "across" /\ accross_sector_flag' = FALSE
      /\ UNCHANGED <<chip, busy, need_erase>>
      /\ IF programmed = data_len
           THEN pc' = "idle" /\ Returned
           ELSE /\ pc' = "loop"
                /\ _programmed_len' = programmed
                /\ _data_ptr' = programmed
                /\ _address' = top % UINT
                /\ _data_len' = IF remaining < SECTOR_SIZE THEN remaining ELSE SECTOR_SIZE
                /\ UNCHANGED <<address, data_len, data, before, current_sector_num,
                               page_num, flash_buffer, cmd>>
  BY DEF AccrossSector, argVars, loopVars
<1>2. /\ CHIP_SIZE \in Nat /\ CHIP_SIZE > 0 /\ SECTOR_SIZE \in Nat /\ SECTOR_SIZE <= CHIP_SIZE
      /\ UINT = 4 * CHIP_SIZE
  BY Sizes
<1>3. /\ address \in Nat /\ data_len \in Nat /\ current_sector_num \in Nat
  BY <1>1, <1>2 DEF FlashInv, CallInv, Unsigned
<1>4. top \in Nat
  BY <1>2, <1>3
<1>5. programmed \in 0 .. UINT - 1 /\ top % UINT \in 0 .. UINT - 1
  <2>1. top - address \in Int /\ UINT \in Nat /\ UINT > 0
    BY <1>2, <1>3, <1>4
  <2>. HIDE DEF top
  <2>. QED  BY <1>4, <2>1, DivisionAndRest
<1>6. remaining \in 0 .. UINT - 1
  <2>1. data_len - programmed \in Int /\ UINT \in Nat /\ UINT > 0
    BY <1>2, <1>3, <1>5
  <2>. HIDE DEF programmed
  <2>. QED  BY <2>1, DivisionAndRest
<1>7. (top % UINT) % PAGE_LEN = 0
  <2>1. current_sector_num + 1 \in Nat
    BY <1>3
  <2>. QED  BY <2>1, PageAligned
<1>8. ASSUME Plain PROVE programmed = data_len /\ chip = Wanted
  <2>1. top = address + data_len /\ chip = Wanted
    BY <1>1, <1>8, Zenon DEF FlashInv, PlainInv
  <2>. HIDE DEF top
  <2>2. data_len <= CHIP_SIZE
    BY <1>2, <1>3, <1>8 DEF Plain, FitsTheChip
  <2>3. top - address = data_len /\ data_len % UINT = data_len
    BY <1>2, <1>3, <2>1, <2>2
  <2>. QED  BY <2>1, <2>3
<1>. HIDE DEF top, programmed, remaining
<1>9. need_erase = FALSE /\ chip \in [Address -> Content] /\ busy \in BOOLEAN
  BY <1>1 DEF FlashInv, CallInv, TypeOK
<1>10. PlainInv'
  <2>1. CASE programmed = data_len
    BY <1>1, <2>1 DEF PlainInv
  <2>2. CASE programmed # data_len
    <3>1. Plain' <=> Plain
      BY <1>1, <2>2, SameCall DEF argVars
    <3>. QED  BY <1>8, <2>2, <3>1 DEF PlainInv
  <2>. QED  BY <2>1, <2>2
<1>11. TypeOK' /\ CallInv' /\ BlankInv'
  <2>1. CASE programmed = data_len
    <3>1. TypeOK'
      <4>1. /\ _address' \in Unsigned /\ _data_len' \in Unsigned
            /\ _data_ptr' \in Unsigned /\ _programmed_len' \in Unsigned
            /\ page_num' \in 0 .. PAGE_NUM - 1 /\ cmd' = PAGE_PROGRAM_CMD
        BY <1>1, <1>2, <2>1, Sizes DEF Returned, Unsigned
      <4>2. pc' \in Steps /\ accross_sector_flag' \in BOOLEAN
        BY <1>1, <2>1 DEF Steps
      <4>. QED  BY <1>1, <4>1, <4>2 DEF FlashInv, TypeOK
    <3>2. CallInv' /\ BlankInv'
      BY <1>1, <1>9, <2>1 DEF Returned, FlashInv, CallInv, BlankInv
    <3>. QED  BY <3>1, <3>2
  <2>2. CASE programmed # data_len
    <3>1. TypeOK'
      <4>1. /\ _address' \in Unsigned /\ _data_len' \in Unsigned
            /\ _data_ptr' \in Unsigned /\ _programmed_len' \in Unsigned
        BY <1>1, <1>2, <1>5, <1>6, <2>2 DEF Unsigned
      <4>2. pc' \in Steps /\ accross_sector_flag' \in BOOLEAN
        BY <1>1, <2>2 DEF Steps
      <4>. QED  BY <1>1, <2>2, <4>1, <4>2 DEF FlashInv, TypeOK
    <3>2. CallInv'
      BY <1>1, <1>7, <1>9, <2>2 DEF FlashInv, CallInv
    <3>3. BlankInv'
      BY <1>1, <2>2 DEF FlashInv, BlankInv
    <3>. QED  BY <3>1, <3>2, <3>3
  <2>. QED  BY <2>1, <2>2
<1>12. Plain => chip' = Wanted /\ pc' = "idle"
  BY <1>1, <1>8
<1>. QED  BY <1>1, <1>10, <1>11, <1>12 DEF FlashInv

-----------------------------------------------------------------------------
(* The other commands, and the power *)

LEMMA SectorEraseKeeps ==
  ASSUME FlashInv, NEW a \in Address, by25q64as_sector_erase(a)
  PROVE  FlashInv' /\ ChangesErased
<1>1. /\ pc = "idle" /\ EraseSector(a)
      /\ UNCHANGED <<need_erase, accross_sector_flag, pc, argVars, _address, _data_len, _data_ptr,
                     _programmed_len, current_sector_num, page_num, flash_buffer, cmd>>
  BY DEF by25q64as_sector_erase, partVars, loopVars
<1>2. a \in Nat
  BY Sizes DEF Address
<1>3. chip' \in [Address -> Content] /\ busy' = FALSE /\ ChangesErased
  BY <1>1, <1>2, SectorErased
<1>4. TypeOK'
  BY <1>1, <1>3 DEF FlashInv, TypeOK
<1>5. CallInv' /\ BlankInv' /\ PlainInv'
  BY <1>1, <1>3 DEF FlashInv, CallInv, BlankInv, PlainInv
<1>. QED  BY <1>3, <1>4, <1>5 DEF FlashInv

LEMMA ChipEraseKeeps ==
  ASSUME FlashInv, by25q64as_chip_erase
  PROVE  FlashInv' /\ ChangesErased
<1>1. /\ pc = "idle" /\ chip' = [a \in Address |-> Erased] /\ busy' = TRUE
      /\ UNCHANGED <<need_erase, accross_sector_flag, pc, argVars, _address, _data_len, _data_ptr,
                     _programmed_len, current_sector_num, page_num, flash_buffer, cmd>>
  BY DEF by25q64as_chip_erase, partVars, loopVars
<1>2. chip' \in [Address -> Content] /\ Blank(chip', Address) /\ ChangesErased
  <2>1. \A a \in Address : a % CHIP_SIZE \in Address
    BY OnTheChip, Sizes DEF Address
  <2>. QED  BY <1>1, <2>1 DEF Content, Blank, ChangesErased
<1>3. TypeOK'
  BY <1>1, <1>2 DEF FlashInv, TypeOK
<1>4. CallInv' /\ BlankInv' /\ PlainInv'
  BY <1>1, <1>2 DEF FlashInv, CallInv, BlankInv, PlainInv
<1>. QED  BY <1>2, <1>3, <1>4 DEF FlashInv

LEMMA SameButBusy ==
  ASSUME FlashInv, busy' \in BOOLEAN, busy' => busy,
         UNCHANGED <<chip, need_erase, accross_sector_flag, pc, argVars, partVars, loopVars>>
  PROVE  FlashInv'
<1>1. UNCHANGED <<chip, need_erase, accross_sector_flag, pc, address, data_len, data, before,
                  _address, _data_len, _data_ptr, _programmed_len, current_sector_num,
                  page_num, flash_buffer, cmd>>
  BY DEF argVars, partVars, loopVars
<1>2. TypeOK'
  BY <1>1 DEF FlashInv, TypeOK
<1>3. CallInv'
  BY <1>1 DEF FlashInv, CallInv
<1>4. BlankInv'
  BY <1>1 DEF FlashInv, BlankInv, PageOf, PagesFrom, SectorOf
<1>5. PlainInv'
  <2>1. (Plain' <=> Plain) /\ Wanted' = Wanted /\ \A n, a : (Rewritten(n, a))' = Rewritten(n, a)
    BY SameCall
  <2>. QED  BY <1>1, <2>1 DEF FlashInv, PlainInv, Rewritten, SectorOf, Wanted, InSector, SectorAt
<1>. QED  BY <1>2, <1>3, <1>4, <1>5 DEF FlashInv

LEMMA PowerLossKeeps ==
  ASSUME FlashInv, PowerLoss
  PROVE  FlashInv'
<1>1. chip \in [Address -> Content]
  BY DEF FlashInv, TypeOK
<1>. QED  BY <1>1, ReturnKeeps DEF PowerLoss

-----------------------------------------------------------------------------
(* The theorems *)

LEMMA DriverStepKeeps ==
  ASSUME FlashInv, DriverStep
  PROVE  FlashInv' /\ ChangesErased /\ (pc' = "idle" /\ Plain => chip' = Wanted)
<1>1. ASSUME chip' = chip PROVE ChangesErased
  BY <1>1 DEF ChangesErased
<1>2. CASE SinglePage
  <2>1. pc' # "idle" /\ chip' = chip
    BY <1>2 DEF SinglePage
  <2>. QED  BY <1>1, <1>2, <2>1, SinglePageKeeps
<1>3. CASE SeveralPages
  <2>1. pc' # "idle" /\ chip' = chip
    BY <1>3 DEF SeveralPages
  <2>. QED  BY <1>1, <1>3, <2>1, SeveralPagesKeeps
<1>4. CASE ProgramPage
  BY <1>4, ProgramPageKeeps
<1>5. CASE ProgramPages
  BY <1>5, ProgramPagesKeeps
<1>6. CASE Erase
  BY <1>6, EraseKeeps
<1>7. CASE Rewrite
  BY <1>7, RewriteKeeps
<1>8. CASE AccrossSector
  BY <1>1, <1>8, AccrossSectorKeeps
<1>. QED  BY <1>2, <1>3, <1>4, <1>5, <1>6, <1>7, <1>8 DEF DriverStep

\* Every step of the driver, of its callers and of the chip.
LEMMA FlashNext ==
  ASSUME FlashInv, [Next]_flashVars
  PROVE  FlashInv' /\ ChangesErased
<1>1. ASSUME chip' = chip PROVE ChangesErased
  BY <1>1 DEF ChangesErased
<1>2. CASE DriverStep
  BY <1>2, DriverStepKeeps
<1>3. ASSUME NEW a \in Unsigned, NEW d \in Data, NEW len \in Lengths, Call(a, d, len)
      PROVE  FlashInv' /\ ChangesErased
  <2>1. chip' = chip
    BY <1>3 DEF Call
  <2>. QED  BY <1>1, <1>3, <2>1, CallKeeps
<1>4. ASSUME NEW a \in Address, by25q64as_sector_erase(a)
      PROVE  FlashInv' /\ ChangesErased
  BY <1>4, SectorEraseKeeps
<1>5. CASE by25q64as_chip_erase
  BY <1>5, ChipEraseKeeps
<1>6. CASE EraseEnds
  BY <1>1, <1>6, SameButBusy DEF EraseEnds
<1>7. CASE PowerLoss
  <2>1. chip' = chip
    BY <1>7 DEF PowerLoss
  <2>. QED  BY <1>1, <1>7, <2>1, PowerLossKeeps
<1>8. CASE UNCHANGED flashVars
  <2>1. /\ chip' = chip /\ busy' = busy
        /\ UNCHANGED <<chip, need_erase, accross_sector_flag, pc, argVars, partVars, loopVars>>
    BY <1>8 DEF flashVars
  <2>2. busy' \in BOOLEAN /\ (busy' => busy)
    BY <2>1 DEF FlashInv, TypeOK
  <2>. QED  BY <1>1, <2>1, <2>2, SameButBusy
<1>. QED  BY <1>2, <1>3, <1>4, <1>5, <1>6, <1>7, <1>8 DEF Next

\* The invariant holds for every size of the chip and whatever is written,
\* erased or lost in between (by25q64as_read_write and the erases, flash.c).
THEOREM FlashInvariant == Spec => []FlashInv
<1>1. FlashInv /\ [Next]_flashVars => FlashInv'
  BY FlashNext
<1>. QED  BY FlashInit, <1>1, PTL DEF Spec

\* Power lost at any moment of a plain call costs no more than the sector that
\* by25q64as_read_write is rewriting (flash.c:292-333), whatever lengths the
\* wrapping check of flash.c:179 has let in before.
THEOREM DamageIsConfined == Spec => []FlashConsistent
<1>1. FlashInv => FlashConsistent
  <2>. SUFFICES ASSUME FlashInv PROVE TypeOK /\ DamageConfined
    BY DEF FlashConsistent
  <2>1. TypeOK
    BY DEF FlashInv
  <2>2. ASSUME pc # "idle", Plain, NEW a \in Address
        PROVE  \/ chip[a] \in {before.chip[a], Wanted[a]}
               \/ pc = "rewrite" /\ InSector(a, address)
    <3>1. CASE pc \in {"loop", "page", "erase"}
      BY <2>2, <3>1 DEF FlashInv, PlainInv
    <3>2. CASE pc = "rewrite"
      <4>1. chip[a] = Rewritten(page_num, a)
        BY <2>2, <3>2 DEF FlashInv, PlainInv
      <4>. QED  BY <3>2, <4>1 DEF Rewritten
    <3>3. CASE pc = "across"
      BY <2>2, <3>3 DEF FlashInv, PlainInv
    <3>4. pc # "pages"
      BY <2>2 DEF FlashInv, PlainInv
    <3>. QED  BY <2>1, <2>2, <3>1, <3>2, <3>3, <3>4 DEF TypeOK, Steps
  <2>. QED  BY <2>1, <2>2 DEF DamageConfined
<1>. QED  BY FlashInvariant, <1>1, PTL

\* When a plain call returns the chip holds the data, and all it held before
\* everywhere else: the rest of the rewritten sector comes back from
\* flash_buffer (flash.c:292-333).
THEOREM PlainCallsStore == Spec => StoredExactly
<1>1. FlashInv /\ [Next]_flashVars
        => [pc # "idle" /\ pc' = "idle" /\ DriverStep /\ Plain => chip' = Wanted]_flashVars
  BY DriverStepKeeps
<1>. QED  BY FlashInvariant, <1>1, PTL DEF Spec, StoredExactly

\* No byte is programmed that was not erased before, whatever flags earlier
\* calls have left and however the calls go on across sectors (flash.c:208-333).
THEOREM OnlyErasedIsProgrammed == Spec => ProgramsErased
<1>1. FlashInv /\ [Next]_flashVars
        => [\A a \in Address : chip'[a] # chip[a] => chip[a] = Erased \/ chip'[a] = Erased]_flashVars
  BY FlashNext DEF ChangesErased
<1>. QED  BY FlashInvariant, <1>1, PTL DEF Spec, ProgramsErased
=============================================================================
