------------------------------- MODULE Flash -------------------------------
(***************************************************************************)
(* The driver of the BY25Q64AS serial flash, drivers/flash/flash.c, and    *)
(* the chip behind it.  One task, the command line's, calls the driver; a  *)
(* step is one command the chip carries out, with the computation that     *)
(* leads up to it.  Between two of them the power may fail.                *)
(*                                                                         *)
(* The chip erases a sector to all ones and programs a page by clearing    *)
(* bits; while it is busy it ignores every command but the status read.    *)
(***************************************************************************)
EXTENDS Integers, FiniteSets, TLC

CONSTANTS
  PAGE_LEN,    \* bytes of a page
  PAGE_NUM,    \* pages of a sector
  Sectors,     \* sectors of the chip
  Byte,        \* the values of a byte that is not erased
  Mixed,       \* what is left of a byte programmed twice
  Data,        \* bound: the contents of the callers' buffers, a set of functions on Nat
  Lengths      \* bound: the values of data_len

SECTOR_SIZE == PAGE_LEN * PAGE_NUM
CHIP_SIZE   == SECTOR_SIZE * Sectors
Address     == 0 .. CHIP_SIZE - 1
Erased      == 255
Content     == Byte \cup {Mixed, Erased}
UINT        == 4 * CHIP_SIZE   \* number of values of unsigned int: 2^32 in the build
Unsigned    == 0 .. UINT - 1

\* To a call the data is what lies in memory behind the pointer, as far as the
\* length it is given says.
ASSUME FlashAssumption ==
  /\ PAGE_LEN \in Nat \ {0} /\ PAGE_NUM \in Nat \ {0} /\ Sectors \in Nat \ {0}
  /\ Mixed \notin Byte /\ Erased \notin Byte \cup {Mixed}
  /\ Lengths \subseteq Unsigned
  /\ \A d \in Data : \A i \in Unsigned : d[i] \in Byte \cup {Erased}

VARIABLES
  chip,                  \* what the flash holds
  busy,                  \* the chip carries out an erase nobody waited for
  need_erase, accross_sector_flag,   \* static, so that they outlive a call
  pc,                    \* where the driver is: see Steps
  address, data_len, data,           \* the arguments of the call
  _address, _data_len,   \* the part of the data now being written
  _data_ptr,             \* index in data
  _programmed_len, current_sector_num,
  page_num,              \* the page programmed next
  cmd,                   \* the byte last sent with PAGE_PROGRAM, or its command
  flash_buffer,
  before                 \* history: the chip and its state at the call

\* "idle": no call; "loop": the head of while(1); "page": program one empty
\* page; "pages": the empty rest of a sector; "erase": read and erase a sector;
\* "rewrite": program it page by page; "across": go on to the next sector.
Steps == {"idle", "loop", "page", "pages", "erase", "rewrite", "across"}

argVars  == <<address, data_len, data, before>>
partVars == <<_address, _data_len, _data_ptr, _programmed_len, current_sector_num>>
loopVars == <<page_num, flash_buffer, cmd>>
flashVars == <<chip, busy, need_erase, accross_sector_flag, pc, argVars, partVars, loopVars>>

PAGE_PROGRAM_CMD == 2

NoCall == [chip |-> <<>>, busy |-> FALSE, across |-> FALSE]

\* Locals of a call that has ended.
Returned ==
  /\ address' = 0 /\ data_len' = 0 /\ data' = <<>>
  /\ before' = NoCall
  /\ _address' = 0 /\ _data_len' = 0 /\ _data_ptr' = 0 /\ _programmed_len' = 0
  /\ current_sector_num' = 0
  /\ page_num' = 0 /\ flash_buffer' = <<>>
  /\ cmd' = PAGE_PROGRAM_CMD

Init ==
  /\ chip = [a \in Address |-> Erased] /\ busy = FALSE
  /\ need_erase = FALSE /\ accross_sector_flag = FALSE
  /\ pc = "idle"
  /\ address = 0 /\ data_len = 0 /\ data = <<>> /\ before = NoCall
  /\ _address = 0 /\ _data_len = 0 /\ _data_ptr = 0 /\ _programmed_len = 0
  /\ current_sector_num = 0 /\ page_num = 0 /\ flash_buffer = <<>>
  /\ cmd = PAGE_PROGRAM_CMD

-----------------------------------------------------------------------------
(* The chip *)

\* The chip ignores the address bits it has no memory for.
OnChip(range) == {a % CHIP_SIZE : a \in range}

\* Programming can only clear bits.
And(old, new) == CASE old = Erased -> new
                   [] new = Erased \/ old = new -> old
                   [] OTHER -> Mixed

\* PAGE_PROGRAM of the bytes new at a, then WAIT_WIP: a busy chip ignores it.
Program(a, len, new) ==
  LET at == a % CHIP_SIZE IN
  /\ chip' = IF busy THEN chip
              ELSE [b \in Address |-> IF b \in at .. at + len - 1 THEN And(chip[b], new[b - at])
                                                                  ELSE chip[b]]
  /\ busy' = FALSE

\* What PAGE_PROGRAM leaves in cmd: the last byte of the address it has sent.
LowByte(a) == a % PAGE_LEN

SectorOf(a) == a - (a % SECTOR_SIZE)
SectorAt(a) == SectorOf(a) .. SectorOf(a) + SECTOR_SIZE - 1
InSector(b, a) == b \in SectorAt(a)

\* Mutant: the erase command of another size.
EraseBlock(a) ==
  /\ chip' = IF busy THEN chip ELSE [b \in Address |-> Erased]
  /\ busy' = FALSE

\* SECTOR_ERASE, then WAIT_WIP.
EraseSector(a) ==
  /\ chip' = IF busy THEN chip
             ELSE [b \in Address |-> IF b \in OnChip(SectorAt(a)) THEN Erased ELSE chip[b]]
  /\ busy' = FALSE

\* by25q64as_read_data: nobody drives the line while the chip is busy.
Reads(range) == IF busy THEN [range -> {Erased, Mixed}]
                        ELSE {[a \in range |-> chip[a % CHIP_SIZE]]}

\* Byte i of the caller's buffer; past its end lies whatever the memory holds.
Source(junk, i) == IF i \in 0 .. data_len - 1 THEN data[i] ELSE junk

-----------------------------------------------------------------------------
(* by25q64as_read_write *)

\* The checks of the arguments pass; the others return -1 and change nothing.
\* The sum is an unsigned int: a length near UINT wraps it and passes.
Call(a, d, len) ==
  /\ pc = "idle"
  /\ a % PAGE_LEN = 0 /\ (a + len) % UINT <= CHIP_SIZE
  /\ pc' = "loop"
  /\ address' = a /\ data_len' = len /\ data' = d
  /\ before' = [chip |-> chip, busy |-> busy, across |-> accross_sector_flag]
  /\ _address' = a /\ _data_len' = len
  /\ UNCHANGED <<chip, busy, need_erase, accross_sector_flag, _data_ptr, _programmed_len,
                 current_sector_num, loopVars>>

PageOf(a) == a .. a + PAGE_LEN - 1
RestOfSector(a) == {b \in SectorAt(a) : b >= a}

\* Mutant: the check for a blank page is skipped.
LooksEmpty(bytes) == TRUE
Empty(bytes) == \A a \in DOMAIN bytes : bytes[a] = Erased

\* Single page: program it, or erase the sector when the page is not empty.
SinglePage ==
  /\ pc = "loop" /\ _data_len <= PAGE_LEN
  /\ \E bytes \in Reads(PageOf(_address)) :
       /\ need_erase' = (need_erase \/ ~Empty(bytes))
       /\ pc' = IF need_erase' THEN "erase" ELSE "page"
  /\ UNCHANGED <<chip, busy, accross_sector_flag, argVars, partVars, loopVars>>

\* Several pages: the same for the rest of the sector; the call goes on to the
\* next sector if its end does not lie in this one.
SeveralPages ==
  /\ pc = "loop" /\ _data_len > PAGE_LEN
  /\ \E bytes \in Reads(RestOfSector(_address)) :
       /\ need_erase' = (need_erase \/ ~Empty(bytes))
       /\ pc' = IF need_erase' THEN "erase" ELSE "pages"
       /\ page_num' = IF need_erase' THEN page_num
                                     ELSE (_address % SECTOR_SIZE) \div PAGE_LEN
  /\ _data_ptr' = IF need_erase' THEN _data_ptr ELSE 0
  /\ LET across == SectorOf(_address) # SectorOf((_address + data_len - _programmed_len) % UINT)
     IN  /\ accross_sector_flag' = (accross_sector_flag \/ across)
         /\ current_sector_num' = IF across THEN _address \div SECTOR_SIZE ELSE current_sector_num
  /\ UNCHANGED <<chip, busy, argVars, _address, _data_len, _programmed_len, flash_buffer,
                 cmd>>

\* Pages of the sector are left after this one.
MorePages == page_num + 1 < PAGE_NUM

\* The command is set before the loop only: in a second round cmd holds what
\* the page programmed last has left there, and the chip ignores that command.
ProgramPage ==
  /\ pc = "page"
  /\ IF cmd = PAGE_PROGRAM_CMD
       THEN \E junk \in Byte \cup {Erased} :
              Program(_address, _data_len, [i \in 0 .. PAGE_LEN - 1 |-> Source(junk, _data_ptr + i)])
       ELSE UNCHANGED chip /\ busy' = FALSE
  /\ pc' = "idle"
  /\ Returned
  /\ UNCHANGED <<need_erase, accross_sector_flag>>

\* Whole pages up to the end of the sector, however long the data is; then the
\* call returns, even if it was to go on to the next sector.
ProgramPages ==
  /\ pc = "pages"
  /\ \E junk \in Byte \cup {Erased} :
       Program(SectorOf(_address) + page_num * PAGE_LEN, PAGE_LEN,
               [i \in 0 .. PAGE_LEN - 1 |-> Source(junk, _data_ptr + i)])
  /\ IF MorePages
       THEN /\ page_num' = page_num + 1
            /\ _data_ptr' = _data_ptr + PAGE_LEN
            /\ cmd' = LowByte(SectorOf(_address) + page_num * PAGE_LEN)
            /\ UNCHANGED <<pc, argVars, _address, _data_len, _programmed_len, current_sector_num,
                           flash_buffer>>
       ELSE pc' = "idle" /\ Returned
  /\ UNCHANGED <<need_erase, accross_sector_flag>>

\* Where the bytes of the data go in the sector; the end wraps as well.
CopiedTo(a, len) ==
  {i \in 0 .. SECTOR_SIZE - 1 : i >= a % SECTOR_SIZE /\ i < ((a % SECTOR_SIZE) + len) % UINT}

\* Mutant: the rest of the sector is not kept.
KeepsNothing(bytes, a, len, junk) ==
  [i \in 0 .. SECTOR_SIZE - 1 |->
     IF i \in CopiedTo(a, len)
       THEN Source(junk, i - (a % SECTOR_SIZE)) ELSE Erased]
\* The sector with the data put in; the data is taken from its beginning.
Overlaid(bytes, a, len, junk) ==
  [i \in 0 .. SECTOR_SIZE - 1 |->
     IF i \in CopiedTo(a, len)
       THEN Source(junk, i - (a % SECTOR_SIZE)) ELSE bytes[SectorOf(a) + i]]

Erase ==
  /\ pc = "erase"
  /\ need_erase' = FALSE
  /\ \E junk \in Byte \cup {Erased}, bytes \in Reads(SectorAt(_address)) :
       flash_buffer' = Overlaid(bytes, _address, _data_len, junk)
  /\ EraseSector(_address)
  /\ pc' = "rewrite" /\ page_num' = 0
  /\ UNCHANGED <<accross_sector_flag, argVars, partVars, cmd>>

Rewrite ==
  /\ pc = "rewrite"
  /\ Program(SectorOf(_address) + page_num * PAGE_LEN, PAGE_LEN,
             [i \in 0 .. PAGE_LEN - 1 |-> flash_buffer[page_num * PAGE_LEN + i]])
  /\ IF MorePages
       THEN /\ page_num' = page_num + 1
            /\ cmd' = LowByte(SectorOf(_address) + page_num * PAGE_LEN)
            /\ UNCHANGED <<pc, argVars, partVars, flash_buffer>>
       ELSE IF accross_sector_flag
              THEN /\ pc' = "across"
                   /\ page_num' = 0 /\ flash_buffer' = <<>>
                   /\ cmd' = LowByte(SectorOf(_address) + page_num * PAGE_LEN)
                   /\ UNCHANGED <<argVars, partVars>>
              ELSE pc' = "idle" /\ Returned
  /\ UNCHANGED <<need_erase, accross_sector_flag>>

\* The tail of the loop.  A flag left over from an earlier call brings a call
\* here that has nothing more to write.
AccrossSector ==
  LET programmed == ((current_sector_num + 1) * SECTOR_SIZE - address) % UINT
      remaining == (data_len - programmed) % UINT
  IN  /\ pc = "across"
      /\ accross_sector_flag' = FALSE
      /\ IF programmed = data_len
           THEN pc' = "idle" /\ Returned
           ELSE /\ pc' = "loop"
                /\ _programmed_len' = programmed
                /\ _data_ptr' = programmed
                /\ _address' = ((current_sector_num + 1) * SECTOR_SIZE) % UINT
                /\ _data_len' = IF remaining < SECTOR_SIZE THEN remaining ELSE SECTOR_SIZE
                /\ UNCHANGED <<argVars, current_sector_num, loopVars>>
      /\ UNCHANGED <<chip, busy, need_erase>>

-----------------------------------------------------------------------------
(* The other commands, and the power *)

by25q64as_sector_erase(a) ==
  /\ pc = "idle"
  /\ EraseSector(a)
  /\ UNCHANGED <<need_erase, accross_sector_flag, pc, argVars, partVars, loopVars>>

\* It returns without waiting for the chip.
by25q64as_chip_erase ==
  /\ pc = "idle"
  /\ chip' = [a \in Address |-> Erased] /\ busy' = TRUE
  /\ UNCHANGED <<need_erase, accross_sector_flag, pc, argVars, partVars, loopVars>>

EraseEnds ==
  /\ busy
  /\ busy' = FALSE
  /\ UNCHANGED <<chip, need_erase, accross_sector_flag, pc, argVars, partVars, loopVars>>

\* The chip keeps what it holds, the driver starts anew.
PowerLoss ==
  /\ pc # "idle"
  /\ need_erase' = FALSE /\ accross_sector_flag' = FALSE /\ busy' = FALSE
  /\ pc' = "idle"
  /\ Returned
  /\ UNCHANGED chip

DriverStep == \/ SinglePage \/ SeveralPages \/ ProgramPage \/ ProgramPages
              \/ Erase \/ Rewrite \/ AccrossSector

Next == \/ DriverStep
        \/ \E a \in Unsigned, d \in Data, len \in Lengths : Call(a, d, len)
        \/ \E a \in Address : a = SectorOf(a) /\ by25q64as_sector_erase(a)
        \/ by25q64as_chip_erase \/ EraseEnds \/ PowerLoss

Spec == Init /\ [][Next]_flashVars

-----------------------------------------------------------------------------
TypeOK ==
  /\ chip \in [Address -> Content] /\ busy \in BOOLEAN
  /\ need_erase \in BOOLEAN /\ accross_sector_flag \in BOOLEAN
  /\ pc \in Steps
  /\ _address \in Unsigned /\ _data_len \in Unsigned
  /\ _data_ptr \in Unsigned /\ _programmed_len \in Unsigned
  /\ page_num \in 0 .. PAGE_NUM - 1 /\ cmd \in (0 .. PAGE_LEN - 1) \cup {PAGE_PROGRAM_CMD}

\* What the chip should hold after the call.
Wanted == [a \in Address |-> IF a \in address .. address + data_len - 1
                               THEN data[a - address] ELSE before.chip[a]]

\* The chip has all the bytes the call is for.
FitsTheChip == address \in Address /\ address + data_len <= CHIP_SIZE

\* A call that fits the chip, and a page of it or a sector that needs an erase,
\* made with no erase under way and no flag left over from an earlier call.
Plain ==
  /\ FitsTheChip /\ ~before.busy /\ ~before.across
  /\ \/ data_len <= PAGE_LEN
     \/ /\ InSector(address, address + data_len - 1)
        /\ \E a \in RestOfSector(address) : before.chip[a] # Erased

\* When such a call returns the chip holds the data, and what it held before
\* everywhere else, in the sector that was erased and rewritten as well.
StoredExactly ==
  [][pc # "idle" /\ pc' = "idle" /\ DriverStep /\ Plain => chip' = Wanted]_flashVars

\* Power lost at any moment of such a call costs no more than the one sector
\* that is being rewritten, and nothing but the bytes of the call when the
\* page was empty.
DamageConfined ==
  pc # "idle" /\ Plain =>
    \A a \in Address :
      \/ chip[a] \in {before.chip[a], Wanted[a]}
      \/ pc = "rewrite" /\ InSector(a, address)

\* The same, with the types: addresses, lengths and pointers are any unsigned
\* numbers, for the checks of the arguments bound none of them.
FlashConsistent == TypeOK /\ DamageConfined

\* Whatever the calls, no byte is ever programmed that was not erased before,
\* unless it keeps its value.
ProgramsErased ==
  [][\A a \in Address : chip'[a] # chip[a] => chip[a] = Erased \/ chip'[a] = Erased]_flashVars

\* flash.c, by25q64as_read_write: "Write data to flash and support for
\* multi-page programming", "return int 0:success".  When the call returns,
\* with no power lost, the chip holds its data.
SuccessMeansStored ==
  [][pc # "idle" /\ pc' = "idle" /\ DriverStep /\ ~before.busy /\ FitsTheChip =>
       \A a \in address .. address + data_len - 1 : chip'[a] = data[a - address]]_flashVars

\* The same, of a call whose first sector had to be erased and which goes on
\* to the next: what belongs there is stored there.
NextSectorStored ==
  [][pc # "idle" /\ pc' = "idle" /\ DriverStep /\ ~before.busy /\ ~before.across
       /\ FitsTheChip /\ (\E a \in RestOfSector(address) : before.chip[a] # Erased)
     => \A a \in address .. address + data_len - 1 :
          ~InSector(a, address) => chip'[a] = data[a - address]]_flashVars

\* flash.c, by25q64as_read_write: "address flash address will be programmed",
\* "data_len data length".  A call that ends within the sector it begins in
\* leaves the others alone.
OtherSectorsKept ==
  [][DriverStep /\ ~before.busy /\ FitsTheChip /\ InSector(address, address + data_len - 1)
     => \A a \in Address : ~InSector(a, address) => chip'[a] = chip[a]]_flashVars

\* flash.c, by25q64as_read_write: "length detection", and what it prints when
\* it returns -1, "The data length is too long!".  A call for more bytes than
\* there are from its address to the end of the chip changes nothing.
TooLongRefused ==
  [][DriverStep /\ address + data_len > CHIP_SIZE => UNCHANGED chip]_flashVars
=============================================================================
