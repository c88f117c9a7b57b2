------------------------------ MODULE SpiFlash ------------------------------
(***************************************************************************)
(* The SPI flash driver: spi_flash_probe, spi_flash_read, spi_flash_write  *)
(* and spi_flash_erase (include/spi_flash.h, drivers/mtd/spi/spi_flash.c)  *)
(* over the two chip families of the board (stmicro.c, spansion.c), and    *)
(* the chip itself (external), which goes on with an erase or a page       *)
(* program by itself after the command and ignores every other command     *)
(* than a status read meanwhile.                                           *)
(*                                                                         *)
(* spi_xfer (drivers/spi/m2s_spi.c) runs a whole transaction at its        *)
(* SPI_XFER_END call and can only fail when no divider is slow enough for  *)
(* the chip, which is fixed by the configuration: a transaction is one     *)
(* step and does not fail.                                                 *)
(***************************************************************************)
EXTENDS Integers, FiniteSetsExt

CONSTANTS
  PageSize,     \* cells of a page
  SectorSize,   \* cells of a sector
  SmallSector,  \* cells of a sector of the first region of a Spansion chip
  SmallEnd,     \* end of that region
  FlashSize,    \* cells of the chip
  AddrSpace,    \* 2^24: three address bytes
  MaxXfer,      \* CONFIG_SPI_MAX_XF_LEN
  Drivers,      \* subset of {"stmicro", "spansion"}
  MaxTimeouts,  \* bound on the waits that are given up
  Erased,       \* content of an erased cell
  Garbage       \* content nobody wrote

ASSUME GeometryAssumption ==
  /\ {PageSize, SectorSize, SmallSector, MaxXfer} \subseteq Nat \ {0}
  /\ {SmallEnd, FlashSize, AddrSpace, MaxTimeouts} \subseteq Nat
  /\ SectorSize % PageSize = 0 /\ SmallSector % PageSize = 0
  /\ SmallEnd % SectorSize = 0 /\ SectorSize % SmallSector = 0
  /\ FlashSize % SectorSize = 0 /\ AddrSpace % SectorSize = 0
  /\ SmallEnd <= AddrSpace /\ AddrSpace <= FlashSize
  /\ Drivers \subseteq {"stmicro", "spansion"}
  /\ Erased # Garbage

Addr == 0..(FlashSize - 1)
NoCall == [op |-> "none"]
Nothing == [a \in {} |-> Garbage]

VARIABLES
  driver,       \* the family spi_flash_probe found
  flash,        \* contents of the chip
  pend,         \* what the running erase or program will have written
  call,         \* the spi_flash_* call in progress
  rv,           \* result of the last one
  buf,          \* what spi_flash_read has read so far
  timeouts      \* waits given up so far

chip    == <<driver, flash, pend>>
spiVars == <<chip, call, rv, buf, timeouts>>

\* The status register's write-in-progress bit.
WIP == DOMAIN pend # {}

\* Bits only go from one to zero: programming combines old and new content.
Program(old, new) ==
  CASE old = Erased            -> new
    [] new \in {Erased, old}   -> old
    [] OTHER                   -> Garbage

SpiInit ==
  /\ driver \in Drivers /\ pend = Nothing
  /\ call = NoCall /\ rv = 0 /\ buf = << >> /\ timeouts = 0

------------------------------------------------------------------------------
(* The chip (external).                                                     *)

Settled == [a \in Addr |-> IF a \in DOMAIN pend THEN pend[a] ELSE flash[a]]

\* The running operation comes to its end.
ChipDone ==
  /\ WIP /\ flash' = Settled /\ pend' = Nothing
  /\ UNCHANGED <<driver, call, rv, buf, timeouts>>

\* Power goes away: the running operation is done up to some cell, the other
\* cells are as before or hold anything.
ChipPowerLoss ==
  /\ pend' = Nothing
  /\ \E cut \in DOMAIN pend \cup {FlashSize}, bad \in BOOLEAN :
       flash' = [a \in Addr |->
                   CASE a \notin DOMAIN pend -> flash[a]
                     [] a \in DOMAIN pend /\ a < cut -> pend[a]
                     [] OTHER -> IF bad THEN Garbage ELSE flash[a]]

\* An erase or program command: ignored while another one runs.
ChipStart(new) == pend' = IF WIP THEN pend ELSE new

------------------------------------------------------------------------------
(* The driver.                                                              *)

Align(a, size) == a - (a % size)
AlignUp(a, size) == Align(a + size - 1, size)

\* spansion_sec_size: 0 for an address behind the end of the chip.
sec_size(a) ==
  IF driver = "stmicro" THEN SectorSize
  ELSE IF a < SmallEnd THEN SmallSector
  ELSE IF a < FlashSize THEN SectorSize ELSE 0

\* (offset + len + sector_size - 1) & ~(sector_size - 1), which is 0 in 32 bits
\* when sector_size is 0.
erase_end(off, len) ==
  LET size == sec_size(off + len) IN IF size = 0 THEN 0 ELSE AlignUp(off + len, size)

\* What the chip makes of the three address bytes of a command.
Wire(a) == a % AddrSpace

Return(r) == call' = NoCall /\ rv' = r

\* spi_flash_erase: stmicro_erase, spansion_erase.
spi_flash_erase(off, len) ==
  call' = [op |-> "erase", pos |-> Align(off, sec_size(off)),
           end |-> erase_end(off, len), wait |-> FALSE]

\* Write enable and sector erase, for at least one sector.
EraseSector ==
  /\ call.op = "erase" /\ ~call.wait
  /\ LET a == Align(Wire(call.pos), sec_size(Wire(call.pos)))
     IN  ChipStart([c \in a..(a + sec_size(a) - 1) |-> Erased])
  /\ call' = [call EXCEPT !.wait = TRUE]
  /\ UNCHANGED <<driver, flash, rv, buf, timeouts>>

\* Mutant: the loop does not move on.
EraseReadyMutant ==
  /\ call.op = "erase" /\ call.wait /\ ~WIP
  /\ IF call.pos + sec_size(call.pos) < call.end
     THEN call' = [call EXCEPT !.wait = FALSE] /\ UNCHANGED rv
     ELSE Return(0)
  /\ UNCHANGED <<chip, buf, timeouts>>

\* wait_ready returns 0, the loop goes on.
EraseReady ==
  /\ call.op = "erase" /\ call.wait /\ ~WIP
  /\ LET next == call.pos + sec_size(call.pos) IN
       IF next < call.end
       THEN call' = [call EXCEPT !.pos = next, !.wait = FALSE] /\ UNCHANGED rv
       ELSE Return(0)
  /\ UNCHANGED <<chip, buf, timeouts>>

\* spi_flash_write: transfers of at most MaxXfer cells.  at is the address
\* page_addr and byte_addr stand for, actual counts the cells of the transfer.
spi_flash_write(off, data, len) ==
  call' = [op |-> "write", data |-> data, adr |-> off, len |-> len, pos |-> 0,
           sz |-> Min({len, MaxXfer}), at |-> off, actual |-> 0, wait |-> FALSE]

\* Mutant: the room left in the first page is not taken into account.
chunk_len_Mutant == Min({call.sz - call.actual, PageSize})

chunk_len == Min({call.sz - call.actual, PageSize - (call.at % PageSize)})

\* Write enable and page program; inside a page the chip's address wraps.
WritePage ==
  /\ call.op = "write" /\ ~call.wait /\ call.actual < call.sz
  /\ LET page == Align(Wire(call.at), PageSize)
         src(c) == call.pos + call.actual + ((c - call.at) % PageSize)
         cells == {page + ((call.at + k) % PageSize) : k \in 0..(chunk_len - 1)}
     IN  ChipStart([c \in cells |-> Program(flash[c], call.data[src(c)])])
  /\ call' = [call EXCEPT !.wait = TRUE]
  /\ UNCHANGED <<driver, flash, rv, buf, timeouts>>

\* wait_ready returns 0: page_addr++, byte_addr = 0.
WriteReady ==
  /\ call.op = "write" /\ call.wait /\ ~WIP
  /\ call' = [call EXCEPT !.actual = @ + chunk_len, !.wait = FALSE,
                          !.at = (@ \div PageSize + 1) * PageSize]
  /\ UNCHANGED <<chip, rv, buf, timeouts>>

\* The transfer is complete: the next one, or the end.
WriteTransfer ==
  /\ call.op = "write" /\ ~call.wait /\ call.actual >= call.sz
  /\ LET len == call.len - call.sz IN
       IF len = 0 THEN Return(0)
       ELSE /\ call' = [call EXCEPT !.len = len, !.pos = @ + call.sz, !.adr = @ + call.sz,
                                    !.sz = Min({len, MaxXfer}), !.actual = 0,
                                    !.at = call.adr + call.sz]
            /\ UNCHANGED rv
  /\ UNCHANGED <<chip, buf, timeouts>>

\* Mutant: a wait that ran out of time is taken for success.
GiveUpMutant ==
  /\ call.op \in {"erase", "write"} /\ call.wait /\ WIP /\ timeouts < MaxTimeouts
  /\ timeouts' = timeouts + 1
  /\ Return(0)
  /\ UNCHANGED <<chip, buf>>

\* wait_ready runs out of time: the call ends, the chip goes on.
GiveUp ==
  /\ call.op \in {"erase", "write"} /\ call.wait /\ WIP /\ timeouts < MaxTimeouts
  /\ timeouts' = timeouts + 1
  /\ Return(-1)
  /\ UNCHANGED <<chip, buf>>

\* spi_flash_read; the caller takes the data out of buf.
spi_flash_read(off, len) ==
  call' = [op |-> "read", adr |-> off, len |-> len] /\ buf' = << >>

\* Mutant: the next transfer reads from the same address.
ReadTransferMutant ==
  /\ call.op = "read"
  /\ LET sz == Min({call.len, MaxXfer})
         have == Cardinality(DOMAIN buf)
     IN  /\ buf' = [i \in 0..(have + sz - 1) |->
                      IF i < have THEN buf[i]
                      ELSE IF WIP THEN Garbage
                      ELSE flash[(Wire(call.adr) + (i - have)) % FlashSize]]
         /\ IF call.len = sz THEN Return(0)
            ELSE call' = [call EXCEPT !.len = @ - sz] /\ UNCHANGED rv
  /\ UNCHANGED <<chip, timeouts>>

\* read_fast, a transfer at a time; a busy chip does not answer.
ReadTransfer ==
  /\ call.op = "read"
  /\ LET sz == Min({call.len, MaxXfer})
         have == Cardinality(DOMAIN buf)
     IN  /\ buf' = [i \in 0..(have + sz - 1) |->
                      IF i < have THEN buf[i]
                      ELSE IF WIP THEN Garbage
                      ELSE flash[(Wire(call.adr) + (i - have)) % FlashSize]]
         /\ IF call.len = sz THEN Return(0)
            ELSE call' = [call EXCEPT !.adr = @ + sz, !.len = @ - sz] /\ UNCHANGED rv
  /\ UNCHANGED <<chip, timeouts>>

\* spi_flash_probe finds the chip unless it is busy, when the identification
\* command is ignored and the code read back is that of no manufacturer.
spi_flash_probe == ~WIP

DriverStep ==
  EraseSector \/ EraseReady \/ WritePage \/ WriteReady \/ WriteTransfer \/ GiveUp
    \/ ReadTransfer
==============================================================================
