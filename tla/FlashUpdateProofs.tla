------------------------- MODULE FlashUpdateProofs -------------------------
(***************************************************************************)
(* Proofs about FlashUpdate, for any chip geometry and layout of whole     *)
(* sectors, any number of commands, time-outs, resets and power losses.    *)
(*                                                                         *)
(* The first part keeps every erase and program command inside the area    *)
(* its command named, also when the chip goes on after the command was     *)
(* given up (OnlyAskedArea, LoadExact).  The second follows the cells from *)
(* the first erased sector to the last programmed page (UpdateExact), the  *)
(* third the environments the flash may hold (EnvSurvives, BootsSavedEnv). *)
(***************************************************************************)
EXTENDS FlashUpdate, SpiFlashProofs

------------------------------------------------------------------------------
(* The invariant: who may change what.                                      *)

Saving   == pc \in {"save erase", "save write"}
Updating == pc \in {"tftp", "test", "probe", "erase", "erased", "write", "written"}

\* The area the running command works on, and how much of it.
Now    == IF Saving THEN "env" ELSE target
Amount == IF Saving THEN EnvSize ELSE spisize

From(p) == IF p = "env" THEN EnvOffset ELSE offset(p)
Size(p) == IF p = "env" THEN EnvSize ELSE partsize(p)

Types ==
  /\ DriverType /\ DOMAIN flash = Addr /\ rv \in {0, -1}
  /\ pc \in {"start", "relocate", "prompt", "save erase", "save write", "tftp", "test",
             "probe", "erase", "erased", "write", "written", "boot probe", "boot read"}
  /\ env \in Environments /\ crc \in BOOLEAN
  /\ env_flash \in BOOLEAN /\ sf_flash \in BOOLEAN /\ ok \in BOOLEAN
  /\ DOMAIN ram = 0..(RamSize - 1) /\ target \in Parts /\ spisize \in 0..RamSize
  /\ asked \subseteq Parts \cup {"env"} /\ DOMAIN installed = Parts

\* Nothing is relied upon in the area.
Free(q, certain, files) == IF q = "env" THEN ~certain ELSE files[q] = NoFile

Pending ==
  DOMAIN pend = {} \/ \E q \in asked : DOMAIN pend \subseteq Area(q) /\ Free(q, sure, installed)

Asking == Saving \/ Updating => Now \in asked /\ Free(Now, sure, installed)

Sizes ==
  /\ pc \in {"probe", "erase", "erased", "write", "written"} => spisize <= partsize(target)
  /\ pc \in {"erased", "written"} => spisize > 0
  /\ pc \in {"boot probe", "boot read"} => spisize = partsize(target)

------------------------------------------------------------------------------
(* The invariant: the call in progress.                                     *)

EraseCall(c, lo, hi) ==
  /\ DOMAIN c = {"op", "pos", "end", "wait"}
  /\ c.pos \in lo..(hi - 1) /\ c.end \in Int /\ c.end <= hi /\ c.wait \in BOOLEAN

WriteCall(c, lo, n) ==
  /\ DOMAIN c = {"op", "data", "adr", "len", "pos", "sz", "at", "actual", "wait"}
  /\ c.len \in Nat /\ c.pos \in Nat /\ c.sz \in 1..c.len /\ c.actual \in 0..c.sz
  /\ c.at \in Nat /\ c.wait \in BOOLEAN
  /\ c.adr = lo + c.pos /\ c.pos + c.len = n
  /\ c.actual < c.sz => c.at = c.adr + c.actual
  /\ c.wait => c.actual < c.sz

ReadCall(c, lo, n, have) ==
  /\ DOMAIN c = {"op", "adr", "len"} /\ c.len \in Nat \ {0}
  /\ \E k \in Nat : DOMAIN have = 0..(k - 1) /\ c.adr = lo + k /\ k + c.len = n

Calls ==
  \/ call = NoCall
  \/ call.op = "erase" /\ pc \in {"save erase", "erased"}
     /\ EraseCall(call, From(Now), From(Now) + Size(Now)) /\ OnSector(call.pos)
  \/ call.op = "write" /\ pc \in {"save write", "written"} /\ WriteCall(call, From(Now), Amount)
  \/ call.op = "read" /\ pc = "relocate" /\ ReadCall(call, EnvOffset, EnvSize, buf)
  \/ call.op = "read" /\ pc = "boot read" /\ ReadCall(call, offset(target), spisize, buf)

\* The last wait of a call that succeeded found the chip ready.
Ready ==
  /\ call.op = "write" /\ ~call.wait /\ call.actual > 0 => DOMAIN pend = {}
  /\ pc \in {"save write", "written"} /\ Idle /\ rv = 0 => DOMAIN pend = {}

Source(i) == IF Saving THEN EnvCell(env, crc, i) ELSE ram[i]

Data == call.op = "write" => \A i \in 0..(Amount - 1) : call.data[i] = Source(i)

\* What was read so far is what the flash holds.
Read(lo, f, have) == \A i \in DOMAIN have : have[i] = f[lo + i]

Reading ==
  /\ pc = "relocate" => DOMAIN pend = {} /\ Read(EnvOffset, flash, buf)
  /\ pc = "relocate" /\ Idle => DOMAIN buf = 0..(EnvSize - 1)
  /\ pc = "boot read" /\ ok => DOMAIN pend = {} /\ Read(offset(target), flash, buf)
  /\ pc = "boot read" /\ Idle => DOMAIN buf = 0..(spisize - 1)

\* A cell that passes for the first one of an environment holds one of S.
Known(c, S) == c \notin {Erased, Garbage} => \A e : c = EnvCell(e, TRUE, 0) => e \in S

AreKnown(S, f, pd) ==
  \A a \in Area("env") : Known(f[a], S) /\ (a \in DOMAIN pd => Known(pd[a], S))

EnvCells(S) == AreKnown(S, flash, pend)

BoardInv ==
  /\ Types /\ Pending /\ Asking /\ Sizes /\ Calls /\ Ready /\ Data /\ Reading
  /\ EnvCells(Environments)

------------------------------------------------------------------------------
(* The invariant: the cells.                                                *)

\* What the cell holds when the chip is ready.
Content(a, f, pd) == IF a \in DOMAIN pd THEN pd[a] ELSE f[a]

\* The chip was ready when the command began, every command of the script has
\* succeeded so far, and spansion_erase does not fall short at the chip's end.
Clean ==
  /\ IF Saving THEN ~busySave ELSE ok
  /\ ~(driver = "spansion" /\ From(Now) + Amount = FlashSize)

Image ==
  pc \in {"test", "probe", "erase", "erased", "write", "written"} /\ ok
    => spisize > 0 /\ \A i \in 0..(spisize - 1) : ram[i] = ImgCell(<<target, spisize>>, i)

Erasing ==
  call.op = "erase" /\ Clean
    => /\ ~call.wait => DOMAIN pend = {}
       /\ From(Now) + Amount <= call.end
       /\ \A a \in From(Now)..(call.pos + (IF call.wait THEN sec_size(call.pos) ELSE 0) - 1) :
            Content(a, flash, pend) = Erased

Blank ==
  /\ pc = "erase" /\ ok => DOMAIN pend = {}
  /\ Clean /\ (pc = "write" \/ (pc \in {"save erase", "erased"} /\ Idle /\ rv = 0))
       => /\ DOMAIN pend = {}
          /\ \A i \in 0..(Amount - 1) : flash[From(Now) + i] = Erased

Writing ==
  call.op = "write" /\ Clean
    => /\ ~call.wait => DOMAIN pend = {}
       /\ \A i \in 0..(Amount - 1) :
            Content(From(Now) + i, flash, pend) =
              IF i < call.pos + call.actual + (IF call.wait THEN chunk_len ELSE 0)
              THEN Source(i) ELSE Erased

Finished ==
  pc \in {"save write", "written"} /\ Idle /\ rv = 0 /\ Clean
    => DOMAIN pend = {} /\ \A i \in 0..(Amount - 1) : flash[From(Now) + i] = Source(i)

\* An installed file fits its partition.
Fits == \A p \in Parts : installed[p] # NoFile => installed[p][2] \in 0..partsize(p)

CellInv == Image /\ Erasing /\ Blank /\ Writing /\ Finished /\ Fits /\ UpdateExact

\* The environments that may be found in the flash.
Saved ==
  /\ Saving => env \in inFlash
  /\ inFlash \subseteq Environments /\ inFlash # {} /\ EnvCells(inFlash)

EnvInv == Saved /\ EnvSurvives

\* The environment is not the last area of the chip.
EnvInside == EnvOffset + EnvSize < FlashSize

------------------------------------------------------------------------------
(* The layout.                                                              *)

Areas == Parts \cup {"env"}

LEMMA Numbers ==
  /\ RamSize \in Nat /\ RamSize >= 2
  /\ \A p \in Areas : From(p) \in Nat /\ Size(p) \in Nat
  /\ \A p \in Parts : offset(p) \in Nat /\ partsize(p) \in Nat /\ partsize(p) <= RamSize
  /\ EnvOffset \in Nat /\ EnvSize \in Nat
  /\ FileSizes \subseteq 0..RamSize /\ Partial \subseteq 0..RamSize
BY LayoutAssumption DEF Areas, Parts, From, Size, offset, partsize

LEMMA AreaIs ==
  ASSUME NEW p \in Areas
  PROVE  Area(p) = From(p)..(From(p) + Size(p) - 1)
BY DEF Area, From, Size

LEMMA MinInterval ==
  ASSUME NEW a \in Int, NEW b \in Int, a <= b
  PROVE  Min(a..b) = a
<1>1. a \in a..b /\ \A y \in a..b : a <= y
  OBVIOUS
<1>2. \A x \in a..b : (\A y \in a..b : x <= y) => x = a
  BY <1>1
<1> QED BY <1>1, <1>2 DEF Min

\* Every area consists of whole sectors.
LEMMA Layout ==
  ASSUME NEW p \in Areas
  PROVE  /\ Whole(From(p), From(p) + Size(p)) /\ Size(p) > 0
         /\ Area(p) = From(p)..(From(p) + Size(p) - 1) /\ Area(p) \subseteq Addr
<1> DEFINE lo == From(p)
           n == Size(p)
<1>1. /\ Area(p) # {} /\ Area(p) \subseteq 0..(AddrSpace - 1)
      /\ Min(Area(p)) % SectorSize = 0 /\ Cardinality(Area(p)) % SectorSize = 0
  BY LayoutAssumption DEF Areas
<1>2. Area(p) = lo..(lo + n - 1) /\ lo \in Nat /\ n \in Nat
  BY AreaIs, Numbers
<1> HIDE DEF lo, n
<1>3. n > 0
  BY <1>1, <1>2
<1>4. Min(Area(p)) = lo
  BY <1>2, <1>3, MinInterval
<1>5. Cardinality(Area(p)) = n
  <2>1. lo \in Int /\ lo + n - 1 \in Int /\ ~(lo > lo + n - 1) /\ (lo + n - 1) - lo + 1 = n
    BY <1>2, <1>3
  <2> QED BY <1>2, <2>1, FS_Interval
<1>6. Multiple(lo, SectorSize) /\ Multiple(n, SectorSize)
  BY <1>1, <1>2, <1>4, <1>5, Geometry, ModMultiple
<1>7. Multiple(lo + n, SectorSize)
  BY <1>2, <1>6, Geometry, MultipleSum
<1>8. lo + n <= AddrSpace
  <2>1. lo + n - 1 \in 0..(AddrSpace - 1)
    BY <1>1, <1>2, <1>3
  <2> QED BY <1>2, <2>1, Geometry
<1>9. Area(p) \subseteq Addr
  BY <1>1, Geometry DEF Addr
<1> QED BY <1>2, <1>3, <1>6, <1>7, <1>8, <1>9 DEF Whole, lo, n

LEMMA Disjoint ==
  ASSUME NEW p \in Areas, NEW q \in Areas, p # q
  PROVE  Area(p) \cap Area(q) = {}
BY LayoutAssumption DEF Areas

LEMMA Bounds ==
  ASSUME NEW p \in Areas
  PROVE  /\ From(p) \in Nat /\ Size(p) \in Nat \ {0} /\ From(p) + Size(p) <= AddrSpace
         /\ AddrSpace <= FlashSize /\ AddrSpace \in Nat /\ FlashSize \in Nat
BY Layout, Numbers, Geometry DEF Whole

------------------------------------------------------------------------------
(* Types.                                                                   *)

LEMMA DefaultIsEnv == default_environment \in Environments /\ FirstEnv \in Environments
BY Numbers DEF default_environment, Environments, Unset, FirstEnv

\* What the start takes for an environment is one, whole, in the flash.
LEMMA Relocated ==
  ASSUME BoardInv, RelocateCrc
  PROVE  \/ env' = default_environment
         \/ /\ env' \in Environments /\ EnvWhole(env')
            /\ flash[EnvOffset] \notin {Erased, Garbage}
            /\ flash[EnvOffset] = EnvCell(env', TRUE, 0) /\ EnvOffset \in Area("env")
<1>1. /\ Read(EnvOffset, flash, buf) /\ DOMAIN buf = 0..(EnvSize - 1)
  BY DEF BoardInv, Reading, RelocateCrc
<1>2. EnvOffset \in Nat /\ EnvSize \in Nat \ {0} /\ EnvOffset \in Area("env")
  BY Bounds, AreaIs DEF Areas, From, Size
<1> SUFFICES ASSUME env' # default_environment
             PROVE  /\ env' \in Environments /\ EnvWhole(env')
                    /\ flash[EnvOffset] \notin {Erased, Garbage}
                    /\ flash[EnvOffset] = EnvCell(env', TRUE, 0)
  BY <1>2
<1>3. buf[0] \notin {Erased, Garbage} /\ \A i \in DOMAIN buf : buf[i] = EnvCell(env', TRUE, i)
  BY DEF RelocateCrc, set_default_env
<1>4. \A i \in 0..(EnvSize - 1) : flash[EnvOffset + i] = EnvCell(env', TRUE, i)
  BY <1>1, <1>3 DEF Read
<1>5. 0 \in 0..(EnvSize - 1) /\ EnvOffset + 0 = EnvOffset
  BY <1>2
<1>6. flash[EnvOffset] = buf[0] /\ flash[EnvOffset] = EnvCell(env', TRUE, 0)
  BY <1>1, <1>4, <1>5 DEF Read
<1>7. env' \in Environments
  <2>1. Known(flash[EnvOffset], Environments)
    BY <1>2 DEF BoardInv, EnvCells, AreKnown
  <2>2. flash[EnvOffset] \notin {Erased, Garbage}
    BY <1>3, <1>6
  <2> QED BY <1>6, <2>1, <2>2 DEF Known
<1> QED BY <1>3, <1>4, <1>6, <1>7 DEF EnvWhole

LEMMA EnvType ==
  ASSUME BoardInv, Next
  PROVE  env' \in Environments
<1>0. env \in Environments
  BY DEF BoardInv, Types
<1>1. CASE RelocateCrc
  BY <1>1, Relocated, DefaultIsEnv
<1>2. CASE SetEnv \/ SetEnvOverflow
  BY <1>0, <1>2 DEF SetEnv, SetEnvOverflow, Environments, Unset
<1>3. CASE Netload
  <2>1. PICK n \in FileSizes : env' = [env EXCEPT !.filesize = IF n > 0 THEN n ELSE @] \/ env' = env
    BY <1>3 DEF Netload
  <2>2. n \in 0..RamSize
    BY Numbers
  <2> QED BY <1>0, <2>1, <2>2 DEF Environments
<1>4. CASE RelocateProbe \/ PowerLoss \/ CpuReset
  BY <1>0, <1>4, DefaultIsEnv DEF RelocateProbe, PowerLoss, CpuReset, Restart, set_default_env
<1>5. CASE UNCHANGED env
  BY <1>0, <1>5
<1> QED BY <1>1, <1>2, <1>3, <1>4, <1>5
        DEF Next, Board, Chip, Script, User, envVars, SaveErased, SaveWritten, SizeTest, SfProbe,
            SfErase, SfErased, SfWrite, SfWritten, SfRead, SfReadDone, SaveEnv, Update, FlashBoot

LEMMA FlashKept ==
  ASSUME BoardInv, Next
  PROVE  \/ UNCHANGED flash
         \/ Chip /\ flash' = Settled
         \/ PowerLoss /\ DOMAIN flash' = Addr /\ \A a \in Addr : a \notin DOMAIN pend => flash'[a] = flash[a]
<1>1. Board => UNCHANGED flash
  BY DEF Board, DriverStep, EraseSector, EraseReady, WritePage, WriteReady, WriteTransfer, GiveUp,
         ReadTransfer, chip
<1>2. Script => UNCHANGED flash
  BY DEF Script, RelocateProbe, RelocateCrc, SaveErased, SaveWritten, Netload, SizeTest, SfProbe,
         SfErase, SfErased, SfWrite, SfWritten, SfRead, SfReadDone, chip, spiVars
<1>3. User => UNCHANGED flash
  BY DEF User, SetEnv, SetEnvOverflow, SaveEnv, Update, FlashBoot, chip, spiVars
<1>4. PowerLoss => DOMAIN flash' = Addr /\ \A a \in Addr : a \notin DOMAIN pend => flash'[a] = flash[a]
  BY DEF PowerLoss, ChipPowerLoss
<1> QED BY <1>1, <1>2, <1>3, <1>4 DEF Next, Chip, ChipDone, CpuReset

\* The chip stays the one that it is.
LEMMA DriverKept == Next => UNCHANGED driver
BY DEF Next, Board, DriverStep, EraseSector, EraseReady, WritePage, WriteReady, WriteTransfer, GiveUp,
       ReadTransfer, chip, Chip, ChipDone,
       Script, RelocateProbe, RelocateCrc, SaveErased, SaveWritten, Netload, SizeTest, SfProbe,
       SfErase, SfErased, SfWrite, SfWritten, SfRead, SfReadDone, spiVars,
       User, SetEnv, SetEnvOverflow, SaveEnv, Update, FlashBoot, PowerLoss, CpuReset, Restart

\* The rest of the chip and of the control state.
LEMMA TypesStep == BoardInv /\ Next => Types'
<1> SUFFICES ASSUME BoardInv, Next PROVE Types'
  OBVIOUS
<1>0. Types
  BY DEF BoardInv
<1>1. env' \in Environments
  BY EnvType
<1>2. DOMAIN flash' = Addr
  BY <1>0, FlashKept DEF Types, Settled
<1>3. UNCHANGED driver
  BY DriverKept
<1> USE DEF Types
<1>4. CASE Board \/ Chip
  <2>1. UNCHANGED <<pc, crc, env_flash, sf_flash, ok, ram, target, spisize, asked, installed>>
    BY <1>4 DEF Board, Chip, scriptVars, envVars
  <2>2. rv' \in {0, -1}
    BY <1>0, <1>4 DEF Board, DriverStep, EraseSector, EraseReady, WritePage, WriteReady, WriteTransfer,
       GiveUp, ReadTransfer, Return, Chip, ChipDone
  <2> QED BY <1>0, <1>1, <1>2, <1>3, <2>1, <2>2 DEF DriverType
<1>5. CASE PowerLoss \/ CpuReset
  <2>1. /\ pc' = "start" /\ rv' = 0 /\ crc' = TRUE /\ env_flash' = FALSE /\ sf_flash' = FALSE
        /\ spisize' = 0 /\ ok' = FALSE /\ UNCHANGED <<target, installed>>
    BY <1>5 DEF PowerLoss, CpuReset, Restart, Unset
  <2>2. DOMAIN ram' = 0..(RamSize - 1) /\ asked' \subseteq Parts \cup {"env"}
    BY <1>0, <1>5 DEF PowerLoss, CpuReset
  <2>3. spisize' \in 0..RamSize
    BY <2>1, Numbers
  <2>4. crc' \in BOOLEAN /\ env_flash' \in BOOLEAN /\ sf_flash' \in BOOLEAN /\ ok' \in BOOLEAN
    BY <2>1
  <2> QED BY <1>0, <1>1, <1>2, <1>3, <2>1, <2>2, <2>3, <2>4 DEF DriverType
<1>6. CASE User
  <2>1. UNCHANGED <<rv, env_flash, sf_flash, ram>> /\ crc' \in BOOLEAN
    BY <1>0, <1>6 DEF User, SetEnv, SetEnvOverflow, SaveEnv, Update, FlashBoot, scriptVars, spiVars, envVars
  <2>2. pc' \in {"prompt", "save erase", "tftp", "boot probe"} /\ ok' \in BOOLEAN /\ target' \in Parts
    BY <1>0, <1>6 DEF User, SetEnv, SetEnvOverflow, SaveEnv, Update, FlashBoot, scriptVars
  <2>3. spisize' \in 0..RamSize
    <3>1. spisize' = spisize \/ \E p \in Parts : spisize' = partsize(p)
      BY <1>6 DEF User, SetEnv, SetEnvOverflow, SaveEnv, Update, FlashBoot, scriptVars
    <3>2. \A p \in Parts : partsize(p) \in 0..RamSize
      BY Numbers
    <3> QED BY <1>0, <3>1, <3>2
  <2>4. asked' \subseteq Parts \cup {"env"}
    BY <1>0, <1>6 DEF User, SetEnv, SetEnvOverflow, SaveEnv, Update, FlashBoot, Ask
  <2>5. DOMAIN installed' = Parts
    BY <1>0, <1>6 DEF User, SetEnv, SetEnvOverflow, SaveEnv, Update, FlashBoot, scriptVars
  <2> QED BY <1>0, <1>1, <1>2, <1>3, <2>1, <2>2, <2>3, <2>4, <2>5 DEF DriverType
<1>7. CASE Script
  <2>1. UNCHANGED <<rv, asked, target>>
    BY <1>7 DEF Script, RelocateProbe, RelocateCrc, SaveErased, SaveWritten, Netload, SizeTest, SfProbe,
         SfErase, SfErased, SfWrite, SfWritten, SfRead, SfReadDone, spiVars, scriptVars
  <2>2. pc' \in {"start", "relocate", "prompt", "save erase", "save write", "tftp", "test",
             "probe", "erase", "erased", "write", "written", "boot probe", "boot read"}
    BY <1>7 DEF Script, RelocateProbe, RelocateCrc, SaveErased, SaveWritten, Netload, SizeTest, SfProbe,
         SfErase, SfErased, SfWrite, SfWritten, SfRead, SfReadDone
  <2>3. crc' \in BOOLEAN /\ env_flash' \in BOOLEAN
    BY <1>0, <1>7 DEF Script, RelocateProbe, RelocateCrc, SaveErased, SaveWritten, Netload, SizeTest, SfProbe,
         SfErase, SfErased, SfWrite, SfWritten, SfRead, SfReadDone, envVars, set_default_env, spi_flash_probe
  <2>4. sf_flash' \in BOOLEAN
    BY <1>0, <1>7 DEF Script, RelocateProbe, RelocateCrc, SaveErased, SaveWritten, Netload, SizeTest, SfProbe,
         SfErase, SfErased, SfWrite, SfWritten, SfRead, SfReadDone, spi_flash_probe
  <2>5. ok' \in BOOLEAN
    <3>1. ASSUME Netload PROVE ok' \in BOOLEAN
      <4>1. PICK n \in FileSizes : ok' = (n > 0) \/ ok' = FALSE
        BY <3>1 DEF Netload
      <4>2. n \in Int
        BY Numbers
      <4>3. (n > 0) \in BOOLEAN
        BY <4>2
      <4> QED BY <4>1, <4>3
    <3> QED BY <1>0, <1>7, <3>1 DEF Script, RelocateProbe, RelocateCrc, SaveErased, SaveWritten, SizeTest,
         SfProbe, SfErase, SfErased, SfWrite, SfWritten, SfRead, SfReadDone, spi_flash_probe, scriptVars
  <2>6. DOMAIN ram' = 0..(RamSize - 1)
    BY <1>0, <1>7 DEF Script, RelocateProbe, RelocateCrc, SaveErased, SaveWritten, Netload, SizeTest, SfProbe,
         SfErase, SfErased, SfWrite, SfWritten, SfRead, SfReadDone, scriptVars, Loaded
  <2>7. spisize' \in 0..RamSize
    BY <1>0, <1>1, <1>7 DEF Script, RelocateProbe, RelocateCrc, SaveErased, SaveWritten, Netload, SizeTest, SfProbe,
         SfErase, SfErased, SfWrite, SfWritten, SfRead, SfReadDone, scriptVars, Environments
  <2>8. DOMAIN installed' = Parts
    BY <1>0, <1>7 DEF Script, RelocateProbe, RelocateCrc, SaveErased, SaveWritten, Netload, SizeTest, SfProbe,
         SfErase, SfErased, SfWrite, SfWritten, SfRead, SfReadDone, scriptVars
  <2> QED BY <1>0, <1>1, <1>2, <1>3, <2>1, <2>2, <2>3, <2>4, <2>5, <2>6, <2>7, <2>8 DEF DriverType
<1> QED BY <1>4, <1>5, <1>6, <1>7 DEF Next

------------------------------------------------------------------------------
(* Commands and the areas they may change.                                  *)

LEMMA NoCallAt ==
  ASSUME BoardInv, pc \notin {"save erase", "erased", "save write", "written", "relocate", "boot read"}
  PROVE  call = NoCall
BY DEF BoardInv, Calls

LEMMA AskingStep == BoardInv /\ Next => Asking'
<1> SUFFICES ASSUME BoardInv, Next PROVE Asking'
  OBVIOUS
<1>0. Asking /\ Types
  BY DEF BoardInv
<1>1. CASE Board \/ Chip
  <2>1. UNCHANGED <<pc, target, asked, sure, installed>>
    BY <1>1 DEF Board, Chip, scriptVars, envVars, known
  <2> QED BY <1>0, <2>1 DEF Asking, Saving, Updating, Now
<1>2. CASE PowerLoss \/ CpuReset
  BY <1>2 DEF PowerLoss, CpuReset, Restart, Asking, Saving, Updating
<1>3. CASE SetEnv \/ SetEnvOverflow \/ \E p \in Parts : FlashBoot(p)
  BY <1>3 DEF SetEnv, SetEnvOverflow, FlashBoot, Asking, Saving, Updating
<1>4. CASE SaveEnv
  BY <1>4 DEF SaveEnv, Ask, Asking, Saving, Updating, Now, Free
<1>5. ASSUME NEW p \in Parts, Update(p) PROVE Asking'
  <2>1. pc' = "tftp" /\ target' = p /\ p \in asked' /\ installed'[p] = NoFile /\ p # "env"
    BY <1>0, <1>5 DEF Update, Ask, Types, Parts
  <2> QED BY <2>1 DEF Asking, Saving, Updating, Now, Free
<1>6. CASE RelocateProbe \/ RelocateCrc \/ SaveWritten \/ SfWritten \/ SfRead \/ SfReadDone
  BY <1>6 DEF RelocateProbe, RelocateCrc, SaveWritten, SfWritten, SfRead, SfReadDone,
              Asking, Saving, Updating
<1>7. CASE SaveErased
  <2>1. pc' \in {"save write", "prompt"} /\ pc = "save erase" /\ UNCHANGED <<target, asked, sure, installed>>
    BY <1>7 DEF SaveErased, scriptVars, envVars, known
  <2> QED BY <1>0, <2>1 DEF Asking, Saving, Updating, Now
<1>8. CASE Netload \/ SizeTest \/ SfProbe \/ SfErase \/ SfErased \/ SfWrite
  <2>1. /\ pc \in {"tftp", "test", "probe", "erase", "erased", "write"}
        /\ pc' \in {"test", "probe", "prompt", "erase", "erased", "write", "written"}
        /\ UNCHANGED <<target, asked, sure, installed>>
    BY <1>8 DEF Netload, SizeTest, SfProbe, SfErase, SfErased, SfWrite, scriptVars, envVars, known
  <2> QED BY <1>0, <2>1 DEF Asking, Saving, Updating, Now
<1> QED BY <1>1, <1>2, <1>3, <1>4, <1>5, <1>6, <1>7, <1>8 DEF Next, Script, User

LEMMA SizesStep == BoardInv /\ Next => Sizes'
<1> SUFFICES ASSUME BoardInv, Next PROVE Sizes'
  OBVIOUS
<1> USE DEF Sizes
<1>0. Sizes /\ Types
  BY DEF BoardInv
<1>1. CASE Board \/ Chip
  <2>1. UNCHANGED <<pc, target, spisize>>
    BY <1>1 DEF Board, Chip, scriptVars
  <2> QED BY <1>0, <2>1 DEF partsize
<1>2. CASE PowerLoss \/ CpuReset
  BY <1>2 DEF PowerLoss, CpuReset, Restart
<1>3. CASE SetEnv \/ SetEnvOverflow \/ SaveEnv \/ \E p \in Parts : Update(p)
  <2>1. pc' \in {"prompt", "save erase", "tftp"}
    BY <1>3 DEF SetEnv, SetEnvOverflow, SaveEnv, Update
  <2> QED BY <2>1
<1>4. ASSUME NEW p \in Parts, FlashBoot(p) PROVE Sizes'
  <2>1. pc' = "boot probe" /\ spisize' = partsize(target')
    BY <1>4 DEF FlashBoot
  <2> QED BY <2>1 DEF partsize
<1>5. CASE RelocateProbe \/ RelocateCrc \/ SaveErased \/ SaveWritten \/ Netload \/ SfWritten \/ SfReadDone
  <2>1. pc' \in {"relocate", "prompt", "save write", "test"}
    BY <1>5 DEF RelocateProbe, RelocateCrc, SaveErased, SaveWritten, Netload, SfWritten, SfReadDone
  <2> QED BY <2>1
<1>6. CASE SizeTest
  <2>1. UNCHANGED <<target, spisize>> /\ (pc' = "prompt" \/ (pc' = "probe" /\ spisize <= partsize(target)))
    BY <1>6 DEF SizeTest, scriptVars
  <2> QED BY <2>1 DEF partsize
<1>7. CASE SfProbe \/ SfErase \/ SfErased \/ SfWrite
  <2>1. /\ UNCHANGED <<target, spisize>> /\ pc \in {"probe", "erase", "erased", "write"}
        /\ pc' \in {"prompt", "erase", "erased", "write", "written"}
        /\ pc' \in {"erased", "written"} => spisize # 0
    BY <1>7 DEF SfProbe, SfErase, SfErased, SfWrite, SfRefused, Unset
  <2>2. pc' \in {"erased", "written"} => spisize > 0
    <3>1. spisize \in 0..RamSize
      BY <1>0 DEF Types
    <3> QED BY <2>1, <3>1
  <2> QED BY <1>0, <2>1, <2>2 DEF partsize
<1>8. CASE SfRead
  <2>1. UNCHANGED <<target, spisize>> /\ pc = "boot probe" /\ pc' \in {"boot read", "prompt"}
    BY <1>8 DEF SfRead
  <2> QED BY <1>0, <2>1 DEF partsize
<1> QED BY <1>1, <1>2, <1>3, <1>4, <1>5, <1>6, <1>7, <1>8 DEF Next, Script, User

------------------------------------------------------------------------------
(* The call in progress.                                                    *)

\* The area and the amount of the running command.
LEMMA Working ==
  ASSUME BoardInv, Saving \/ pc \in {"erase", "erased", "write", "written"}
  PROVE  /\ Now \in Areas /\ Now \in asked /\ Free(Now, sure, installed)
         /\ Amount \in Nat /\ Amount <= Size(Now)
         /\ pc \notin {"erase", "write"} => Amount > 0
<1>0. Types /\ Asking /\ Sizes
  BY DEF BoardInv
<1>1. Now \in Areas
  BY <1>0 DEF Now, Types, Areas
<1>2. Now \in asked /\ Free(Now, sure, installed)
  BY <1>0 DEF Asking, Updating
<1>3. CASE Saving
  <2>1. Amount = EnvSize /\ Size(Now) = EnvSize
    BY <1>3 DEF Amount, Size, Now
  <2>2. Size(Now) \in Nat \ {0}
    BY <1>1, Bounds
  <2> QED BY <1>1, <1>2, <2>1, <2>2
<1>4. CASE ~Saving
  <2>1. Amount = spisize /\ Now = target /\ target # "env"
    BY <1>0, <1>4 DEF Amount, Now, Types, Parts
  <2>2. Size(Now) = partsize(target)
    BY <2>1 DEF Size
  <2>3. spisize \in 0..RamSize
    BY <1>0 DEF Types
  <2>4. spisize <= partsize(target) /\ (pc \notin {"erase", "write"} => spisize > 0)
    BY <1>0, <1>4 DEF Sizes
  <2> QED BY <1>1, <1>2, <2>1, <2>2, <2>3, <2>4
<1> QED BY <1>3, <1>4

LEMMA StartErase ==
  ASSUME DriverType, NEW p \in Areas, NEW n \in Nat, n > 0, n <= Size(p), spi_flash_erase(From(p), n)
  PROVE  /\ call'.op = "erase" /\ ~call'.wait
         /\ EraseCall(call', From(p), From(p) + Size(p)) /\ OnSector(call'.pos)
         /\ ~(driver = "spansion" /\ From(p) + n = FlashSize) => From(p) + n <= call'.end
         /\ call'.pos = From(p)
<1>1. /\ From(p) \in Nat /\ Size(p) \in Nat \ {0} /\ From(p) + Size(p) <= AddrSpace /\ AddrSpace \in Nat
  BY Bounds
<1>2. Whole(From(p), From(p) + Size(p))
  BY Layout
<1> DEFINE pos == Align(From(p), sec_size(From(p)))
           end == erase_end(From(p), n)
<1>3. call' = [op |-> "erase", pos |-> pos, end |-> end, wait |-> FALSE]
  BY DEF spi_flash_erase
<1>4. From(p) < AddrSpace
  BY <1>1
<1>5. pos \in Nat /\ OnSector(pos) /\ pos <= From(p)
  BY <1>1, <1>4, SectorStart
<1>6. From(p) <= pos /\ pos < From(p) + Size(p)
  BY <1>1, <1>2, SectorStartInside
<1>7. /\ end \in Int /\ end <= From(p) + Size(p)
      /\ ~(driver = "spansion" /\ From(p) + n = FlashSize) => From(p) + n <= end
  BY <1>1, <1>2, EraseEnd
<1> HIDE DEF pos, end
<1>8. pos = From(p)
  BY <1>1, <1>5, <1>6
<1> QED BY <1>1, <1>3, <1>5, <1>6, <1>7, <1>8 DEF EraseCall

LEMMA StartWrite ==
  ASSUME NEW lo \in Nat, NEW n \in Nat, n > 0, NEW data, spi_flash_write(lo, data, n)
  PROVE  /\ call'.op = "write" /\ ~call'.wait /\ call'.pos = 0 /\ call'.actual = 0
         /\ WriteCall(call', lo, n) /\ call'.data = data
<1>1. call' = [op |-> "write", data |-> data, adr |-> lo, len |-> n, pos |-> 0,
               sz |-> Min({n, MaxXfer}), at |-> lo, actual |-> 0, wait |-> FALSE]
  BY DEF spi_flash_write
<1>2. Min({n, MaxXfer}) \in 1..n
  <2>1. Min({n, MaxXfer}) = IF n <= MaxXfer THEN n ELSE MaxXfer
    BY MinPair, Geometry
  <2> QED BY <2>1, Geometry
<1> DEFINE m == Min({n, MaxXfer})
<1> HIDE DEF m
<1>3. m \in 1..n /\ call' = [op |-> "write", data |-> data, adr |-> lo, len |-> n, pos |-> 0,
               sz |-> m, at |-> lo, actual |-> 0, wait |-> FALSE]
  BY <1>1, <1>2 DEF m
<1> QED BY <1>3 DEF WriteCall

LEMMA StartRead ==
  ASSUME NEW lo \in Nat, NEW n \in Nat, n > 0, spi_flash_read(lo, n)
  PROVE  call'.op = "read" /\ ReadCall(call', lo, n, buf') /\ DOMAIN buf' = {}
<1>1. call' = [op |-> "read", adr |-> lo, len |-> n] /\ buf' = << >>
  BY DEF spi_flash_read
<1>2. DOMAIN buf' = {}
  BY <1>1
<1>3. DOMAIN buf' = 0..(0 - 1) /\ lo = lo + 0 /\ 0 + n = n
  BY <1>2
<1> QED BY <1>1, <1>2, <1>3 DEF ReadCall

LEMMA SectorKept ==
  ASSUME UNCHANGED driver, OnSector(call'.pos)
  PROVE  OnSector(call.pos)'
BY DEF OnSector, sec_size

LEMMA BoardKeeps ==
  ASSUME Board \/ Chip
  PROVE  /\ UNCHANGED <<pc, target, spisize, env, crc, ram, ok, asked, sure, installed, busySave, inFlash, driver>>
         /\ Now' = Now /\ Amount' = Amount /\ (Saving' <=> Saving)
<1>1. UNCHANGED <<pc, target, spisize, env, crc, ram, ok, asked, sure, installed, busySave, inFlash>>
  BY DEF Board, Chip, scriptVars, envVars, known
<1>2. UNCHANGED driver
  BY DEF Board, DriverStep, EraseSector, EraseReady, WritePage, WriteReady, WriteTransfer, GiveUp,
         ReadTransfer, chip, Chip, ChipDone
<1> QED BY <1>1, <1>2 DEF Now, Amount, Saving

\* What the invariant says of a call, by its kind.
LEMMA EraseFacts ==
  ASSUME BoardInv, call.op = "erase"
  PROVE  /\ pc \in {"save erase", "erased"} /\ EraseCall(call, From(Now), From(Now) + Size(Now))
         /\ OnSector(call.pos) /\ call.pos \in Nat /\ call.pos < AddrSpace
         /\ From(Now) \in Nat /\ From(Now) <= call.pos /\ call.pos < From(Now) + Size(Now)
         /\ sec_size(call.pos) \in Nat \ {0}
         /\ call.pos + sec_size(call.pos) <= From(Now) + Size(Now)
         /\ Now \in Areas /\ DriverType
<1>1. /\ pc \in {"save erase", "erased"} /\ EraseCall(call, From(Now), From(Now) + Size(Now))
      /\ OnSector(call.pos)
  <2>1. Calls
    BY DEF BoardInv
  <2>2. call # NoCall
    BY DEF NoCall
  <2> QED BY <2>1, <2>2 DEF Calls
<1>2. Now \in Areas /\ DriverType
  BY <1>1, Working DEF BoardInv, Types, Saving
<1>3. From(Now) \in Nat /\ Size(Now) \in Nat /\ From(Now) + Size(Now) <= AddrSpace /\ AddrSpace \in Nat
  BY <1>2, Bounds
<1>4. call.pos \in From(Now)..(From(Now) + Size(Now) - 1)
  <2> DEFINE lo == From(Now)
             hi == From(Now) + Size(Now)
  <2>1. EraseCall(call, lo, hi)
    BY <1>1
  <2> HIDE DEF lo, hi
  <2>2. call.pos \in lo..(hi - 1)
    BY <2>1 DEF EraseCall
  <2>3. hi - 1 = From(Now) + Size(Now) - 1
    BY <1>3 DEF hi
  <2> QED BY <2>2, <2>3 DEF lo
<1>5. call.pos \in Nat /\ call.pos < AddrSpace /\ From(Now) <= call.pos /\ call.pos < From(Now) + Size(Now)
  BY <1>3, <1>4
<1>6. sec_size(call.pos) \in Nat \ {0}
  BY <1>2, <1>5, SectorSizes
<1>7. call.pos + sec_size(call.pos) <= From(Now) + Size(Now)
  BY <1>1, <1>2, <1>5, Layout, SectorInside
<1> QED BY <1>1, <1>2, <1>3, <1>5, <1>6, <1>7

LEMMA WriteFacts ==
  ASSUME BoardInv, call.op = "write"
  PROVE  /\ pc \in {"save write", "written"} /\ WriteCall(call, From(Now), Amount)
         /\ Now \in Areas /\ From(Now) \in Nat /\ Amount \in Nat /\ Amount <= Size(Now)
         /\ From(Now) + Amount <= AddrSpace /\ AddrSpace \in Nat
<1>1. pc \in {"save write", "written"} /\ WriteCall(call, From(Now), Amount)
  <2>1. Calls
    BY DEF BoardInv
  <2>2. call # NoCall
    BY DEF NoCall
  <2> QED BY <2>1, <2>2 DEF Calls
<1>2. Now \in Areas /\ Amount \in Nat /\ Amount <= Size(Now)
  BY <1>1, Working DEF Saving
<1>3. From(Now) \in Nat /\ Size(Now) \in Nat /\ From(Now) + Size(Now) <= AddrSpace /\ AddrSpace \in Nat
  BY <1>2, Bounds
<1>4. From(Now) + Amount <= AddrSpace
  BY <1>2, <1>3
<1> QED BY <1>1, <1>2, <1>3, <1>4

\* The page that is programmed next.
LEMMA ChunkFacts ==
  ASSUME BoardInv, call.op = "write", call.actual < call.sz
  PROVE  /\ call.at = From(Now) + call.pos + call.actual /\ call.at \in Nat /\ call.at < AddrSpace
         /\ chunk_len \in Nat \ {0} /\ call.actual + chunk_len <= call.sz
         /\ call.pos + call.actual + chunk_len <= Amount
         /\ \/ call.actual + chunk_len = call.sz
            \/ (call.at \div PageSize + 1) * PageSize = call.at + chunk_len
<1>1. /\ call.len \in Nat /\ call.pos \in Nat /\ call.sz \in 1..call.len /\ call.actual \in 0..call.sz
      /\ call.at \in Nat /\ call.adr = From(Now) + call.pos /\ call.pos + call.len = Amount
      /\ call.at = call.adr + call.actual
  BY WriteFacts DEF WriteCall
<1>2. /\ From(Now) \in Nat /\ Amount \in Nat /\ From(Now) + Amount <= AddrSpace /\ AddrSpace \in Nat
  BY WriteFacts
<1>3. /\ chunk_len \in Nat \ {0} /\ chunk_len <= call.sz - call.actual
      /\ \/ call.actual + chunk_len = call.sz
         \/ (call.at \div PageSize + 1) * PageSize = call.at + chunk_len
  BY <1>1, Chunk
<1>4. call.actual + chunk_len <= call.sz /\ call.pos + call.actual + chunk_len <= Amount
  BY <1>1, <1>2, <1>3
<1>5. call.at = From(Now) + call.pos + call.actual /\ call.at < AddrSpace
  BY <1>1, <1>2
<1> QED BY <1>1, <1>3, <1>4, <1>5

LEMMA ReadEffect ==
  ASSUME ReadTransfer, NEW lo \in Nat, NEW n \in Nat, lo + n <= AddrSpace, ReadCall(call, lo, n, buf)
  PROVE  /\ \/ call' = NoCall /\ DOMAIN buf' = 0..(n - 1)
            \/ call'.op = "read" /\ ReadCall(call', lo, n, buf')
         /\ \A i \in DOMAIN buf' : \/ i \in DOMAIN buf /\ buf'[i] = buf[i]
                                   \/ DOMAIN pend = {} => buf'[i] = flash[lo + i]
<1>1. DOMAIN call = {"op", "adr", "len"} /\ call.len \in Nat \ {0} /\ call.op = "read"
  BY DEF ReadCall, ReadTransfer
<1>2. PICK k \in Nat : DOMAIN buf = 0..(k - 1) /\ call.adr = lo + k /\ k + call.len = n
  BY DEF ReadCall
<1> DEFINE sz == Min({call.len, MaxXfer})
           have == Cardinality(DOMAIN buf)
<1>3. sz \in Nat \ {0} /\ sz <= call.len
  <2>1. sz = IF call.len <= MaxXfer THEN call.len ELSE MaxXfer
    BY <1>1, MinPair, Geometry
  <2> QED BY <1>1, <2>1, Geometry
<1>4. have = k
  <2>1. Cardinality(0..(k - 1)) = IF 0 > k - 1 THEN 0 ELSE (k - 1) - 0 + 1
    BY FS_Interval
  <2> QED BY <1>2, <2>1
<1>5. /\ buf' = [i \in 0..(have + sz - 1) |->
                  IF i < have THEN buf[i]
                  ELSE IF WIP THEN Garbage ELSE flash[(Wire(call.adr) + (i - have)) % FlashSize]]
      /\ IF call.len = sz THEN Return(0)
         ELSE call' = [call EXCEPT !.adr = @ + sz, !.len = @ - sz] /\ UNCHANGED rv
  BY DEF ReadTransfer
<1> HIDE DEF sz, have
<1>6. /\ DOMAIN buf' = 0..(k + sz - 1)
      /\ \A i \in DOMAIN buf' :
           buf'[i] = IF i < k THEN buf[i]
                     ELSE IF WIP THEN Garbage ELSE flash[(Wire(call.adr) + (i - k)) % FlashSize]
  BY <1>4, <1>5
<1>7. \/ call' = NoCall /\ DOMAIN buf' = 0..(n - 1)
      \/ call'.op = "read" /\ ReadCall(call', lo, n, buf')
  <2>1. CASE call.len = sz
    <3>1. k + sz - 1 = n - 1
      BY <1>1, <1>2, <2>1
    <3> QED BY <1>5, <1>6, <2>1, <3>1 DEF Return
  <2>2. CASE call.len # sz
    <3>1. call' = [call EXCEPT !.adr = @ + sz, !.len = @ - sz]
      BY <1>5, <2>2
    <3>2. /\ DOMAIN call' = {"op", "adr", "len"} /\ call'.op = "read"
          /\ call'.adr = call.adr + sz /\ call'.len = call.len - sz
      BY <1>1, <3>1
    <3>3. call'.len \in Nat \ {0}
      BY <1>1, <1>3, <2>2, <3>2
    <3>4. PICK m \in Nat : m = k + sz
      BY <1>3
    <3>5. DOMAIN buf' = 0..(m - 1) /\ call'.adr = lo + m /\ m + call'.len = n
      BY <1>1, <1>2, <1>3, <1>6, <3>2, <3>4
    <3> QED BY <3>2, <3>3, <3>5 DEF ReadCall
  <2> QED BY <2>1, <2>2
<1>8. ASSUME NEW i \in DOMAIN buf'
      PROVE  \/ i \in DOMAIN buf /\ buf'[i] = buf[i]
             \/ DOMAIN pend = {} => buf'[i] = flash[lo + i]
  <2>1. i \in 0..(k + sz - 1)
    BY <1>6
  <2>2. CASE i < k
    <3>1. i \in DOMAIN buf
      BY <1>2, <2>1, <2>2
    <3> QED BY <1>6, <2>2, <3>1
  <2>3. CASE ~(i < k)
    <3>1. call.adr \in Nat /\ call.adr < AddrSpace /\ lo + i < AddrSpace /\ i \in Nat /\ i - k \in Nat
      BY <1>1, <1>2, <1>3, <2>1, <2>3, Geometry
    <3>2. Wire(call.adr) = call.adr
      BY <3>1, WireSame
    <3>3. call.adr + (i - k) = lo + i /\ lo + i \in 0..(FlashSize - 1) /\ FlashSize \in Nat \ {0}
      BY <1>2, <3>1, Geometry
    <3>4. (lo + i) % FlashSize = lo + i
      BY <3>3, SmallMod
    <3>5. DOMAIN pend = {} => buf'[i] = flash[(call.adr + (i - k)) % FlashSize]
      BY <1>6, <2>3, <3>2 DEF WIP
    <3> QED BY <3>3, <3>4, <3>5
  <2> QED BY <2>2, <2>3
<1> QED BY <1>7, <1>8

LEMMA WriteReadyEffect ==
  ASSUME BoardInv, WriteReady
  PROVE  /\ call'.op = "write" /\ WriteCall(call', From(Now), Amount) /\ ~call'.wait
         /\ call'.actual = call.actual + chunk_len /\ call'.pos = call.pos /\ call'.data = call.data
<1>1. call.op = "write" /\ call.wait
  BY DEF WriteReady
<1>2. WriteCall(call, From(Now), Amount)
  BY <1>1, WriteFacts
<1>3. call.actual < call.sz
  BY <1>1, <1>2 DEF WriteCall
<1>4. /\ chunk_len \in Nat \ {0} /\ call.actual + chunk_len <= call.sz
      /\ \/ call.actual + chunk_len = call.sz
         \/ (call.at \div PageSize + 1) * PageSize = call.at + chunk_len
      /\ call.at \in Nat
  BY <1>1, <1>3, ChunkFacts
<1>5. (call.at \div PageSize + 1) * PageSize \in Nat
  <2>1. PageSize \in Nat \ {0} /\ call.at \div PageSize \in Nat
    BY <1>4, Geometry
  <2> QED BY <2>1
<1> DEFINE x == (call.at \div PageSize + 1) * PageSize
           l == chunk_len
<1>6. call' = [call EXCEPT !.actual = @ + l, !.wait = FALSE, !.at = x]
  BY DEF WriteReady
<1>7. /\ x \in Nat /\ l \in Nat \ {0} /\ call.actual + l <= call.sz
      /\ call.actual + l = call.sz \/ x = call.at + l
  BY <1>4, <1>5
<1> HIDE DEF x, l
<1>8. /\ DOMAIN call = {"op", "data", "adr", "len", "pos", "sz", "at", "actual", "wait"}
      /\ call.len \in Nat /\ call.pos \in Nat /\ call.sz \in 1..call.len /\ call.actual \in 0..call.sz
      /\ call.adr = From(Now) + call.pos /\ call.pos + call.len = Amount
      /\ call.at = call.adr + call.actual
  BY <1>2, <1>3 DEF WriteCall
<1>9. /\ DOMAIN call' = DOMAIN call /\ call'.op = "write" /\ call'.len = call.len /\ call'.pos = call.pos
      /\ call'.sz = call.sz /\ call'.actual = call.actual + l /\ call'.adr = call.adr
      /\ call'.at = x /\ call'.wait = FALSE /\ call'.data = call.data
  BY <1>1, <1>6, <1>8
<1>10. call'.actual \in 0..call'.sz /\ (call'.actual < call'.sz => call'.at = call'.adr + call'.actual)
  <2>1. From(Now) \in Nat
    BY <1>1, WriteFacts
  <2> QED BY <1>7, <1>8, <1>9, <2>1
<1> QED BY <1>7, <1>8, <1>9, <1>10 DEF WriteCall, l

LEMMA WriteTransferEffect ==
  ASSUME BoardInv, WriteTransfer
  PROVE  \/ call' = NoCall /\ rv' = 0 /\ call.pos + call.actual = Amount
         \/ /\ call'.op = "write" /\ WriteCall(call', From(Now), Amount) /\ ~call'.wait
            /\ call'.pos = call.pos + call.actual /\ call'.actual = 0 /\ call'.data = call.data
<1>1. call.op = "write" /\ ~call.wait /\ call.actual >= call.sz
  BY DEF WriteTransfer
<1>2. /\ DOMAIN call = {"op", "data", "adr", "len", "pos", "sz", "at", "actual", "wait"}
      /\ call.len \in Nat /\ call.pos \in Nat /\ call.sz \in 1..call.len /\ call.actual \in 0..call.sz
      /\ call.adr = From(Now) + call.pos /\ call.pos + call.len = Amount
  BY <1>1, WriteFacts DEF WriteCall
<1>3. call.actual = call.sz /\ From(Now) \in Nat /\ Amount \in Nat
  <2>1. call.actual = call.sz
    BY <1>1, <1>2
  <2>2. From(Now) \in Nat /\ Amount \in Nat
    BY <1>1, WriteFacts
  <2> QED BY <2>1, <2>2
<1> DEFINE l == call.len - call.sz
           m == Min({l, MaxXfer})
<1>4. IF l = 0 THEN Return(0)
      ELSE call' = [call EXCEPT !.len = l, !.pos = @ + call.sz, !.adr = @ + call.sz,
                                !.sz = m, !.actual = 0, !.at = call.adr + call.sz]
  BY DEF WriteTransfer
<1>5. l \in Nat /\ (l # 0 => m \in 1..l)
  <2>1. l \in Nat
    BY <1>2
  <2>2. m = IF l <= MaxXfer THEN l ELSE MaxXfer
    BY <2>1, MinPair, Geometry
  <2> QED BY <2>1, <2>2, Geometry
<1>6. CASE l = 0
  BY <1>2, <1>3, <1>4, <1>6 DEF Return
<1>7. CASE l # 0
  <2>0. call.len = l + call.sz
    BY <1>2
  <2> HIDE DEF l, m
  <2>1. /\ DOMAIN call' = DOMAIN call /\ call'.op = "write" /\ call'.len = l /\ call'.pos = call.pos + call.sz
        /\ call'.sz = m /\ call'.actual = 0 /\ call'.adr = call.adr + call.sz
        /\ call'.at = call.adr + call.sz /\ call'.wait = call.wait /\ call'.data = call.data
    BY <1>1, <1>2, <1>4, <1>7
  <2>2. /\ call'.len \in Nat /\ call'.pos \in Nat /\ call'.sz \in 1..call'.len /\ call'.actual \in 0..call'.sz
        /\ call'.adr = From(Now) + call'.pos /\ call'.pos + call'.len = Amount
        /\ call'.at \in Nat /\ call'.at = call'.adr + call'.actual
    BY <1>2, <1>3, <1>5, <1>7, <2>0, <2>1
  <2>3. call'.wait = FALSE
    <3>1. call.wait \in BOOLEAN
      BY <1>1, WriteFacts DEF WriteCall
    <3> QED BY <1>1, <2>1, <3>1
  <2>4. WriteCall(call', From(Now), Amount)
    BY <1>2, <2>1, <2>2, <2>3 DEF WriteCall
  <2> QED BY <1>3, <2>1, <2>3, <2>4
<1> QED BY <1>6, <1>7

LEMMA EraseEffect ==
  ASSUME BoardInv, EraseSector \/ EraseReady
  PROVE  \/ call' = NoCall
         \/ /\ call'.op = "erase" /\ EraseCall(call', From(Now), From(Now) + Size(Now))
            /\ OnSector(call'.pos)
<1>1. call.op = "erase"
  BY DEF EraseSector, EraseReady
<1> DEFINE lo == From(Now)
           hi == From(Now) + Size(Now)
<1>2. /\ EraseCall(call, lo, hi) /\ OnSector(call.pos) /\ call.pos \in Nat /\ call.pos < AddrSpace
      /\ lo \in Nat /\ lo <= call.pos /\ call.pos < hi
      /\ sec_size(call.pos) \in Nat \ {0} /\ call.pos + sec_size(call.pos) <= hi
      /\ Now \in Areas /\ DriverType
  BY <1>1, EraseFacts
<1>3. hi \in Nat /\ hi <= AddrSpace
  BY <1>2, Bounds
<1> HIDE DEF lo, hi
<1>4. DOMAIN call = {"op", "pos", "end", "wait"} /\ call.end \in Int /\ call.end <= hi /\ call.wait \in BOOLEAN
  BY <1>2 DEF EraseCall
<1>5. CASE EraseSector
  <2>1. call' = [call EXCEPT !.wait = TRUE]
    BY <1>5 DEF EraseSector
  <2>2. /\ call'.op = "erase" /\ call'.pos = call.pos /\ call'.end = call.end /\ call'.wait = TRUE
        /\ DOMAIN call' = DOMAIN call
    BY <1>1, <1>4, <2>1
  <2>3. EraseCall(call', lo, hi)
    BY <1>2, <1>3, <1>4, <2>2 DEF EraseCall
  <2> QED BY <1>2, <2>2, <2>3 DEF lo, hi
<1>6. CASE EraseReady
  <2> DEFINE next == call.pos + sec_size(call.pos)
  <2>1. next \in Nat /\ lo <= next
    BY <1>2
  <2>2. IF next < call.end THEN call' = [call EXCEPT !.pos = next, !.wait = FALSE] ELSE Return(0)
    BY <1>6 DEF EraseReady
  <2>3. CASE next < call.end
    <3>1. next < hi /\ next < AddrSpace
      BY <1>3, <1>4, <2>1, <2>3, Geometry
    <3>2. OnSector(next)
      BY <1>2, <3>1, SectorNext
    <3> HIDE DEF next
    <3>3. /\ call'.op = "erase" /\ call'.pos = next /\ call'.end = call.end /\ call'.wait = FALSE
          /\ DOMAIN call' = DOMAIN call
      BY <1>1, <1>4, <2>2, <2>3
    <3>4. next \in lo..(hi - 1)
      BY <1>2, <1>3, <2>1, <3>1
    <3>5. EraseCall(call', lo, hi)
      BY <1>4, <3>3, <3>4 DEF EraseCall
    <3> QED BY <3>2, <3>3, <3>5 DEF lo, hi
  <2>4. CASE ~(next < call.end)
    BY <2>2, <2>4 DEF Return
  <2> QED BY <2>3, <2>4
<1> QED BY <1>5, <1>6

LEMMA WritePageCall ==
  ASSUME BoardInv, WritePage
  PROVE  /\ call'.op = "write" /\ WriteCall(call', From(Now), Amount) /\ call'.wait
         /\ call'.actual = call.actual /\ call'.pos = call.pos /\ call'.data = call.data
         /\ call'.sz = call.sz /\ call'.at = call.at
<1>1. call.op = "write" /\ call.actual < call.sz /\ call' = [call EXCEPT !.wait = TRUE]
  BY DEF WritePage
<1>2. WriteCall(call, From(Now), Amount)
  BY <1>1, WriteFacts
<1>3. DOMAIN call = {"op", "data", "adr", "len", "pos", "sz", "at", "actual", "wait"}
  BY <1>2 DEF WriteCall
<1>4. /\ DOMAIN call' = DOMAIN call /\ call'.op = "write" /\ call'.len = call.len /\ call'.pos = call.pos
      /\ call'.sz = call.sz /\ call'.actual = call.actual /\ call'.adr = call.adr
      /\ call'.at = call.at /\ call'.wait = TRUE /\ call'.data = call.data
  BY <1>1, <1>3
<1>5. WriteCall(call', From(Now), Amount)
  BY <1>1, <1>2, <1>4 DEF WriteCall
<1> QED BY <1>4, <1>5

LEMMA ReadFacts ==
  ASSUME BoardInv, call.op = "read"
  PROVE  \/ pc = "relocate" /\ ReadCall(call, EnvOffset, EnvSize, buf)
         \/ pc = "boot read" /\ ReadCall(call, offset(target), spisize, buf)
<1>1. Calls
  BY DEF BoardInv
<1>2. call # NoCall
  BY DEF NoCall
<1> QED BY <1>1, <1>2 DEF Calls

\* The areas that are read.
LEMMA ReadArea ==
  ASSUME BoardInv
  PROVE  /\ EnvOffset \in Nat /\ EnvSize \in Nat \ {0} /\ EnvOffset + EnvSize <= AddrSpace
         /\ target \in Parts /\ offset(target) \in Nat /\ partsize(target) \in Nat \ {0}
         /\ offset(target) + partsize(target) <= AddrSpace
         /\ pc \in {"boot probe", "boot read"} => spisize = partsize(target)
<1>1. target \in Parts
  BY DEF BoardInv, Types
<1>2. From("env") = EnvOffset /\ Size("env") = EnvSize /\ "env" \in Areas
  BY DEF From, Size, Areas
<1>3. From(target) = offset(target) /\ Size(target) = partsize(target) /\ target \in Areas
  BY <1>1 DEF From, Size, Areas, Parts
<1>4. EnvOffset \in Nat /\ EnvSize \in Nat \ {0} /\ EnvOffset + EnvSize <= AddrSpace
  BY <1>2, Bounds
<1>5. offset(target) \in Nat /\ partsize(target) \in Nat \ {0} /\ offset(target) + partsize(target) <= AddrSpace
  BY <1>3, Bounds
<1>6. pc \in {"boot probe", "boot read"} => spisize = partsize(target)
  BY DEF BoardInv, Sizes
<1> QED BY <1>1, <1>4, <1>5, <1>6

\* What a transfer of the running read does.
LEMMA ReadStep ==
  ASSUME BoardInv, ReadTransfer
  PROVE  \/ /\ pc = "relocate" /\ ReadCall(call, EnvOffset, EnvSize, buf)
            /\ \/ call' = NoCall /\ DOMAIN buf' = 0..(EnvSize - 1)
               \/ call'.op = "read" /\ ReadCall(call', EnvOffset, EnvSize, buf')
            /\ DOMAIN pend = {} /\ Read(EnvOffset, flash, buf) => Read(EnvOffset, flash, buf')
         \/ /\ pc = "boot read" /\ ReadCall(call, offset(target), spisize, buf)
            /\ \/ call' = NoCall /\ DOMAIN buf' = 0..(spisize - 1)
               \/ call'.op = "read" /\ ReadCall(call', offset(target), spisize, buf')
            /\ DOMAIN pend = {} /\ Read(offset(target), flash, buf) => Read(offset(target), flash, buf')
<1>1. call.op = "read"
  BY DEF ReadTransfer
<1>2. CASE pc = "relocate" /\ ReadCall(call, EnvOffset, EnvSize, buf)
  BY <1>2, ReadArea, ReadEffect DEF Read
<1>3. CASE pc = "boot read" /\ ReadCall(call, offset(target), spisize, buf)
  <2>1. offset(target) \in Nat /\ spisize \in Nat /\ offset(target) + spisize <= AddrSpace
    BY <1>3, ReadArea
  <2> QED BY <1>3, <2>1, ReadEffect DEF Read
<1> QED BY <1>1, <1>2, <1>3, ReadFacts

LEMMA CallsBoard ==
  ASSUME BoardInv, Board
  PROVE  Calls'
<1>0. UNCHANGED <<pc, target, spisize, driver>> /\ Now' = Now /\ Amount' = Amount
  BY BoardKeeps
<1>1. CASE EraseSector \/ EraseReady
  <2>1. call.op = "erase"
    BY <1>1 DEF EraseSector, EraseReady
  <2>2. pc \in {"save erase", "erased"}
    BY <2>1, EraseFacts
  <2>3. \/ call' = NoCall
        \/ /\ call'.op = "erase" /\ EraseCall(call', From(Now'), From(Now') + Size(Now'))
           /\ OnSector(call.pos)'
    BY <1>0, <1>1, EraseEffect, SectorKept
  <2> QED BY <1>0, <2>2, <2>3 DEF Calls, NoCall
<1>2. CASE WritePage \/ WriteReady \/ WriteTransfer
  <2>1. call.op = "write"
    BY <1>2 DEF WritePage, WriteReady, WriteTransfer
  <2>2. pc \in {"save write", "written"}
    BY <2>1, WriteFacts
  <2>3. call' = NoCall \/ (call'.op = "write" /\ WriteCall(call', From(Now), Amount))
    BY <1>2, WritePageCall, WriteReadyEffect, WriteTransferEffect
  <2> QED BY <1>0, <2>2, <2>3 DEF Calls, NoCall
<1>3. CASE GiveUp
  BY <1>3 DEF GiveUp, Return, Calls, NoCall
<1>4. CASE ReadTransfer
  BY <1>0, <1>4, ReadStep DEF Calls, NoCall
<1> QED BY <1>1, <1>2, <1>3, <1>4 DEF Board, DriverStep

\* The commands that begin a call, and what it looks like.
LEMMA EraseStarts ==
  ASSUME BoardInv, SaveEnv \/ (SfErase /\ ~SfRefused)
  PROVE  /\ pc' \in {"save erase", "erased"} /\ call'.op = "erase" /\ ~call'.wait
         /\ Now' \in Areas /\ Amount' \in Nat /\ Amount' > 0
         /\ EraseCall(call', From(Now'), From(Now') + Size(Now')) /\ OnSector(call'.pos)
         /\ call'.pos = From(Now')
         /\ ~(driver = "spansion" /\ From(Now') + Amount' = FlashSize) => From(Now') + Amount' <= call'.end
         /\ UNCHANGED <<chip, rv>>
<1>0. Types
  BY DEF BoardInv
<1>1. CASE SaveEnv
  <2>1. pc' = "save erase" /\ spi_flash_erase(EnvOffset, EnvSize) /\ UNCHANGED <<chip, rv>>
    BY <1>1 DEF SaveEnv
  <2>2. Now' = "env" /\ Amount' = EnvSize /\ From("env") = EnvOffset /\ Size("env") = EnvSize /\ "env" \in Areas
    BY <2>1 DEF Now, Amount, Saving, From, Size, Areas
  <2>3. Size("env") \in Nat \ {0}
    BY <2>2, Bounds
  <2>4. EnvSize \in Nat /\ EnvSize > 0 /\ EnvSize <= Size("env")
    BY <2>2, <2>3
  <2>5. spi_flash_erase(From("env"), EnvSize) /\ DriverType
    BY <1>0, <2>1, <2>2 DEF Types
  <2>6. /\ call'.op = "erase" /\ ~call'.wait
        /\ EraseCall(call', From("env"), From("env") + Size("env")) /\ OnSector(call'.pos)
        /\ ~(driver = "spansion" /\ From("env") + EnvSize = FlashSize) => From("env") + EnvSize <= call'.end
        /\ call'.pos = From("env")
    BY <2>2, <2>4, <2>5, StartErase
  <2> QED BY <2>1, <2>2, <2>4, <2>6
<1>2. CASE SfErase /\ ~SfRefused
  <2>1. /\ pc = "erase" /\ pc' = "erased" /\ spi_flash_erase(offset(target), spisize)
        /\ UNCHANGED <<chip, rv, target, spisize>> /\ spisize # 0
    BY <1>2 DEF SfErase, SfRefused, Unset
  <2>2. Now' = target /\ Amount' = spisize /\ Now = target /\ Amount = spisize
    BY <2>1 DEF Now, Amount, Saving
  <2>3. target \in Areas /\ spisize \in Nat /\ spisize <= Size(target)
    BY <2>1, <2>2, Working
  <2>4. From(target) = offset(target)
    BY <1>0 DEF From, Types, Parts
  <2>5. spisize > 0
    BY <2>1, <2>3
  <2>6. spi_flash_erase(From(target), spisize)
    BY <2>1, <2>4
  <2> QED BY <1>0, <2>1, <2>2, <2>3, <2>5, <2>6, StartErase DEF Types
<1> QED BY <1>1, <1>2

LEMMA WriteStarts ==
  ASSUME BoardInv, (SaveErased /\ rv = 0) \/ (SfWrite /\ ~SfRefused)
  PROVE  /\ pc' \in {"save write", "written"} /\ call'.op = "write" /\ ~call'.wait
         /\ call'.pos = 0 /\ call'.actual = 0
         /\ Now' = Now /\ Amount' = Amount /\ (Saving' <=> Saving) /\ Amount \in Nat
         /\ WriteCall(call', From(Now), Amount)
         /\ \A i \in 0..(Amount - 1) : call'.data[i] = Source(i)
         /\ UNCHANGED <<chip, rv, env, crc, ram>>
<1>0. Types
  BY DEF BoardInv
<1>1. CASE SaveErased /\ rv = 0
  <2> DEFINE data == [i \in 0..(EnvSize - 1) |-> EnvCell(env, crc, i)]
  <2>1. /\ pc = "save erase" /\ pc' = "save write" /\ spi_flash_write(EnvOffset, data, EnvSize)
        /\ UNCHANGED <<chip, rv, env, crc, ram>>
    BY <1>1 DEF SaveErased, scriptVars, envVars
  <2>2. /\ Now' = "env" /\ Amount' = EnvSize /\ From("env") = EnvOffset /\ Size("env") = EnvSize
        /\ "env" \in Areas /\ Now = "env" /\ Amount = EnvSize /\ Saving /\ Saving'
    BY <2>1 DEF Now, Amount, Saving, From, Size, Areas
  <2>3. EnvOffset \in Nat /\ EnvSize \in Nat \ {0}
    BY <2>2, Bounds
  <2>a. EnvSize \in Nat /\ EnvSize > 0
    BY <2>3
  <2>4. \A i \in 0..(EnvSize - 1) : data[i] = Source(i)
    BY <2>2 DEF Source
  <2> HIDE DEF data
  <2>5. /\ call'.op = "write" /\ ~call'.wait /\ call'.pos = 0 /\ call'.actual = 0
        /\ WriteCall(call', EnvOffset, EnvSize) /\ call'.data = data
    BY <2>1, <2>3, <2>a, StartWrite
  <2> QED BY <2>1, <2>2, <2>3, <2>4, <2>5
<1>2. CASE SfWrite /\ ~SfRefused
  <2>1. /\ pc = "write" /\ pc' = "written" /\ spi_flash_write(offset(target), ram, spisize)
        /\ UNCHANGED <<chip, rv, target, spisize, ram, env, crc>> /\ spisize # 0
    BY <1>2 DEF SfWrite, SfRefused, Unset, envVars
  <2>2. /\ Now' = target /\ Amount' = spisize /\ Now = target /\ Amount = spisize /\ ~Saving /\ ~Saving'
    BY <2>1 DEF Now, Amount, Saving
  <2>3. target \in Areas /\ spisize \in Nat /\ From(target) \in Nat
    BY <2>1, <2>2, Working, Bounds
  <2>4. From(target) = offset(target)
    BY <1>0 DEF From, Types, Parts
  <2>5. spisize > 0
    BY <2>1, <2>3
  <2>6. spi_flash_write(From(target), ram, spisize)
    BY <2>1, <2>4
  <2>7. /\ call'.op = "write" /\ ~call'.wait /\ call'.pos = 0 /\ call'.actual = 0
        /\ WriteCall(call', From(target), spisize) /\ call'.data = ram
    BY <2>3, <2>5, <2>6, StartWrite
  <2> QED BY <2>1, <2>2, <2>3, <2>7 DEF Source
<1> QED BY <1>1, <1>2

\* Every other step of a command ends with no call in progress, but a read.
LEMMA OtherStarts ==
  ASSUME BoardInv, Script \/ User \/ PowerLoss \/ CpuReset
  PROVE  \/ call' = NoCall
         \/ SaveEnv \/ (SfErase /\ ~SfRefused) \/ (SaveErased /\ rv = 0) \/ (SfWrite /\ ~SfRefused)
         \/ /\ RelocateProbe /\ pc' = "relocate" /\ call'.op = "read" /\ DOMAIN buf' = {}
            /\ ReadCall(call', EnvOffset, EnvSize, buf')
         \/ /\ SfRead /\ pc' = "boot read" /\ call'.op = "read" /\ DOMAIN buf' = {}
            /\ ReadCall(call', offset(target), spisize, buf')
<1>1. CASE PowerLoss \/ CpuReset
  BY <1>1 DEF PowerLoss, CpuReset, Restart
<1>2. CASE SetEnv \/ SetEnvOverflow \/ \E p \in Parts : Update(p) \/ FlashBoot(p)
  <2>1. pc = "prompt" /\ UNCHANGED call
    BY <1>2 DEF SetEnv, SetEnvOverflow, Update, FlashBoot, spiVars
  <2> QED BY <2>1, NoCallAt
<1>3. CASE RelocateCrc \/ SaveWritten \/ SfErased \/ SfWritten \/ SfReadDone \/ (SaveErased /\ rv # 0)
  BY <1>3 DEF RelocateCrc, SaveWritten, SfErased, SfWritten, SfReadDone, SaveErased, Idle, spiVars
<1>4. CASE Netload \/ SizeTest \/ SfProbe \/ ((SfErase \/ SfWrite) /\ SfRefused)
  <2>1. pc \in {"tftp", "test", "probe", "erase", "write"} /\ UNCHANGED call
    BY <1>4 DEF Netload, SizeTest, SfProbe, SfErase, SfWrite, spiVars
  <2> QED BY <2>1, NoCallAt
<1>5. CASE RelocateProbe
  <2>1. CASE spi_flash_probe
    <3>1. pc' = "relocate" /\ spi_flash_read(EnvOffset, EnvSize)
      BY <1>5, <2>1 DEF RelocateProbe
    <3>a. EnvOffset \in Nat /\ EnvSize \in Nat \ {0}
      BY ReadArea
    <3>2. EnvOffset \in Nat /\ EnvSize \in Nat /\ EnvSize > 0
      BY <3>a
    <3> QED BY <1>5, <3>1, <3>2, StartRead
  <2>2. CASE ~spi_flash_probe
    BY <1>5, <2>2 DEF RelocateProbe, Idle
  <2> QED BY <2>1, <2>2
<1>6. CASE SfRead
  <2>1. CASE sf_flash'
    <3>1. pc = "boot probe" /\ pc' = "boot read" /\ spi_flash_read(offset(target), spisize)
      BY <1>6, <2>1 DEF SfRead
    <3>a. offset(target) \in Nat /\ partsize(target) \in Nat \ {0} /\ spisize = partsize(target)
      BY <3>1, ReadArea
    <3>2. offset(target) \in Nat /\ spisize \in Nat /\ spisize > 0
      BY <3>a
    <3> QED BY <1>6, <3>1, <3>2, StartRead
  <2>2. CASE ~sf_flash'
    <3>1. pc = "boot probe" /\ UNCHANGED call
      BY <1>6, <2>2 DEF SfRead
    <3> QED BY <3>1, NoCallAt
  <2> QED BY <2>1, <2>2
<1> QED BY <1>1, <1>2, <1>3, <1>4, <1>5, <1>6 DEF Script, User

LEMMA CallsStep == BoardInv /\ Next => Calls'
<1> SUFFICES ASSUME BoardInv, Next PROVE Calls'
  OBVIOUS
<1>1. CASE Board
  BY <1>1, CallsBoard
<1>2. CASE Chip
  <2>1. UNCHANGED <<pc, target, spisize, driver, call, buf>> /\ Now' = Now /\ Amount' = Amount
    BY <1>2, BoardKeeps DEF Chip, ChipDone
  <2>2. Calls
    BY DEF BoardInv
  <2>3. OnSector(call.pos) => OnSector(call.pos)'
    BY <2>1 DEF OnSector, sec_size
  <2> QED BY <2>1, <2>2, <2>3 DEF Calls, NoCall
<1>3. CASE call' = NoCall
  BY <1>3 DEF Calls, NoCall
<1>4. CASE SaveEnv \/ (SfErase /\ ~SfRefused)
  <2>1. /\ pc' \in {"save erase", "erased"} /\ call'.op = "erase" /\ OnSector(call'.pos)
        /\ EraseCall(call', From(Now'), From(Now') + Size(Now')) /\ UNCHANGED chip
    BY <1>4, EraseStarts
  <2>2. OnSector(call.pos)'
    BY <2>1, SectorKept DEF chip
  <2> QED BY <2>1, <2>2 DEF Calls
<1>5. CASE (SaveErased /\ rv = 0) \/ (SfWrite /\ ~SfRefused)
  <2>1. /\ pc' \in {"save write", "written"} /\ call'.op = "write"
        /\ WriteCall(call', From(Now'), Amount')
    BY <1>5, WriteStarts
  <2> QED BY <2>1 DEF Calls
<1>6. CASE pc' = "relocate" /\ call'.op = "read" /\ ReadCall(call', EnvOffset, EnvSize, buf')
  BY <1>6 DEF Calls
<1>7. CASE SfRead /\ pc' = "boot read" /\ call'.op = "read" /\ ReadCall(call', offset(target), spisize, buf')
  <2>1. UNCHANGED <<target, spisize>>
    BY <1>7 DEF SfRead
  <2> QED BY <1>7, <2>1 DEF Calls
<1> QED BY <1>1, <1>2, <1>3, <1>4, <1>5, <1>6, <1>7, OtherStarts DEF Next

------------------------------------------------------------------------------
(* What the chip works on stays within the areas that were asked for.       *)

LEMMA PendKept ==
  ASSUME Next
  PROVE  \/ UNCHANGED pend
         \/ (Chip \/ PowerLoss) /\ DOMAIN pend' = {}
         \/ Board /\ (EraseSector \/ WritePage)
<1>1. Board => UNCHANGED pend \/ EraseSector \/ WritePage
  BY DEF Board, DriverStep, EraseReady, WriteReady, WriteTransfer, GiveUp, ReadTransfer, chip
<1>2. Script => UNCHANGED pend
  BY DEF Script, RelocateProbe, RelocateCrc, SaveErased, SaveWritten, Netload, SizeTest, SfProbe,
         SfErase, SfErased, SfWrite, SfWritten, SfRead, SfReadDone, chip, spiVars
<1>3. User => UNCHANGED pend
  BY DEF User, SetEnv, SetEnvOverflow, SaveEnv, Update, FlashBoot, chip, spiVars
<1>4. Chip \/ PowerLoss => DOMAIN pend' = {}
  BY DEF PowerLoss, ChipPowerLoss, Chip, ChipDone, Nothing
<1> QED BY <1>1, <1>2, <1>3, <1>4 DEF Next, CpuReset

LEMMA IntervalInside ==
  ASSUME NEW lo \in Nat, NEW n \in Nat, NEW a \in Nat, NEW m \in Nat, lo <= a, a + m <= lo + n
  PROVE  a..(a + m - 1) \subseteq lo..(lo + n - 1)
OBVIOUS

\* A command changes cells of the area it works on only.
LEMMA PendInside ==
  ASSUME BoardInv, EraseSector \/ WritePage, DOMAIN pend = {}
  PROVE  Now \in Areas /\ Now \in asked /\ Free(Now, sure, installed) /\ DOMAIN pend' \subseteq Area(Now)
<1>0. ~WIP
  BY DEF WIP
<1>1. CASE EraseSector
  <2>1. call.op = "erase"
    BY <1>1 DEF EraseSector
  <2>2. /\ pc \in {"save erase", "erased"} /\ OnSector(call.pos) /\ call.pos \in Nat /\ call.pos < AddrSpace
        /\ From(Now) \in Nat /\ From(Now) <= call.pos /\ sec_size(call.pos) \in Nat \ {0}
        /\ call.pos + sec_size(call.pos) <= From(Now) + Size(Now) /\ Now \in Areas /\ DriverType
    BY <2>1, EraseFacts
  <2> DEFINE z == sec_size(call.pos)
  <2>3. DOMAIN pend' = call.pos..(call.pos + z - 1)
    BY <1>0, <1>1, <2>2, EraseSectorEffect
  <2>4. Area(Now) = From(Now)..(From(Now) + Size(Now) - 1) /\ Size(Now) \in Nat
    BY <2>2, Layout, Numbers
  <2> HIDE DEF z
  <2>5. z \in Nat /\ call.pos + z <= From(Now) + Size(Now)
    BY <2>2 DEF z
  <2>6. DOMAIN pend' \subseteq Area(Now)
    BY <2>2, <2>3, <2>4, <2>5, IntervalInside
  <2>7. Saving \/ pc \in {"erase", "erased", "write", "written"}
    BY <2>2 DEF Saving
  <2> QED BY <2>6, <2>7, Working
<1>2. CASE WritePage
  <2>1. call.op = "write" /\ call.actual < call.sz
    BY <1>2 DEF WritePage
  <2>2. /\ pc \in {"save write", "written"} /\ WriteCall(call, From(Now), Amount)
        /\ Now \in Areas /\ From(Now) \in Nat /\ Amount \in Nat /\ Amount <= Size(Now)
    BY <2>1, WriteFacts
  <2>3. /\ call.at = From(Now) + call.pos + call.actual /\ call.at \in Nat /\ call.at < AddrSpace
        /\ chunk_len \in Nat \ {0} /\ call.pos + call.actual + chunk_len <= Amount
    BY <2>1, ChunkFacts
  <2>4. call.sz \in Nat /\ call.actual \in Nat /\ call.pos \in Nat
    <3>1. call.len \in Nat /\ call.pos \in Nat /\ call.sz \in 1..call.len /\ call.actual \in 0..call.sz
      BY <2>2 DEF WriteCall
    <3>2. call.sz \in Nat
      BY <3>1
    <3> QED BY <3>1, <3>2
  <2>5. DOMAIN pend' = call.at..(call.at + chunk_len - 1)
    BY <1>0, <1>2, <2>3, <2>4, WritePageEffect
  <2>6. Area(Now) = From(Now)..(From(Now) + Size(Now) - 1) /\ Size(Now) \in Nat
    BY <2>2, Layout, Numbers
  <2>b. chunk_len \in Nat
    BY <2>3
  <2>a. chunk_len \in Nat /\ From(Now) <= call.at /\ call.at + chunk_len <= From(Now) + Size(Now)
    <3> DEFINE c == chunk_len
               lo == From(Now)
    <3>1. c \in Nat /\ lo \in Nat /\ Amount \in Nat /\ Amount <= Size(Now) /\ Size(Now) \in Nat
      BY <2>2, <2>6, <2>b
    <3>2. call.at = lo + call.pos + call.actual /\ call.pos + call.actual + c <= Amount
      BY <2>3
    <3> HIDE DEF c, lo
    <3>3. lo <= call.at /\ call.at + c <= lo + Size(Now)
      BY <2>4, <3>1, <3>2
    <3> QED BY <3>1, <3>3 DEF c, lo
  <2>7. DOMAIN pend' \subseteq Area(Now)
    BY <2>2, <2>3, <2>5, <2>6, <2>a, IntervalInside
  <2>8. Saving \/ pc \in {"erase", "erased", "write", "written"}
    BY <2>2 DEF Saving
  <2> QED BY <2>7, <2>8, Working
<1> QED BY <1>1, <1>2

LEMMA PageKept ==
  ASSUME BoardInv, EraseSector \/ WritePage, DOMAIN pend # {}
  PROVE  pend' = pend
BY DEF EraseSector, WritePage, ChipStart, WIP

\* What is free stays so while the chip works, and stays asked for.
LEMMA FreeKept ==
  ASSUME BoardInv, Next, DOMAIN pend # {}, UNCHANGED pend, ~PowerLoss, NEW q \in asked, Free(q, sure, installed)
  PROVE  q \in asked' /\ Free(q, sure', installed')
<1>0. Types /\ Ready
  BY DEF BoardInv
<1>1. q \in Areas
  BY <1>0 DEF Types, Areas
<1>2. CASE SaveEnv \/ \E p \in Parts : Update(p)
  <2>1. q \in asked'
    BY <1>2 DEF SaveEnv, Update, Ask, WIP
  <2>2. CASE SaveEnv
    BY <2>1, <2>2 DEF SaveEnv, scriptVars, Free
  <2>3. ASSUME NEW p \in Parts, Update(p) PROVE Free(q, sure', installed')
    <3>1. sure' = sure /\ installed' = [installed EXCEPT ![p] = NoFile] /\ DOMAIN installed = Parts
      BY <1>0, <2>3 DEF Update, envVars, known, Types
    <3> QED BY <1>1, <3>1 DEF Free, Areas
  <2> QED BY <1>2, <2>1, <2>2, <2>3
<1>3. CASE SaveWritten \/ SfWritten
  <2>1. rv # 0
    BY <1>0, <1>3 DEF Ready, SaveWritten, SfWritten
  <2>2. CASE SaveWritten
    BY <2>1, <2>2 DEF SaveWritten, scriptVars
  <2>3. CASE SfWritten
    <3>1. /\ sure' = sure /\ asked' = asked /\ installed' = [installed EXCEPT ![target] = NoFile]
          /\ DOMAIN installed = Parts
      BY <1>0, <2>1, <2>3 DEF SfWritten, envVars, known, Types
    <3> QED BY <1>1, <3>1 DEF Free, Areas
  <2> QED BY <1>3, <2>2, <2>3
<1>4. CASE UNCHANGED <<asked, sure, installed>>
  BY <1>4
<1> QED BY <1>2, <1>3, <1>4
        DEF Next, Board, Chip, Script, User, scriptVars, envVars, known, RelocateProbe, RelocateCrc, SaveErased,
            Netload, SizeTest, SfProbe, SfErase, SfErased, SfWrite, SfRead, SfReadDone, SetEnv, SetEnvOverflow,
            FlashBoot, CpuReset, Restart

LEMMA PendingStep == BoardInv /\ Next => Pending'
<1> SUFFICES ASSUME BoardInv, Next PROVE Pending'
  OBVIOUS
<1>1. CASE DOMAIN pend' = {}
  BY <1>1 DEF Pending
<1>2. CASE DOMAIN pend # {} /\ UNCHANGED pend /\ ~PowerLoss
  <2>1. PICK q \in asked : DOMAIN pend \subseteq Area(q) /\ Free(q, sure, installed)
    BY <1>2 DEF BoardInv, Pending
  <2>2. q \in asked' /\ Free(q, sure', installed')
    BY <1>2, <2>1, FreeKept
  <2> QED BY <1>2, <2>1, <2>2 DEF Pending
<1>3. CASE Board /\ (EraseSector \/ WritePage) /\ DOMAIN pend = {}
  <2>1. Now \in asked /\ Free(Now, sure, installed) /\ DOMAIN pend' \subseteq Area(Now)
    BY <1>3, PendInside
  <2>2. asked' = asked /\ sure' = sure /\ installed' = installed
    BY <1>3, BoardKeeps
  <2> QED BY <2>1, <2>2 DEF Pending
<1>4. CASE PowerLoss
  <2>1. DOMAIN pend' = {}
    BY <1>4 DEF PowerLoss, ChipPowerLoss, Nothing
  <2> QED BY <1>1, <2>1
<1>5. CASE DOMAIN pend = {} /\ UNCHANGED pend
  BY <1>1, <1>5
<1> QED BY <1>1, <1>2, <1>3, <1>4, <1>5, PendKept, PageKept

LEMMA NoCallOp == NoCall.op = "none"
BY DEF NoCall

\* Only a write goes on as one.
LEMMA NoWriteBegins ==
  ASSUME BoardInv, EraseSector \/ EraseReady \/ ReadTransfer \/ GiveUp
  PROVE  call'.op # "write"
<1>1. CASE EraseSector \/ EraseReady
  <2>1. call' = NoCall \/ call'.op = "erase"
    BY <1>1, EraseEffect
  <2> QED BY <2>1, NoCallOp
<1>2. CASE ReadTransfer
  <2>1. call' = NoCall \/ call'.op = "read"
    BY <1>2, ReadStep
  <2> QED BY <2>1, NoCallOp
<1>3. CASE GiveUp
  BY <1>3, NoCallOp DEF GiveUp, Return
<1> QED BY <1>1, <1>2, <1>3

\* Only these two commands begin to write.
LEMMA OnlyWriteStarts ==
  ASSUME BoardInv, Script \/ User \/ PowerLoss \/ CpuReset, call'.op = "write" \/ pc' \in {"save write", "written"}
  PROVE  (SaveErased /\ rv = 0) \/ (SfWrite /\ ~SfRefused)
<1>1. CASE pc' \in {"save write", "written"}
  BY <1>1 DEF Script, RelocateProbe, RelocateCrc, SaveErased, SaveWritten, Netload, SizeTest, SfProbe,
         SfErase, SfErased, SfWrite, SfWritten, SfRead, SfReadDone,
         User, SetEnv, SetEnvOverflow, SaveEnv, Update, FlashBoot, PowerLoss, CpuReset, Restart
<1>2. CASE call'.op = "write"
  <2>1. call' # NoCall
    BY <1>2 DEF NoCall
  <2>2. ~SaveEnv /\ ~(SfErase /\ ~SfRefused)
    BY <1>2, EraseStarts
  <2> QED BY <1>2, <2>1, <2>2, OtherStarts
<1> QED BY <1>1, <1>2

LEMMA ReadyStep == BoardInv /\ Next => Ready'
<1> SUFFICES ASSUME BoardInv, Next PROVE Ready'
  OBVIOUS
<1>0. Ready
  BY DEF BoardInv
<1>1. CASE Board
  <2>0. pc' = pc
    BY <1>1, BoardKeeps
  <2>1. CASE EraseSector \/ EraseReady \/ ReadTransfer
    <3>1. call.op \in {"erase", "read"}
      BY <2>1 DEF EraseSector, EraseReady, ReadTransfer
    <3>2. pc \in {"save erase", "erased", "relocate", "boot read"}
      BY <3>1, EraseFacts, ReadFacts
    <3>3. call'.op # "write"
      BY <2>1, NoWriteBegins
    <3> QED BY <2>0, <3>2, <3>3 DEF Ready
  <2>2. CASE WritePage
    <3>1. call'.op = "write" /\ call'.wait
      BY <2>2, WritePageCall
    <3>2. ~Idle'
      BY <3>1, NoCallOp DEF Idle
    <3> QED BY <3>1, <3>2 DEF Ready
  <2>3. CASE WriteReady
    BY <2>3 DEF WriteReady, WIP, chip, Ready
  <2>4. CASE WriteTransfer
    <3>1. call.op = "write" /\ ~call.wait /\ call.actual >= call.sz /\ UNCHANGED pend
      BY <2>4 DEF WriteTransfer, chip
    <3>2. WriteCall(call, From(Now), Amount)
      BY <3>1, WriteFacts
    <3>3. call.len \in Nat /\ call.sz \in 1..call.len /\ call.actual \in 0..call.sz
      BY <3>2 DEF WriteCall
    <3>4. call.actual > 0
      BY <3>1, <3>3
    <3> QED BY <1>0, <3>1, <3>4 DEF Ready
  <2>5. CASE GiveUp
    BY <2>5 DEF GiveUp, Return, Ready, NoCall
  <2> QED BY <1>1, <2>1, <2>2, <2>3, <2>4, <2>5 DEF Board, DriverStep
<1>2. CASE Chip
  <2>1. DOMAIN pend' = {}
    BY <1>2 DEF Chip, ChipDone, Nothing
  <2> QED BY <2>1 DEF Ready
<1>3. CASE Script \/ User \/ PowerLoss \/ CpuReset
  <2>1. CASE (SaveErased /\ rv = 0) \/ (SfWrite /\ ~SfRefused)
    <3>1. call'.op = "write" /\ call'.actual = 0
      BY <2>1, WriteStarts
    <3>2. ~Idle'
      BY <3>1, NoCallOp DEF Idle
    <3>3. ~(call'.actual > 0)
      BY <3>1
    <3> QED BY <3>2, <3>3 DEF Ready
  <2>2. CASE call'.op # "write" /\ pc' \notin {"save write", "written"}
    BY <2>2 DEF Ready
  <2> QED BY <1>3, <2>1, <2>2, OnlyWriteStarts
<1> QED BY <1>1, <1>2, <1>3 DEF Next

LEMMA DataStep == BoardInv /\ Next => Data'
<1> SUFFICES ASSUME BoardInv, Next, call'.op = "write" PROVE Data'
  BY DEF Data
<1>1. CASE Board \/ Chip
  <2>1. /\ UNCHANGED <<pc, env, crc, ram>> /\ Amount' = Amount /\ (Saving' <=> Saving)
    BY <1>1, BoardKeeps
  <2>2. call.op = "write" /\ call'.data = call.data
    <3>1. CASE Chip
      BY <3>1 DEF Chip, ChipDone
    <3>2. CASE EraseSector \/ EraseReady \/ ReadTransfer \/ GiveUp
      BY <3>2, NoWriteBegins
    <3>3. CASE WritePage \/ WriteReady \/ WriteTransfer
      <4>1. call.op = "write"
        BY <3>3 DEF WritePage, WriteReady, WriteTransfer
      <4>2. call' # NoCall
        BY DEF NoCall
      <4> QED BY <3>3, <4>1, <4>2, WritePageCall, WriteReadyEffect, WriteTransferEffect
    <3> QED BY <1>1, <3>1, <3>2, <3>3 DEF Board, DriverStep
  <2>3. \A i \in 0..(Amount - 1) : call.data[i] = Source(i)
    BY <2>2 DEF BoardInv, Data
  <2>4. ASSUME NEW i PROVE Source(i)' = Source(i)
    BY <2>1 DEF Source, Saving
  <2> QED BY <2>1, <2>2, <2>3, <2>4 DEF Data
<1>2. CASE Script \/ User \/ PowerLoss \/ CpuReset
  <2>1. (SaveErased /\ rv = 0) \/ (SfWrite /\ ~SfRefused)
    BY <1>2, OnlyWriteStarts
  <2>2. /\ Amount' = Amount /\ (Saving' <=> Saving) /\ UNCHANGED <<env, crc, ram>>
        /\ \A i \in 0..(Amount - 1) : call'.data[i] = Source(i)
    BY <2>1, WriteStarts
  <2>4. ASSUME NEW i PROVE Source(i)' = Source(i)
    BY <2>2 DEF Source, EnvCell
  <2> QED BY <2>2, <2>4 DEF Data
<1> QED BY <1>1, <1>2 DEF Next

\* A start or a boot that found the chip finds it ready, and what it reads is
\* what the chip holds.
LEMMA ReadingStep == BoardInv /\ Next => Reading'
<1> SUFFICES ASSUME BoardInv, Next PROVE Reading'
  OBVIOUS
<1>0. Reading
  BY DEF BoardInv
<1>1. CASE Chip
  <2>1. DOMAIN pend # {} /\ UNCHANGED <<pc, call, buf, ok, target, spisize>>
    BY <1>1 DEF Chip, ChipDone, WIP, scriptVars
  <2> QED BY <1>0, <2>1 DEF Reading, Idle
<1>2. CASE Board /\ ReadTransfer
  <2>1. UNCHANGED <<pc, target, spisize, ok, flash, pend>>
    BY <1>2, BoardKeeps DEF ReadTransfer, chip
  <2>2. CASE pc = "relocate"
    <3>1. /\ call' = NoCall => DOMAIN buf' = 0..(EnvSize - 1)
          /\ DOMAIN pend = {} /\ Read(EnvOffset, flash, buf) => Read(EnvOffset, flash, buf')
      BY <1>2, <2>2, ReadStep, NoCallOp
    <3> QED BY <1>0, <2>1, <2>2, <3>1 DEF Reading, Idle, Read
  <2>3. CASE pc = "boot read"
    <3>1. /\ call' = NoCall => DOMAIN buf' = 0..(spisize - 1)
          /\ DOMAIN pend = {} /\ Read(offset(target), flash, buf) => Read(offset(target), flash, buf')
      BY <1>2, <2>3, ReadStep, NoCallOp
    <3> QED BY <1>0, <2>1, <2>3, <3>1 DEF Reading, Idle, Read
  <2> QED BY <1>2, <2>2, <2>3, ReadStep
<1>3. CASE Board /\ ~ReadTransfer
  <2>1. call.op \in {"erase", "write"}
    BY <1>3 DEF Board, DriverStep, EraseSector, EraseReady, WritePage, WriteReady, WriteTransfer, GiveUp
  <2>2. pc \in {"save erase", "erased", "save write", "written"} /\ pc' = pc
    BY <1>3, <2>1, EraseFacts, WriteFacts, BoardKeeps
  <2> QED BY <2>2 DEF Reading
<1>4. CASE pc' \notin {"relocate", "boot read"}
  BY <1>4 DEF Reading
<1>5. CASE RelocateProbe /\ pc' = "relocate"
  <2>1. spi_flash_probe /\ UNCHANGED <<flash, pend>>
    BY <1>5 DEF RelocateProbe, chip
  <2>2. call'.op = "read" /\ DOMAIN buf' = {}
    <3>1. spi_flash_read(EnvOffset, EnvSize)
      BY <1>5, <2>1 DEF RelocateProbe
    <3> QED BY <3>1 DEF spi_flash_read
  <2>3. ~Idle'
    BY <2>2, NoCallOp DEF Idle
  <2> QED BY <1>5, <2>1, <2>2, <2>3 DEF Reading, Read, spi_flash_probe, WIP
<1>6. CASE SfRead /\ pc' = "boot read"
  <2>1. sf_flash' /\ ok' = spi_flash_probe /\ UNCHANGED <<flash, pend>>
    BY <1>6 DEF SfRead, chip
  <2>2. call'.op = "read" /\ DOMAIN buf' = {}
    <3>1. spi_flash_read(offset(target), spisize)
      BY <1>6, <2>1 DEF SfRead
    <3> QED BY <3>1 DEF spi_flash_read
  <2>3. ~Idle'
    BY <2>2, NoCallOp DEF Idle
  <2> QED BY <1>6, <2>1, <2>2, <2>3 DEF Reading, Read, spi_flash_probe, WIP
<1> QED BY <1>1, <1>2, <1>3, <1>4, <1>5, <1>6
        DEF Next, Script, RelocateProbe, RelocateCrc, SaveErased, SaveWritten, Netload, SizeTest, SfProbe,
         SfErase, SfErased, SfWrite, SfWritten, SfRead, SfReadDone,
         User, SetEnv, SetEnvOverflow, SaveEnv, Update, FlashBoot, PowerLoss, CpuReset, Restart

------------------------------------------------------------------------------
(* The cells of the environment.                                            *)

\* What a page program will have left.
LEMMA WriteCells ==
  ASSUME BoardInv, WritePage, DOMAIN pend = {}
  PROVE  LET lo == From(Now) + call.pos + call.actual
         IN  /\ lo \in Nat /\ DOMAIN pend' = lo..(lo + chunk_len - 1)
             /\ \A c \in DOMAIN pend' : /\ c - From(Now) \in 0..(Amount - 1)
                                        /\ pend'[c] = Program(flash[c], Source(c - From(Now)))
<1> DEFINE lo == From(Now) + call.pos + call.actual
           base == From(Now)
<1>0. ~WIP
  BY DEF WIP
<1>1. call.op = "write" /\ call.actual < call.sz
  BY DEF WritePage
<1>2. /\ WriteCall(call, From(Now), Amount) /\ base \in Nat /\ Amount \in Nat
  BY <1>1, WriteFacts
<1>3. /\ call.at = lo /\ call.at \in Nat /\ call.at < AddrSpace
      /\ chunk_len \in Nat \ {0} /\ call.pos + call.actual + chunk_len <= Amount
  BY <1>1, ChunkFacts
<1>4. call.sz \in Nat /\ call.actual \in Nat /\ call.pos \in Nat
  <2>1. call.len \in Nat /\ call.pos \in Nat /\ call.sz \in 1..call.len /\ call.actual \in 0..call.sz
    BY <1>2 DEF WriteCall
  <2>2. call.sz \in Nat
    BY <2>1
  <2> QED BY <2>1, <2>2
<1>5. /\ DOMAIN pend' = call.at..(call.at + chunk_len - 1)
      /\ \A c \in DOMAIN pend' :
           pend'[c] = Program(flash[c], call.data[call.pos + call.actual + (c - call.at)])
  BY <1>0, <1>3, <1>4, WritePageEffect
<1>6. \A i \in 0..(Amount - 1) : call.data[i] = Source(i)
  BY <1>1 DEF BoardInv, Data
<1>7. ASSUME NEW c \in DOMAIN pend'
      PROVE  /\ c - base \in 0..(Amount - 1)
             /\ call.pos + call.actual + (c - call.at) = c - base
  <2> DEFINE k == chunk_len
  <2>1. k \in Nat /\ call.pos + call.actual + k <= Amount /\ c \in call.at..(call.at + k - 1)
    BY <1>3, <1>5
  <2>2. call.at = base + call.pos + call.actual
    BY <1>3
  <2>3. base \in Nat /\ Amount \in Nat
    BY <1>2
  <2> DEFINE d == call.pos + call.actual
  <2>4. d \in Nat /\ call.at = base + d /\ d + k <= Amount
    <3> HIDE DEF k, base
    <3> QED BY <1>4, <2>1, <2>2, <2>3
  <2> HIDE DEF k, base, d
  <2>5. c \in Int /\ base + d <= c /\ c <= base + d + k - 1
    BY <2>1, <2>3, <2>4
  <2>6. c - base \in 0..(Amount - 1)
    BY <2>1, <2>3, <2>4, <2>5
  <2>7. d + (c - call.at) = c - base
    BY <2>3, <2>4, <2>5
  <2> QED BY <2>6, <2>7 DEF d
<1>8. \A c \in DOMAIN pend' : c - base \in 0..(Amount - 1) /\ pend'[c] = Program(flash[c], Source(c - base))
  BY <1>5, <1>6, <1>7
<1> QED BY <1>3, <1>5, <1>8

LEMMA KnownProgram ==
  ASSUME NEW S, NEW old, NEW new, Known(old, S), Known(new, S)
  PROVE  Known(Program(old, new), S)
<1>1. Program(old, new) \in {old, new, Garbage}
  BY DEF Program
<1> QED BY <1>1 DEF Known

LEMMA EnvCellKnown ==
  ASSUME NEW S, NEW e \in S, NEW sum, NEW i
  PROVE  Known(EnvCell(e, sum, i), S)
BY DEF Known, EnvCell

LEMMA EnvCellsKept ==
  ASSUME BoardInv, Next, NEW S, AreKnown(S, flash, pend), Saving => env \in S
  PROVE  AreKnown(S, flash', pend')
<1> SUFFICES ASSUME NEW a \in Area("env")
             PROVE  Known(flash'[a], S) /\ (a \in DOMAIN pend' => Known(pend'[a], S))
  BY DEF AreKnown
<1>0. Known(flash[a], S) /\ (a \in DOMAIN pend => Known(pend[a], S)) /\ a \in Addr
  BY Layout DEF AreKnown, Areas
<1>1. Known(flash'[a], S)
  <2>1. CASE UNCHANGED flash
    BY <1>0, <2>1
  <2>2. CASE flash' = Settled
    BY <1>0, <2>2 DEF Settled
  <2>3. CASE PowerLoss
    <3>1. ChipPowerLoss
      BY <2>3 DEF PowerLoss
    <3>2. PICK cut \in DOMAIN pend \cup {FlashSize}, bad \in BOOLEAN :
                 flash' = [b \in Addr |->
                   CASE b \notin DOMAIN pend -> flash[b]
                     [] b \in DOMAIN pend /\ b < cut -> pend[b]
                     [] OTHER -> IF bad THEN Garbage ELSE flash[b]]
      BY <3>1, Zenon DEF ChipPowerLoss
    <3>3. flash'[a] = CASE a \notin DOMAIN pend -> flash[a]
                     [] a \in DOMAIN pend /\ a < cut -> pend[a]
                     [] OTHER -> IF bad THEN Garbage ELSE flash[a]
      BY <1>0, <3>2
    <3>4. flash'[a] \in {flash[a], Garbage} \/ (a \in DOMAIN pend /\ flash'[a] = pend[a])
      BY <3>3
    <3> QED BY <1>0, <3>4 DEF Known
  <2> QED BY <2>1, <2>2, <2>3, FlashKept
<1>2. ASSUME a \in DOMAIN pend' PROVE Known(pend'[a], S)
  <2>1. CASE UNCHANGED pend
    BY <1>0, <1>2, <2>1
  <2>2. CASE DOMAIN pend = {} /\ EraseSector
    <3>1. pend'[a] = Erased
      <4>1. pend' = [c \in DOMAIN pend' |-> Erased]
        BY <2>2 DEF EraseSector, ChipStart, WIP
      <4> QED BY <1>2, <4>1
    <3> QED BY <3>1 DEF Known
  <2>3. CASE DOMAIN pend = {} /\ WritePage
    <3>1. Now \in Areas /\ DOMAIN pend' \subseteq Area(Now)
      BY <2>3, PendInside
    <3>2. Now = "env"
      BY <1>2, <3>1, Disjoint DEF Areas
    <3>3. Saving
      <4>1. target # "env"
        BY DEF BoardInv, Types, Parts
      <4> QED BY <3>2, <4>1 DEF Now
    <3>4. pend'[a] = Program(flash[a], EnvCell(env, crc, a - From(Now)))
      BY <1>2, <2>3, <3>3, WriteCells DEF Source
    <3> QED BY <1>0, <3>3, <3>4, KnownProgram, EnvCellKnown
  <2> QED BY <1>2, <2>1, <2>2, <2>3, PendKept, PageKept
<1> QED BY <1>1, <1>2

LEMMA EnvCellsStep == BoardInv /\ Next => EnvCells(Environments)'
<1> SUFFICES ASSUME BoardInv, Next PROVE EnvCells(Environments)'
  OBVIOUS
<1>1. AreKnown(Environments, flash, pend) /\ env \in Environments
  BY DEF BoardInv, EnvCells, Types
<1>2. AreKnown(Environments, flash', pend')
  BY <1>1, EnvCellsKept
<1> QED BY <1>2 DEF EnvCells

------------------------------------------------------------------------------
(* The first part: who may change what.                                     *)

LEMMA InitCells ==
  ASSUME Init
  PROVE  /\ DOMAIN flash = Addr /\ pend = Nothing /\ DOMAIN pend = {}
         /\ \A a \in Area("env") : flash[a] = EnvCell(FirstEnv, TRUE, a - EnvOffset)
<1>1. flash = [a \in Addr |->
       CASE a \in Area("env")    -> EnvCell(FirstEnv, TRUE, a - EnvOffset)
         [] a \in Area("normal") -> ImgCell(<<"normal", NormalSize>>, a - NormalOffset)
         [] a \in Area("backup") -> ImgCell(<<"backup", BackupSize>>, a - BackupOffset)
         [] OTHER -> Erased]
  BY Zenon DEF Init
<1>2. DOMAIN flash = Addr
  BY <1>1, Zenon
<1>3. ASSUME NEW a \in Area("env") PROVE flash[a] = EnvCell(FirstEnv, TRUE, a - EnvOffset)
  <2>1. a \in Addr
    BY Layout DEF Areas
  <2>2. a \notin Area("normal") /\ a \notin Area("backup")
    BY Disjoint DEF Areas, Parts
  <2>3. flash[a] =
       CASE a \in Area("env")    -> EnvCell(FirstEnv, TRUE, a - EnvOffset)
         [] a \in Area("normal") -> ImgCell(<<"normal", NormalSize>>, a - NormalOffset)
         [] a \in Area("backup") -> ImgCell(<<"backup", BackupSize>>, a - BackupOffset)
         [] OTHER -> Erased
    BY <1>1, <2>1, Zenon
  <2> HIDE DEF EnvCell, ImgCell
  <2> QED BY <2>2, <2>3
<1>4. pend = Nothing /\ DOMAIN pend = {}
  BY DEF Init, SpiInit, Nothing
<1> QED BY <1>2, <1>3, <1>4

LEMMA BoardInit == Init => BoardInv
<1> SUFFICES ASSUME Init PROVE BoardInv
  OBVIOUS
<1>1. /\ DOMAIN flash = Addr /\ DOMAIN pend = {}
      /\ \A a \in Area("env") : flash[a] = EnvCell(FirstEnv, TRUE, a - EnvOffset)
  BY InitCells
<1>2. call = NoCall /\ pc = "start" /\ call.op = "none"
  BY DEF Init, SpiInit, NoCall
<1>3. Types
  <2>1. driver \in Drivers /\ rv = 0 /\ env = default_environment /\ spisize = 0 /\ target = "normal"
    BY DEF Init, SpiInit, Unset
  <2>2. DriverType
    BY <2>1, GeometryAssumption DEF DriverType
  <2>3. crc \in BOOLEAN /\ env_flash \in BOOLEAN /\ sf_flash \in BOOLEAN /\ ok \in BOOLEAN
    BY DEF Init
  <2>4. DOMAIN ram = 0..(RamSize - 1) /\ asked = {} /\ DOMAIN installed = Parts
    BY DEF Init
  <2>5. spisize \in 0..RamSize
    BY <2>1, Numbers
  <2> QED BY <1>1, <1>2, <2>1, <2>2, <2>3, <2>4, <2>5, DefaultIsEnv DEF Types, Parts
<1>4. EnvCells(Environments)
  BY <1>1, EnvCellKnown, DefaultIsEnv DEF EnvCells, AreKnown
<1>5. Pending /\ Asking /\ Sizes /\ Calls /\ Ready /\ Data /\ Reading
  BY <1>1, <1>2 DEF Pending, Asking, Sizes, Calls, Ready, Data, Reading, Saving, Updating
<1> QED BY <1>3, <1>4, <1>5 DEF BoardInv

LEMMA BoardStutter == BoardInv /\ UNCHANGED vars => BoardInv'
<1> SUFFICES ASSUME BoardInv, UNCHANGED vars PROVE BoardInv'
  OBVIOUS
<1>1. /\ UNCHANGED <<driver, flash, pend, call, rv, buf, timeouts>>
      /\ UNCHANGED <<pc, sf_flash, asked, ram, target, spisize, ok, installed>>
      /\ UNCHANGED <<env, crc, env_flash, inFlash, sure, busySave>>
  BY DEF vars, spiVars, chip, scriptVars, envVars, known
<1>a. Types /\ Pending /\ Asking /\ Sizes /\ Ready /\ Reading
  BY DEF BoardInv
<1>b. Types'
  BY <1>1, <1>a DEF Types, DriverType
<1>c. Sizes'
  BY <1>1, <1>a DEF Sizes
<1>d. Pending'
  BY <1>1, <1>a DEF Pending
<1>e. Asking'
  BY <1>1, <1>a DEF Asking, Saving, Updating, Now
<1>f. Ready'
  BY <1>1, <1>a DEF Ready, Idle
<1>g. Reading'
  BY <1>1, <1>a DEF Reading, Idle
<1>2. Types' /\ Pending' /\ Asking' /\ Sizes' /\ Ready' /\ Reading'
  BY <1>b, <1>c, <1>d, <1>e, <1>f, <1>g
<1>3. Calls'
  <2>1. OnSector(call.pos) => OnSector(call.pos)'
    BY <1>1 DEF OnSector, sec_size
  <2> QED BY <1>1, <2>1 DEF BoardInv, Calls, Now, Amount, Saving
<1>4. Data'
  BY <1>1 DEF BoardInv, Data, Amount, Saving, Source
<1>5. EnvCells(Environments)'
  BY <1>1 DEF BoardInv, EnvCells
<1> QED BY <1>2, <1>3, <1>4, <1>5 DEF BoardInv

LEMMA BoardStep == BoardInv /\ [Next]_vars => BoardInv'
BY BoardStutter, TypesStep, PendingStep, AskingStep, SizesStep, CallsStep, ReadyStep, DataStep, ReadingStep,
   EnvCellsStep DEF BoardInv

LEMMA BoardAlways == Spec => []BoardInv
BY BoardInit, BoardStep, PTL DEF Spec

\* The state of the environment commands, of the scripts and of the flash driver
\* stays within its types: in particular an environment the start takes from
\* the flash is one that a saveenv wrote.
THEOREM FlashTyping == Spec => []TypeOK
<1>1. BoardInv => TypeOK
  <2> SUFFICES ASSUME BoardInv PROVE TypeOK
    OBVIOUS
  <2>1. DOMAIN pend \subseteq Addr
    <3>1. Pending /\ asked \subseteq Areas
      BY DEF BoardInv, Types, Areas
    <3> QED BY <3>1, Layout DEF Pending
  <2>2. call.op \in {"none", "erase", "write", "read"}
    BY NoCallOp DEF BoardInv, Calls
  <2> QED BY <2>1, <2>2 DEF BoardInv, Types, TypeOK
<1> QED BY <1>1, BoardAlways, PTL

\* In every layout that three address bytes reach, and
\* whatever the sizes, the transfers, the timeouts and the restarts, spi_flash_erase
\* and spi_flash_write as saveenv and the update scripts call them change cells
\* of the area they were asked for only, also when the chip goes on after
\* wait_ready has given up.
THEOREM ChangesOnlyAsked == Spec => OnlyAskedArea
<1>1. BoardInv /\ [Next]_vars
        => [\A a \in Addr : flash'[a] # flash[a] => \E p \in asked : a \in Area(p)]_vars
  <2> SUFFICES ASSUME BoardInv, Next, NEW a \in Addr, flash'[a] # flash[a]
               PROVE  \E p \in asked : a \in Area(p)
    OBVIOUS
  <2>1. a \in DOMAIN pend
    BY FlashKept DEF Settled
  <2> QED BY <2>1 DEF BoardInv, Pending
<1> QED BY <1>1, BoardAlways, PTL DEF Spec, OnlyAskedArea

LEMMA IntervalGrows ==
  ASSUME NEW m \in Nat, NEW n \in 0..m, NEW i \in 0..(n - 1)
  PROVE  i \in 0..(m - 1)
OBVIOUS

\* sf read of a partition, after a probe that found the chip, brings all of its
\* content to memory, however the transfers of spi_flash_read divide it.
THEOREM LoadIsExact == Spec => LoadExact
<1>1. BoardInv /\ [Next]_vars
        => [pc = "boot read" /\ pc' = "prompt" /\ ok =>
              \A i \in 0..(spisize - 1) : ram'[i] = flash[offset(target) + i]]_vars
  <2> SUFFICES ASSUME BoardInv, Next, pc = "boot read", pc' = "prompt", ok, NEW i \in 0..(spisize - 1)
               PROVE  ram'[i] = flash[offset(target) + i]
    OBVIOUS
  <2>1. SfReadDone
    BY DEF Next, Board, Chip, Script, RelocateProbe, RelocateCrc, SaveErased, SaveWritten, Netload, SizeTest,
           SfProbe, SfErase, SfErased, SfWrite, SfWritten, SfRead,
           User, SetEnv, SetEnvOverflow, SaveEnv, Update, FlashBoot, PowerLoss, CpuReset, Restart
  <2>2. Read(offset(target), flash, buf) /\ DOMAIN buf = 0..(spisize - 1)
    BY <2>1 DEF BoardInv, Reading, SfReadDone
  <2>3. spisize \in 0..RamSize /\ RamSize \in Nat
    BY Numbers DEF BoardInv, Types
  <2>4. i \in 0..(RamSize - 1)
    BY <2>3, IntervalGrows
  <2>5. ram'[i] = buf[i]
    BY <2>1, <2>2, <2>4 DEF SfReadDone
  <2> QED BY <2>2, <2>5 DEF Read
<1> QED BY <1>1, BoardAlways, PTL DEF Spec, LoadExact

------------------------------------------------------------------------------
(* The second part: the cells.                                              *)

\* The end of an operation changes no content.
LEMMA ContentDone ==
  ASSUME Chip, NEW a \in Addr
  PROVE  Content(a, flash', pend') = Content(a, flash, pend) /\ DOMAIN pend' = {}
BY DEF Chip, ChipDone, Nothing, Settled, Content

LEMMA ContentReady ==
  ASSUME NEW a, NEW f, NEW pd, DOMAIN pd = {}
  PROVE  Content(a, f, pd) = f[a]
BY DEF Content

LEMMA InArea ==
  ASSUME NEW p \in Areas, NEW n \in Nat, n <= Size(p), NEW i \in 0..(n - 1)
  PROVE  From(p) + i \in Area(p) /\ From(p) + i \in Addr
<1>1. Area(p) = From(p)..(From(p) + Size(p) - 1) /\ Area(p) \subseteq Addr
  BY Layout
<1>2. From(p) \in Nat /\ Size(p) \in Nat
  BY Numbers
<1>3. From(p) + i \in From(p)..(From(p) + Size(p) - 1)
  BY <1>2
<1> QED BY <1>1, <1>3

LEMMA CleanKept ==
  ASSUME Board \/ Chip
  PROVE  Clean' <=> Clean
BY BoardKeeps DEF Clean

LEMMA ImageStep == BoardInv /\ Image /\ Next => Image'
<1> SUFFICES ASSUME BoardInv, Image, Next, ok',
                    pc' \in {"test", "probe", "erase", "erased", "write", "written"}
             PROVE  Image'
  BY DEF Image
<1>1. CASE Netload
  <2>1. ok' = TRUE
    BY <1>1 DEF Netload
  <2>2. PICK n \in FileSizes : /\ ram' = Loaded(<<target, n>>, n) /\ n > 0
                               /\ env' = [env EXCEPT !.filesize = IF n > 0 THEN n ELSE @]
    BY <1>1, <2>1 DEF Netload
  <2>3. n \in 0..RamSize /\ RamSize \in Nat
    BY Numbers
  <2>4. spisize' = n
    <3>1. env \in Environments
      BY DEF BoardInv, Types
    <3>2. env'.filesize = n
      BY <2>2, <3>1 DEF Environments
    <3> QED BY <1>1, <3>2 DEF Netload
  <2>5. \A i \in 0..(n - 1) : ram'[i] = ImgCell(<<target, n>>, i)
    BY <2>2, <2>3, IntervalGrows DEF Loaded
  <2>6. target' = target
    BY <1>1 DEF Netload
  <2> QED BY <2>2, <2>4, <2>5, <2>6 DEF Image
<1>2. CASE ~Netload
  <2>1. /\ UNCHANGED <<ram, target, spisize>> /\ ok
        /\ pc \in {"test", "probe", "erase", "erased", "write", "written"}
    BY <1>2 DEF Next, Board, Chip, Script, RelocateProbe, RelocateCrc, SaveErased, SaveWritten, SizeTest,
           SfProbe, SfErase, SfErased, SfWrite, SfWritten, SfRead, SfReadDone, scriptVars,
           User, SetEnv, SetEnvOverflow, SaveEnv, Update, FlashBoot, PowerLoss, CpuReset, Restart
  <2> QED BY <2>1 DEF Image
<1> QED BY <1>1, <1>2

LEMMA ErasingBoard ==
  ASSUME BoardInv, Erasing, Board, call'.op = "erase", Clean'
  PROVE  Erasing'
<1>0. /\ Clean /\ UNCHANGED driver /\ Now' = Now /\ Amount' = Amount
  BY CleanKept, BoardKeeps
<1>1. EraseSector \/ EraseReady
  <2>1. CASE WritePage \/ WriteReady \/ WriteTransfer
    <3>1. call' = NoCall \/ call'.op = "write"
      BY <2>1, WritePageCall, WriteReadyEffect, WriteTransferEffect
    <3> QED BY <3>1, NoCallOp
  <2>2. CASE GiveUp \/ ReadTransfer
    <3>1. call' = NoCall \/ call'.op = "read"
      BY <2>2, ReadStep DEF GiveUp, Return
    <3> QED BY <3>1, NoCallOp
  <2> QED BY <2>1, <2>2 DEF Board, DriverStep
<1>2. call.op = "erase" /\ UNCHANGED flash
  BY <1>1 DEF EraseSector, EraseReady, chip
<1> DEFINE lo == From(Now)
           pos == call.pos
           z == sec_size(call.pos)
<1>3. /\ OnSector(call.pos) /\ pos \in Nat /\ pos < AddrSpace /\ lo \in Nat /\ lo <= pos
      /\ z \in Nat \ {0} /\ DriverType /\ EraseCall(call, From(Now), From(Now) + Size(Now))
  BY <1>2, EraseFacts
<1>4. DOMAIN call = {"op", "pos", "end", "wait"}
  BY <1>3 DEF EraseCall
<1>5. From(Now) + Amount <= call.end
  BY <1>0, <1>2 DEF Erasing
<1>6. CASE EraseSector
  <2>1. ~call.wait /\ call' = [call EXCEPT !.wait = TRUE]
    BY <1>6 DEF EraseSector
  <2>2. call'.pos = pos /\ call'.end = call.end /\ call'.wait = TRUE
    BY <1>4, <2>1
  <2>3. /\ DOMAIN pend = {} /\ \A a \in lo..(pos + 0 - 1) : flash[a] = Erased
    BY <1>0, <1>2, <2>1, ContentReady DEF Erasing
  <2>4. pend' = [c \in pos..(pos + z - 1) |-> Erased]
    BY <1>3, <1>6, <2>3, EraseSectorEffect DEF WIP
  <2>5. (sec_size(call.pos))' = z
    BY <1>0, <2>2 DEF sec_size
  <2> HIDE DEF lo, pos, z
  <2>6. \A a \in lo..(pos + z - 1) : Content(a, flash, pend') = Erased
    <3> SUFFICES ASSUME NEW a \in lo..(pos + z - 1) PROVE Content(a, flash, pend') = Erased
      OBVIOUS
    <3>1. CASE a < pos
      <4>1. a \in lo..(pos + 0 - 1) /\ a \notin pos..(pos + z - 1)
        BY <1>3, <3>1
      <4> QED BY <2>3, <2>4, <4>1 DEF Content
    <3>2. CASE a >= pos
      <4>1. a \in pos..(pos + z - 1)
        BY <1>3, <3>2
      <4> QED BY <2>4, <4>1 DEF Content
    <3> QED BY <1>3, <3>1, <3>2
  <2> QED BY <1>0, <1>2, <1>5, <2>2, <2>5, <2>6 DEF Erasing, lo, pos, z
<1>7. CASE EraseReady
  <2>1. call.wait /\ DOMAIN pend = {} /\ UNCHANGED pend
    BY <1>7 DEF EraseReady, WIP, chip
  <2>2. call' = [call EXCEPT !.pos = pos + z, !.wait = FALSE]
    BY <1>7, NoCallOp DEF EraseReady, Return
  <2>3. call'.pos = pos + z /\ call'.end = call.end /\ call'.wait = FALSE
    BY <1>4, <2>2
  <2>4. \A a \in lo..(pos + z - 1) : Content(a, flash, pend) = Erased
    BY <1>0, <1>2, <2>1 DEF Erasing
  <2> HIDE DEF lo, pos, z
  <2>5. pos + z - 1 = pos + z + 0 - 1
    BY <1>3
  <2> QED BY <1>0, <1>2, <1>5, <2>1, <2>3, <2>4, <2>5 DEF Erasing, lo
<1> QED BY <1>1, <1>6, <1>7

LEMMA ErasingChip ==
  ASSUME BoardInv, Erasing, Chip, call'.op = "erase", Clean'
  PROVE  Erasing'
<1>0. /\ Clean /\ UNCHANGED <<driver, call>> /\ Now' = Now /\ Amount' = Amount /\ DOMAIN pend # {}
  BY CleanKept, BoardKeeps DEF Chip, ChipDone, WIP
<1>1. call.op = "erase" /\ DOMAIN pend' = {}
  BY <1>0 DEF Chip, ChipDone, Nothing
<1>2. call.wait /\ From(Now) + Amount <= call.end
  BY <1>0, <1>1 DEF Erasing
<1> DEFINE lo == From(Now)
           hi == call.pos + sec_size(call.pos)
<1>a. call.pos \in Nat /\ sec_size(call.pos) \in Nat \ {0}
  BY <1>1, EraseFacts
<1>b. call.pos + sec_size(call.pos) - 1 = hi - 1
  BY <1>a
<1>3. \A a \in lo..(hi - 1) : Content(a, flash, pend) = Erased
  BY <1>0, <1>1, <1>2, <1>b DEF Erasing
<1>4. \A a \in lo..(hi - 1) : a \in Addr
  <2>1. /\ lo \in Nat /\ hi <= AddrSpace /\ call.pos \in Nat /\ sec_size(call.pos) \in Nat \ {0}
    <3>1. Now \in Areas /\ hi <= From(Now) + Size(Now)
      BY <1>1, EraseFacts
    <3>2. From(Now) + Size(Now) <= AddrSpace /\ AddrSpace \in Nat /\ From(Now) \in Nat /\ Size(Now) \in Nat
      BY <3>1, Bounds
    <3>3. call.pos \in Nat /\ sec_size(call.pos) \in Nat \ {0}
      BY <1>1, EraseFacts
    <3>4. hi \in Nat
      BY <3>3
    <3> HIDE DEF hi
    <3> QED BY <3>1, <3>2, <3>3, <3>4 DEF lo
  <2>2. hi \in Nat
    BY <2>1
  <2> HIDE DEF lo, hi
  <2> QED BY <2>1, <2>2, Geometry DEF Addr
<1>5. \A a \in lo..(hi - 1) : Content(a, flash', pend') = Erased
  BY <1>3, <1>4, ContentDone
<1>6. (sec_size(call.pos))' = sec_size(call.pos)
  BY <1>0 DEF sec_size
<1> QED BY <1>0, <1>1, <1>2, <1>5, <1>6, <1>b DEF Erasing

LEMMA ErasingStep == BoardInv /\ Erasing /\ Blank /\ Next => Erasing'
<1> SUFFICES ASSUME BoardInv, Erasing, Blank, Next, call'.op = "erase", Clean' PROVE Erasing'
  BY DEF Erasing
<1>1. CASE Board
  BY <1>1, ErasingBoard
<1>2. CASE Chip
  BY <1>2, ErasingChip
<1>3. CASE Script \/ User \/ PowerLoss \/ CpuReset
  <2>1. SaveEnv \/ (SfErase /\ ~SfRefused)
    <3>1. call' # NoCall
      BY NoCallOp
    <3>2. ~((SaveErased /\ rv = 0) \/ (SfWrite /\ ~SfRefused))
      BY WriteStarts
    <3> QED BY <1>3, <3>1, <3>2, OtherStarts
  <2>2. /\ ~call'.wait /\ call'.pos = From(Now') /\ UNCHANGED <<driver, flash, pend>>
        /\ ~(driver = "spansion" /\ From(Now') + Amount' = FlashSize) => From(Now') + Amount' <= call'.end
        /\ Now' \in Areas
    BY <2>1, EraseStarts DEF chip
  <2>3. From(Now') + Amount' <= call'.end
    BY <2>2 DEF Clean
  <2>4. DOMAIN pend = {}
    <3>1. CASE SaveEnv
      BY <3>1 DEF SaveEnv, Clean, Saving, WIP
    <3>2. CASE SfErase /\ ~SfRefused
      <4>1. pc = "erase" /\ pc' = "erased" /\ UNCHANGED ok
        BY <3>2 DEF SfErase
      <4>2. ok
        BY <4>1 DEF Clean, Saving
      <4> QED BY <4>1, <4>2 DEF Blank
    <3> QED BY <2>1, <3>1, <3>2
  <2>5. From(Now') \in Nat
    BY <2>2, Bounds
  <2>6. \A a \in From(Now')..(call'.pos + 0 - 1) : Content(a, flash', pend') = Erased
    BY <2>2, <2>5
  <2> QED BY <2>2, <2>3, <2>4, <2>6 DEF Erasing
<1> QED BY <1>1, <1>2, <1>3 DEF Next

\* The erase ends well: the range the command named is blank.
LEMMA ErasedBlank ==
  ASSUME BoardInv, Erasing, EraseReady, call' = NoCall, Clean
  PROVE  DOMAIN pend = {} /\ \A i \in 0..(Amount - 1) : flash[From(Now) + i] = Erased
<1> DEFINE lo == From(Now)
           z == sec_size(call.pos)
<1>1. call.op = "erase" /\ call.wait /\ DOMAIN pend = {}
  BY DEF EraseReady, WIP
<1>2. ~(call.pos + z < call.end)
  <2>1. call' = [call EXCEPT !.pos = call.pos + z, !.wait = FALSE] => call'.op = call.op
    <3>1. DOMAIN call = {"op", "pos", "end", "wait"}
      BY <1>1, EraseFacts DEF EraseCall
    <3> QED BY <3>1
  <2> QED BY <1>1, <2>1, NoCallOp DEF EraseReady
<1>3. lo + Amount <= call.end /\ \A a \in lo..(call.pos + z - 1) : Content(a, flash, pend) = Erased
  BY <1>1 DEF Erasing
<1>4. /\ call.pos \in Nat /\ lo \in Nat /\ z \in Nat \ {0} /\ call.end \in Int /\ Amount \in Nat
  <2>1. EraseCall(call, From(Now), From(Now) + Size(Now)) /\ pc \in {"save erase", "erased"}
    BY <1>1, EraseFacts
  <2>2. Amount \in Nat
    BY <2>1, Working DEF Saving
  <2> QED BY <1>1, <2>1, <2>2, EraseFacts DEF EraseCall
<1> HIDE DEF lo, z
<1>5. ASSUME NEW i \in 0..(Amount - 1) PROVE lo + i \in lo..(call.pos + z - 1)
  BY <1>2, <1>3, <1>4
<1>6. \A i \in 0..(Amount - 1) : flash[lo + i] = Erased
  BY <1>1, <1>3, <1>5, ContentReady
<1> QED BY <1>1, <1>6 DEF lo

LEMMA GiveUpFails == GiveUp => rv' # 0
BY DEF GiveUp, Return

LEMMA BlankStep == BoardInv /\ Erasing /\ Blank /\ Next => Blank'
<1> SUFFICES ASSUME BoardInv, Erasing, Blank, Next PROVE Blank'
  OBVIOUS
<1>1. CASE Board
  <2>0. /\ UNCHANGED <<pc, ok>> /\ Now' = Now /\ Amount' = Amount /\ (Clean' <=> Clean)
    BY <1>1, BoardKeeps, CleanKept
  <2>1. call # NoCall
    <3>1. call.op \in {"erase", "write", "read"}
      BY <1>1 DEF Board, DriverStep, EraseSector, EraseReady, WritePage, WriteReady, WriteTransfer, GiveUp,
                  ReadTransfer
    <3> QED BY <3>1, NoCallOp
  <2>2. pc \in {"save erase", "erased", "save write", "written", "relocate", "boot read"}
    BY <2>1, NoCallAt
  <2> SUFFICES ASSUME Clean, pc \in {"save erase", "erased"}, call' = NoCall, rv' = 0
               PROVE  DOMAIN pend' = {} /\ \A i \in 0..(Amount - 1) : flash'[From(Now) + i] = Erased
    BY <2>0, <2>2 DEF Blank, Idle
  <2>3. EraseSector \/ EraseReady \/ GiveUp
    <3>1. call.op # "write" /\ call.op # "read"
      BY WriteFacts, ReadFacts
    <3> QED BY <1>1, <3>1 DEF Board, DriverStep, WritePage, WriteReady, WriteTransfer, ReadTransfer
  <2>4. ~GiveUp
    BY GiveUpFails
  <2>5. ~EraseSector
    <3>1. EraseSector => call.op = "erase" /\ call' = [call EXCEPT !.wait = TRUE]
      BY DEF EraseSector
    <3>2. call.op = "erase" => DOMAIN call = {"op", "pos", "end", "wait"}
      BY EraseFacts DEF EraseCall
    <3>3. EraseSector => call'.op = "erase"
      BY <3>1, <3>2
    <3> QED BY <3>3, NoCallOp
  <2>6. EraseReady /\ UNCHANGED <<flash, pend>>
    BY <2>3, <2>4, <2>5 DEF EraseReady, chip
  <2> QED BY <2>6, ErasedBlank
<1>2. CASE Chip
  <2>1. /\ UNCHANGED <<pc, ok, call, rv>> /\ (Clean' <=> Clean) /\ DOMAIN pend # {} /\ DOMAIN pend' = {}
    BY <1>2, BoardKeeps, CleanKept DEF Chip, ChipDone, WIP, Nothing
  <2> QED BY <2>1 DEF Blank, Idle
<1>3. CASE SfErased
  <2>1. /\ pc = "erased" /\ Idle /\ pc' = "write" /\ ok' = (ok /\ rv = 0)
        /\ UNCHANGED <<driver, flash, pend, target, spisize>>
    BY <1>3 DEF SfErased, spiVars, chip
  <2>2. Now' = Now /\ Amount' = Amount /\ ~Saving /\ ~Saving'
    BY <2>1 DEF Now, Amount, Saving
  <2>3. Clean' => Clean /\ rv = 0
    BY <2>1, <2>2 DEF Clean
  <2> QED BY <2>1, <2>2, <2>3 DEF Blank
<1>4. CASE SfErase
  <2>1. (pc' = "write" /\ ok' = FALSE) \/ pc' = "erased"
    BY <1>4 DEF SfErase
  <2>2. pc' = "erased" => ~Idle'
    <3>1. pc' = "erased" => ~SfRefused
      BY <1>4 DEF SfErase
    <3>2. pc' = "erased" => call'.op = "erase"
      BY <1>4, <3>1, EraseStarts
    <3> QED BY <3>2, NoCallOp DEF Idle
  <2> QED BY <2>1, <2>2 DEF Blank, Clean, Saving
<1>5. CASE SaveEnv
  <2>1. pc' = "save erase" /\ call'.op = "erase"
    BY <1>5, EraseStarts DEF SaveEnv
  <2>2. ~Idle'
    BY <2>1, NoCallOp DEF Idle
  <2> QED BY <2>1, <2>2 DEF Blank
<1>6. CASE SfProbe
  BY <1>6 DEF SfProbe, spi_flash_probe, WIP, Blank, spiVars, chip
<1>7. CASE pc' \notin {"erase", "write", "save erase", "erased"}
  BY <1>7 DEF Blank
<1> QED BY <1>1, <1>2, <1>3, <1>4, <1>5, <1>6, <1>7
        DEF Next, Script, RelocateProbe, RelocateCrc, SaveErased, SaveWritten, Netload, SizeTest,
            SfWrite, SfWritten, SfRead, SfReadDone,
            User, SetEnv, SetEnvOverflow, Update, FlashBoot, PowerLoss, CpuReset, Restart

\* A page program fills its cells, which are blank, and no others.
LEMMA WritingPage ==
  ASSUME BoardInv, Writing, WritePage, Clean
  PROVE  \A i \in 0..(Amount - 1) :
           Content(From(Now) + i, flash, pend') =
             IF i < call.pos + call.actual + chunk_len THEN Source(i) ELSE Erased
<1> DEFINE lo == From(Now)
           d == call.pos + call.actual
           k == chunk_len
<1>1. call.op = "write" /\ ~call.wait /\ call.actual < call.sz
  BY DEF WritePage
<1>2. DOMAIN pend = {} /\ \A i \in 0..(Amount - 1) :
        Content(lo + i, flash, pend) = IF i < d + 0 THEN Source(i) ELSE Erased
  BY <1>1 DEF Writing
<1>3. call.actual \in Nat /\ call.pos \in Nat /\ lo \in Nat /\ Amount \in Nat
  <2>1. WriteCall(call, From(Now), Amount) /\ From(Now) \in Nat /\ Amount \in Nat
    BY <1>1, WriteFacts
  <2>2. call.len \in Nat /\ call.pos \in Nat /\ call.sz \in 1..call.len /\ call.actual \in 0..call.sz
    BY <2>1 DEF WriteCall
  <2>3. call.sz \in Nat
    BY <2>2
  <2> QED BY <2>1, <2>2, <2>3
<1>4. k \in Nat /\ d \in Nat
  <2>1. chunk_len \in Nat \ {0}
    BY <1>1, ChunkFacts
  <2> QED BY <1>3, <2>1
<1>5. /\ DOMAIN pend' = (lo + call.pos + call.actual)..(lo + call.pos + call.actual + chunk_len - 1)
      /\ \A c \in DOMAIN pend' : pend'[c] = Program(flash[c], Source(c - lo))
  BY <1>2, WriteCells
<1> HIDE DEF k, lo
<1>6. DOMAIN pend' = (lo + d)..(lo + d + k - 1)
  <2>1. lo + call.pos + call.actual = lo + d
    BY <1>3
  <2>2. lo + call.pos + call.actual + chunk_len - 1 = lo + d + k - 1
    BY <1>3, <1>4 DEF k
  <2> QED BY <1>5, <2>1, <2>2
<1> HIDE DEF d
<1>7. ASSUME NEW i \in 0..(Amount - 1)
      PROVE  Content(lo + i, flash, pend') = IF i < d + k THEN Source(i) ELSE Erased
  <2>1. i \in Nat /\ (lo + i) - lo = i /\ d + 0 = d
    BY <1>3, <1>4
  <2>2. flash[lo + i] = IF i < d THEN Source(i) ELSE Erased
    BY <1>2, <2>1, ContentReady
  <2>3. CASE i < d
    <3>1. lo + i \notin DOMAIN pend' /\ i < d + k
      BY <1>3, <1>4, <1>6, <2>1, <2>3
    <3> QED BY <2>2, <2>3, <3>1 DEF Content
  <2>4. CASE d <= i /\ i < d + k
    <3>1. lo + i \in DOMAIN pend' /\ ~(i < d)
      BY <1>3, <1>4, <1>6, <2>1, <2>4
    <3>2. pend'[lo + i] = Program(Erased, Source(i))
      BY <1>5, <2>1, <2>2, <3>1
    <3>3. pend'[lo + i] = Source(i)
      BY <3>2 DEF Program
    <3> QED BY <2>4, <3>1, <3>3 DEF Content
  <2>5. CASE i >= d + k
    <3>1. lo + i \notin DOMAIN pend' /\ ~(i < d) /\ ~(i < d + k)
      BY <1>3, <1>4, <1>6, <2>1, <2>5
    <3> QED BY <2>2, <3>1 DEF Content
  <2> QED BY <1>4, <2>1, <2>3, <2>4, <2>5
<1> QED BY <1>7 DEF lo, d, k

LEMMA WritingBoard ==
  ASSUME BoardInv, Writing, Board, call'.op = "write", Clean'
  PROVE  Writing'
<1>0. /\ Clean /\ Now' = Now /\ Amount' = Amount /\ (Saving' <=> Saving) /\ UNCHANGED <<env, crc, ram, flash>>
  <2>1. UNCHANGED flash
    BY DEF Board, DriverStep, EraseSector, EraseReady, WritePage, WriteReady, WriteTransfer, GiveUp,
           ReadTransfer, chip
  <2> QED BY <2>1, CleanKept, BoardKeeps
<1>a. ASSUME NEW i PROVE Source(i)' = Source(i)
  BY <1>0 DEF Source
<1>1. WritePage \/ WriteReady \/ WriteTransfer
  BY NoWriteBegins DEF Board, DriverStep
<1>2. call.op = "write"
  BY <1>1 DEF WritePage, WriteReady, WriteTransfer
<1>3. call.actual \in Nat /\ call.pos \in Nat
  <2>1. WriteCall(call, From(Now), Amount)
    BY <1>2, WriteFacts
  <2>2. call.len \in Nat /\ call.pos \in Nat /\ call.sz \in 1..call.len /\ call.actual \in 0..call.sz
    BY <2>1 DEF WriteCall
  <2>3. call.sz \in Nat
    BY <2>2
  <2> QED BY <2>2, <2>3
<1>4. CASE WritePage
  <2>1. /\ call'.wait /\ call'.actual = call.actual /\ call'.pos = call.pos
        /\ call'.sz = call.sz /\ call'.at = call.at
    BY <1>4, WritePageCall
  <2>2. chunk_len' = chunk_len
    BY <2>1 DEF chunk_len
  <2>3. \A i \in 0..(Amount - 1) :
           Content(From(Now) + i, flash, pend') =
             IF i < call.pos + call.actual + chunk_len THEN Source(i) ELSE Erased
    BY <1>0, <1>4, WritingPage
  <2> HIDE DEF chunk_len
  <2> QED BY <1>0, <1>a, <2>1, <2>2, <2>3 DEF Writing
<1>5. CASE WriteReady
  <2>1. call.wait /\ DOMAIN pend = {} /\ UNCHANGED pend
    BY <1>5 DEF WriteReady, WIP, chip
  <2>2. ~call'.wait /\ call'.actual = call.actual + chunk_len /\ call'.pos = call.pos
    BY <1>5, WriteReadyEffect
  <2>3. \A i \in 0..(Amount - 1) :
          Content(From(Now) + i, flash, pend) =
            IF i < call.pos + call.actual + chunk_len THEN Source(i) ELSE Erased
    BY <1>0, <1>2, <2>1 DEF Writing
  <2>4. chunk_len \in Nat
    <3>1. call.actual < call.sz
      BY <1>2, <2>1, WriteFacts DEF WriteCall
    <3>2. chunk_len \in Nat \ {0}
      BY <1>2, <3>1, ChunkFacts
    <3> QED BY <3>2
  <2>5. call'.pos + call'.actual + 0 = call.pos + call.actual + chunk_len
    BY <1>3, <2>2, <2>4
  <2> QED BY <1>0, <1>a, <2>1, <2>2, <2>3, <2>5 DEF Writing
<1>6. CASE WriteTransfer
  <2>1. ~call.wait /\ UNCHANGED pend
    BY <1>6 DEF WriteTransfer, chip
  <2>2. ~call'.wait /\ call'.pos = call.pos + call.actual /\ call'.actual = 0
    BY <1>6, WriteTransferEffect, NoCallOp
  <2>3. DOMAIN pend = {} /\ \A i \in 0..(Amount - 1) :
          Content(From(Now) + i, flash, pend) =
            IF i < call.pos + call.actual + 0 THEN Source(i) ELSE Erased
    BY <1>0, <1>2, <2>1 DEF Writing
  <2>4. call'.pos + call'.actual + 0 = call.pos + call.actual + 0
    BY <1>3, <2>2
  <2> QED BY <1>0, <1>a, <2>1, <2>2, <2>3, <2>4 DEF Writing
<1> QED BY <1>1, <1>4, <1>5, <1>6

LEMMA WritingChip ==
  ASSUME BoardInv, Writing, Chip, call'.op = "write", Clean'
  PROVE  Writing'
<1>0. /\ Clean /\ Now' = Now /\ Amount' = Amount /\ (Saving' <=> Saving)
      /\ UNCHANGED <<env, crc, ram, call>> /\ DOMAIN pend' = {}
  BY CleanKept, BoardKeeps DEF Chip, ChipDone, Nothing
<1>a. ASSUME NEW i PROVE Source(i)' = Source(i)
  BY <1>0 DEF Source
<1>b. chunk_len' = chunk_len
  BY <1>0 DEF chunk_len
<1>1. Now \in Areas /\ Amount \in Nat /\ Amount <= Size(Now)
  BY <1>0, WriteFacts
<1>2. ASSUME NEW i \in 0..(Amount - 1)
      PROVE  Content(From(Now) + i, flash', pend') = Content(From(Now) + i, flash, pend)
  BY <1>1, InArea, ContentDone
<1> HIDE DEF chunk_len
<1>3. \A i \in 0..(Amount - 1) :
            Content(From(Now) + i, flash, pend) =
              IF i < call.pos + call.actual + (IF call.wait THEN chunk_len ELSE 0)
              THEN Source(i) ELSE Erased
  BY <1>0 DEF Writing
<1> QED BY <1>0, <1>a, <1>b, <1>2, <1>3 DEF Writing

LEMMA WritingStep == BoardInv /\ Writing /\ Blank /\ Next => Writing'
<1> SUFFICES ASSUME BoardInv, Writing, Blank, Next, call'.op = "write", Clean' PROVE Writing'
  BY DEF Writing
<1>1. CASE Board
  BY <1>1, WritingBoard
<1>2. CASE Chip
  BY <1>2, WritingChip
<1>3. CASE Script \/ User \/ PowerLoss \/ CpuReset
  <2>1. (SaveErased /\ rv = 0) \/ (SfWrite /\ ~SfRefused)
    BY <1>3, OnlyWriteStarts
  <2>2. /\ ~call'.wait /\ call'.pos = 0 /\ call'.actual = 0
        /\ Now' = Now /\ Amount' = Amount /\ (Saving' <=> Saving) /\ Amount \in Nat
        /\ UNCHANGED <<driver, flash, pend, rv, env, crc, ram>>
    BY <2>1, WriteStarts DEF chip
  <2>3. UNCHANGED <<ok, busySave>>
    BY <2>1 DEF SaveErased, SfWrite, scriptVars, envVars, known
  <2>4. Clean
    BY <2>2, <2>3 DEF Clean
  <2>5. pc = "write" \/ (pc = "save erase" /\ Idle /\ rv = 0)
    BY <2>1 DEF SaveErased, SfWrite
  <2>6. DOMAIN pend = {} /\ \A i \in 0..(Amount - 1) : flash[From(Now) + i] = Erased
    BY <2>4, <2>5 DEF Blank
  <2>7. \A i \in 0..(Amount - 1) : Content(From(Now) + i, flash, pend) = Erased /\ ~(i < 0 + 0 + 0)
    BY <2>2, <2>6, ContentReady
  <2> QED BY <2>2, <2>6, <2>7 DEF Writing
<1> QED BY <1>1, <1>2, <1>3 DEF Next

\* The last transfer ends: the whole range holds the data.
LEMMA WrittenWhole ==
  ASSUME BoardInv, Writing, WriteTransfer, Clean, call' = NoCall
  PROVE  DOMAIN pend = {} /\ \A i \in 0..(Amount - 1) : flash[From(Now) + i] = Source(i)
<1>2. call.op = "write" /\ ~call.wait
  BY DEF WriteTransfer
<1>3. call.pos + call.actual = Amount /\ Amount \in Nat
  BY <1>2, WriteTransferEffect, WriteFacts, NoCallOp
<1>4. DOMAIN pend = {} /\ \A i \in 0..(Amount - 1) :
        Content(From(Now) + i, flash, pend) = IF i < call.pos + call.actual + 0 THEN Source(i) ELSE Erased
  BY <1>2 DEF Writing
<1>5. call.pos + call.actual + 0 = Amount
  <2>1. WriteCall(call, From(Now), Amount)
    BY <1>2, WriteFacts
  <2>2. call.len \in Nat /\ call.pos \in Nat /\ call.sz \in 1..call.len /\ call.actual \in 0..call.sz
    BY <2>1 DEF WriteCall
  <2>3. call.sz \in Nat
    BY <2>2
  <2> QED BY <1>3, <2>2, <2>3
<1>6. \A i \in 0..(Amount - 1) : i < Amount
  BY <1>3
<1>7. \A i \in 0..(Amount - 1) : flash[From(Now) + i] = Source(i)
  BY <1>4, <1>5, <1>6, ContentReady
<1> QED BY <1>4, <1>7

LEMMA FinishedStep == BoardInv /\ Writing /\ Finished /\ Next => Finished'
<1> SUFFICES ASSUME BoardInv, Writing, Finished, Next, pc' \in {"save write", "written"}, Idle', rv' = 0, Clean'
             PROVE  Finished'
  BY DEF Finished
<1>1. CASE Board
  <2>0. /\ Clean /\ Now' = Now /\ Amount' = Amount /\ (Saving' <=> Saving) /\ UNCHANGED <<pc, env, crc, ram>>
    BY <1>1, CleanKept, BoardKeeps
  <2>a. ASSUME NEW i PROVE Source(i)' = Source(i)
    BY <2>0 DEF Source
  <2>1. WriteTransfer
    <3>1. call.op # "erase" /\ call.op # "read"
      BY <2>0, EraseFacts, ReadFacts
    <3>2. ~WritePage /\ ~WriteReady
      BY WritePageCall, WriteReadyEffect, NoCallOp DEF Idle
    <3> QED BY <1>1, <3>1, <3>2, GiveUpFails
            DEF Board, DriverStep, EraseSector, EraseReady, ReadTransfer
  <2>2. call.op = "write" /\ ~call.wait /\ UNCHANGED <<flash, pend>>
    BY <2>1 DEF WriteTransfer, chip
  <2>3. DOMAIN pend = {} /\ \A i \in 0..(Amount - 1) : flash[From(Now) + i] = Source(i)
    BY <2>0, <2>1, WrittenWhole DEF Idle
  <2> QED BY <2>0, <2>a, <2>2, <2>3 DEF Finished
<1>2. CASE Chip
  <2>1. UNCHANGED <<pc, call, rv>> /\ Clean /\ DOMAIN pend # {}
    BY <1>2, CleanKept, BoardKeeps DEF Chip, ChipDone, WIP
  <2> QED BY <2>1 DEF Finished, Idle
<1>3. CASE Script \/ User \/ PowerLoss \/ CpuReset
  <2>1. call'.op = "write"
    BY <1>3, OnlyWriteStarts, WriteStarts
  <2> QED BY <2>1, NoCallOp DEF Idle
<1> QED BY <1>1, <1>2, <1>3 DEF Next

------------------------------------------------------------------------------
(* What is installed, and what is saved.                                    *)

\* An area that is relied upon does not change.
LEMMA AreaKept ==
  ASSUME BoardInv, Next, NEW p \in Areas, ~Free(p, sure, installed), NEW a \in Area(p)
  PROVE  flash'[a] = flash[a]
<1>1. a \in Addr
  BY Layout
<1>2. a \notin DOMAIN pend
  <2> SUFFICES ASSUME a \in DOMAIN pend PROVE FALSE
    OBVIOUS
  <2>1. PICK q \in asked : DOMAIN pend \subseteq Area(q) /\ Free(q, sure, installed)
    BY DEF BoardInv, Pending
  <2>2. q \in Areas /\ a \in Area(q) /\ q # p
    BY <2>1 DEF BoardInv, Types, Areas
  <2> QED BY <2>2, Disjoint
<1> QED BY <1>1, <1>2, FlashKept DEF Settled

\* What the scripts do to the record of what is installed.
LEMMA InstalledStep ==
  ASSUME BoardInv, Next, NEW p \in Parts, installed'[p] # NoFile
  PROVE  \/ installed'[p] = installed[p]
         \/ /\ SfWritten /\ p = target /\ installed'[p] = <<target, spisize>>
            /\ ok /\ rv = 0
<1>0. DOMAIN installed = Parts
  BY DEF BoardInv, Types
<1>1. CASE \E q \in Parts : Update(q)
  BY <1>0, <1>1 DEF Update
<1>2. CASE SfWritten
  BY <1>0, <1>2 DEF SfWritten
<1>3. CASE UNCHANGED installed
  BY <1>3
<1> QED BY <1>1, <1>2, <1>3
        DEF Next, Board, Chip, Script, User, scriptVars, RelocateProbe, RelocateCrc, SaveErased, SaveWritten,
            Netload, SizeTest, SfProbe, SfErase, SfErased, SfWrite, SfRead, SfReadDone, SetEnv, SetEnvOverflow,
            SaveEnv, FlashBoot, PowerLoss, CpuReset, Restart

LEMMA SizeOfPair == ASSUME NEW x, NEW y PROVE <<x, y>>[2] = y
OBVIOUS

LEMMA FitsStep == BoardInv /\ Fits /\ Next => Fits'
<1> SUFFICES ASSUME BoardInv, Fits, Next, NEW p \in Parts, installed'[p] # NoFile
             PROVE  installed'[p][2] \in 0..partsize(p)
  BY DEF Fits
<1>1. CASE installed'[p] = installed[p]
  BY <1>1 DEF Fits
<1>2. CASE SfWritten /\ p = target /\ installed'[p] = <<target, spisize>>
  <2>1. spisize \in 0..RamSize /\ spisize <= partsize(target) /\ partsize(target) \in Nat
    BY <1>2, Numbers DEF BoardInv, Types, Sizes, SfWritten
  <2>2. RamSize \in Nat
    BY Numbers
  <2>3. spisize \in 0..partsize(target)
    BY <2>1, <2>2
  <2> QED BY <1>2, <2>3, SizeOfPair
<1> QED BY <1>1, <1>2, InstalledStep

\* sf write has returned 0 after an update without a failure.
LEMMA UpdateDone ==
  ASSUME BoardInv, Image, Finished, SfWritten, ok, rv = 0, ~EraseFallsShort(target, spisize)
  PROVE  \A i \in 0..(spisize - 1) : flash[offset(target) + i] = ImgCell(<<target, spisize>>, i)
<1>1. pc = "written" /\ Idle
  BY DEF SfWritten
<1>2. Now = target /\ Amount = spisize /\ ~Saving
  BY <1>1 DEF Now, Amount, Saving
<1>3. From(target) = offset(target)
  BY DEF From, BoardInv, Types, Parts
<1>4. Clean
  BY <1>2, <1>3 DEF Clean, EraseFallsShort
<1>5. \A i \in 0..(spisize - 1) : flash[From(Now) + i] = Source(i)
  BY <1>1, <1>2, <1>4 DEF Finished
<1>6. \A i \in 0..(spisize - 1) : ram[i] = ImgCell(<<target, spisize>>, i)
  BY <1>1 DEF Image
<1> QED BY <1>2, <1>3, <1>5, <1>6 DEF Source

LEMMA UpdateExactStep == BoardInv /\ CellInv /\ Next => UpdateExact'
<1> SUFFICES ASSUME BoardInv, CellInv, Next, NEW p \in Parts, installed'[p] # NoFile,
                    ~EraseFallsShort(p, installed'[p][2])
             PROVE  \A i \in 0..(installed'[p][2] - 1) : flash'[offset(p) + i] = ImgCell(installed'[p], i)
  BY DriverKept DEF UpdateExact, EraseFallsShort
<1>1. CASE installed'[p] = installed[p]
  <2> SUFFICES ASSUME NEW i \in 0..(installed[p][2] - 1)
               PROVE  flash'[offset(p) + i] = ImgCell(installed[p], i)
    BY <1>1
  <2>1. flash[offset(p) + i] = ImgCell(installed[p], i)
    BY <1>1 DEF CellInv, UpdateExact
  <2>2. p \in Areas /\ From(p) = offset(p) /\ Size(p) = partsize(p) /\ p # "env"
    BY DEF Areas, From, Size, Parts
  <2>3. installed[p][2] \in 0..partsize(p) /\ partsize(p) \in Nat
    BY <1>1, Numbers DEF CellInv, Fits
  <2>4. i \in 0..(partsize(p) - 1)
    BY <2>3, IntervalGrows
  <2>5. offset(p) + i \in Area(p)
    BY <2>2, <2>3, <2>4, InArea
  <2>6. ~Free(p, sure, installed)
    BY <1>1, <2>2 DEF Free
  <2> QED BY <2>1, <2>2, <2>5, <2>6, AreaKept
<1>2. CASE SfWritten /\ p = target /\ installed'[p] = <<target, spisize>> /\ ok /\ rv = 0
  <2>1. UNCHANGED flash
    BY <1>2 DEF SfWritten, spiVars, chip
  <2>2. ~EraseFallsShort(target, spisize)
    BY <1>2, SizeOfPair
  <2>3. \A i \in 0..(spisize - 1) : flash[offset(target) + i] = ImgCell(<<target, spisize>>, i)
    BY <1>2, <2>2, UpdateDone DEF CellInv
  <2> QED BY <1>2, <2>1, <2>3, SizeOfPair
<1> QED BY <1>1, <1>2, InstalledStep

LEMMA CellInit == Init => CellInv
<1> SUFFICES ASSUME Init PROVE CellInv
  OBVIOUS
<1>1. pc = "start" /\ call.op = "none" /\ \A p \in Parts : installed[p] = NoFile
  BY NoCallOp DEF Init, SpiInit
<1> QED BY <1>1 DEF CellInv, Image, Erasing, Blank, Writing, Finished, Fits, UpdateExact

LEMMA CellStutter == CellInv /\ UNCHANGED vars => CellInv'
<1> SUFFICES ASSUME CellInv, UNCHANGED vars PROVE CellInv'
  OBVIOUS
<1>1. /\ UNCHANGED <<driver, flash, pend, call, rv, buf, timeouts>>
      /\ UNCHANGED <<pc, sf_flash, asked, ram, target, spisize, ok, installed>>
      /\ UNCHANGED <<env, crc, env_flash, inFlash, sure, busySave>>
  BY DEF vars, spiVars, chip, scriptVars, envVars, known
<1>2. Now' = Now /\ Amount' = Amount /\ (Saving' <=> Saving) /\ (Clean' <=> Clean) /\ (Idle' <=> Idle)
  BY <1>1 DEF Now, Amount, Saving, Clean, Idle
<1>3. chunk_len' = chunk_len /\ sec_size(call.pos)' = sec_size(call.pos)
  BY <1>1 DEF chunk_len, sec_size
<1>4. ASSUME NEW i PROVE Source(i)' = Source(i)
  BY <1>1, <1>2 DEF Source
<1>5. Image' /\ Fits' /\ UpdateExact'
  BY <1>1 DEF CellInv, Image, Fits, UpdateExact, EraseFallsShort
<1>6. Erasing' /\ Blank'
  BY <1>1, <1>2, <1>3 DEF CellInv, Erasing, Blank
<1>7. Writing' /\ Finished'
  BY <1>1, <1>2, <1>3, <1>4 DEF CellInv, Writing, Finished
<1> QED BY <1>5, <1>6, <1>7 DEF CellInv

LEMMA CellStep == BoardInv /\ CellInv /\ [Next]_vars => CellInv'
BY CellStutter, ImageStep, ErasingStep, BlankStep, WritingStep, FinishedStep, FitsStep, UpdateExactStep DEF CellInv

LEMMA CellAlways == Spec => []CellInv
BY BoardAlways, CellInit, CellStep, PTL DEF Spec

\* An update script that received a file and succeeded to its last command has put
\* the file into the partition, and it stays there until the next update of the same
\* partition, through time-outs of wait_ready, resets, power losses, saveenv and
\* updates of the other partition; except for a file that ends with a Spansion
\* chip, of which spansion_erase erases one sector only (EraseFallsShort).
THEOREM UpdatesExact == Spec => []UpdateExact
<1>1. CellInv => UpdateExact
  BY DEF CellInv
<1> QED BY <1>1, CellAlways, PTL

------------------------------------------------------------------------------
(* The third part: the environment.                                         *)

LEMMA KnownMore ==
  ASSUME NEW S, NEW T, S \subseteq T, NEW f, NEW pd, AreKnown(S, f, pd)
  PROVE  AreKnown(T, f, pd)
BY DEF AreKnown, Known

\* saveenv has returned 0 after it began with the chip ready and the CRC right.
LEMMA SaveDone ==
  ASSUME EnvInside, BoardInv, Finished, SaveWritten, rv = 0, crc, ~busySave
  PROVE  DOMAIN pend = {} /\ EnvWhole(env)
<1>1. pc = "save write" /\ Idle
  BY DEF SaveWritten
<1>2. Now = "env" /\ Amount = EnvSize /\ Saving /\ From("env") = EnvOffset
  BY <1>1 DEF Now, Amount, Saving, From
<1>3. Clean
  <2>1. EnvOffset + EnvSize # FlashSize
    BY Numbers, Geometry DEF EnvInside
  <2> QED BY <1>2, <2>1 DEF Clean
<1>4. crc = TRUE
  BY DEF BoardInv, Types
<1>5. DOMAIN pend = {} /\ \A i \in 0..(EnvSize - 1) : flash[EnvOffset + i] = EnvCell(env, TRUE, i)
  BY <1>1, <1>2, <1>3, <1>4 DEF Finished, Source
<1> QED BY <1>5 DEF EnvWhole

LEMMA InEnvArea ==
  ASSUME NEW a
  PROVE  a \in Area("env") <=> \E i \in 0..(EnvSize - 1) : a = EnvOffset + i
<1>1. Area("env") = EnvOffset..(EnvOffset + EnvSize - 1) /\ EnvOffset \in Nat /\ EnvSize \in Nat
  BY Numbers DEF Area
<1>2. ASSUME a \in Area("env") PROVE a - EnvOffset \in 0..(EnvSize - 1) /\ a = EnvOffset + (a - EnvOffset)
  BY <1>1, <1>2
<1>3. ASSUME NEW i \in 0..(EnvSize - 1), a = EnvOffset + i PROVE a \in Area("env")
  BY <1>1, <1>3
<1> QED BY <1>2, <1>3

\* What happens to the record of the environments in the flash.
LEMMA RecordStep ==
  ASSUME Next
  PROVE  \/ SaveEnv
         \/ /\ SaveWritten /\ rv = 0 /\ crc /\ ~busySave /\ inFlash' = {env} /\ sure' = TRUE
         \/ UNCHANGED <<inFlash, sure>>
BY DEF Next, Board, Chip, Script, User, envVars, known, RelocateProbe, RelocateCrc, SaveErased, SaveWritten,
       Netload, SizeTest, SfProbe, SfErase, SfErased, SfWrite, SfWritten, SfRead, SfReadDone, SetEnv,
       SetEnvOverflow, Update, FlashBoot, PowerLoss, CpuReset, Restart

LEMMA SavedStep == EnvInside /\ BoardInv /\ CellInv /\ Saved /\ Next => Saved'
<1> SUFFICES ASSUME EnvInside, BoardInv, CellInv, Saved, Next PROVE Saved'
  OBVIOUS
<1>0. env \in Environments
  BY DEF BoardInv, Types
<1>1. Saving' => env' \in inFlash'
  <2>1. CASE SaveEnv
    BY <2>1 DEF SaveEnv
  <2>2. CASE ~SaveEnv /\ Saving'
    <3>1. Saving /\ UNCHANGED <<env, inFlash>>
      BY <2>2 DEF Next, Board, Chip, Script, User, envVars, known, RelocateProbe, RelocateCrc, SaveErased,
         SaveWritten, Netload, SizeTest, SfProbe, SfErase, SfErased, SfWrite, SfWritten, SfRead, SfReadDone,
         SetEnv, SetEnvOverflow, Update, FlashBoot, PowerLoss, CpuReset, Restart, Saving
    <3> QED BY <3>1 DEF Saved
  <2> QED BY <2>1, <2>2
<1>2. AreKnown(inFlash, flash', pend')
  BY EnvCellsKept DEF Saved, EnvCells
<1>3. inFlash' \subseteq Environments /\ inFlash' # {} /\ AreKnown(inFlash', flash', pend')
  <2>1. CASE SaveEnv
    <3>1. inFlash' = inFlash \cup {env}
      BY <2>1 DEF SaveEnv
    <3> QED BY <1>0, <1>2, <3>1, KnownMore DEF Saved
  <2>2. CASE SaveWritten /\ rv = 0 /\ crc /\ ~busySave /\ inFlash' = {env}
    <3>1. DOMAIN pend = {} /\ EnvWhole(env) /\ UNCHANGED <<flash, pend>>
      BY <2>2, SaveDone DEF CellInv, SaveWritten, spiVars, chip
    <3>2. \A a \in Area("env") : \E i : flash[a] = EnvCell(env, TRUE, i)
      BY <3>1, InEnvArea DEF EnvWhole
    <3>3. AreKnown({env}, flash, pend)
      BY <3>1, <3>2, EnvCellKnown DEF AreKnown
    <3> QED BY <1>0, <2>2, <3>1, <3>3
  <2>3. CASE UNCHANGED inFlash
    BY <1>2, <2>3 DEF Saved
  <2> QED BY <2>1, <2>2, <2>3, RecordStep
<1> QED BY <1>1, <1>3 DEF Saved, EnvCells

LEMMA EnvSurvivesStep == EnvInside /\ BoardInv /\ CellInv /\ EnvSurvives /\ Next => EnvSurvives'
<1> SUFFICES ASSUME EnvInside, BoardInv, CellInv, EnvSurvives, Next, sure', NEW e \in inFlash'
             PROVE  \A i \in 0..(EnvSize - 1) : flash'[EnvOffset + i] = EnvCell(e, TRUE, i)
  BY DEF EnvSurvives, EnvWhole
<1>1. ~SaveEnv
  BY DEF SaveEnv
<1>2. CASE SaveWritten /\ rv = 0 /\ crc /\ ~busySave /\ inFlash' = {env}
  <2>1. EnvWhole(env) /\ UNCHANGED flash /\ e = env
    BY <1>2, SaveDone DEF CellInv, SaveWritten, spiVars, chip
  <2> QED BY <2>1 DEF EnvWhole
<1>3. CASE UNCHANGED <<inFlash, sure>>
  <2>1. EnvWhole(e) /\ ~Free("env", sure, installed) /\ "env" \in Areas
    BY <1>3 DEF EnvSurvives, Free, Areas
  <2>2. \A a \in Area("env") : flash'[a] = flash[a]
    BY <2>1, AreaKept
  <2> QED BY <2>1, <2>2, InEnvArea DEF EnvWhole
<1> QED BY <1>1, <1>2, <1>3, RecordStep

LEMMA EnvInit == Init => EnvInv
<1> SUFFICES ASSUME Init PROVE EnvInv
  OBVIOUS
<1>1. /\ DOMAIN pend = {} /\ inFlash = {FirstEnv} /\ pc = "start"
      /\ \A a \in Area("env") : flash[a] = EnvCell(FirstEnv, TRUE, a - EnvOffset)
  BY InitCells DEF Init
<1>2. EnvCells(inFlash)
  BY <1>1, EnvCellKnown DEF EnvCells, AreKnown
<1>3. EnvWhole(FirstEnv)
  <2> SUFFICES ASSUME NEW i \in 0..(EnvSize - 1) PROVE flash[EnvOffset + i] = EnvCell(FirstEnv, TRUE, i)
    BY DEF EnvWhole
  <2>1. EnvOffset + i \in Area("env")
    BY InEnvArea
  <2>2. (EnvOffset + i) - EnvOffset = i
    BY Numbers
  <2> QED BY <1>1, <2>1, <2>2
<1> QED BY <1>1, <1>2, <1>3, DefaultIsEnv DEF EnvInv, Saved, EnvSurvives, Saving

LEMMA EnvStep == EnvInside /\ BoardInv /\ CellInv /\ EnvInv /\ [Next]_vars => EnvInv'
<1> SUFFICES ASSUME EnvInside, BoardInv, CellInv, EnvInv, [Next]_vars PROVE EnvInv'
  OBVIOUS
<1>1. CASE Next
  BY <1>1, SavedStep, EnvSurvivesStep DEF EnvInv
<1>2. CASE UNCHANGED vars
  <2>1. UNCHANGED <<flash, pend, pc, env, inFlash, sure>>
    BY <1>2 DEF vars, spiVars, chip, envVars, known
  <2> QED BY <2>1 DEF EnvInv, Saved, EnvCells, EnvSurvives, EnvWhole, Saving
<1> QED BY <1>1, <1>2

LEMMA EnvAlways == ASSUME EnvInside PROVE Spec => []EnvInv
<1>1. BoardInv /\ CellInv /\ EnvInv /\ [Next]_vars => EnvInv'
  BY EnvStep
<1> QED BY <1>1, BoardAlways, CellAlways, EnvInit, PTL DEF Spec

\* An environment whose saveenv began with the chip ready and returned 0 stays
\* whole in the flash until the next saveenv, through updates, time-outs of
\* wait_ready, resets and power losses; the environment is not the last area
\* of the chip, where spansion_erase stops after one sector.
THEOREM SavedEnvSurvives ==
  ASSUME EnvInside
  PROVE  Spec => []EnvSurvives
<1>1. EnvInv => EnvSurvives
  BY DEF EnvInv
<1> QED BY <1>1, EnvAlways, PTL

\* env_relocate_spec after any restart: the environment that was saved last, or,
\* when a saveenv was cut short, one of those it was about or the default one.
THEOREM BootsFromSaved ==
  ASSUME EnvInside
  PROVE  Spec => BootsSavedEnv
<1>1. BoardInv /\ EnvInv /\ [Next]_vars
        => [pc = "relocate" /\ pc' = "prompt" =>
              \/ env' \in inFlash /\ EnvWhole(env')
              \/ env' = default_environment /\ ~sure]_vars
  <2> SUFFICES ASSUME BoardInv, EnvInv, Next, pc = "relocate", pc' = "prompt"
               PROVE  \/ env' \in inFlash /\ EnvWhole(env')
                      \/ env' = default_environment /\ ~sure
    OBVIOUS
  <2>1. RelocateCrc
    BY DEF Next, Board, Chip, Script, RelocateProbe, SaveErased, SaveWritten, Netload, SizeTest,
           SfProbe, SfErase, SfErased, SfWrite, SfWritten, SfRead, SfReadDone,
           User, SetEnv, SetEnvOverflow, SaveEnv, Update, FlashBoot, PowerLoss, CpuReset, Restart
  <2>2. CASE sure
    <3>1. PICK e \in inFlash : EnvWhole(e) /\ e \in Environments
      BY <2>2 DEF EnvInv, Saved, EnvSurvives
    <3>2. Read(EnvOffset, flash, buf) /\ DOMAIN buf = 0..(EnvSize - 1)
      BY <2>1 DEF BoardInv, Reading, RelocateCrc
    <3>3. \A i \in 0..(EnvSize - 1) : buf[i] = EnvCell(e, TRUE, i)
      BY <3>1, <3>2 DEF Read, EnvWhole
    <3>4. buf[0] = EnvCell(e, TRUE, 0)
      <4>1. EnvSize \in Nat \ {0}
        BY ReadArea
      <4>2. 0 \in 0..(EnvSize - 1)
        BY <4>1
      <4> QED BY <3>3, <4>2
    <3>5. buf[0] \notin {Erased, Garbage}
      BY <3>1, <3>4, CellAssumption
    <3>6. buf[0][2][1] = e
      BY <3>4 DEF EnvCell
    <3>7. env' = e
      BY <2>1, <3>2, <3>3, <3>5, <3>6 DEF RelocateCrc
    <3> QED BY <3>1, <3>7
  <2>3. CASE ~sure /\ env' # default_environment
    <3>1. /\ EnvWhole(env') /\ flash[EnvOffset] \notin {Erased, Garbage}
          /\ flash[EnvOffset] = EnvCell(env', TRUE, 0) /\ EnvOffset \in Area("env")
      BY <2>1, <2>3, Relocated
    <3>2. Known(flash[EnvOffset], inFlash)
      BY <3>1 DEF EnvInv, Saved, EnvCells, AreKnown
    <3>3. env' \in inFlash
      BY <3>1, <3>2 DEF Known
    <3> QED BY <3>1, <3>3
  <2> QED BY <2>2, <2>3
<1> QED BY <1>1, BoardAlways, EnvAlways, PTL DEF Spec, BootsSavedEnv
==============================================================================
