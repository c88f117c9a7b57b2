---------------------------- MODULE FlashUpdate ----------------------------
(***************************************************************************)
(* What the board keeps in SPI flash and who changes it: the environment   *)
(* (common/env_sf.c, env_common.c, cmd_nvedit.c), the two kernel           *)
(* partitions, the sf command (common/cmd_sf.c) and the update scripts of  *)
(* the default environment (include/configs/m2s-volkh.h), with power       *)
(* losses and resets at any moment.                                        *)
(*                                                                         *)
(* A cell holds <<kind, whole, index>>: cell index of an environment or of *)
(* an image.  A CRC tells a whole environment from everything else.        *)
(***************************************************************************)
EXTENDS SpiFlash, FiniteSets

CONSTANTS
  EnvOffset, EnvSize,       \* CONFIG_ENV_OFFSET, CONFIG_ENV_SIZE
  NormalOffset, NormalSize, \* CONFIG_ENV_LINUX_NORMAL_OFFSET, _SIZE
  BackupOffset, BackupSize, \* CONFIG_ENV_LINUX_BACKUP_OFFSET, _SIZE
  RamSize,                  \* cells of memory at loadaddr
  FileSizes,                \* sizes of the files the server may have
  Partial,                  \* cells a failed download may have stored
  UserValues,               \* values of a variable of the user's
  MaxCommands, MaxResets    \* bounds on updates and saves, and on restarts

Parts == {"normal", "backup"}
offset(p) == IF p = "normal" THEN NormalOffset ELSE BackupOffset
partsize(p) == IF p = "normal" THEN NormalSize ELSE BackupSize

Area(p) == IF p = "env" THEN EnvOffset..(EnvOffset + EnvSize - 1)
           ELSE offset(p)..(offset(p) + partsize(p) - 1)

\* The layout of the board: whole sectors, disjoint, within three address bytes.
ASSUME LayoutAssumption ==
  /\ {EnvOffset, EnvSize, NormalOffset, NormalSize, BackupOffset, BackupSize} \subseteq Nat
  /\ RamSize \in Nat \ {0, 1}
  /\ NormalSize <= RamSize /\ BackupSize <= RamSize
  /\ \A p \in Parts \cup {"env"} :
       /\ Area(p) # {} /\ Area(p) \subseteq 0..(AddrSpace - 1)
       /\ Min(Area(p)) % SectorSize = 0 /\ Cardinality(Area(p)) % SectorSize = 0
  /\ \A p, q \in Parts \cup {"env"} : p = q \/ Area(p) \cap Area(q) = {}
  /\ FileSizes \subseteq 0..RamSize /\ Partial \subseteq 0..RamSize

Unset == 0
default_environment == [v |-> 0, filesize |-> Unset]

EnvCell(e, crc, i) == <<"env", <<e, crc>>, i>>
ImgCell(f, i) == <<"img", f, i>>

Environments == [v : {0, 1} \cup UserValues, filesize : 0..RamSize]

ASSUME CellAssumption == \A e \in Environments : EnvCell(e, TRUE, 0) \notin {Erased, Garbage}

VARIABLES
  pc,           \* what runs: a command of a script, saveenv, the start, or "prompt"
  env,          \* the environment in memory
  crc,          \* its CRC field is right
  env_flash,    \* env_flash of env_sf.c is set
  sf_flash,     \* flash of cmd_sf.c is set
  ram,          \* memory at loadaddr
  target,       \* spioffset, partsize and imagename
  spisize,
  ok,           \* every command of the running script has succeeded
  asked,        \* areas the running commands were told to change
  inFlash,      \* environments the flash may hold
  sure,         \* it holds the only one in inFlash
  installed,    \* for each partition the file the last update put there
  busySave,     \* the running saveenv found the chip busy
  commands, resets

scriptVars == <<ram, target, spisize, ok, installed>>
known      == <<inFlash, sure, busySave>>
envVars    == <<env, crc, env_flash, known>>
counts     == <<commands, resets>>
vars       == <<spiVars, pc, sf_flash, asked, scriptVars, envVars, counts>>

NoFile == <<"none", 0>>

EnvWhole(e) == \A i \in 0..(EnvSize - 1) : flash[EnvOffset + i] = EnvCell(e, TRUE, i)

FirstEnv == [v |-> 1, filesize |-> 2]

\* A board in use: a saved environment, with the filesize of some earlier
\* download in it, and two kernels.
Init ==
  /\ SpiInit
  /\ flash = [a \in Addr |->
       CASE a \in Area("env")    -> EnvCell(FirstEnv, TRUE, a - EnvOffset)
         [] a \in Area("normal") -> ImgCell(<<"normal", NormalSize>>, a - NormalOffset)
         [] a \in Area("backup") -> ImgCell(<<"backup", BackupSize>>, a - BackupOffset)
         [] OTHER -> Erased]
  /\ inFlash = {FirstEnv} /\ sure = TRUE
  /\ pc = "start" /\ env = default_environment /\ crc = TRUE
  /\ env_flash = FALSE /\ sf_flash = FALSE /\ busySave = FALSE
  /\ ram = [i \in 0..(RamSize - 1) |-> Garbage]
  /\ target = "normal" /\ spisize = Unset /\ ok = FALSE
  /\ asked = {} /\ installed = [p \in Parts |-> NoFile]
  /\ commands = 0 /\ resets = 0

Idle == call = NoCall

------------------------------------------------------------------------------
(* The environment.                                                         *)

set_default_env == env' = default_environment /\ crc' = TRUE

\* env_relocate_spec: no chip, no environment and no saveenv either.
RelocateProbe ==
  /\ pc = "start" /\ Idle
  /\ env_flash' = spi_flash_probe
  /\ IF spi_flash_probe
     THEN spi_flash_read(EnvOffset, EnvSize) /\ pc' = "relocate" /\ UNCHANGED <<env, crc>>
     ELSE set_default_env /\ pc' = "prompt" /\ UNCHANGED <<call, buf>>
  /\ UNCHANGED <<chip, rv, timeouts, sf_flash, asked, scriptVars, known, counts>>

\* Mutant: the checksum is not looked at.
RelocateUnchecked ==
  /\ pc = "relocate" /\ Idle
  /\ env' = (IF buf[0] \in {Erased, Garbage} THEN buf[0] ELSE buf[0][2][1]) /\ crc' = TRUE
  /\ pc' = "prompt" /\ buf' = << >>
  /\ UNCHANGED <<chip, call, rv, timeouts, sf_flash, asked, scriptVars, env_flash, known, counts>>

\* Mutant: only the first cell decides.
RelocateCrcMutant ==
  /\ pc = "relocate" /\ Idle
  /\ IF buf[0] \in {Erased, Garbage} THEN set_default_env
     ELSE env' = buf[0][2][1] /\ crc' = TRUE
  /\ pc' = "prompt" /\ buf' = << >>
  /\ UNCHANGED <<chip, call, rv, timeouts, sf_flash, asked, scriptVars, env_flash, known, counts>>

\* The CRC decides between the environment read and the default one.
RelocateCrc ==
  /\ pc = "relocate" /\ Idle
  /\ IF /\ buf[0] \notin {Erased, Garbage}
        /\ \A i \in DOMAIN buf : buf[i] = EnvCell(buf[0][2][1], TRUE, i)
     THEN env' = buf[0][2][1] /\ crc' = TRUE
     ELSE set_default_env
  /\ pc' = "prompt" /\ buf' = << >>
  /\ UNCHANGED <<chip, call, rv, timeouts, sf_flash, asked, scriptVars, env_flash, known, counts>>

\* setenv of a user's variable; the CRC is brought up to date.
SetEnv ==
  /\ pc = "prompt"
  /\ \E x \in UserValues : env' = [env EXCEPT !.v = x]
  /\ crc' = TRUE
  /\ UNCHANGED <<spiVars, pc, sf_flash, asked, scriptVars, env_flash, known, counts>>

\* setenv of a value that does not fit: the old one is gone, the CRC is not
\* brought up to date.
SetEnvOverflow ==
  /\ pc = "prompt" /\ env.v # Unset
  /\ env' = [env EXCEPT !.v = Unset] /\ crc' = FALSE
  /\ UNCHANGED <<spiVars, pc, sf_flash, asked, scriptVars, env_flash, known, counts>>

\* A command that changes area p begins; earlier areas count while the chip
\* still works on them.
Ask(p) == asked' = (IF WIP THEN asked ELSE {}) \cup {p}

\* saveenv: refused without env_flash; the sector is not larger than the
\* environment, nothing has to be kept.
SaveEnv ==
  /\ pc = "prompt" /\ env_flash /\ commands < MaxCommands
  /\ commands' = commands + 1 /\ Ask("env")
  /\ spi_flash_erase(EnvOffset, EnvSize) /\ pc' = "save erase"
  /\ inFlash' = inFlash \cup {env} /\ sure' = FALSE /\ busySave' = WIP
  /\ UNCHANGED <<chip, rv, buf, timeouts, sf_flash, scriptVars, env, crc, env_flash,
                 resets>>

\* Mutant: the result of the erase is not looked at.
SaveErasedMutant ==
  /\ pc = "save erase" /\ Idle
  /\ spi_flash_write(EnvOffset, [i \in 0..(EnvSize - 1) |-> EnvCell(env, crc, i)], EnvSize)
  /\ pc' = "save write"
  /\ UNCHANGED <<chip, rv, buf, timeouts, sf_flash, asked, scriptVars, envVars, counts>>

SaveErased ==
  /\ pc = "save erase" /\ Idle
  /\ IF rv = 0
     THEN /\ spi_flash_write(EnvOffset, [i \in 0..(EnvSize - 1) |-> EnvCell(env, crc, i)],
                             EnvSize)
          /\ pc' = "save write"
     ELSE pc' = "prompt" /\ UNCHANGED call
  /\ UNCHANGED <<chip, rv, buf, timeouts, sf_flash, asked, scriptVars, envVars, counts>>

\* saveenv returns; what it says is only worth something when the chip was ready
\* and the CRC was right.
SaveWritten ==
  /\ pc = "save write" /\ Idle
  /\ pc' = "prompt"
  /\ IF rv = 0 /\ crc /\ ~busySave
     THEN inFlash' = {env} /\ sure' = TRUE ELSE UNCHANGED <<inFlash, sure>>
  /\ UNCHANGED <<spiVars, sf_flash, asked, scriptVars, env, crc, env_flash, busySave, counts>>

------------------------------------------------------------------------------
(* The update scripts: netupdate, updatenormal, updatebackup.               *)

Update(p) ==
  /\ pc = "prompt" /\ commands < MaxCommands
  /\ commands' = commands + 1 /\ Ask(p)
  /\ target' = p /\ ok' = TRUE /\ pc' = "tftp"
  /\ installed' = [installed EXCEPT ![p] = NoFile]
  /\ UNCHANGED <<spiVars, sf_flash, ram, spisize, envVars, resets>>

Loaded(f, n) == [i \in 0..(RamSize - 1) |-> IF i < n THEN ImgCell(f, i) ELSE ram[i]]

\* netload: tftp, of a file of n cells.  filesize is only set when something
\* was received, a failed transfer leaves a part of the file, and spisize is
\* taken from filesize in every case.
Netload ==
  /\ pc = "tftp" /\ pc' = "test"
  /\ \E n \in FileSizes :
       \/ /\ ram' = Loaded(<<target, n>>, n)
          /\ env' = [env EXCEPT !.filesize = IF n > 0 THEN n ELSE @]
          /\ ok' = (n > 0)
       \/ /\ \E k \in Partial : k < n /\ ram' = Loaded(<<target, n>>, k)
          /\ env' = env /\ ok' = FALSE
  /\ spisize' = env'.filesize
  /\ crc' = TRUE
  /\ UNCHANGED <<spiVars, sf_flash, asked, target, installed, env_flash, known,
                 counts>>

\* Mutant: the size is not compared with that of the partition.
SizeTestMutant ==
  /\ pc = "test" /\ pc' = "probe"
  /\ UNCHANGED <<spiVars, sf_flash, asked, scriptVars, envVars, counts>>

\* test ${spisize} -le ${partsize}
SizeTest ==
  /\ pc = "test"
  /\ pc' = IF spisize <= partsize(target) THEN "probe" ELSE "prompt"
  /\ UNCHANGED <<spiVars, sf_flash, asked, scriptVars, envVars, counts>>

\* sf probe: the chip found before stays selected when this one fails.
SfProbe ==
  /\ pc = "probe" /\ pc' = "erase"
  /\ sf_flash' = (sf_flash \/ spi_flash_probe)
  /\ ok' = (ok /\ spi_flash_probe)
  /\ UNCHANGED <<spiVars, asked, ram, target, spisize, installed, envVars, counts>>

\* No chip is selected, or the size is "0x" and the command prints its usage.
SfRefused == ~sf_flash \/ spisize = Unset

\* sf erase ${spioffset} ${spisize}
SfErase ==
  /\ pc = "erase"
  /\ IF SfRefused
     THEN pc' = "write" /\ ok' = FALSE /\ UNCHANGED call
     ELSE /\ spi_flash_erase(offset(target), spisize)
          /\ pc' = "erased" /\ UNCHANGED ok
  /\ UNCHANGED <<chip, rv, buf, timeouts, sf_flash, asked, ram, target, spisize, installed,
                 envVars, counts>>

\* hush goes on after a failed command.
SfErased ==
  /\ pc = "erased" /\ Idle
  /\ pc' = "write" /\ ok' = (ok /\ rv = 0)
  /\ UNCHANGED <<spiVars, sf_flash, asked, ram, target, spisize, installed, envVars, counts>>

\* sf write ${loadaddr} ${spioffset} ${spisize}
SfWrite ==
  /\ pc = "write"
  /\ IF SfRefused
     THEN pc' = "prompt" /\ ok' = FALSE /\ UNCHANGED call
     ELSE /\ spi_flash_write(offset(target), ram, spisize)
          /\ pc' = "written" /\ UNCHANGED ok
  /\ UNCHANGED <<chip, rv, buf, timeouts, sf_flash, asked, ram, target, spisize, installed,
                 envVars, counts>>

\* The end of the script; History: an update all of whose commands succeeded has
\* installed the file.
SfWritten ==
  /\ pc = "written" /\ Idle /\ pc' = "prompt" /\ ok' = FALSE
  /\ installed' = [installed EXCEPT ![target] =
                     IF ok /\ rv = 0 THEN <<target, spisize>> ELSE NoFile]
  /\ UNCHANGED <<spiVars, sf_flash, asked, ram, target, spisize, envVars, counts>>

------------------------------------------------------------------------------
(* flashboot up to bootm, which comes back when it finds no image.          *)

FlashBoot(p) ==
  /\ pc = "prompt" /\ commands < MaxCommands
  /\ commands' = commands + 1
  /\ target' = p /\ spisize' = partsize(p) /\ crc' = TRUE
  /\ pc' = "boot probe"
  /\ UNCHANGED <<spiVars, sf_flash, asked, ram, ok, installed, env, env_flash, known, resets>>

\* run spiprobe; sf read ${loadaddr} ${spioffset} ${spisize}
SfRead ==
  /\ pc = "boot probe"
  /\ sf_flash' = (sf_flash \/ spi_flash_probe) /\ ok' = spi_flash_probe
  /\ IF sf_flash'
     THEN spi_flash_read(offset(target), spisize) /\ pc' = "boot read"
     ELSE pc' = "prompt" /\ UNCHANGED <<call, buf>>
  /\ UNCHANGED <<chip, rv, timeouts, asked, ram, target, spisize, installed, envVars, counts>>

SfReadDone ==
  /\ pc = "boot read" /\ Idle /\ pc' = "prompt" /\ ok' = FALSE
  /\ ram' = [i \in 0..(RamSize - 1) |-> IF i \in DOMAIN buf THEN buf[i] ELSE ram[i]]
  /\ buf' = << >>
  /\ UNCHANGED <<chip, call, rv, timeouts, sf_flash, asked, target, spisize, installed,
                 envVars, counts>>

------------------------------------------------------------------------------
(* Power loss and reset.                                                    *)

Restart ==
  /\ resets < MaxResets /\ resets' = resets + 1
  /\ pc' = "start" /\ call' = NoCall /\ rv' = 0 /\ buf' = << >>
  /\ env' = default_environment /\ crc' = TRUE
  /\ env_flash' = FALSE /\ sf_flash' = FALSE /\ busySave' = FALSE
  /\ spisize' = Unset /\ ok' = FALSE
  /\ UNCHANGED <<driver, timeouts, target, installed, inFlash, sure, commands>>

PowerLoss ==
  /\ Restart /\ ChipPowerLoss
  /\ ram' = [i \in 0..(RamSize - 1) |-> Garbage] /\ asked' = {}

\* A reset of the processor: the chip goes on with what it does.
CpuReset == Restart /\ UNCHANGED <<flash, pend, ram, asked>>

------------------------------------------------------------------------------

Board == DriverStep /\ UNCHANGED <<pc, sf_flash, asked, scriptVars, envVars, counts>>
Chip  == ChipDone /\ UNCHANGED <<pc, sf_flash, asked, scriptVars, envVars, counts>>

Script ==
  RelocateProbe \/ RelocateCrc \/ SaveErased \/ SaveWritten \/ Netload \/ SizeTest
    \/ SfProbe \/ SfErase \/ SfErased \/ SfWrite \/ SfWritten \/ SfRead \/ SfReadDone

User == SetEnv \/ SetEnvOverflow \/ SaveEnv \/ \E p \in Parts : Update(p) \/ FlashBoot(p)

Next == Board \/ Chip \/ Script \/ User \/ PowerLoss \/ CpuReset

Spec == Init /\ [][Next]_vars

\* The processor goes on, the chip comes to the end of what it does.
FairSpec == Spec /\ WF_vars(Board \/ Script) /\ WF_vars(Chip)

------------------------------------------------------------------------------
(* Properties.                                                              *)

TypeOK ==
  /\ DOMAIN flash = Addr /\ DOMAIN pend \subseteq Addr
  /\ call.op \in {"none", "erase", "write", "read"} /\ rv \in {0, -1}
  /\ pc \in {"start", "relocate", "prompt", "save erase", "save write", "tftp", "test",
             "probe", "erase", "erased", "write", "written", "boot probe", "boot read"}
  /\ env \in Environments /\ crc \in BOOLEAN
  /\ env_flash \in BOOLEAN /\ sf_flash \in BOOLEAN /\ ok \in BOOLEAN
  /\ DOMAIN ram = 0..(RamSize - 1) /\ target \in Parts /\ spisize \in 0..RamSize
  /\ asked \subseteq Parts \cup {"env"}

\* Only the area a command names changes: whatever the sizes, the transfers,
\* the timeouts and the restarts, a cell of the boot loader's sector, of the
\* environment or of another partition is never erased or programmed, not even
\* by an operation that goes on after its command was given up.  All areas are
\* below AddrSpace (LayoutAssumption): no address is taken modulo 16 MiB here.
OnlyAskedArea ==
  [][\A a \in Addr : flash'[a] # flash[a] => \E p \in asked : a \in Area(p)]_vars

\* spansion_erase stops after one sector, with success, when the range ends with
\* the chip: sec_size is 0 there.
EraseFallsShort(p, n) == driver = "spansion" /\ offset(p) + n = FlashSize

\* After an update that received something and in which every command succeeded the
\* partition holds the downloaded file, and goes on holding it until the next
\* update of the same partition, through restarts, other updates and saveenv.  Two
\* cases are excepted: an update with a file that fills a Spansion chip to its end,
\* whose erase falls short, and one after an empty download, which writes what was
\* in memory and counts as failed here (Netload).
UpdateExact ==
  \A p \in Parts : installed[p] # NoFile /\ ~EraseFallsShort(p, installed[p][2]) =>
    \A i \in 0..(installed[p][2] - 1) : flash[offset(p) + i] = ImgCell(installed[p], i)

\* An environment that was saved stays whole in flash until the next saveenv,
\* through updates, timeouts, resets and power losses.
EnvSurvives == sure => \A e \in inFlash : EnvWhole(e)

\* The start finds what was saved: the last environment whose saveenv went well,
\* and after one that did not the default environment, or one of the two it
\* was about, whole; never a mixture.
BootsSavedEnv ==
  [][pc = "relocate" /\ pc' = "prompt" =>
       \/ env' \in inFlash /\ EnvWhole(env')
       \/ env' = default_environment /\ ~sure]_vars

\* sf read after a successful probe brings the partition's content, all of it,
\* to memory, in transfers that do not end on page boundaries.
LoadExact ==
  [][pc = "boot read" /\ pc' = "prompt" /\ ok =>
       \A i \in 0..(spisize - 1) : ram'[i] = flash[offset(target) + i]]_vars

\* saveenv (help text: "save environment variables to persistent storage"):
\* when it returns 0 the next start finds the environment.
SaveMeansSaved == [][pc = "save write" /\ pc' = "prompt" /\ rv = 0 => EnvWhole(env)]_vars

\* Every command ends: the prompt comes back, whatever is given up or restarted.
PromptReturns == []<>(pc = "prompt")
==============================================================================
