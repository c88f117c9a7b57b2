------------------------------ MODULE BootFlow ------------------------------
(***************************************************************************)
(* From reset to the kernel on the Volkh board: the boot counter and the   *)
(* choice of the boot command in main_loop (common/main.c,                 *)
(* cpu/arm_cortexm3/m2s/cpu.c), the scripts of the default environment     *)
(* (include/configs/m2s-volkh.h) with hush's rule that a failed command    *)
(* does not stop a list while a failed script stops a "run", and the       *)
(* outcomes of bootm.  Two kernels are in SPI flash; the kernel that is    *)
(* started, the FPGA programming and the supply are external.              *)
(***************************************************************************)
EXTENDS Integers

CONSTANTS
  BootLimit,    \* bootlimit
  MaxRequests,  \* bound on the FPGA updates the kernel asks for
  MaxResets,    \* bound on the resets and power cycles from outside
  MaxReadFaults,\* bound on failing SPI flash reads
  MaxMssFaults  \* bound on failing "mss getver"

ASSUME BootAssumption ==
  /\ BootLimit \in Nat \ {0}
  /\ MaxRequests \in Nat /\ MaxResets \in Nat
  /\ MaxReadFaults \in Nat /\ MaxMssFaults \in Nat

Partition == {"normal", "backup"}

\* What bootm makes of an image: it starts a kernel that comes up, or one that
\* panics; the checksum fails and bootm returns; or the load fails and it resets.
Image == {"good", "panics", "corrupt", "unloadable"}

Garbage == [from |-> "nowhere", image |-> "corrupt"]
Loaded  == [from : Partition, image : Image] \cup {Garbage}

VARIABLES
  pc,           \* where the boot is
  count, magic, \* the two words at CONFIG_SYS_BOOTCOUNT_ADDR
  bootcount,    \* the variable of main_loop
  flag,         \* *fpgaupdateaddr == fpgaupdatevalu
  flash,        \* the images in the two partitions
  part,         \* the partition spioffset and spisize name
  ram,          \* what is at loadaddr
  args,         \* bootargs has been built since the reset
  tries,        \* autoboots of the normal kernel since the counter was cleared
  requests,     \* FPGA updates asked for
  programs,     \* runs of "mss iapprog"
  resets, readFaults, mssFaults

cntVars   == <<count, magic, bootcount>>
faultVars == <<resets, readFaults, mssFaults>>
ghostVars == <<tries, requests, programs>>
vars == <<pc, cntVars, flag, flash, part, ram, args, ghostVars, faultVars>>

TypeOK ==
  /\ pc \in {"reset", "select", "prompt", "fpgaupdate", "iapauth", "rstbootcnt",
             "iapprog", "normal", "backup", "flashboot", "getfpgainfo", "bootm",
             "kernel", "dead"}
  /\ count \in 0..(BootLimit + 1) /\ bootcount \in 0..(BootLimit + 1)
  /\ magic \in BOOLEAN /\ flag \in BOOLEAN /\ args \in BOOLEAN
  /\ flash \in [Partition -> Image]
  /\ part \in Partition
  /\ ram \in Loaded
  /\ tries \in Nat
  /\ requests \in 0..MaxRequests /\ programs \in Nat
  /\ resets \in 0..MaxResets
  /\ readFaults \in 0..MaxReadFaults /\ mssFaults \in 0..MaxMssFaults

\* Power on: RAM holds neither the magic number nor the update flag.
Init ==
  /\ pc = "reset"
  /\ count \in 0..(BootLimit + 1) /\ magic = FALSE /\ bootcount = 0
  /\ flag = FALSE /\ flash \in [Partition -> Image]
  /\ part = "normal" /\ ram = Garbage /\ args = FALSE
  /\ tries = 0 /\ requests = 0 /\ programs = 0
  /\ resets = 0 /\ readFaults = 0 /\ mssFaults = 0

------------------------------------------------------------------------------
(* main_loop.                                                               *)

\* The garbage that memory holds at power on is taken for a counter only when
\* the magic number stands beside it.
bootcount_load == IF magic THEN count ELSE 0

bootcount_store(n) == count' = n /\ magic' = TRUE

\* The counter is loaded, increased and stored.  Nothing tells values above
\* BootLimit apart, so the model stops counting there.  The environment of the
\* last run is gone.
main_loop ==
  /\ pc = "reset" /\ pc' = "select"
  /\ bootcount' = IF bootcount_load > BootLimit THEN bootcount_load
                  ELSE bootcount_load + 1
  /\ bootcount_store(bootcount')
  /\ args' = FALSE
  /\ UNCHANGED <<flag, flash, part, ram, ghostVars, faultVars>>

\* Mutant: off by one.
LimitExceededMutant == bootcount > BootLimit + 1

LimitExceeded == bootcount > BootLimit

\* altbootcmd is "run backupboot", bootcmd "run normalboot; run backupboot".
Autoboot ==
  /\ pc = "select"
  /\ IF LimitExceeded THEN pc' = "backup" /\ UNCHANGED tries
     ELSE pc' = "fpgaupdate" /\ tries' = tries + 1
  /\ UNCHANGED <<cntVars, flag, flash, part, ram, args, requests, programs, faultVars>>

\* abortboot: the operator types the stop string.
Abortboot ==
  /\ pc = "select" /\ pc' = "prompt"
  /\ UNCHANGED <<cntVars, flag, flash, part, ram, args, ghostVars, faultVars>>

------------------------------------------------------------------------------
(* The scripts.                                                             *)

\* fpgaupdate, first command of normalboot: the flag is cleared before anything
\* is done about it.
fpgaupdate ==
  /\ pc = "fpgaupdate"
  /\ IF flag THEN pc' = "iapauth" ELSE pc' = "normal"
  /\ flag' = FALSE
  /\ UNCHANGED <<cntVars, flash, part, ram, args, ghostVars, faultVars>>

\* "if mss iapauth; then ... else boot; fi": boot runs bootcmd again, which
\* ends in a kernel or in a reset.
iapauth ==
  /\ pc = "iapauth"
  /\ pc' \in {"rstbootcnt", "fpgaupdate"}
  /\ UNCHANGED <<cntVars, flag, flash, part, ram, args, ghostVars, faultVars>>

\* Mutant: the counter is set so that the next boot counts as none.
rstbootcntMutant ==
  /\ pc = "rstbootcnt" /\ pc' = "iapprog"
  /\ count' = -1 /\ tries' = 0
  /\ UNCHANGED <<magic, bootcount, flag, flash, part, ram, args, requests, programs,
                 faultVars>>

rstbootcnt ==
  /\ pc = "rstbootcnt" /\ pc' = "iapprog"
  /\ count' = 0 /\ tries' = 0
  /\ UNCHANGED <<magic, bootcount, flag, flash, part, ram, args, requests, programs,
                 faultVars>>

\* Mutant: a programming that fails leaves the request for the next boot.
iapprogMutant ==
  /\ pc = "iapprog"
  /\ programs' = programs + 1
  /\ \/ pc' = "reset" /\ magic' \in {magic, FALSE} /\ UNCHANGED flag
     \/ pc' = "normal" /\ flag' = TRUE /\ UNCHANGED magic
  /\ UNCHANGED <<count, bootcount, flash, part, ram, args, tries, requests, faultVars>>

\* The device is programmed and resets, with the counter in the fabric's RAM
\* kept or not; or the command returns and normalboot goes on.
iapprog ==
  /\ pc = "iapprog"
  /\ programs' = programs + 1
  /\ \/ pc' \in {"reset", "normal"} /\ UNCHANGED magic
     \/ pc' = "reset" /\ magic' = FALSE
  /\ UNCHANGED <<count, bootcount, flag, flash, part, ram, args, tries, requests,
                 faultVars>>

\* setenv spioffset and spisize, in normalboot and in backupboot.
SelectPartition ==
  /\ pc \in Partition /\ pc' = "flashboot"
  /\ part' = pc
  /\ UNCHANGED <<cntVars, flag, flash, ram, args, ghostVars, faultVars>>

\* flashboot: sf probe and sf read.  A failure is not looked at: what was in
\* RAM stays, or has been overwritten in part.
flashboot ==
  /\ pc = "flashboot" /\ pc' = "getfpgainfo"
  /\ \/ ram' = [from |-> part, image |-> flash[part]] /\ UNCHANGED readFaults
     \/ /\ readFaults < MaxReadFaults /\ readFaults' = readFaults + 1
        /\ ram' \in {ram, Garbage}
  /\ UNCHANGED <<cntVars, flag, flash, part, args, ghostVars, resets, mssFaults>>

\* "run getfpgainfo setargs addip": when the last command of getfpgainfo fails,
\* the other two scripts are not run.
getfpgainfo ==
  /\ pc = "getfpgainfo" /\ pc' = "bootm"
  /\ \/ args' = TRUE /\ UNCHANGED mssFaults
     \/ /\ mssFaults < MaxMssFaults /\ mssFaults' = mssFaults + 1
        /\ UNCHANGED args
  /\ UNCHANGED <<cntVars, flag, flash, part, ram, ghostVars, resets, readFaults>>

\* Mutant: the prompt after a bootm that returns in backupboot is never left.
AfterBootmMutant == "dead"

\* What follows a bootm that returns: "run backupboot", or "reset".
AfterBootm == IF part = "normal" THEN "backup" ELSE "reset"

\* bootm_start finds an image and its checksums are right; bootm_load_os
\* unpacks it to where it runs.  After a failure of the first bootm returns,
\* after one of the second it resets.
bootm_start   == ram.image # "corrupt"
bootm_load_os == ram.image # "unloadable"

do_bootm ==
  /\ pc = "bootm"
  /\ \/ ~bootm_start /\ pc' = AfterBootm
     \/ bootm_start /\ ~bootm_load_os /\ pc' = "reset"
     \/ bootm_start /\ bootm_load_os /\ pc' = "kernel"
  /\ UNCHANGED <<cntVars, flag, flash, part, ram, args, ghostVars, faultVars>>

\* The operator at the prompt types boot or reset.
OperatorBoot ==
  /\ pc = "prompt"
  /\ \/ pc' = "fpgaupdate"
     \/ pc' = "reset"
  /\ UNCHANGED <<cntVars, flag, flash, part, ram, args, ghostVars, faultVars>>

------------------------------------------------------------------------------
(* The kernel and the supply (external).                                    *)

\* panic=10 of bootargs makes a kernel that panics reset; without it, it stays.
KernelPanics ==
  /\ pc = "kernel" /\ ram.image = "panics"
  /\ pc' = IF args THEN "reset" ELSE "dead"
  /\ UNCHANGED <<cntVars, flag, flash, part, ram, args, ghostVars, faultVars>>

\* A kernel that came up clears the counter.
KernelClearsCount ==
  /\ pc = "kernel" /\ ram.image = "good" /\ count # 0
  /\ count' = 0 /\ tries' = 0
  /\ UNCHANGED <<pc, magic, bootcount, flag, flash, part, ram, args, requests, programs,
                 faultVars>>

\* It asks for an FPGA update and reboots.
KernelRequestsUpdate ==
  /\ pc = "kernel" /\ ram.image = "good" /\ requests < MaxRequests
  /\ pc' = "reset"
  /\ flag' = TRUE /\ requests' = requests + 1
  /\ UNCHANGED <<cntVars, flash, part, ram, args, tries, programs, faultVars>>

\* A reset from outside, at any moment: RAM keeps its content.
WarmReset ==
  /\ resets < MaxResets /\ resets' = resets + 1
  /\ pc' = "reset"
  /\ UNCHANGED <<cntVars, flag, flash, part, ram, args, ghostVars, readFaults,
                 mssFaults>>

PowerCycle ==
  /\ resets < MaxResets /\ resets' = resets + 1
  /\ pc' = "reset"
  /\ count' \in 0..(BootLimit + 1) /\ magic' = FALSE
  /\ flag' = FALSE /\ ram' = Garbage
  /\ tries' = 0
  /\ UNCHANGED <<bootcount, flash, part, args, requests, programs, readFaults,
                 mssFaults>>

------------------------------------------------------------------------------
BootStep ==
  \/ main_loop \/ Autoboot \/ fpgaupdate \/ iapauth \/ rstbootcnt \/ iapprog
  \/ SelectPartition \/ flashboot \/ getfpgainfo \/ do_bootm

Next ==
  \/ BootStep \/ Abortboot \/ OperatorBoot
  \/ KernelPanics \/ KernelClearsCount \/ KernelRequestsUpdate
  \/ WarmReset \/ PowerCycle

Spec == Init /\ [][Next]_vars

\* U-Boot runs, and a panicking kernel panics.
FairSpec == Spec /\ WF_vars(BootStep) /\ WF_vars(KernelPanics)

------------------------------------------------------------------------------
(* Properties.                                                              *)

\* The normal kernel gets at most bootlimit automatic attempts before it has
\* cleared the counter, whatever the resets in between: the counter survives
\* them.  An FPGA update starts the count anew, after the attempt under way.  This
\* counts the times main_loop chooses the normal command, not the images started:
\* when sf read fails, another image may still be at loadaddr.
NormalTriesBounded == tries <= BootLimit

\* An update request is carried out at most once: a reset or a crash during
\* authentication or programming does not lead to a second programming.
OneUpdatePerRequest == programs <= requests

\* With a good image in the backup partition every reset leads to a kernel that
\* comes up, or to the operator's prompt, whatever is in the normal partition.
\* One way out: a kernel started after "mss getver" failed has no panic=10 and
\* stays where it panics.
ComesUp ==
  (pc = "reset" /\ flash["backup"] = "good")
    ~> \/ pc = "prompt"
       \/ pc = "kernel" /\ ram.image = "good"
       \/ pc = "dead" /\ mssFaults > 0
==============================================================================
