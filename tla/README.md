# TLA+ models of the Volkh boot loader

This directory holds a verification project for the U-Boot of the Volkh board
(a Microsemi SmartFusion2, Cortex-M3): TLA+ modules for the parts of the boot
loader where state, interrupts, messages, timeouts and resets meet, TLC
configurations that check them on small instances, and TLAPS proofs of what
matters most for every value of the constants. All paths below are relative to
`src/`.

The tree is a full U-Boot with hundreds of boards. The project models the
program of *this* board: the code its configuration
(`include/configs/m2s-volkh.h`) puts into the image, and of that the part that
is the board's own logic.

## 1. Inventory

| Component | State it keeps | Operations | Interacts with |
|---|---|---|---|
| COMM_BLK driver (`cpu/arm_cortexm3/m2s/mss_comblk.c`) | driver state, command and data left to send, response pointer and index, completion handler, busy flag, interrupt enables | three send functions, interrupt handler (transmit and receive half) | System Controller through two FIFOs; services above through completion and event callbacks |
| System Services (`.../mss_sys_services.c`) | request-in-progress flag, last response length, eNVM configuration it changes for a while | `execute_service`, `initiate_iap`, `check_digest`, `start_isp`, completion handlers, event handler | called by the `mss` command; calls the driver; is called back from the interrupt |
| `mss` command (`.../cmd_mss.c`) | "init called" flag, the SPI slave it holds | get serial number, user code, version; IAP authenticate, program, verify | services, SPI bus, environment |
| TFTP client (`net/tftp.c`) | protocol state, block number and wrap offset, block size, server port, timeout count, the memory it fills | start, send, packet handler, timeout | network loop, ARP, server |
| NFS client (`net/nfs.c`) | protocol state, `rpc_id`, server ports, mount flag, file handles, offset, download state, timeout count | start, send, six reply handlers, timeout | network loop, portmapper and NFS server |
| network loop and ARP (`net/net.c`) | `NetState`, handlers, timer, try count, ARP wait packet and retry count | `NetLoop`, `NetStartAgain`, `ArpTimeoutCheck`, `NetReceive` | all protocols, Ethernet driver |
| Ethernet MAC driver (`drivers/net/m2s_eth.c`) | two descriptor rings and the index of each | init, send, recv, halt | the MAC's DMA engine; `NetReceive`, which may call back into init and halt |
| boot flow (`common/main.c`, `.../m2s/cpu.c`, the scripts in `m2s-volkh.h`) | boot counter and magic number in fabric RAM, FPGA update flag, RAM at `loadaddr`, environment | count, choose the boot command, `fpgaupdate`, `normalboot`, `backupboot`, `bootm` | `mss` command, SPI flash, kernel |
| environment in SPI flash (`common/env_sf.c`, `env_common.c`, `cmd_nvedit.c`) | one copy in flash, one in RAM with its CRC | relocate, `setenv`, `saveenv` | SPI flash, every script |
| SPI flash and controller (`drivers/mtd/spi`, `drivers/spi/m2s_spi.c`, `common/cmd_sf.c`) | the probed device; flash content; an operation the chip goes on with by itself | probe, read, write, erase | scripts, environment, `mss` command |
| `bootm`, hush, console, timers, other protocols, other boards | | | see section 9 |

What is hard here, and what makes each component correct:

* **Driver and services** are split between a main thread and an interrupt
  handler that share a dozen globals. Two layers each keep a busy flag; the
  System Controller may send a message at any time; a message and a response
  arrive through the same FIFO and are told apart by one bit and by opcodes.
  Correct means: the status returned is the one answered, nothing is stored
  outside the response array, no request is lost between the layers, frames
  leave in order, SPI flash and eNVM settings are given back on every path.
* **TFTP** runs over a network that loses, delays, repeats and reorders, with
  16-bit block numbers, retries and restarts. Correct means: success is
  reported only for the exact file, an acknowledgement is given only for what
  is stored, the client sticks to one transfer, and single losses do not stop it.
* **NFS** knows a reply by a counter only, uses one fixed port, keeps handles and
  ports from one download to the next, and goes through seven states, each with
  its own reply. Correct means: what is stored is the file asked for, whatever
  late replies come, and losses alone do not keep it from being loaded.
* **The receive ring** is shared with a DMA engine, and the packet handler it
  calls may restart or halt the device. Correct means: it is a queue, and no
  frame stays in it or is delivered twice. The one transmit descriptor and the one
  packet buffer are reused while the DMA may still have them; correct means that
  success is returned only for a packet that went out.
* **The flash** holds the boot loader, one environment and two kernels. A chip
  works on an erase or a page after the command and ignores commands meanwhile;
  a wait may be given up; power may go at any moment; scripts go on after a
  failed command. Correct means: nothing but the area named changes, an update
  that reported no error is complete, and a saved environment is what the next
  start finds.
* **The boot flow** has to survive resets, power cycles and failing steps
  anywhere. Correct means: a bad kernel gets a limited number of attempts, a
  good backup always comes up, an FPGA update is done once.

The list `hazards` of `PROJECT.json` has each of these at its line, with the
properties that cover it, or the reason why none does yet.

## 2. Modules

| Module | Models | Kind |
|---|---|---|
| `ComBlk` | `mss_comblk.c` | component; no `Next` of its own |
| `SysServices` | `mss_sys_services.c`, `cmd_mss.c`, and the System Controller (external); composes `ComBlk` | specification |
| `MCSysServices` | services, lengths, opcodes, pages for TLC | instance |
| `SysServicesProofs` | types, bounds of the response, no request lost | proofs |
| `SysRequestProofs` | a request from its first byte to its status: frames, pages, answer, events, IAP | proofs |
| `Tftp` | `tftp.c` inside `net.c`, a TFTP server and a network (external) | specification |
| `TftpProofs` | theorems about `Tftp` | proofs |
| `Nfs` | `nfs.c` inside `net.c`, portmapper and NFS server (external) | specification |
| `MCNfs` | what the server has at each path | instance |
| `NfsProofs` | theorems about `Nfs` | proofs |
| `RxQueue` | what the receive side of an Ethernet driver promises | abstract specification |
| `M2sEth` | receive ring and transmit descriptor of `m2s_eth.c`, the DMA (external); implements `RxQueue` | specification |
| `M2sEthProofs` | both sides of `M2sEth`, and that it implements `RxQueue` | proofs |
| `SpiFlash` | `stmicro.c`, `spansion.c`, `spi_flash.c`; the chip (external) | component; no `Next` of its own |
| `FlashUpdate` | `env_sf.c`, `setenv`, `sf`, the update scripts; composes `SpiFlash` | specification |
| `SpiFlashProofs` | lemmas: alignment, sectors, what one erase or program command does | proofs |
| `FlashUpdateProofs` | theorems about `FlashUpdate` | proofs |
| `BootFlow` | `main_loop`, the boot counter, the scripts, the outcomes of `bootm`; kernel and supply (external) | specification |
| `BootFlowProofs` | theorems about `BootFlow` | proofs |

Definitions carry the names of the functions they model. Operators whose name
ends in `Mutant`, and those whose comment begins with that word, are plausible wrong versions of the operator that
follows them; no specification uses them. They show that the properties react:
with the wrong version in place TLC finds the named property violated.

### ComBlk and SysServices

The main thread's position is `pc`; it runs with interrupts enabled from
`InitIfNeeded` to `Finish`. `Interrupt` is the entry of `ComBlk_IRQHandler`,
which latches the masked status in `irq`; `HandleRx` and `HandleTx` are the two
halves, one received byte or one FIFO fill each, before the main thread goes on
(`InIrq`). The send functions mask the COMM_BLK interrupt in the NVIC, so they
are a few steps that only the System Controller interleaves with: begin the
request (aborting the one before), send the opcode, send parameters, finish and
unmask.

Bytes are abstracted: a sent byte is the request and a position in its frame, a
received byte is a value out of the few the driver tells apart (the opcodes,
zero, another one, the digest opcode 0xF1) with its command bit. Three response
buffers are told apart: the driver's own two bytes, the array on the caller's
stack (content lost and undefined at each call) and that of an ISP request.

An IAP program that succeeds resets the device (`CtlProgram`): the state goes
back to that of a start. The verdicts that `clk_switching_fix` may give on the
clock dividers are the constant `ClkFix`; run `sys_services_por` has both.
Histories: `refused` (an IAP was refused since the last reset), `porSent` and
`porData` (digest messages, and data bytes of their opcode's value, that the
controller sent; `MaxPorData` bounds the latter), `porSeen` (digest errors that
the event handler was told of).
`start_isp` is modelled as U-Boot's configuration would run it in authenticate
mode; nothing in U-Boot calls it, and it is there because the driver's paged
transmission has no other user.

### Tftp

File and memory are functions on units; unit `u` of the file holds `u`. Packets
are records in a set. Two kinds of network: with `Dup` a packet stays in the set
for ever (so it may be lost, late, repeated, out of order); without, it is
delivered once or lost, at most `MaxLoss` times. The client port is the number
of the try, so a packet of an earlier try is recognisably old; the code draws
ports from the clock and two tries could share one, which is left out.
`NetStartAgain`, `netretry`, both timers, the ARP wait and Ctrl-C (`Abort`) are
there. Time is "elapsed or not", in any order with packets; in run `tftp_loss`
(`Patient`) a timeout happens only when the network is empty, that is, when
something was lost.

### Nfs

The seven states of `NfsState` with one action per reply function; a request
is sent by `NfsSend` for the state reached, with the next `rpc_id`. The server
keeps no state, so its answers are put into the network when the request is
sent, and delay is a matter of delivery; a lost request is a lost reply. A path
is a directory (the file name is the same everywhere); what is there (`kind`) is
a file, which may be empty, a link, nothing, or a directory the server refuses to
mount. A link leads to `linkTo` of its path, which may be a link again, as in the
code without a limit; `target` says where the links end. On a circle of links
`target` is one of them, by the equation in `NfsAssumption`. A `patient` world loses up to `MaxFaults` packets
and lets a timer run out only when nothing is under way; in the other world
replies stay in the network for `MaxAge` further requests and are delivered any
number of times in any order, timers run out at any time, the server may fail
and the user may abort. The state kept between downloads is kept.

### M2sEth and RxQueue

`m2s_eth_recv` takes two steps per frame, with `NetReceive` in between, because
a handler may call `eth_halt` and `eth_init` there (constant `Reacts`). The DMA
fills descriptors at any time and stops at one that is not free. The refinement
maps the full descriptors, from the current one on, to the queue.
`m2s_eth_send` enters (or returns `-EINVAL`, which may happen to any packet, or
`-EBUSY`), waits, and ends with the descriptor
empty or at the last tick of its wait; the DMA fetches the packet from the one
buffer the callers build packets in, sends it, and stops, each at its own time.
A handler may send between the two steps of `m2s_eth_recv`.

### SpiFlash and FlashUpdate

A cell stands for the bytes no boundary separates. A `spi_flash_*` call is split
as the drivers split it: into transfers of at most `MaxXfer` cells, these into
pages, an erase into sectors. A command starts an operation of the chip (`pend`);
`ChipDone` ends it, and until then the chip ignores commands and answers reads
and the identification with nothing useful. `GiveUp` is a `wait_ready` that runs
out of time. A page address wraps inside its page, an address wraps at three
bytes. Programming a cell that is not erased combines the two contents
(`Program`). `PowerLoss` cuts a running operation at any cell, `CpuReset` lets
the chip go on.

An environment is whole or not (`EnvCell`): the CRC accepts exactly the whole
ones, provided the CRC field was right when it was written. `inFlash` and `sure`
are history variables: what the flash may hold after the saves so far.
`Netload` has the outcomes `Tftp` shows for a download: complete, empty, or
failed with a part stored. `asked` are the areas the commands given so far name,
as long as the chip is at work on them; `installed` is the file each partition
was last updated with by a script all of whose commands succeeded (an empty
download counts as a failure).

### BootFlow

One step per command of the scripts that has an effect. Hush goes on after a
failed command of a list; `run` stops at the first script that fails. Images are
classified by what `bootm` makes of them: `good` and `panics` are started,
`corrupt` makes it return, `unloadable` makes it reset. Boot counter and FPGA
flag survive a reset, not a power cycle; at power on the counter's word holds
anything, without the magic number. `tries`, `requests` and `programs` are
history variables.

## 3. Runs

Passing runs:

| Run | Checks | Bounds |
|---|---|---|
| `sys_services` | `StatusIsAnswer`, `TxStream`, `PagesBeforeWait`, `PorEventPerByte`, action property `DeadStackGetsDigestOnly`, `TypeOK` | all commands and ISP requests in any order, FIFO of 3, two pages, one tamper event or digest message at any moment, one data byte 0xF1 in a response or in the message |
| `sys_services_por` | `NoLostRequest`, `StoreInBounds`, `SpiHeldForIap`, `EnvmAtPrompt`, liveness `CommandReturns`, deadlock | all commands in any order, two messages, digest messages included, dividers accepted or refused, FIFO of 4; no byte 0xF1, with which `NoLostRequest` and `CommandReturns` are false (section 6) |
| `tftp` | `ImageExact`, `AckMeansStored`, `SameTransfer`, `TypeOK` | file of 4 units, block sizes 1 and 2, repeating network, server errors, two transfers, two retries |
| `tftp_loss` | `ImageExact`, liveness `Downloads` | three losses anywhere, sequence numbers that wrap twice |
| `m2s_eth` | refinement `ImplementsQueue`, `RingInSync`, liveness `FrameNotStuck`, `TypeOK` | 3 descriptors, 7 frames: the ring wraps twice and overruns |
| `eth_react` | `HandedOnce`, `SendOkMeansSent` | 3 descriptors, 6 frames, 3 packets; handlers that restart and halt, packets sent from inside and outside of them, sends given up or refused for either reason |
| `nfs` | `PrefixExact`, `ImageExact`, liveness `Outcome`, `TypeOK` | two downloads; files of 3, 1 and 0 units read 2 at a time, a link, a link to it, a missing and a refused path; one retry, `netretry` 2, two faults, replies up to 5 requests old |
| `flash_update` | `UpdateExact`, `EnvSurvives`, action properties `OnlyAskedArea`, `BootsSavedEnv`, `LoadExact`, liveness `PromptReturns`, `TypeOK` | both drivers, 20 cells, two commands, one restart, one wait given up; transfers of 3 against pages of 2 |
| `boot_flow` | `NormalTriesBounded`, `OneUpdatePerRequest`, liveness `ComesUp`, `TypeOK` | limit 3, all 16 pairs of images, 2 resets or power cycles, 2 update requests, 2 flash faults, 1 failing `mss getver` |

Runs that end in a counterexample show where the code and what is written about
it disagree; `findings` in `PROJECT.json` quotes both sides:

| Run | Property | What happens |
|---|---|---|
| `tftp_wrap` | `SameBlockIgnored` | a repeated block 0 is ignored, but moves the wrap offset once more |
| `eth_restart` | `RingInSync` | a handler that restarts the device leaves the driver's index one ahead of the DMA |
| `env_overflow` | `SaveMeansSaved` | a `setenv` that does not fit leaves the CRC wrong; `saveenv` then returns 0 for an environment the next start rejects |

Bounds. Messages to the driver are two at most because the handler's state
depends on the message before the current one only; responses are cut to three
bytes (opcode, status, one more), which is one more than the longest prefix the
driver looks at. `BootLimit` is the board's value. The counter is not counted
above the limit plus one, since nothing tells larger values apart. The TFTP
sequence space is 8 or smaller instead of 65536 so that it wraps inside a short
file. In `Nfs` two downloads are enough for state left over from the first to
meet the second; the `patient` and the other world are two sets of initial states
of one run, so that the liveness property speaks of the one and the safety
properties of both. In `FlashUpdate` a transfer of 3 cells ends inside a page, as
65530 bytes do; the environment has one sector in the large and two in the small
geometry of a Spansion chip; the normal partition ends with the chip, as the
board's does on a chip of 16 MB, and a file that fills it meets the early stop of
`spansion_erase` (`EraseFallsShort`); two commands
are enough for each ordered pair of save, update and boot, and one restart may
fall into any step of either.

Deadlock checking is off where the system may stop for good: after `start_isp`
(below), when the bound on frames, losses or resets is used up, in a kernel that
came up.

## 4. Fairness

* `SysServices`: weak fairness of the main thread, of interrupt entry and both
  handler halves (a pending enabled interrupt is taken), and of the System
  Controller. Asynchronous messages and new commands are not fair.
* `Tftp`: the CPU runs `NetLoop`, which polls; neither network nor server keeps
  a packet for ever. Losses are not fair.
* `Nfs`: `NetLoop` goes on: with packets, when there are some, and with the timer
  otherwise. Losses are not fair.
* `M2sEth`: `NetLoop` polls for ever, and `m2s_eth_send` waits for a bounded time.
  Frames are not fair, nor is the DMA.
* `FlashUpdate`: the processor goes on, and the chip ends what it began. The
  user, giving up, resets and power losses are not fair.
* `BootFlow`: U-Boot runs; a kernel that panics does panic. Resets, power
  cycles, faults and the operator are not fair.

## 5. What is proved

`SysServicesProofs`, for every set of services, response lengths, FIFO depth and
page sizes that meet the named assumptions of `ComBlk` and `SysServices` (an
answer has at least opcode and status; no opcode of a service is the digest
opcode):

* `Typing`: types. The inductive invariant `TypeInv` adds that whoever is
  sending, waiting or being answered has a request: without it the sizes the
  driver uses would be those of no service.
* `ResponseInBounds`: the index `handle_rx_okay_irq` reads before it compares it
  with the size, and the one it stores at, are inside the response array.
  Inductive together with `TypeInv`.
* `NoRequestIsLost`: a thread that spins in `wait_for_request_completion` has its
  handler installed in the driver, on its own response array, and the driver is
  on the way to the answer. This needs the assumption that no response byte is
  0xF1. It is not a convenience: with such a byte the digest branch puts the
  driver back to idle in the middle of a response, and the thread waits for
  ever. The invariant `CallInv` follows the request through the send function
  (`Sending`), says that the transmit interrupt is off while somebody waits
  (`WaitQuiet`), that the byte before the next one is never the digest opcode
  (`Receiving`), and that the FIFO holds only what the controller may send
  (`RxGood`).

`BootFlowProofs`, for every boot limit above zero and any number of resets,
power cycles, faults and requests:

* `TriesBounded`: `main_loop` chooses the normal command at most `bootlimit` times
  before the counter is cleared; which image that command starts, when its
  `sf read` fails, is another question (section 6). The property is not inductive; `CounterKnows`
  says that the counter, as `bootcount_load` would read it, is never behind the
  attempts, that it is ahead between `main_loop` and the choice of the command,
  and that nothing is left to remember while `iapprog` runs, which may lose the
  magic number.
* `UpdatedOnce`: `mss iapprog` runs at most once per request. `RequestPending`:
  a request is in the flag or being carried out, never both, and not yet counted.
* `BootTyping`: types.

`NfsProofs`, for every set of paths and kinds, links to links and in circles
included, file lengths from 0 on, read size, retry limits and bounds on
downloads, faults and ages:

* `NfsImageExact` and `NfsPrefixExact`: success means the file asked for is in
  memory, and what is below `nfs_offset` is always its beginning. The inductive
  invariant `IInv` rests on `Answered`: ids are never reused, so a reply with the
  last id answers the request sent last, with the handles and the offset of the
  present state, however many older replies are under way. `Stage` says for
  each protocol state what its handles belong to and what is in memory,
  `PathInv` that the present path leads where the one asked for does, `Ended` that success is set for a
  complete file only and survives until `NetLoop` looks at it, `Count` that the
  retry count is at its limit only when the start-again timer runs.
* `NfsTyping`: types.

`SysRequestProofs`, on top of `SysServicesProofs` and under the same assumptions:

* `FramesInOrder`: the controller takes the bytes of a frame in order and without
  a gap. `TxTail` ties the counts of the driver to what is in the FIFO.
* `StatusIsTheAnswer`: a status byte a service returns is that of the answer to
  its own request, with tamper events and digest messages at any moment; the
  only thing a digest message can do is to make it `MSS_SYS_UNEXPECTED_ERROR`.
  `SessionInv` says in which states driver, thread, FIFO and controller can be
  together (`QuietInv`, `BusyInv`, `FrameInv`, `IspInv`, `Exchange`), `DoneInv`
  where the answer is once it has come. Assumes that no response byte is 0xF1.
* `PagesSentBeforeWait`: assumes the same.
* `StackGetsDigestOnly`: what is written to the response array of a service
  that has returned are the two bytes of a digest message that the controller
  sent. `OwnInv` and `DeadInv` say where the driver's pointer, index and state
  can be while nobody waits. No assumption on messages and bytes.
* `PorEventsPaidFor`: digest errors reported, those half received and the bytes of
  their opcode's value still in the FIFO are together no more than the bytes of
  that value sent (`PorCount`). No assumption on messages and bytes.
* `SpiFlashHeld`, and `EnvmKept`: at the prompt `ENVM_CR` is the design's exactly
  when no IAP was refused since the last reset. No assumption on the dividers.

`M2sEthProofs`, for every ring size:

* `SendHonest`, for all reactions of handlers: `m2s_eth_send` returns 0 only for a
  packet that went out. `TxInv`: the DMA holds a packet only while it is on and
  owns the descriptor (`Engine`); a send that waits has its own packet under way
  or gone (`Waiting`), which needs the `-EBUSY` test; after a success nothing is
  left that could still be sent (`Returned`).
* `FrameHandedOnce` and `EthTyping`, for all reactions. `OnceInv`: frames in the
  ring and frames handed out are different ones, also when a stale index gives
  back a descriptor of another life of the ring.
* `RingStaysInSync` and `RingImplementsQueue`, for handlers that leave the device
  alone (`Reacts = {}`; the run `eth_restart` shows that they fail otherwise).
  `SyncInv` describes the full descriptors as the interval from the driver's
  index to the DMA's, modulo the ring size; the refinement maps it to the queue,
  and every step to one of `RxQueue` or to none.

`TftpProofs`, for every file, block sizes, retry limits, number of transfers and
a network that loses, repeats, delays and reorders:

* `TftpTyping` and `OneTransfer`, also when block numbers wrap. `TftpInv` ties
  each packet to the transfer it belongs to and each transfer to the port of the
  try that asked for it; the port of a try is never used again (an assumption of
  the model, see section 6).
* `DownloadExact`, `AcksAreStored`, `RepeatIsIgnored`, for files shorter than
  65535 blocks (`NoWrap`; with 512-byte blocks 32 MB, four times the largest
  partition). `ByteInv`: what is acknowledged is in memory, the server never runs
  ahead of what was acknowledged by more than one block, and so a block that is
  new to the client is the next one. With wrapping numbers `RepeatIsIgnored` is
  false (run `tftp_wrap`); `ImageExact` with wrapping is checked by `tftp_loss`.

`FlashUpdateProofs`, for every geometry that meets `GeometryAssumption`, every
layout of disjoint areas of whole sectors (`LayoutAssumption`), any number of
commands, time-outs, resets and power losses. `CellAssumption` says that the
first cell of an environment with its CRC differs from an erased and from an
undefined cell.

* `ChangesOnlyAsked`: the property is about a step; what makes it hold is
  `Pending`: while the chip works, it works inside an area that was asked for and
  that nothing is relied on for. `Calls` keeps position and end of the running
  call in its area (this is where `SpiFlashProofs` is used: an erase that starts on
  a sector of an area of whole sectors stays in it, a page program does not wrap),
  `Ready` says that a call that returned 0 has left the chip ready.
* `LoadIsExact`, from the same invariant (`Reading`), and `FlashTyping`.
* `UpdatesExact`: `CellInv` follows the cells: `Erasing` and `Blank` up to the last
  sector, `Writing` and `Finished` from the first page to the last, `Image` from
  the download to memory. All of them are about commands that found the chip
  ready and have succeeded so far (`Clean`). The property excepts files that end
  with a Spansion chip (`EraseFallsShort`).
* `SavedEnvSurvives`, `BootsFromSaved`: `Saved` says that a cell that passes for
  the first one of an environment holds one of `inFlash`. They assume that the
  environment does not end with the chip (`EnvInside`; it is at 0x10000), where
  `spansion_erase` erases one sector only.

Only model-checked: all liveness (`CommandReturns`, `Downloads`, `Outcome`,
`FrameNotStuck`, `PromptReturns`, `ComesUp`), which is out of the prover's reach;
`ImageExact` of `Tftp` for files whose block numbers wrap; and the three
properties the code does not have. Every other invariant and action property of
the runs is a theorem.

## 6. Observations

Seen while modelling, each visible in a model. The first two contradict a
comment of the repository; both are stated by the properties as the code behaves:

* `initiate_iap` returns on a clock divider error without restoring `ENVM_CR`;
  the comment at `mss_sys_services.c:1402-1404` says that it will be restored.
  The services that follow save and restore the changed value, so that it stays
  until a reset. `EnvmAtPrompt` says that this is the only way.
* NFS follows links without end: `NFS_MAXLINKDEPTH` (`net/nfs.h:50`) is not used,
  although the note at `net/nfs.c:20-23` says "maximum 16 steps". `Outcome`
  is about links that end somewhere.
* A digest message that arrives after `__enable_irq` and before the next send
  function is stored through the response pointer of the service before, into
  stack that is in use for something else: two bytes at the start of the old
  array. `DeadStackGetsDigestOnly` says that this is all that is ever written
  there.
* `signal_request_start` is called by `start_isp`, and the flag it sets is never
  cleared by the ISP completion handler: any later service would spin. When the
  controller refuses an ISP request early, the transmit interrupt stays enabled.
  Nothing in U-Boot calls `start_isp`.
* After `m2s_eth_halt` from a handler, `m2s_eth_recv` goes on with the frames in
  the ring, whose pointers are now NULL; `NetReceive` gets them with their old
  length.
* `rstbootcnt` is run during an attempt. When `iapprog` then returns, the attempt
  goes on uncounted, so a kernel that fails gets one attempt more than the limit
  in all, the limit counted from the reset of the counter.
* A digest message right after the end of a response is stored over the response
  before the main thread has looked at it: a request that succeeded returns
  `MSS_SYS_UNEXPECTED_ERROR`; `StatusIsAnswer` allows exactly that.
* A response byte 0xF1 is taken for the start of a digest message: an error that
  nobody sent is reported (`PorEventPerByte` allows one for each such byte), the
  driver goes back to idle in the middle of the response, and the thread waits
  for ever. `NoLostRequest` and `CommandReturns` are checked without such bytes.
* When `mss getver` fails, `setargs` and `addip` are skipped, `bootargs` is not
  built and the kernel is started all the same. One that panics then, without
  `panic=10`, stays; only a reset
  from outside helps. This is the exception in `ComesUp`.
* A second `m2s_eth_send` right after a successful one may be refused: the DMA is
  still on when the descriptor is empty. `NetSendPacket` does not look at the
  result; the protocol's timeout repairs it.
* `spansion_erase` of a range that ends with the chip erases one sector and
  reports success; `UpdateExact` excepts files that end there.
* `sf read` that fails leaves at `loadaddr` what an earlier attempt put there, and
  `bootm` starts it: `backupboot` may start the normal image, which
  `NormalTriesBounded` does not count.
* `saveenv` on a chip still busy with an operation that was given up may return 0
  although the chip ignored the first commands; what is in flash is then
  uncertain (`busySave`). A processor reset during an erase has the next start
  find no chip: default environment, and `saveenv` refused until a restart.
* After a failed or empty download `netload` takes `filesize` of an earlier one,
  and `imageupdate` erases the partition and writes what is in memory.
  `OnlyAskedArea` holds all the same; the content is no longer the file's.
* NFS: a reply that comes after its request was retried ends the download as a
  failure. The timer is set again in `STATE_READ_REQ` only. The results of the
  two portmap replies are ignored. After a refused mount `STATE_UMOUNT_REQ`
  sends nothing, so that only the retry limit ends the wait. A complete download
  is reported as failed when the reply to the unmount request is a wrong one.
  After the download of an empty file `filesize` is that of an earlier one.
* `get_timer` (`cpu/arm_cortexm3/timer.c:46`) counts what passed since the last
  call modulo one period of the 24 bit SysTick, and one tick less per reload: the
  time it shows is never ahead of real time, but waits may be longer than asked.
  In the models a time limit is therefore reached at any time after its start.
  `__udelay` that has to cross the reload returns at once if its second reading
  of SysTick equals the first (line 91).
* Two TFTP tries that draw the same port (`net/tftp.c:614`) would accept each
  other's packets.
* `MSS_COMBLK_send_cmd` never enables the transmit interrupt; every command of
  U-Boot fits into the FIFO.
* `mss iapauth` reads `iap_addr`; help text and default environment say
  `iapaddr`.

## 7. Plan

Done: the driver and services (first because every boot and update passes
through them), the network downloads, both sides of the Ethernet driver, flash,
environment and update scripts, the boot flow, and the proofs above.

Left, in this order:

1. Proofs: `ImageExact` of `Tftp` with wrapping numbers, for which the invariant
   needs that old packets of the same number are gone; an abstract
   specification of the flash areas (an area is replaced as a whole or its content
   is unknown) that `FlashUpdate` implements.
2. A transfer of `m2s_spi.c` with its DMA channels below `SpiFlash`.
3. The Ethernet device layer (`net/eth.c`) with `ethrotate`, and `NetLoop` for
   ping, BOOTP and RARP.

## 8. Running

    tlc -workers 2 -config SysServices.cfg MCSysServices
    tlc -workers 2 -config BootFlow.cfg BootFlow
    tlc -workers 2 -config Nfs.cfg MCNfs
    tlc -workers 2 -config FlashUpdate.cfg FlashUpdate
    tlapm SysServicesProofs.tla
    tlapm SysRequestProofs.tla
    tlapm TftpProofs.tla
    tlapm SpiFlashProofs.tla
    tlapm FlashUpdateProofs.tla
    tlapm NfsProofs.tla
    tlapm M2sEthProofs.tla
    tlapm BootFlowProofs.tla

`PROJECT.json` lists every run with its module and configuration, and maps each
definition to the lines it models.

## 9. Not modelled

* The other services of `mss_sys_services.c` (zeroize, cryptography, random
  bits): no caller in U-Boot; they have the shape of those that are modelled.
* `bootm` and the image formats beyond their outcome; hush as a parser; the
  console; clocks and timers (register arithmetic).
* BOOTP, RARP, SNTP, DNS, CDP; TFTP options the board does not configure
  (multicast, transfer size, port, direct to flash).
* PHY and MII access, register set-up of the MAC.
* The SPI controller's FIFO and DMA: a transaction is one step of `SpiFlash`. The
  text of environment variables, `printenv` and `editenv`.
* NFS and TFTP clients whose requests coincide in port or id with those of an
  earlier life of the board (NFS starts with id 0 at port 1000 after each reset).
* Other boards, CPUs, file systems and drivers of the U-Boot tree.
