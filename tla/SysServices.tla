----------------------------- MODULE SysServices -----------------------------
(***************************************************************************)
(* The System Services layer (cpu/arm_cortexm3/m2s/mss_sys_services.c) and *)
(* the "mss" command (cmd_mss.c) on top of the COMM_BLK driver, against    *)
(* the System Controller.                                                  *)
(*                                                                         *)
(* The main thread runs one command at a time.  Interrupts are masked      *)
(* (PRIMASK) between commands.  The System Controller is external: it      *)
(* takes the bytes of the transmit FIFO, answers each complete request     *)
(* with one message and may send asynchronous event messages.              *)
(***************************************************************************)
EXTENDS ComBlk, FiniteSets

CONSTANTS
  IapService,   \* the requests issued through mss_iap_cmd
  IapProgram,   \* those of them that reprogram and reset the device
  IapVerify,    \* those of them that verify; the rest authenticate
  Digest,       \* the fabric digest check that precedes a verify
  ClkFix,       \* what clk_switching_fix may return: FALSE is an error
  Event,        \* opcodes of the asynchronous messages without data
  RespByte,     \* bytes the System Controller puts after the opcode
  PorSends,     \* TRUE when it may send POR digest messages
  MaxEvents,    \* bound on the asynchronous messages of a behaviour
  MaxPorData    \* bound on the data bytes of the value of the POR opcode

ASSUME SysAssumption ==
  /\ IapService \subseteq Service
  /\ IapProgram \subseteq IapService /\ IapVerify \subseteq IapService
  /\ IapProgram \cap IapVerify = {}
  /\ Digest \in Service \ IapService /\ Kind[Digest] = "cmd"
  /\ ClkFix \subseteq BOOLEAN /\ ClkFix # {}
  /\ \A s \in IapService : Kind[s] = "cmd"
  /\ Event \subseteq Byte \ {POR}
  /\ \A s \in Service : Opcode[s] \notin Event
  /\ RespByte \subseteq Byte
  /\ PorSends \in BOOLEAN
  /\ MaxEvents \in Nat /\ MaxPorData \in Nat

VARIABLES
  pc,           \* where the main thread is
  cmd,          \* the command it runs
  cur,          \* the request of that command it issues
  irqOn,        \* PRIMASK clear: __enable_irq
  inited,       \* g_mss_sys_init_called
  sysBusy,      \* g_request_in_progress of mss_sys_services.c
  lastLen,      \* g_last_response_length
  status,       \* what the command returned
  spi,          \* what mss_iap_cmd holds of the SPI flash
  envm,         \* SYSREG->ENVM_CR: the design's value, or the IAP's
  savedEnvm,    \* g_initial_envm_cr
  refused,      \* an IAP was refused by clk_switching_fix since the last reset
  ctl,          \* System Controller: request being received, bytes taken
  answer,       \* status byte it answered the current request with
  events,       \* asynchronous messages sent so far
  porSent,      \* POR digest messages sent
  porData,      \* data bytes of that opcode's value sent, in any message
  porSeen       \* POR events delivered to the application

ctlVars == <<ctl, answer, events, porSent, porData>>
regVars == <<spi, envm, savedEnvm, refused>>
svcVars == <<pc, cmd, cur, irqOn, inited, sysBusy, lastLen, status, porSeen>>
vars    == <<drvVars, svcVars, regVars, ctlVars>>

None == "none"
CLK_ERROR  == "MSS_SYS_CLK_DIVISOR_ERROR"
UNEXPECTED == "MSS_SYS_UNEXPECTED_ERROR"
FAILURE    == "MSS_FAILURE"
Reset      == "reset"

Pc == {"prompt", "setup", "claim", "xfer", "init", "prepare", "call", "send", "opcode",
       "params", "wait", "cleanup"}
Result == Byte \cup {None, Uninit, UNEXPECTED, CLK_ERROR, FAILURE, Reset}

SvcTypeOK ==
  /\ pc \in Pc
  /\ cmd \in Service \cup {NoReq} /\ cur \in Service \cup {NoReq}
  /\ irqOn \in BOOLEAN /\ inited \in BOOLEAN /\ sysBusy \in BOOLEAN
  /\ lastLen \in Nat
  /\ status \in Result
  /\ spi \in {"none", "setup", "claimed"}
  /\ envm \in {"design", "max"} /\ savedEnvm \in {"design", "max"}
  /\ refused \in BOOLEAN
  /\ ctl \in [svc : Service \cup {NoReq}, got : Nat, answered : BOOLEAN]
  /\ answer \in Byte \cup {None}
  /\ events \in Nat /\ porSent \in Nat /\ porData \in Nat /\ porSeen \in Nat

TypeOK == ComBlkTypeOK /\ SvcTypeOK

Init ==
  /\ ComBlkInit
  /\ pc = "prompt" /\ cmd = NoReq /\ cur = NoReq /\ irqOn = FALSE /\ inited = FALSE
  /\ sysBusy = FALSE /\ lastLen = 0 /\ status = None
  /\ spi = "none" /\ envm = "design" /\ savedEnvm = "design" /\ refused = FALSE
  /\ ctl = [svc |-> NoReq, got |-> 0, answered |-> TRUE]
  /\ answer = None /\ events = 0 /\ porSent = 0 /\ porData = 0 /\ porSeen = 0

------------------------------------------------------------------------------
(* The main thread: not while the interrupt handler runs.                   *)

Main(from, to) == ~InIrq /\ pc = from /\ pc' = to

\* do_mss: mss_iap_cmd for the iap operations, otherwise mss_get_serial,
\* mss_get_usercode or mss_get_version; a paged request is the start of an
\* in-system programming by an application.
Command(s) ==
  /\ s # Digest
  /\ Main("prompt", IF s \in IapService THEN "setup" ELSE "init")
  /\ cmd' = s /\ cur' = IF s \in IapVerify THEN Digest ELSE s
  /\ status' = None
  /\ UNCHANGED <<drvVars, irqOn, inited, sysBusy, lastLen, porSeen, regVars,
                 ctlVars>>

\* spi_setup_slave, spi_claim_bus and spi_xfer of mss_iap_cmd; each can fail.
IapSetup ==
  /\ \/ Main("setup", "claim") /\ spi' = "setup" /\ UNCHANGED status
     \/ Main("setup", "prompt") /\ status' = FAILURE /\ UNCHANGED spi
  /\ UNCHANGED <<drvVars, cmd, cur, irqOn, inited, sysBusy, lastLen, porSeen,
                 envm, savedEnvm, refused, ctlVars>>

IapClaim ==
  /\ \/ Main("claim", "xfer") /\ spi' = "claimed" /\ UNCHANGED status
     \/ Main("claim", "cleanup") /\ status' = FAILURE /\ UNCHANGED spi
  /\ UNCHANGED <<drvVars, cmd, cur, irqOn, inited, sysBusy, lastLen, porSeen,
                 envm, savedEnvm, refused, ctlVars>>

IapXfer ==
  /\ \/ Main("xfer", "init") /\ UNCHANGED status
     \/ Main("xfer", "cleanup") /\ status' = FAILURE
  /\ UNCHANGED <<drvVars, cmd, cur, irqOn, inited, sysBusy, lastLen, porSeen,
                 regVars, ctlVars>>

MSS_SYS_init == MSS_COMBLK_init /\ sysBusy' = FALSE /\ lastLen' = 0

\* The first command calls MSS_SYS_init; every command then enables interrupts.
InitIfNeeded ==
  /\ Main("init", "prepare")
  /\ IF inited THEN UNCHANGED <<drvVars, sysBusy, lastLen>> ELSE MSS_SYS_init
  /\ inited' = TRUE /\ irqOn' = TRUE
  /\ UNCHANGED <<cmd, cur, status, porSeen, regVars, ctlVars>>

\* The request cur is over with result st: the digest check that precedes a
\* verify only hands over to it, any other request ends the command.
Finish(st) ==
  IF cur # cmd
  THEN /\ pc' = "prepare" /\ cur' = cmd
       /\ UNCHANGED <<status, irqOn>>
  ELSE /\ pc' = IF cmd \in IapService THEN "cleanup" ELSE "prompt"
       /\ status' = st /\ irqOn' = FALSE
       /\ UNCHANGED cur

\* What a service function does before signal_request_start: an IAP that
\* programs or verifies raises the eNVM frequency range, and it, like the
\* fabric digest check, asks clk_switching_fix whether it may go on.
ChangesEnvm(s) == s \in IapProgram \cup IapVerify
NeedsClkFix(s) == ChangesEnvm(s) \/ s = Digest

\* Its verdicts on the clock dividers it reads from a register; the registers it
\* changes for the time of the service are left out.
clk_switching_fix == ClkFix

Prepare ==
  /\ ~InIrq /\ pc = "prepare"
  /\ IF ChangesEnvm(cur) THEN savedEnvm' = envm /\ envm' = "max"
     ELSE UNCHANGED <<envm, savedEnvm>>
  /\ \/ /\ NeedsClkFix(cur) /\ FALSE \in clk_switching_fix
        /\ Finish(CLK_ERROR)
        /\ refused' = (refused \/ ChangesEnvm(cur))
     \/ /\ NeedsClkFix(cur) => TRUE \in clk_switching_fix
        /\ pc' = "call" /\ UNCHANGED <<cur, status, irqOn, refused>>
  /\ UNCHANGED <<drvVars, cmd, inited, sysBusy, lastLen, porSeen, spi, ctlVars>>

\* signal_request_start spins while a request is in progress.
signal_request_start ==
  /\ Main("call", "send") /\ ~sysBusy
  /\ sysBusy' = TRUE /\ lastLen' = 0
  /\ UNCHANGED <<drvVars, cmd, cur, irqOn, inited, status, porSeen, regVars,
                 ctlVars>>

\* request_completion_handler and isp_sys_completion_handler, called with len.
CallHandler(h, len) ==
  IF h = "service" THEN sysBusy' = FALSE /\ lastLen' = len
  ELSE UNCHANGED <<sysBusy, lastLen>>

RespBuffer(s) == IF Kind[s] = "paged" THEN "isp" ELSE "stack"

\* The send function is entered; the response array is a fresh local variable.
SendBegin ==
  /\ Main("send", "opcode")
  /\ BeginRequest(cur, RespBuffer(cur),
                  IF Kind[cur] = "paged" THEN "isp" ELSE "service")
  /\ IF AbortCompletes THEN CallHandler(handler, ridx)
     ELSE UNCHANGED <<sysBusy, lastLen>>
  /\ buf' = IF Kind[cur] = "paged" THEN buf
            ELSE [buf EXCEPT !["stack"] = [i \in DOMAIN @ |-> Uninit]]
  /\ answer' = None
  /\ UNCHANGED <<cmd, cur, irqOn, inited, status, porSeen, regVars, ctl, events,
                 porSent, porData>>

SendOpcode ==
  /\ Main("opcode", "params") /\ send_cmd_opcode
  /\ UNCHANGED <<cmd, cur, irqOn, inited, sysBusy, lastLen, status, porSeen,
                 regVars, ctlVars>>

AfterSend == IF Kind[cur] = "paged" THEN "prompt" ELSE "wait"

SendParams ==
  /\ \/ Main("params", AfterSend) /\ Kind[cur] = "ptr" /\ SendPtr
     \/ Main("params", "params") /\ Kind[cur] # "ptr" /\ SendParam
     \/ Main("params", AfterSend) /\ Kind[cur] # "ptr" /\ SendDone
  /\ UNCHANGED <<cmd, cur, irqOn, inited, sysBusy, lastLen, status, porSeen,
                 regVars, ctlVars>>

\* wait_for_request_completion, the check of the response, __disable_irq, and
\* mss_iap_cmd's verdict: a program request that succeeds should not return.
ServiceStatus ==
  IF lastLen = RespLen[cur] /\ buf["stack"][0] = Opcode[cur]
  THEN buf["stack"][1] ELSE UNEXPECTED

\* Mutant: ENVM_CR is not restored after the IAP service.
ReturnMutant ==
  /\ ~InIrq /\ pc = "wait" /\ ~sysBusy
  /\ Finish(IF cmd \in IapProgram /\ ServiceStatus = Zero THEN FAILURE
            ELSE ServiceStatus)
  /\ UNCHANGED <<drvVars, cmd, inited, sysBusy, lastLen, porSeen, regVars, ctlVars>>

Return ==
  /\ ~InIrq /\ pc = "wait" /\ ~sysBusy
  /\ Finish(IF cmd \in IapProgram /\ ServiceStatus = Zero THEN FAILURE
            ELSE ServiceStatus)
  /\ envm' = IF ChangesEnvm(cur) THEN savedEnvm ELSE envm
  /\ UNCHANGED <<drvVars, cmd, inited, sysBusy, lastLen, porSeen, spi, savedEnvm,
                 refused, ctlVars>>

\* Mutant: a failed spi_claim_bus returns without spi_free_slave.
IapCleanupMutant ==
  /\ Main("cleanup", "prompt")
  /\ spi' = IF spi = "claimed" THEN "none" ELSE spi
  /\ UNCHANGED <<drvVars, cmd, cur, irqOn, inited, sysBusy, lastLen, status,
                 porSeen, envm, savedEnvm, refused, ctlVars>>

\* cleanup_bus and cleanup_slave.
IapCleanup ==
  /\ Main("cleanup", "prompt")
  /\ spi' = "none"
  /\ UNCHANGED <<drvVars, cmd, cur, irqOn, inited, sysBusy, lastLen, status,
                 porSeen, envm, savedEnvm, refused, ctlVars>>

------------------------------------------------------------------------------
(* The interrupt handler.                                                   *)

\* process_sys_ctrl_command: only the POR events are counted.
Deliver(op) == porSeen' = IF op = POR THEN porSeen + 1 ELSE porSeen

Interrupt == irqOn /\ IrqEnter
             /\ UNCHANGED <<svcVars, regVars, ctlVars>>

HandleRx ==
  /\ \/ /\ IrqRxEvent /\ Deliver(RxVal)
        /\ UNCHANGED <<sysBusy, lastLen>>
     \/ /\ IrqRxPorData /\ Deliver(buf[rbuf][ridx - 1])
        /\ UNCHANGED <<sysBusy, lastLen>>
     \/ /\ IrqRxDrop \/ IrqRxPorStart \/ IrqRxOpcode
        /\ UNCHANGED <<sysBusy, lastLen, porSeen>>
     \/ /\ IrqRxData
        /\ IF RespComplete THEN CallHandler(handler, RespIdx)
           ELSE UNCHANGED <<sysBusy, lastLen>>
        /\ UNCHANGED porSeen
     \/ /\ IrqRxPaged /\ CallHandler(handler, 2)
        /\ UNCHANGED porSeen
  /\ UNCHANGED <<pc, cmd, cur, irqOn, inited, status, regVars, ctlVars>>

HandleTx ==
  /\ \/ /\ IrqTxCmd \/ IrqTxPage \/ IrqTxPaged
        /\ UNCHANGED <<sysBusy, lastLen>>
     \/ IrqTxStray /\ CallHandler(handler, 0)
  /\ UNCHANGED <<pc, cmd, cur, irqOn, inited, status, porSeen, regVars, ctlVars>>

------------------------------------------------------------------------------
(* The System Controller (external).                                        *)

\* Bytes of the frame of request s.
PageBytes[n \in 0..Len(PageLen)] ==
  IF n = 0 THEN 0 ELSE PageLen[n] + PageBytes[n - 1]
FrameLen(s) == 1 + ParamLen[s]
               + IF Kind[s] = "paged" THEN PageBytes[Len(PageLen)] ELSE 0

CtlTake ==
  /\ tx # << >>
  /\ tx' = Tail(tx)
  /\ ctl' = [svc |-> Head(tx).svc, got |-> Head(tx).pos + 1, answered |-> FALSE]
  /\ UNCHANGED <<state, txVars, reqVars, ridx, intVars, irq, rx, buf, svcVars,
                 regVars, answer, events, porSent, porData>>

Message(op, data) ==
  <<[cmd |-> TRUE, val |-> op]>>
    \o [i \in 1..Len(data) |-> [cmd |-> FALSE, val |-> data[i]]]

\* History: the bytes among them that have the value of the POR opcode.
PorBytes(data) == Cardinality({i \in 1..Len(data) : data[i] = POR})

CountPorData(data) == /\ porData' = porData + PorBytes(data)
                      /\ porData' <= MaxPorData

\* It answers a complete request, and may refuse a paged one before that.
CtlAnswer ==
  /\ ~ctl.answered
  /\ \/ ctl.got = FrameLen(ctl.svc)
     \/ Kind[ctl.svc] = "paged" /\ ctl.got > 1 + ParamLen[ctl.svc]
  /\ \E data \in [1..(RespLen[ctl.svc] - 1) -> RespByte] :
       /\ rx' = rx \o Message(Opcode[ctl.svc], data)
       /\ answer' = data[1]
       /\ CountPorData(data)
  /\ ctl' = [ctl EXCEPT !.answered = TRUE]
  /\ UNCHANGED <<state, txVars, reqVars, ridx, intVars, irq, tx, buf, svcVars,
                 regVars, events, porSent>>

CtlEvent(op) ==
  /\ events < MaxEvents
  /\ events' = events + 1
  /\ rx' = Append(rx, [cmd |-> TRUE, val |-> op])
  /\ UNCHANGED <<state, txVars, reqVars, ridx, intVars, irq, tx, buf, svcVars,
                 regVars, ctl, answer, porSent, porData>>

CtlPor(d) ==
  /\ PorSends /\ events < MaxEvents
  /\ events' = events + 1 /\ porSent' = porSent + 1
  /\ CountPorData(<<d>>)
  /\ rx' = rx \o Message(POR, <<d>>)
  /\ UNCHANGED <<state, txVars, reqVars, ridx, intVars, irq, tx, buf, svcVars,
                 regVars, ctl, answer>>

\* A successful IAP programming resets the Cortex-M3: no answer.
CtlProgram ==
  /\ ~ctl.answered /\ ctl.svc \in IapProgram /\ ctl.got = FrameLen(ctl.svc)
  /\ ctl' = [ctl EXCEPT !.answered = TRUE]
  /\ state' = "IDLE" /\ req' = NoReq
  /\ cmdLeft' = 0 /\ dataLeft' = 0 /\ page' = 0 /\ txPos' = 0
  /\ rbuf' = "g_response" /\ ridx' = 0 /\ handler' = "none" /\ busy' = FALSE
  /\ intTx' = FALSE /\ intRx' = FALSE /\ nvic' = FALSE /\ irq' = NoIrq
  /\ tx' = << >> /\ rx' = << >>
  /\ buf' = [b \in Buffer |-> IF b = "stack" THEN buf[b]
                             ELSE [i \in BufIdx |-> Zero]]
  /\ pc' = "prompt" /\ cmd' = NoReq /\ cur' = NoReq /\ irqOn' = FALSE /\ inited' = FALSE
  /\ sysBusy' = FALSE /\ lastLen' = 0 /\ status' = Reset /\ spi' = "none"
  /\ envm' = "design" /\ savedEnvm' = "design" /\ refused' = FALSE
  /\ UNCHANGED <<porSeen, answer, events, porSent, porData>>

------------------------------------------------------------------------------
MainStep ==
  \/ InitIfNeeded \/ Prepare \/ signal_request_start \/ SendBegin \/ SendOpcode
  \/ SendParams \/ Return \/ IapSetup \/ IapClaim \/ IapXfer \/ IapCleanup

CtlStep == CtlTake \/ CtlAnswer \/ CtlProgram

Next ==
  \/ \E s \in Service : Command(s)
  \/ MainStep
  \/ Interrupt \/ HandleRx \/ HandleTx
  \/ CtlStep
  \/ \E e \in Event : CtlEvent(e)
  \/ \E d \in RespByte : CtlPor(d)

Spec == Init /\ [][Next]_vars

\* The CPU runs, pending interrupts are taken, the controller answers.
Fairness == /\ WF_vars(MainStep) /\ WF_vars(Interrupt)
            /\ WF_vars(HandleRx) /\ WF_vars(HandleTx) /\ WF_vars(CtlStep)

FairSpec == Spec /\ Fairness

------------------------------------------------------------------------------
(* Properties.                                                              *)

Waiting == pc = "wait" /\ sysBusy

\* A thread spinning in wait_for_request_completion always has a completion
\* handler installed for its own request and its own response array, and the
\* driver is not back in COMBLK_IDLE: the request cannot get lost between the
\* two layers' g_request_in_progress flags.
NoLostRequest ==
  Waiting => /\ handler = "service" /\ busy
             /\ req = cur /\ rbuf = "stack"
             /\ state \in {"TX_CMD", "WAIT_RESPONSE", "RX_RESPONSE"}

\* A status byte a command returns is the one the System Controller put in its
\* answer to this request, whatever messages came before or between.  After the
\* response only tamper events are harmless: a POR digest message that comes
\* before the thread has looked is stored over it, and the command then returns
\* MSS_SYS_UNEXPECTED_ERROR, never another status.
StatusIsAnswer ==
  pc \in {"prompt", "cleanup"} /\ status \notin {None, FAILURE, Reset, CLK_ERROR}
    => status = answer \/ (status = UNEXPECTED /\ porSent > 0)

\* handle_rx_okay_irq reads index ridx - 1 and stores at ridx: while a response
\* or a POR digest message is being received, both are inside the array.
StoreInBounds ==
  state = "RX_RESPONSE" /\ nvic => ridx >= 1 /\ (ridx = 1 \/ ridx < RespSize)

\* The System Controller gets the bytes of a frame in order: what is in the
\* FIFO continues what it has taken, or starts a new frame.
TxStream ==
  \A i \in 1..Len(tx) :
    \/ tx[i].pos = 0
    \/ LET before == IF i = 1 THEN [svc |-> ctl.svc, pos |-> ctl.got - 1]
                     ELSE tx[i - 1]
       IN tx[i].svc = before.svc /\ tx[i].pos = before.pos + 1

\* The response to a paged request is awaited only when the page handler has
\* handed out all its pages and all of them are in the FIFO: handle_tx_okay_irq
\* keeps the transmit interrupt until then.  This is for a command that fits
\* into the FIFO, as the two bytes of MSS_SYS_start_isp do.
PagesBeforeWait ==
  state = "WAIT_RESPONSE" /\ Kind[req] = "paged" /\ 1 + ParamLen[req] <= TxDepth
    => page = Len(PageLen) /\ dataLeft = 0

\* The SPI flash slave is held exactly while the System Controller may read the
\* image from it, and given back on every way out of mss_iap_cmd.
SpiHeldForIap ==
  /\ pc = "prompt" => spi = "none"
  /\ pc \in {"prepare", "call", "send", "opcode", "params", "wait"}
       => (spi = "claimed" <=> cmd \in IapService)

\* The eNVM frequency range of the design is back when a command has ended, unless
\* clk_switching_fix has refused an IAP since the last reset: initiate_iap then
\* returns without the restore its comment promises, and the later services save
\* and restore the raised range.
EnvmAtPrompt == pc = "prompt" => (envm = "max" <=> refused)

\* b gets the bytes of a digest message: the opcode and one byte behind it.
DigestInto(b) ==
  /\ porSent > 0
  /\ buf'[b][0] = POR
  /\ \A i \in BufIdx \ {0, 1} : buf'[b][i] = buf[b][i]

\* The caller's response array is written by the call it belongs to, and after
\* that, through the pointer the driver keeps, by a POR digest message only: its
\* two bytes at the start of the array, never a response or an index beyond.
DeadStackGetsDigestOnly ==
  [][buf'["stack"] # buf["stack"]
       => \/ pc = "wait"
          \/ pc = "send" /\ pc' = "opcode"
          \/ DigestInto("stack")]_vars

\* The application hears of at most one POR digest error for each byte of that
\* opcode's value the System Controller has sent, as the opcode of a digest
\* message or as data, which handle_rx_okay_irq does not tell apart; of no other
\* byte, and of none twice.
PorEventPerByte == porSeen <= porSent + porData

\* Every command comes back to the prompt (or the device is reset).
CommandReturns == pc # "prompt" ~> pc = "prompt"
==============================================================================
