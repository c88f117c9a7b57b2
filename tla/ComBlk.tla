------------------------------- MODULE ComBlk -------------------------------
(***************************************************************************)
(* The interrupt driven COMM_BLK driver of the SmartFusion2                *)
(* (cpu/arm_cortexm3/m2s/mss_comblk.c): the three send functions run by    *)
(* the main thread, with the COMM_BLK interrupt masked in the NVIC, and    *)
(* the interrupt handler that feeds the transmit FIFO and collects the     *)
(* response.  The module SysServices runs it against the System Controller.*)
(*                                                                         *)
(* A transmitted byte is [svc, pos]: byte number pos of the frame of       *)
(* request svc; position 0 is the opcode, written to FRAME_START8.  A      *)
(* received byte is [cmd, val], cmd being bit 15 of the DATA8 register.    *)
(***************************************************************************)
EXTENDS Integers, Sequences

CONSTANTS
  Service,      \* the requests the program can issue
  Kind,         \* [Service -> {"ptr", "cmd", "paged"}], the send function used
  Opcode,       \* [Service -> Byte]
  ParamLen,     \* [Service -> Nat], entries that follow the opcode
  RespLen,      \* [Service -> Nat], response_size
  Byte,         \* the values of a byte the driver can tell apart
  POR,          \* POR_DIGEST_ERROR_OPCODE
  Zero,         \* the byte 0x00
  Uninit,       \* content of a buffer nobody wrote
  TxDepth,      \* capacity of the transmit FIFO
  PageLen       \* sequence of the page sizes the page handler returns

ASSUME ServiceAssumption ==
  /\ "none" \notin Service
  /\ Kind \in [Service -> {"ptr", "cmd", "paged"}]
  /\ Opcode \in [Service -> Byte]
  /\ ParamLen \in [Service -> Nat]
  /\ RespLen \in [Service -> Nat]
  /\ \A s \in Service : /\ RespLen[s] >= 2
                        /\ Kind[s] = "ptr" => ParamLen[s] = 1
                        /\ Kind[s] = "paged" => RespLen[s] = 2
                        /\ Opcode[s] # POR

ASSUME ByteAssumption == POR \in Byte /\ Zero \in Byte /\ Uninit \notin Byte

ASSUME FifoAssumption == TxDepth \in Nat \ {0} /\ PageLen \in Seq(Nat \ {0})

VARIABLES
  state,        \* g_comblk_state
  req,          \* the request that set g_comblk_cmd_opcode, response_size...
  cmdLeft,      \* g_comblk_cmd_size
  dataLeft,     \* g_comblk_data_size
  page,         \* pages the page handler has handed out
  txPos,        \* bytes of the request written to the FIFO: p_cmd, p_data
  rbuf,         \* the buffer g_comblk_p_response points to
  ridx,         \* g_comblk_response_idx
  handler,      \* g_comblk_completion_handler
  busy,         \* g_request_in_progress of mss_comblk.c
  intTx, intRx, \* COMBLK->INT_ENABLE
  nvic,         \* ComBlk_IRQn enabled in the NVIC
  irq,          \* the part of the masked status still to be handled
  tx, rx,       \* the FIFOs
  buf           \* the response buffers

txVars  == <<cmdLeft, dataLeft, page, txPos>>
reqVars == <<req, rbuf, handler, busy>>
intVars == <<intTx, intRx, nvic>>
drvVars == <<state, txVars, reqVars, ridx, intVars, irq, tx, rx, buf>>

State   == {"IDLE", "TX_CMD", "TX_DATA", "WAIT_RESPONSE", "RX_RESPONSE",
            "TX_PAGED_DATA"}
Buffer  == {"g_response", "stack", "isp"}
Handler == {"none", "service", "isp"}
NoReq   == "none"

\* Indices of a response buffer: at least the two of a POR digest message, and
\* as many as the longest response needs.
BufIdx == {0, 1} \cup UNION {0..(RespLen[s] - 1) : s \in Service}
TxByte  == [svc : Service, pos : Nat]
RxByte  == [cmd : BOOLEAN, val : Byte]
NoIrq   == [rx |-> FALSE, tx |-> FALSE]

ComBlkTypeOK ==
  /\ state \in State
  /\ req \in Service \cup {NoReq}
  /\ cmdLeft \in Nat /\ dataLeft \in Nat /\ txPos \in Nat
  /\ page \in 0..Len(PageLen)
  /\ rbuf \in Buffer
  /\ ridx \in Nat
  /\ handler \in Handler
  /\ busy \in BOOLEAN
  /\ intTx \in BOOLEAN /\ intRx \in BOOLEAN /\ nvic \in BOOLEAN
  /\ irq \in [rx : BOOLEAN, tx : BOOLEAN]
  /\ tx \in Seq(TxByte)
  /\ rx \in Seq(RxByte)
  /\ buf \in [Buffer -> [BufIdx -> Byte \cup {Uninit}]]

\* Power-on value of the driver's globals and of the block's registers.
ComBlkInit ==
  /\ state = "IDLE" /\ req = NoReq
  /\ cmdLeft = 0 /\ dataLeft = 0 /\ page = 0 /\ txPos = 0
  /\ rbuf = "g_response" /\ ridx = 0
  /\ handler = "none" /\ busy = FALSE
  /\ intTx = FALSE /\ intRx = FALSE /\ nvic = FALSE /\ irq = NoIrq
  /\ tx = << >> /\ rx = << >>
  /\ buf = [b \in Buffer |-> [i \in BufIdx |-> Zero]]

TxOkay  == Len(tx) < TxDepth    \* STATUS & TXTOKAY
RcvOkay == rx # << >>           \* STATUS & RCVOKAY

RespSize == IF req = NoReq THEN 0 ELSE RespLen[req]

(***************************************************************************)
(* MSS_COMBLK_init.  It runs with the interrupt masked, so in one step.    *)
(* page_handler and the FIFOs are left alone: codes the System Controller  *)
(* has already sent must not be lost.                                      *)
(***************************************************************************)
MSS_COMBLK_init ==
  /\ state' = "IDLE" /\ req' = NoReq
  /\ cmdLeft' = 0 /\ dataLeft' = 0 /\ ridx' = 0
  /\ rbuf' = "g_response"
  /\ handler' = "none" /\ busy' = FALSE
  /\ intTx' = FALSE /\ intRx' = TRUE /\ nvic' = TRUE
  /\ UNCHANGED <<page, txPos, irq, tx, rx, buf>>

(***************************************************************************)
(* The head of the three send functions: mask the interrupt, abort the     *)
(* command in progress (its completion handler is called by the caller of  *)
(* this operator, the FIFO is flushed) and set the driver's variables.     *)
(***************************************************************************)
AbortCompletes == busy /\ handler # "none"

\* Mutant: the paged send function keeps the response pointer it finds.
BeginRequestMutant(s, b, h) ==
  /\ intTx' = FALSE /\ intRx' = FALSE /\ nvic' = FALSE
  /\ tx' = IF busy THEN << >> ELSE tx
  /\ busy' = TRUE
  /\ req' = s /\ handler' = h
  /\ rbuf' = IF Kind[s] = "paged" THEN rbuf ELSE b
  /\ cmdLeft' = IF Kind[s] = "ptr" THEN 0 ELSE ParamLen[s] + 1
  /\ dataLeft' = 0 /\ ridx' = 0 /\ txPos' = 0 /\ page' = 0
  /\ UNCHANGED <<state, irq, rx>>

BeginRequest(s, b, h) ==
  /\ intTx' = FALSE /\ intRx' = FALSE /\ nvic' = FALSE
  /\ tx' = IF busy THEN << >> ELSE tx
  /\ busy' = TRUE
  /\ req' = s /\ rbuf' = b /\ handler' = h
  /\ cmdLeft' = IF Kind[s] = "ptr" THEN 0 ELSE ParamLen[s] + 1
  /\ dataLeft' = 0 /\ ridx' = 0 /\ txPos' = 0 /\ page' = 0
  /\ UNCHANGED <<state, irq, rx>>

\* Mutant: p_cmd is advanced twice after a byte.
PushTxMutant == /\ TxOkay
                /\ tx' = Append(tx, [svc |-> req, pos |-> txPos])
                /\ txPos' = txPos + 2

PushTx == /\ TxOkay
          /\ tx' = Append(tx, [svc |-> req, pos |-> txPos])
          /\ txPos' = txPos + 1

\* Mutant: the opcode is taken off cmd_size by every send function.
send_cmd_opcodeMutant ==
  /\ PushTx
  /\ cmdLeft' = cmdLeft - 1
  /\ UNCHANGED <<state, dataLeft, page, reqVars, ridx, intVars, irq, rx, buf>>

\* send_cmd_opcode spins until the FIFO has room.
send_cmd_opcode ==
  /\ PushTx
  /\ cmdLeft' = IF cmdLeft = 0 THEN 0 ELSE cmdLeft - 1
  /\ UNCHANGED <<state, dataLeft, page, reqVars, ridx, intVars, irq, rx, buf>>

\* Tail of send_cmd_with_ptr: the pointer goes out as one 32-bit write.
SendPtr ==
  /\ PushTx
  /\ state' = "WAIT_RESPONSE"
  /\ intRx' = TRUE /\ nvic' = TRUE
  /\ UNCHANGED <<cmdLeft, dataLeft, page, reqVars, ridx, intTx, irq, rx, buf>>

\* One turn of the loop of fill_tx_fifo in send_cmd and send_paged_cmd.
SendParam ==
  /\ cmdLeft > 0 /\ PushTx
  /\ cmdLeft' = cmdLeft - 1
  /\ UNCHANGED <<state, dataLeft, page, reqVars, ridx, intVars, irq, rx, buf>>

\* The loop ends: everything is in the FIFO, or the FIFO is full.
SendDone ==
  /\ cmdLeft = 0 \/ ~TxOkay
  /\ state' = IF cmdLeft > 0 THEN "TX_CMD"
              ELSE IF Kind[req] = "paged" THEN "TX_PAGED_DATA"
              ELSE "WAIT_RESPONSE"
  /\ intTx' = (Kind[req] = "paged")
  /\ intRx' = TRUE /\ nvic' = TRUE
  /\ UNCHANGED <<txVars, reqVars, ridx, irq, tx, rx, buf>>

(***************************************************************************)
(* ComBlk_IRQHandler.  The status is sampled once; the receive part runs   *)
(* first, then the transmit part, each with the state it finds.            *)
(***************************************************************************)
InIrq == irq # NoIrq

IrqEnter ==
  /\ ~InIrq /\ nvic
  /\ (intRx /\ RcvOkay) \/ (intTx /\ TxOkay)
  /\ irq' = [rx |-> intRx /\ RcvOkay, tx |-> intTx /\ TxOkay]
  /\ UNCHANGED <<state, txVars, reqVars, ridx, intVars, tx, rx, buf>>

\* complete_request, as far as this module's variables go.
Completed == handler' = "none" /\ busy' = (busy /\ handler = "none")

\* handle_rx_okay_irq reads one entry of the FIFO.
RxPart  == irq.rx /\ rx # << >> /\ rx' = Tail(rx)
           /\ irq' = [irq EXCEPT !.rx = FALSE]
RxCmd   == Head(rx).cmd
RxVal   == Head(rx).val

Store(i, v) == buf' = [buf EXCEPT ![rbuf][i] = v]

\* The states and bytes for which the received byte is passed to the
\* asynchronous event handler and changes nothing else.
EventByte ==
  /\ RxCmd
  /\ ~(state = "IDLE" /\ RxVal = POR)
  /\ ~(state = "WAIT_RESPONSE" /\ RxVal = Opcode[req])

IrqRxEvent ==
  /\ RxPart /\ EventByte
  /\ UNCHANGED <<state, txVars, reqVars, ridx, intVars, tx, buf>>

\* Mutant: the byte is left in the FIFO, and the interrupt comes again.
IrqRxDropMutant ==
  /\ irq.rx /\ rx # << >> /\ ~RxCmd
  /\ irq' = [irq EXCEPT !.rx = FALSE]
  /\ state \in {"IDLE", "WAIT_RESPONSE", "TX_CMD", "TX_DATA"}
  /\ UNCHANGED <<state, txVars, reqVars, ridx, intVars, tx, rx, buf>>

\* A data byte nobody waits for is dropped.
IrqRxDrop ==
  /\ RxPart /\ ~RxCmd
  /\ state \in {"IDLE", "WAIT_RESPONSE", "TX_CMD", "TX_DATA"}
  /\ UNCHANGED <<state, txVars, reqVars, ridx, intVars, tx, buf>>

\* Mutant: a POR message is also taken while a response is awaited.
IrqRxPorStartMutant ==
  /\ RxPart /\ RxCmd /\ state \in {"IDLE", "WAIT_RESPONSE"} /\ RxVal = POR
  /\ ridx' = 1
  /\ buf' = [buf EXCEPT ![rbuf][0] = POR, ![rbuf][1] = Zero]
  /\ state' = "RX_RESPONSE"
  /\ UNCHANGED <<txVars, reqVars, intVars, tx>>

\* IDLE: first byte of a power-on-reset digest message.
IrqRxPorStart ==
  /\ RxPart /\ RxCmd /\ state = "IDLE" /\ RxVal = POR
  /\ ridx' = 1
  /\ buf' = [buf EXCEPT ![rbuf][0] = POR, ![rbuf][1] = Zero]
  /\ state' = "RX_RESPONSE"
  /\ UNCHANGED <<txVars, reqVars, intVars, tx>>

\* WAIT_RESPONSE: the opcode of the pending command comes back.
IrqRxOpcode ==
  /\ RxPart /\ RxCmd /\ state = "WAIT_RESPONSE" /\ RxVal = Opcode[req]
  /\ ridx' = 1 /\ Store(0, RxVal)
  /\ state' = "RX_RESPONSE"
  /\ UNCHANGED <<txVars, reqVars, intVars, tx>>

\* RX_RESPONSE, a data byte after a byte that is the POR opcode: taken for the
\* second byte of a digest message.
PorData == state = "RX_RESPONSE" /\ ~RxCmd /\ buf[rbuf][ridx - 1] = POR

\* Mutant: the driver stays in RX_RESPONSE after the digest message.
IrqRxPorDataMutant ==
  /\ RxPart /\ PorData
  /\ Store(ridx, RxVal)
  /\ UNCHANGED <<state, txVars, reqVars, ridx, intVars, tx>>

IrqRxPorData ==
  /\ RxPart /\ PorData
  /\ Store(ridx, RxVal)
  /\ state' = "IDLE"
  /\ UNCHANGED <<txVars, reqVars, ridx, intVars, tx>>

\* RX_RESPONSE, any other data byte: stored when there is room, and the
\* request completes when the buffer is full.
RespIdx == IF ridx < RespSize THEN ridx + 1 ELSE ridx

RespData == state = "RX_RESPONSE" /\ ~RxCmd /\ buf[rbuf][ridx - 1] # POR

\* Mutants: one byte too many is expected; completion at the first data byte.
RespCompleteMutant == RespData /\ RespIdx > RespSize
RespCompleteEarly == RespData

RespComplete == RespData /\ RespIdx = RespSize

IrqRxData ==
  /\ RxPart /\ RespData
  /\ ridx' = RespIdx
  /\ IF ridx < RespSize THEN Store(ridx, RxVal) ELSE UNCHANGED buf
  /\ IF RespComplete THEN state' = "IDLE" /\ Completed
     ELSE UNCHANGED <<state, handler, busy>>
  /\ UNCHANGED <<txVars, req, rbuf, intVars, tx>>

\* TX_PAGED_DATA: the System Controller gives up while pages are being sent.
IrqRxPaged ==
  /\ RxPart /\ state = "TX_PAGED_DATA" /\ ~RxCmd
  /\ Store(1, RxVal)
  /\ state' = "IDLE" /\ Completed
  /\ UNCHANGED <<txVars, req, rbuf, ridx, intVars, tx>>

\* handle_tx_okay_irq.  The loop of fill_tx_fifo is one step per byte; TxDone
\* leaves the handler.
TxPart == ~irq.rx /\ irq.tx
TxDone == irq' = NoIrq

IrqTxCmd ==
  /\ TxPart /\ state = "TX_CMD" /\ cmdLeft > 0
  /\ \/ /\ PushTx
        /\ cmdLeft' = cmdLeft - 1
        /\ IF cmdLeft = 1 THEN state' = "WAIT_RESPONSE" /\ TxDone
           ELSE UNCHANGED <<state, irq>>
     \/ ~TxOkay /\ TxDone /\ UNCHANGED <<state, cmdLeft, txPos, tx>>
  /\ UNCHANGED <<dataLeft, page, reqVars, ridx, intVars, rx, buf>>

\* Mutant: the last page is not asked for.
IrqTxPageMutant ==
  /\ TxPart /\ state = "TX_PAGED_DATA" /\ dataLeft = 0
  /\ IF page + 1 < Len(PageLen)
     THEN /\ page' = page + 1 /\ dataLeft' = PageLen[page + 1]
          /\ UNCHANGED <<state, intTx, irq>>
     ELSE /\ intTx' = FALSE /\ state' = "WAIT_RESPONSE" /\ TxDone
          /\ UNCHANGED <<page, dataLeft>>
  /\ UNCHANGED <<cmdLeft, txPos, reqVars, ridx, intRx, nvic, tx, rx, buf>>

\* TX_PAGED_DATA with nothing left of the current page: ask the page handler.
IrqTxPage ==
  /\ TxPart /\ state = "TX_PAGED_DATA" /\ dataLeft = 0
  /\ IF page < Len(PageLen)
     THEN /\ page' = page + 1 /\ dataLeft' = PageLen[page + 1]
          /\ UNCHANGED <<state, intTx, irq>>
     ELSE /\ intTx' = FALSE /\ state' = "WAIT_RESPONSE" /\ TxDone
          /\ UNCHANGED <<page, dataLeft>>
  /\ UNCHANGED <<cmdLeft, txPos, reqVars, ridx, intRx, nvic, tx, rx, buf>>

IrqTxPaged ==
  /\ TxPart /\ state = "TX_PAGED_DATA" /\ dataLeft > 0
  /\ \/ /\ PushTx
        /\ dataLeft' = dataLeft - 1
        /\ irq' = IF dataLeft = 1 THEN NoIrq ELSE irq
     \/ ~TxOkay /\ TxDone /\ UNCHANGED <<dataLeft, txPos, tx>>
  /\ UNCHANGED <<state, cmdLeft, page, reqVars, ridx, intVars, rx, buf>>

\* IDLE, WAIT_RESPONSE, RX_RESPONSE: the request is given up with length 0.
TxStray == TxPart /\ state \in {"IDLE", "WAIT_RESPONSE", "RX_RESPONSE"}

IrqTxStray ==
  /\ TxStray
  /\ intTx' = FALSE
  /\ state' = "IDLE" /\ Completed /\ TxDone
  /\ UNCHANGED <<txVars, req, rbuf, ridx, intRx, nvic, tx, rx, buf>>
=============================================================================
