-------------------------- MODULE SysServicesProofs --------------------------
(***************************************************************************)
(* Proofs about SysServices, for every set of services, every FIFO depth   *)
(* and every number of asynchronous messages.                              *)
(***************************************************************************)
EXTENDS SysServices, FiniteSetTheorems, TLAPS

\* The main thread knows its request once a command has started.
HasRequest == pc # "prompt" => cmd \in Service /\ cur \in Service

CtlHasRequest == ~ctl.answered => ctl.svc \in Service

\* The driver has a request whenever it is not idle.
StateHasRequest ==
  /\ state \notin {"IDLE", "RX_RESPONSE"} => req \in Service
  /\ pc \in {"opcode", "params"} => req = cur

TypeInv == TypeOK /\ HasRequest /\ CtlHasRequest /\ StateHasRequest

\* What the System Controller puts on the line is a sequence of bytes.
LEMMA MessageType ==
  ASSUME NEW op \in Byte, NEW n \in Nat, NEW data \in [1..n -> RespByte]
  PROVE  Message(op, data) \in Seq(RxByte)
<1>1. RespByte \subseteq Byte
  BY SysAssumption
<1>2. data \in Seq(RespByte) /\ Len(data) = n
  OBVIOUS
<1>3. <<[cmd |-> TRUE, val |-> op]>> \in Seq(RxByte)
  BY DEF RxByte
<1>4. [i \in 1..Len(data) |-> [cmd |-> FALSE, val |-> data[i]]] \in Seq(RxByte)
  <2>1. \A i \in 1..n : [cmd |-> FALSE, val |-> data[i]] \in RxByte
    BY <1>1 DEF RxByte
  <2>2. [i \in 1..n |-> [cmd |-> FALSE, val |-> data[i]]] \in [1..n -> RxByte]
    BY <2>1
  <2> QED
    BY <2>2, <1>2
<1> QED
  BY <1>3, <1>4 DEF Message

\* The bytes of the POR opcode's value in a message are counted.
LEMMA PorBytesType ==
  ASSUME NEW n \in Nat, NEW data \in [1..n -> RespByte]
  PROVE  /\ IsFiniteSet({i \in 1..n : data[i] = POR})
         /\ PorBytes(data) = Cardinality({i \in 1..n : data[i] = POR})
         /\ PorBytes(data) \in Nat
<1> DEFINE S == {i \in 1..n : data[i] = POR}
<1>1. Len(data) = n
  OBVIOUS
<1>2. IsFiniteSet(1..n)
  BY FS_Interval
<1>3. S \subseteq 1..n
  OBVIOUS
<1>4. IsFiniteSet(S)
  BY <1>2, <1>3, FS_Subset
<1>5. PorBytes(data) = Cardinality(S)
  BY <1>1 DEF PorBytes
<1> QED
  BY <1>4, <1>5, FS_CardinalityType

\* Every response array has room for the opcode and the status byte.
LEMMA BufIdxFacts ==
  /\ 0 \in BufIdx /\ 1 \in BufIdx
  /\ \A s \in Service : \A i \in 0..(RespLen[s] - 1) : i \in BufIdx
BY DEF BufIdx

\* The values the code assigns by name are in the sets of their variables.
LEMMA NamesTyped ==
  /\ "g_response" \in Buffer /\ "stack" \in Buffer /\ "isp" \in Buffer
  /\ "none" \in Handler /\ "service" \in Handler /\ "isp" \in Handler
  /\ "IDLE" \in State /\ "TX_CMD" \in State /\ "TX_PAGED_DATA" \in State
  /\ "WAIT_RESPONSE" \in State /\ "RX_RESPONSE" \in State
  /\ NoIrq \in [rx : BOOLEAN, tx : BOOLEAN]
BY DEF Buffer, Handler, State, NoIrq

\* The globals of the two files start within their types.
LEMMA TypeInit == Init => TypeInv
<1> SUFFICES ASSUME Init PROVE TypeInv
  OBVIOUS
<1>1. buf \in [Buffer -> [BufIdx -> Byte \cup {Uninit}]]
  BY ByteAssumption DEF Init, ComBlkInit
<1>2. tx \in Seq(TxByte) /\ rx \in Seq(RxByte) /\ page \in 0..Len(PageLen)
  BY FifoAssumption DEF Init, ComBlkInit
<1>3. ComBlkTypeOK
  BY <1>1, <1>2 DEF ComBlkTypeOK, Init, ComBlkInit, State, Buffer, Handler, NoIrq
<1>4. SvcTypeOK
  BY DEF SvcTypeOK, Init, Pc, Result
<1> QED
  BY <1>3, <1>4 DEF Init, ComBlkInit, TypeInv, TypeOK, HasRequest, CtlHasRequest, StateHasRequest

\* request_completion_handler and the ISP handler leave the service layer typed.
LEMMA CallHandlerType ==
  ASSUME sysBusy \in BOOLEAN, lastLen \in Nat, NEW h, NEW len \in Nat,
         CallHandler(h, len)
  PROVE  sysBusy' \in BOOLEAN /\ lastLen' \in Nat
<1>1. CASE h = "service"
  BY <1>1 DEF CallHandler
<1>2. CASE h # "service"
  BY <1>2 DEF CallHandler
<1> QED
  BY <1>1, <1>2

\* What every branch of the receive handler does.
HandleRxPre ==
  /\ RxPart
  /\ UNCHANGED <<txVars, req, rbuf, intVars, tx>>
  /\ UNCHANGED <<pc, cmd, cur, irqOn, inited, status, regVars, ctlVars>>

\* Every step of the command, the driver and the System Controller keeps types.
LEMMA TypeNext == TypeInv /\ [Next]_vars => TypeInv'
<1> SUFFICES ASSUME TypeInv, [Next]_vars PROVE TypeInv'
  OBVIOUS
<1> USE DEF TypeInv, TypeOK, ComBlkTypeOK, SvcTypeOK, HasRequest, CtlHasRequest,
            StateHasRequest
<1>1. ASSUME NEW s \in Service, Command(s) PROVE TypeInv'
  BY <1>1, SysAssumption DEF Command, Main, Pc, Result, drvVars, txVars, reqVars,
     intVars, regVars, ctlVars
<1>2. CASE InitIfNeeded
  <2>1. ComBlkTypeOK'
    <3>1. CASE inited
      BY <1>2, <3>1 DEF InitIfNeeded, MSS_SYS_init, drvVars, txVars, reqVars, intVars
    <3>2. CASE ~inited
      <4>1. MSS_COMBLK_init
        BY <1>2, <3>2 DEF InitIfNeeded, MSS_SYS_init
      <4> QED
        BY <4>1, NamesTyped DEF MSS_COMBLK_init
    <3> QED
      BY <3>1, <3>2
  <2>2. SvcTypeOK'
    <3>1. sysBusy' \in BOOLEAN /\ lastLen' \in Nat
      <4>1. CASE inited
        <5>1. UNCHANGED <<sysBusy, lastLen>>
          BY <1>2, <4>1 DEF InitIfNeeded, MSS_SYS_init, drvVars
        <5> QED
          BY <5>1
      <4>2. CASE ~inited
        <5>1. sysBusy' = FALSE /\ lastLen' = 0
          BY <1>2, <4>2 DEF InitIfNeeded, MSS_SYS_init
        <5> QED
          BY <5>1
      <4> QED
        BY <4>1, <4>2
    <3>2. pc' = "prepare" /\ inited' = TRUE /\ irqOn' = TRUE
          /\ UNCHANGED <<cmd, cur, status, porSeen, regVars, ctlVars>>
      BY <1>2 DEF InitIfNeeded, MSS_SYS_init, Main
    <3> QED
      BY <3>1, <3>2 DEF Pc, regVars, ctlVars
  <2>3. (HasRequest /\ CtlHasRequest /\ StateHasRequest)'
    BY <1>2 DEF InitIfNeeded, MSS_SYS_init, MSS_COMBLK_init, Main, drvVars, reqVars, ctlVars
  <2> QED
    BY <2>1, <2>2, <2>3
<1>3. CASE Prepare
  <2>1. ComBlkTypeOK'
    BY <1>3 DEF Prepare, drvVars, txVars, reqVars, intVars
  <2>2. SvcTypeOK'
    <3>1. envm' \in {"design", "max"} /\ savedEnvm' \in {"design", "max"}
      BY <1>3 DEF Prepare
    <3>2. cur \in Service /\ cmd \in Service /\ CLK_ERROR \in Result
      BY <1>3 DEF Prepare, Result
    <3>3. pc' \in Pc /\ cur' \in Service /\ status' \in Result /\ irqOn' \in BOOLEAN
      <4>1. CASE Finish(CLK_ERROR)
        BY <3>2, <4>1 DEF Finish, Pc
      <4>2. CASE pc' = "call" /\ UNCHANGED <<cur, status, irqOn>>
        BY <3>2, <4>2 DEF Pc
      <4> QED
        BY <1>3, <4>1, <4>2 DEF Prepare
    <3>4. refused' \in BOOLEAN
      BY <1>3 DEF Prepare
    <3> QED
      BY <1>3, <3>1, <3>3, <3>4 DEF Prepare, ctlVars
  <2>3. (HasRequest /\ CtlHasRequest /\ StateHasRequest)'
    BY <1>3 DEF Prepare, Finish, drvVars, reqVars, ctlVars
  <2> QED
    BY <2>1, <2>2, <2>3
<1>4. CASE signal_request_start
  BY <1>4 DEF signal_request_start, Main, Pc, drvVars, txVars, reqVars, intVars,
     regVars, ctlVars
<1>5. CASE SendBegin
  <2>1. cur \in Service /\ pc' = "opcode"
    BY <1>5 DEF SendBegin, Main
  <2>2. tx' \in Seq(TxByte)
    BY <1>5 DEF SendBegin, BeginRequest
  <2>3. buf' \in [Buffer -> [BufIdx -> Byte \cup {Uninit}]]
    BY <1>5 DEF SendBegin
  <2>4. cmdLeft' \in Nat /\ page' \in 0..Len(PageLen)
    BY <1>5, <2>1, ServiceAssumption, FifoAssumption DEF SendBegin, BeginRequest
  <2>5. rbuf' \in Buffer /\ handler' \in Handler
    BY <1>5, NamesTyped DEF SendBegin, BeginRequest, RespBuffer
  <2>6. ComBlkTypeOK'
    BY <1>5, <2>1, <2>2, <2>3, <2>4, <2>5 DEF SendBegin, BeginRequest
  <2>7. sysBusy' \in BOOLEAN /\ lastLen' \in Nat
    BY <1>5 DEF SendBegin, CallHandler
  <2>8. SvcTypeOK'
    BY <1>5, <2>1, <2>7 DEF SendBegin, Pc, regVars
  <2> QED
    <3>1. UNCHANGED <<state, ctl>> /\ req' = cur /\ cur' = cur /\ cmd' = cmd
      BY <1>5 DEF SendBegin, BeginRequest
    <3> QED
      BY <2>1, <2>6, <2>8, <3>1, <1>5 DEF SendBegin, Main
<1>6. CASE SendOpcode
  BY <1>6 DEF SendOpcode, send_cmd_opcode, PushTx, TxByte, Main, Pc, reqVars,
     intVars, regVars, ctlVars
<1>7. CASE SendParams
  <2>1. cur \in Service /\ req = cur /\ pc' \in Pc
        /\ (pc' # "prompt" => pc' \in {"params", "wait"})
    BY <1>7 DEF SendParams, Main, AfterSend, Pc
  <2>0. UNCHANGED <<cmd, cur, irqOn, inited, sysBusy, lastLen, status, porSeen,
                    regVars, ctlVars>>
    BY <1>7 DEF SendParams
  <2>2. SvcTypeOK' /\ HasRequest' /\ CtlHasRequest'
    <3>1. HasRequest' /\ CtlHasRequest'
      BY <1>7, <2>0, <2>1 DEF ctlVars, SendParams, Main
    <3>2. SvcTypeOK'
      BY <2>0, <2>1 DEF regVars, ctlVars
    <3> QED
      BY <3>1, <3>2
  <2>3. CASE SendPtr
    BY <1>7, <2>1, <2>2, <2>3, NamesTyped DEF SendParams, SendPtr, PushTx, TxByte,
       reqVars
  <2>4. CASE SendParam
    BY <1>7, <2>1, <2>2, <2>4 DEF SendParams, SendParam, PushTx, TxByte, reqVars,
       intVars
  <2>5. CASE SendDone
    BY <1>7, <2>1, <2>2, <2>5, NamesTyped DEF SendParams, SendDone, txVars, reqVars
  <2> QED
    BY <1>7, <2>3, <2>4, <2>5 DEF SendParams
<1>8. CASE Return
  <2>1. ComBlkTypeOK'
    BY <1>8 DEF Return, drvVars, txVars, reqVars, intVars
  <2>2. buf["stack"][1] \in Byte \cup {Uninit}
    BY NamesTyped, BufIdxFacts
  <2>3. ServiceStatus \in Result /\ FAILURE \in Result
    BY <2>2 DEF ServiceStatus, Result
  <2>4. pc' \in Pc /\ cur' \in Service /\ status' \in Result /\ irqOn' \in BOOLEAN
    BY <1>8, <2>3 DEF Return, Finish, Pc
  <2>5. SvcTypeOK'
    BY <1>8, <2>4 DEF Return, ctlVars
  <2> QED
    BY <1>8, <2>1, <2>4, <2>5 DEF Return, Finish, drvVars, reqVars, ctlVars
<1>9. CASE IapSetup \/ IapClaim \/ IapXfer \/ IapCleanup
  <2>1. UNCHANGED drvVars /\ UNCHANGED <<cmd, cur, irqOn, inited, sysBusy, lastLen,
                                         porSeen, envm, savedEnvm, refused,
                                         ctlVars>>
    BY <1>9 DEF IapSetup, IapClaim, IapXfer, IapCleanup, regVars
  <2>2. /\ pc' \in {"prompt", "claim", "xfer", "init", "cleanup"} /\ pc # "prompt"
        /\ status' \in Result /\ spi' \in {"none", "setup", "claimed"}
    BY <1>9 DEF IapSetup, IapClaim, IapXfer, IapCleanup, Main, Result, regVars
  <2> QED
    BY <2>1, <2>2 DEF drvVars, txVars, reqVars, intVars, ctlVars, Pc
<1>10. CASE Interrupt
  BY <1>10 DEF Interrupt, IrqEnter, txVars, reqVars, intVars, svcVars, regVars, ctlVars
<1>11. CASE HandleRx
  <2>1. HandleRxPre
    BY <1>11 DEF HandleRxPre, HandleRx, IrqRxEvent, IrqRxPorData, IrqRxDrop,
       IrqRxPorStart, IrqRxOpcode, IrqRxData, IrqRxPaged, reqVars
  <2>0. rx # << >> /\ rx' = Tail(rx) /\ irq' = [irq EXCEPT !.rx = FALSE]
    BY <2>1 DEF HandleRxPre, RxPart
  <2>2. Head(rx) \in RxByte /\ rx' \in Seq(RxByte) /\ irq' \in [rx : BOOLEAN, tx : BOOLEAN]
    <3>1. Head(rx) \in RxByte /\ rx' \in Seq(RxByte)
      BY <2>0
    <3>2. irq' \in [rx : BOOLEAN, tx : BOOLEAN]
      BY <2>0
    <3> QED
      BY <3>1, <3>2
  <2>3. RxVal \in Byte
    BY <2>2 DEF RxVal, RxByte
  <2>4. buf' \in [Buffer -> [BufIdx -> Byte \cup {Uninit}]]
    <3>1. \/ buf' = buf
          \/ \E i \in Int : buf' = [buf EXCEPT ![rbuf][i] = RxVal]
          \/ buf' = [buf EXCEPT ![rbuf][0] = POR, ![rbuf][1] = Zero]
      BY <1>11 DEF HandleRx, IrqRxEvent, IrqRxPorData, IrqRxDrop,
         IrqRxPorStart, IrqRxOpcode, IrqRxData, IrqRxPaged, Store
    <3> QED
      BY <3>1, <2>3, ByteAssumption
  <2>5. ridx' \in Nat
    BY <1>11 DEF HandleRx, IrqRxEvent, IrqRxPorData, IrqRxDrop,
       IrqRxPorStart, IrqRxOpcode, IrqRxData, IrqRxPaged, RespIdx
  <2>6. state' \in State /\ (state' \in {state, "IDLE", "RX_RESPONSE"})
    BY <1>11, NamesTyped DEF HandleRx, IrqRxEvent, IrqRxPorData, IrqRxDrop,
       IrqRxPorStart, IrqRxOpcode, IrqRxData, IrqRxPaged
  <2>7. handler' \in Handler /\ busy' \in BOOLEAN
    BY <1>11, NamesTyped DEF HandleRx, IrqRxEvent, IrqRxPorData, IrqRxDrop,
       IrqRxPorStart, IrqRxOpcode, IrqRxData, IrqRxPaged, Completed, reqVars
  <2>8. ComBlkTypeOK'
    BY <2>1, <2>2, <2>4, <2>5, <2>6, <2>7 DEF HandleRxPre, txVars, intVars
  <2>9. sysBusy' \in BOOLEAN /\ lastLen' \in Nat /\ porSeen' \in Nat
    <3>1. \/ UNCHANGED <<sysBusy, lastLen>>
          \/ CallHandler(handler, RespIdx) \/ CallHandler(handler, 2)
      BY <1>11 DEF HandleRx
    <3>2. RespIdx \in Nat
      BY DEF RespIdx
    <3>3. porSeen' = porSeen \/ porSeen' = porSeen + 1
      BY <1>11 DEF HandleRx, Deliver
    <3> QED
      BY <3>1, <3>2, <3>3, CallHandlerType
  <2>10. SvcTypeOK'
    BY <2>1, <2>9 DEF HandleRxPre, regVars, ctlVars
  <2> QED
    BY <2>1, <2>6, <2>8, <2>10 DEF HandleRxPre, ctlVars
<1>12. CASE HandleTx
  <2>1. /\ UNCHANGED <<req, rbuf, ridx, intRx, nvic, rx, buf>>
        /\ UNCHANGED <<pc, cmd, cur, irqOn, inited, status, porSeen, regVars, ctlVars>>
    BY <1>12 DEF HandleTx, IrqTxCmd, IrqTxPage, IrqTxPaged, IrqTxStray, reqVars, intVars
  <2>2. tx' \in Seq(TxByte) /\ txPos' \in Nat
    <3>1. \/ UNCHANGED <<tx, txPos>>
          \/ req \in Service /\ PushTx
      BY <1>12 DEF HandleTx, IrqTxCmd, IrqTxPage, IrqTxPaged, IrqTxStray, txVars
    <3>2. CASE req \in Service /\ PushTx
      <4>1. [svc |-> req, pos |-> txPos] \in TxByte
        BY <3>2 DEF TxByte
      <4> QED
        BY <3>2, <4>1 DEF PushTx
    <3> QED
      BY <3>1, <3>2
  <2>3. cmdLeft' \in Nat /\ dataLeft' \in Nat /\ page' \in 0..Len(PageLen)
    <3>1. CASE IrqTxCmd
      BY <3>1 DEF IrqTxCmd
    <3>2. CASE IrqTxPage
      BY <3>2, FifoAssumption DEF IrqTxPage
    <3>3. CASE IrqTxPaged
      BY <3>3 DEF IrqTxPaged
    <3>4. CASE IrqTxStray
      BY <3>4 DEF IrqTxStray, txVars
    <3> QED
      BY <1>12, <3>1, <3>2, <3>3, <3>4 DEF HandleTx
  <2>4. irq' \in [rx : BOOLEAN, tx : BOOLEAN]
    <3>1. irq' = irq \/ irq' = NoIrq
      BY <1>12 DEF HandleTx, IrqTxCmd, IrqTxPage, IrqTxPaged, IrqTxStray, TxDone
    <3> QED
      BY <3>1, NamesTyped
  <2>5. handler' \in Handler /\ busy' \in BOOLEAN /\ intTx' \in BOOLEAN
    BY <1>12, NamesTyped DEF HandleTx, IrqTxCmd, IrqTxPage, IrqTxPaged, IrqTxStray,
       Completed, reqVars, intVars
  <2>6. state' \in State /\ (state' # state => state' = "IDLE" \/ req \in Service)
    BY <1>12, NamesTyped DEF HandleTx, IrqTxCmd, IrqTxPage, IrqTxPaged, IrqTxStray
  <2>7. ComBlkTypeOK'
    BY <2>1, <2>2, <2>3, <2>4, <2>5, <2>6
  <2>8. sysBusy' \in BOOLEAN /\ lastLen' \in Nat
    <3>1. UNCHANGED <<sysBusy, lastLen>> \/ CallHandler(handler, 0)
      BY <1>12 DEF HandleTx
    <3> QED
      BY <3>1, CallHandlerType
  <2>9. SvcTypeOK'
    BY <2>1, <2>8 DEF regVars, ctlVars
  <2> QED
    BY <2>1, <2>6, <2>7, <2>9 DEF ctlVars
<1>13. CASE CtlTake
  <2>1. Head(tx) \in TxByte /\ tx' \in Seq(TxByte)
    BY <1>13 DEF CtlTake
  <2>2. Head(tx).svc \in Service /\ Head(tx).pos \in Nat
    BY <2>1 DEF TxByte
  <2>3. ctl' \in [svc : Service \cup {NoReq}, got : Nat, answered : BOOLEAN]
        /\ ctl'.svc \in Service
    <3>1. ctl' = [svc |-> Head(tx).svc, got |-> Head(tx).pos + 1, answered |-> FALSE]
      BY <1>13 DEF CtlTake
    <3> HIDE DEF TypeInv, TypeOK, ComBlkTypeOK, SvcTypeOK
    <3> QED
      BY <2>2, <3>1
  <2>4. ComBlkTypeOK'
    BY <1>13, <2>1 DEF CtlTake, txVars, reqVars, intVars
  <2>5. SvcTypeOK'
    BY <1>13, <2>3 DEF CtlTake, svcVars, regVars
  <2> QED
    BY <1>13, <2>3, <2>4, <2>5 DEF CtlTake, reqVars, svcVars
<1>14. CASE CtlAnswer
  <2>1. PICK data \in [1..(RespLen[ctl.svc] - 1) -> RespByte] :
          /\ rx' = rx \o Message(Opcode[ctl.svc], data) /\ answer' = data[1]
          /\ porData' = porData + PorBytes(data)
    BY <1>14 DEF CtlAnswer, CountPorData
  <2>2. ctl.svc \in Service
    BY <1>14 DEF CtlAnswer
  <2>3. Message(Opcode[ctl.svc], data) \in Seq(RxByte)
    <3>1. Opcode[ctl.svc] \in Byte /\ RespLen[ctl.svc] - 1 \in Nat
      BY <2>2, ServiceAssumption
    <3> QED
      BY <3>1, MessageType
  <2>4. rx' \in Seq(RxByte)
    BY <2>1, <2>3
  <2>5. answer' \in Byte
    <3>1. 1 \in 1..(RespLen[ctl.svc] - 1)
      BY <2>2, ServiceAssumption
    <3>2. data[1] \in RespByte
      BY <3>1
    <3> QED
      BY <2>1, <3>2, SysAssumption
  <2>6. porData' \in Nat
    <3>1. RespLen[ctl.svc] - 1 \in Nat
      BY <2>2, ServiceAssumption
    <3>2. PorBytes(data) \in Nat
      BY <3>1, PorBytesType
    <3> QED
      BY <2>1, <3>2
  <2> QED
    <3>1. ComBlkTypeOK'
      BY <1>14, <2>4 DEF CtlAnswer, txVars, reqVars, intVars
    <3>2. SvcTypeOK'
      BY <1>14, <2>5, <2>6 DEF CtlAnswer, svcVars, regVars
    <3> QED
      BY <1>14, <3>1, <3>2 DEF CtlAnswer, reqVars, svcVars
<1>15. CASE CtlProgram
  <2>1. buf' \in [Buffer -> [BufIdx -> Byte \cup {Uninit}]]
    BY <1>15, ByteAssumption DEF CtlProgram
  <2>2. page' \in 0..Len(PageLen) /\ tx' \in Seq(TxByte) /\ rx' \in Seq(RxByte)
    BY <1>15, FifoAssumption DEF CtlProgram
  <2>3. ComBlkTypeOK'
    BY <1>15, <2>1, <2>2, NamesTyped DEF CtlProgram
  <2>4. SvcTypeOK'
    BY <1>15 DEF CtlProgram, Pc, Result
  <2> QED
    BY <1>15, <2>3, <2>4 DEF CtlProgram
<1>16. ASSUME NEW e \in Event, CtlEvent(e) PROVE TypeInv'
  BY <1>16, SysAssumption DEF CtlEvent, RxByte, txVars, reqVars, intVars, svcVars,
     regVars
<1>17. ASSUME NEW d \in RespByte, CtlPor(d) PROVE TypeInv'
  <2>1. <<d>> \in [1..1 -> RespByte]
    OBVIOUS
  <2>2. Message(POR, <<d>>) \in Seq(RxByte)
    BY <2>1, MessageType, ByteAssumption
  <2>3. rx' \in Seq(RxByte)
    <3>1. rx \in Seq(RxByte)
      OBVIOUS
    <3>2. rx' = rx \o Message(POR, <<d>>)
      BY <1>17 DEF CtlPor
    <3> HIDE DEF TypeInv, TypeOK, ComBlkTypeOK, SvcTypeOK
    <3> QED
      BY <2>2, <3>1, <3>2
  <2> QED
    <3>1. ComBlkTypeOK'
      <4>1. UNCHANGED <<state, cmdLeft, dataLeft, page, txPos, req, rbuf, ridx, handler,
                        busy, intTx, intRx, nvic, irq, tx, buf>>
        BY <1>17 DEF CtlPor, txVars, reqVars, intVars
      <4> QED
        BY <2>3, <4>1
    <3>2. SvcTypeOK'
      <4>1. PICK n \in Nat : n = 1
        OBVIOUS
      <4>2. <<d>> \in [1..n -> RespByte]
        BY <2>1, <4>1
      <4>3. PorBytes(<<d>>) \in Nat
        BY <4>2, PorBytesType
      <4>4. porData' \in Nat
        BY <1>17, <4>3 DEF CtlPor, CountPorData
      <4> QED
        BY <1>17, <4>4 DEF CtlPor, svcVars, regVars
    <3> QED
      BY <1>17, <3>1, <3>2 DEF CtlPor, reqVars, svcVars
<1>18. CASE UNCHANGED vars
  BY <1>18 DEF vars, drvVars, txVars, reqVars, intVars, svcVars, regVars, ctlVars
<1> QED
  BY <1>1, <1>2, <1>3, <1>4, <1>5, <1>6, <1>7, <1>8, <1>9, <1>10, <1>11, <1>12,
     <1>13, <1>14, <1>15, <1>16, <1>17, <1>18 DEF Next, MainStep, CtlStep

\* Type correctness of driver, service layer and System Controller.
THEOREM Typing == Spec => []TypeOK
<1>1. Init => TypeInv
  BY TypeInit
<1>2. TypeInv /\ [Next]_vars => TypeInv'
  BY TypeNext
<1>3. TypeInv => TypeOK
  BY DEF TypeInv
<1> QED
  BY <1>1, <1>2, <1>3, PTL DEF Spec

\* The strengthened types: whoever is sending, waiting or being answered has a
\* request, so the driver's sizes and indexes are those of a service.
THEOREM TypeInvariance == Spec => []TypeInv
BY TypeInit, TypeNext, PTL DEF Spec

-----------------------------------------------------------------------------
(* The response array is never indexed out of bounds.                        *)

\* handle_rx_okay_irq and the send functions keep the index inside the array.
LEMMA BoundsNext == TypeInv /\ StoreInBounds /\ [Next]_vars => StoreInBounds'
<1> SUFFICES ASSUME TypeInv, StoreInBounds, [Next]_vars PROVE StoreInBounds'
  OBVIOUS
<1>0. ridx \in Nat /\ RespSize \in Nat
  BY ServiceAssumption DEF TypeInv, TypeOK, ComBlkTypeOK, RespSize
<1>1. CASE UNCHANGED <<state, nvic, ridx, req>>
  BY <1>1 DEF StoreInBounds, RespSize
<1>2. CASE InitIfNeeded
  BY <1>2 DEF InitIfNeeded, MSS_SYS_init, MSS_COMBLK_init, StoreInBounds, RespSize, drvVars,
     reqVars, intVars
<1>3. CASE SendBegin
  BY <1>3 DEF SendBegin, BeginRequest, StoreInBounds
<1>4. CASE SendParams
  BY <1>4, <1>1 DEF SendParams, SendPtr, SendParam, SendDone, StoreInBounds, reqVars,
     intVars
<1>5. CASE HandleRx
  <2>1. CASE IrqRxData
    <3>1. req' = req /\ nvic' = nvic
      BY <2>1 DEF IrqRxData, intVars
    <3>2. CASE RespComplete
      BY <2>1, <3>2 DEF IrqRxData, StoreInBounds
    <3>3. CASE ~RespComplete
      <4>1. state = "RX_RESPONSE" /\ ridx' = RespIdx /\ RespIdx # RespSize
        BY <2>1, <3>3 DEF IrqRxData, RespComplete, RespData
      <4> QED
        BY <1>0, <3>1, <4>1 DEF StoreInBounds, RespIdx, RespSize
    <3> QED
      BY <3>2, <3>3
  <2>2. CASE ~IrqRxData
    <3>1. CASE IrqRxEvent \/ IrqRxDrop
      BY <3>1, <1>1 DEF IrqRxEvent, IrqRxDrop, reqVars, intVars
    <3>2. CASE IrqRxPorData \/ IrqRxPaged
      BY <3>2 DEF IrqRxPorData, IrqRxPaged, StoreInBounds
    <3>3. CASE IrqRxPorStart \/ IrqRxOpcode
      BY <3>3 DEF IrqRxPorStart, IrqRxOpcode, StoreInBounds
    <3> QED
      BY <1>5, <2>2, <3>1, <3>2, <3>3 DEF HandleRx
  <2> QED
    BY <2>1, <2>2
<1>6. CASE HandleTx
  BY <1>6, <1>1 DEF HandleTx, IrqTxCmd, IrqTxPage, IrqTxPaged, IrqTxStray, reqVars,
     intVars, StoreInBounds
<1>7. CASE CtlProgram
  BY <1>7 DEF CtlProgram, StoreInBounds
<1>8. CASE \/ \E s \in Service : Command(s)
           \/ Prepare \/ signal_request_start \/ SendOpcode \/ Return
           \/ IapSetup \/ IapClaim \/ IapXfer \/ IapCleanup \/ Interrupt
           \/ CtlTake \/ CtlAnswer
           \/ (\E e \in Event : CtlEvent(e)) \/ (\E d \in RespByte : CtlPor(d))
           \/ UNCHANGED vars
  <2>1. UNCHANGED <<state, nvic, ridx, req>>
    BY <1>8 DEF Command, Prepare, signal_request_start, SendOpcode, send_cmd_opcode,
       Return, IapSetup, IapClaim, IapXfer, IapCleanup, Interrupt, IrqEnter, CtlTake,
       CtlAnswer, CtlEvent, CtlPor, vars, drvVars, reqVars, intVars
  <2> QED
    BY <2>1, <1>1
<1> QED
  BY <1>2, <1>3, <1>4, <1>5, <1>6, <1>7, <1>8 DEF Next, MainStep, CtlStep

\* handle_rx_okay_irq never reads or writes outside the response array.
THEOREM ResponseInBounds == Spec => []StoreInBounds
<1>1. Init => StoreInBounds
  BY DEF Init, ComBlkInit, StoreInBounds
<1> QED
  BY <1>1, BoundsNext, TypeInvariance, PTL DEF Spec

-----------------------------------------------------------------------------
(* A waiting request cannot get lost.  The invariant follows the request     *)
(* through the send function (Sending), says that the transmit interrupt is  *)
(* off for a request somebody waits for, and that the byte before the next   *)
(* one of a response is never the POR opcode (Receiving), which needs that   *)
(* the data bytes in the FIFO come from RespByte (RxGood).                   *)

GoodRx == {b \in RxByte : ~b.cmd => b.val \in RespByte}
RxGood == rx \in Seq(GoodRx)

HandlerOf(s) == IF Kind[s] = "paged" THEN "isp" ELSE "service"

Sending ==
  pc \in {"opcode", "params"} =>
    /\ req = cur /\ rbuf = RespBuffer(cur) /\ handler = HandlerOf(cur)
    /\ busy = TRUE /\ intTx = FALSE /\ nvic = FALSE /\ irq = NoIrq

WaitQuiet == pc = "wait" => Kind[cur] # "paged" /\ intTx = FALSE /\ irq.tx = FALSE

Receiving ==
  Waiting /\ state = "RX_RESPONSE" =>
    /\ ridx \in 1..(RespLen[cur] - 1)
    /\ buf["stack"][ridx - 1] # POR

CallInv == RxGood /\ Sending /\ WaitQuiet /\ Receiving /\ NoLostRequest

\* The data bytes of an answer or a digest message come from RespByte.
LEMMA MessageGood ==
  ASSUME NEW op \in Byte, NEW n \in Nat, NEW data \in [1..n -> RespByte]
  PROVE  Message(op, data) \in Seq(GoodRx)
<1>1. RespByte \subseteq Byte
  BY SysAssumption
<1>2. data \in Seq(RespByte) /\ Len(data) = n
  OBVIOUS
<1>3. <<[cmd |-> TRUE, val |-> op]>> \in Seq(GoodRx)
  BY DEF RxByte, GoodRx
<1>4. [i \in 1..Len(data) |-> [cmd |-> FALSE, val |-> data[i]]] \in Seq(GoodRx)
  <2>1. \A i \in 1..n : [cmd |-> FALSE, val |-> data[i]] \in GoodRx
    BY <1>1 DEF RxByte, GoodRx
  <2>2. [i \in 1..n |-> [cmd |-> FALSE, val |-> data[i]]] \in [1..n -> GoodRx]
    BY <2>1
  <2> QED
    BY <2>2, <1>2
<1> QED
  BY <1>3, <1>4 DEF Message

\* Nothing else gets into the receive FIFO that handle_rx_okay_irq reads.
LEMMA RxGoodNext == TypeInv /\ RxGood /\ [Next]_vars => RxGood'
<1> SUFFICES ASSUME TypeInv, RxGood, [Next]_vars PROVE RxGood'
  OBVIOUS
<1>1. CASE UNCHANGED rx
  BY <1>1 DEF RxGood
<1>2. CASE HandleRx
  <2>1. RxPart
    BY <1>2 DEF HandleRx, IrqRxEvent, IrqRxPorData, IrqRxDrop, IrqRxPorStart,
       IrqRxOpcode, IrqRxData, IrqRxPaged
  <2> QED
    BY <2>1 DEF RxGood, RxPart
<1>3. CASE CtlAnswer
  <2>1. PICK data \in [1..(RespLen[ctl.svc] - 1) -> RespByte] :
          rx' = rx \o Message(Opcode[ctl.svc], data)
    BY <1>3 DEF CtlAnswer
  <2>2. Opcode[ctl.svc] \in Byte /\ RespLen[ctl.svc] - 1 \in Nat
    BY <1>3, ServiceAssumption DEF CtlAnswer, TypeInv, CtlHasRequest
  <2>3. Message(Opcode[ctl.svc], data) \in Seq(GoodRx)
    BY <2>2, MessageGood
  <2> QED
    BY <2>1, <2>3 DEF RxGood
<1>4. ASSUME NEW e \in Event, CtlEvent(e) PROVE RxGood'
  <2>1. [cmd |-> TRUE, val |-> e] \in GoodRx
    BY SysAssumption DEF GoodRx, RxByte
  <2> QED
    BY <1>4, <2>1 DEF CtlEvent, RxGood
<1>5. ASSUME NEW d \in RespByte, CtlPor(d) PROVE RxGood'
  <2>1. <<d>> \in [1..1 -> RespByte]
    OBVIOUS
  <2>2. Message(POR, <<d>>) \in Seq(GoodRx)
    BY <2>1, MessageGood, ByteAssumption
  <2> QED
    BY <1>5, <2>2 DEF CtlPor, RxGood
<1>6. CASE CtlProgram
  BY <1>6 DEF CtlProgram, RxGood
<1>7. CASE \/ \E s \in Service : Command(s)
           \/ MainStep \/ Interrupt \/ HandleTx \/ CtlTake \/ UNCHANGED vars
  <2>1. UNCHANGED rx
    BY <1>7 DEF Command, MainStep, InitIfNeeded, MSS_SYS_init, MSS_COMBLK_init, Prepare,
       signal_request_start, SendBegin, BeginRequest, SendOpcode, send_cmd_opcode,
       SendParams, SendPtr, SendParam, SendDone, Return, IapSetup, IapClaim, IapXfer,
       IapCleanup, Interrupt, IrqEnter, HandleTx, IrqTxCmd, IrqTxPage, IrqTxPaged,
       IrqTxStray, CtlTake, vars, drvVars
  <2> QED
    BY <2>1, <1>1
<1> QED
  BY <1>2, <1>3, <1>4, <1>5, <1>6, <1>7 DEF Next, CtlStep

\* What a received byte does to a request somebody goes on waiting for.
LEMMA WaitingRx ==
  ASSUME POR \notin RespByte, TypeInv, CallInv, HandleRx, Waiting'
  PROVE  Receiving' /\ NoLostRequest'
<1>1. UNCHANGED <<pc, cur, req, rbuf>>
  BY DEF HandleRx, IrqRxEvent, IrqRxDrop, IrqRxPorStart, IrqRxOpcode, IrqRxPorData,
     IrqRxData, IrqRxPaged, reqVars
<1>2. sysBusy
  <2>1. sysBusy' = FALSE \/ UNCHANGED sysBusy
    BY DEF HandleRx, CallHandler
  <2> QED
    BY <2>1 DEF Waiting
<1>3. Waiting /\ req = cur /\ rbuf = "stack" /\ handler = "service" /\ busy
      /\ state \in {"TX_CMD", "WAIT_RESPONSE", "RX_RESPONSE"}
  BY <1>1, <1>2 DEF Waiting, CallInv, NoLostRequest
<1>4. cur \in Service /\ RespSize = RespLen[cur] /\ RespLen[cur] \in Nat
      /\ RespLen[cur] >= 2 /\ Opcode[cur] # POR
  <2>1. cur \in Service
    BY <1>3 DEF TypeInv, HasRequest, Waiting
  <2> QED
    BY <1>3, <2>1, ServiceAssumption DEF RespSize, NoReq
<1>5. buf \in [Buffer -> [BufIdx -> Byte \cup {Uninit}]] /\ ridx \in Nat
  BY DEF TypeInv, TypeOK, ComBlkTypeOK
<1>6. CASE UNCHANGED <<state, ridx, buf, handler, busy, sysBusy>>
  BY <1>1, <1>3, <1>6 DEF CallInv, Receiving, NoLostRequest, Waiting
<1>7. CASE IrqRxOpcode
  <2>1. ridx' = 1 /\ state' = "RX_RESPONSE" /\ UNCHANGED <<handler, busy>>
        /\ buf' = [buf EXCEPT !["stack"][0] = Opcode[cur]]
    BY <1>3, <1>7 DEF IrqRxOpcode, Store, reqVars
  <2>2. buf'["stack"][0] = Opcode[cur]
    BY <1>5, <2>1 DEF Buffer, BufIdx
  <2> QED
    BY <1>1, <1>3, <1>4, <2>1, <2>2 DEF Receiving, NoLostRequest, Waiting
<1>8. CASE IrqRxData /\ (IF RespComplete THEN CallHandler(handler, RespIdx)
                                        ELSE UNCHANGED <<sysBusy, lastLen>>)
  <2>1. ~RespComplete
    BY <1>3, <1>8 DEF CallHandler, Waiting
  <2>2. UNCHANGED <<state, handler, busy>> /\ state = "RX_RESPONSE" /\ ~RxCmd
        /\ RespIdx # RespLen[cur] /\ ridx' = RespIdx
    BY <1>4, <1>8, <2>1 DEF IrqRxData, RespComplete, RespData
  <2>3. ridx \in 1..(RespLen[cur] - 1)
    BY <1>3, <2>2 DEF CallInv, Receiving
  <2>4. ridx' = ridx + 1 /\ ridx' \in 1..(RespLen[cur] - 1)
    BY <1>4, <2>2, <2>3 DEF RespIdx
  <2>5. buf' = [buf EXCEPT !["stack"][ridx] = RxVal]
    BY <1>3, <1>4, <1>8, <2>3 DEF IrqRxData, Store
  <2>6. ridx \in BufIdx
    BY <1>4, <2>3 DEF BufIdx
  <2>7. buf'["stack"][ridx] = RxVal
    BY <1>5, <2>5, <2>6 DEF Buffer
  <2>8. RxVal # POR
    <3>1. Head(rx) \in GoodRx
      BY <1>8 DEF IrqRxData, RxPart, CallInv, RxGood
    <3> QED
      BY <2>2, <3>1 DEF GoodRx, RxCmd, RxVal
  <2>9. ridx' - 1 = ridx
    BY <2>3, <2>4
  <2> QED
    BY <1>1, <1>3, <2>2, <2>4, <2>7, <2>8, <2>9 DEF Receiving, NoLostRequest, Waiting
<1>9. ~IrqRxPorStart /\ ~IrqRxPorData /\ ~IrqRxPaged
  BY <1>3 DEF IrqRxPorStart, IrqRxPorData, PorData, IrqRxPaged, CallInv, Receiving
<1> QED
  BY <1>6, <1>7, <1>8, <1>9 DEF HandleRx, IrqRxEvent, IrqRxDrop, reqVars

\* signal_request_start, the send functions and the handlers keep the two layers
\* agreed about the request in progress.
LEMMA CallNext ==
  ASSUME POR \notin RespByte
  PROVE  TypeInv /\ CallInv /\ [Next]_vars => CallInv'
<1> SUFFICES ASSUME TypeInv, CallInv, [Next]_vars PROVE CallInv'
  OBVIOUS
<1>0. RxGood'
  BY RxGoodNext DEF CallInv
<1>1. CASE pc' \notin {"opcode", "params", "wait"}
  BY <1>0, <1>1 DEF CallInv, Sending, WaitQuiet, Receiving, NoLostRequest, Waiting
<1>2. CASE UNCHANGED <<pc, cur, req, rbuf, handler, busy, intTx, nvic, irq, sysBusy,
                       state, ridx, buf>>
  BY <1>0, <1>2 DEF CallInv, Sending, WaitQuiet, Receiving, NoLostRequest, Waiting
<1>3. CASE SendBegin
  BY <1>0, <1>3 DEF SendBegin, BeginRequest, Main, InIrq, HandlerOf, CallInv, Sending,
     WaitQuiet, Receiving, NoLostRequest, Waiting
<1>4. CASE SendOpcode
  BY <1>0, <1>4 DEF SendOpcode, send_cmd_opcode, Main, reqVars, intVars, CallInv, Sending,
     WaitQuiet, Receiving, NoLostRequest, Waiting
<1>5. CASE SendParams
  <2>1. Sending /\ pc = "params" /\ cur' = cur /\ UNCHANGED <<req, rbuf, handler, busy, irq>>
    BY <1>5 DEF SendParams, SendPtr, SendParam, SendDone, Main, CallInv, reqVars
  <2>2. cur \in Service
    BY <2>1 DEF TypeInv, HasRequest
  <2>3. CASE SendParam /\ pc' = "params"
    BY <1>0, <2>1, <2>3 DEF SendParam, intVars, CallInv, Sending, WaitQuiet, Receiving,
       NoLostRequest, Waiting
  <2>4. CASE pc' = "wait" /\ (SendPtr \/ SendDone)
    <3>1. Kind[cur] # "paged"
      BY <1>1, <1>5, <2>4 DEF SendParams, Main, AfterSend
    <3>2. intTx' = FALSE /\ state' \in {"TX_CMD", "WAIT_RESPONSE"}
      BY <2>1, <2>4, <3>1 DEF SendPtr, SendDone, Sending
    <3>3. irq' = NoIrq /\ req' = cur /\ rbuf' = "stack" /\ handler' = "service" /\ busy' = TRUE
      BY <2>1, <3>1 DEF Sending, RespBuffer, HandlerOf
    <3> QED
      BY <1>0, <2>1, <2>4, <3>1, <3>2, <3>3 DEF CallInv, Sending, WaitQuiet, Receiving,
         NoLostRequest, Waiting, NoIrq
  <2>5. pc' = "prompt" \/ (pc' = "params" /\ SendParam)
        \/ (pc' = "wait" /\ (SendPtr \/ SendDone))
    BY <1>5 DEF SendParams, Main, AfterSend
  <2> QED
    BY <1>1, <2>3, <2>4, <2>5
<1>6. CASE Interrupt
  <2>1. nvic = TRUE /\ irq'.tx = (intTx /\ TxOkay)
    BY <1>6 DEF Interrupt, IrqEnter, TypeInv, TypeOK, ComBlkTypeOK
  <2>2. UNCHANGED <<pc, cur, req, rbuf, handler, busy, intTx, nvic, sysBusy, state, ridx, buf>>
    BY <1>6 DEF Interrupt, IrqEnter, reqVars, intVars, svcVars
  <2> QED
    BY <1>0, <2>1, <2>2 DEF CallInv, Sending, WaitQuiet, Receiving, NoLostRequest, Waiting
<1>7. CASE HandleRx
  <2>1. /\ RxPart
        /\ UNCHANGED <<pc, cur, req, rbuf, intTx, nvic>>
        /\ \/ UNCHANGED <<state, ridx, buf, handler, busy, sysBusy>>
           \/ IrqRxPorStart \/ IrqRxOpcode \/ IrqRxPorData
           \/ IrqRxData /\ (IF RespComplete THEN CallHandler(handler, RespIdx)
                                           ELSE UNCHANGED <<sysBusy, lastLen>>)
           \/ IrqRxPaged
    BY <1>7 DEF HandleRx, IrqRxEvent, IrqRxDrop, IrqRxPorStart, IrqRxOpcode, IrqRxPorData,
       IrqRxData, IrqRxPaged, reqVars, intVars
  <2>2. irq.rx /\ irq' = [irq EXCEPT !.rx = FALSE] /\ irq \in [rx : BOOLEAN, tx : BOOLEAN]
    BY <2>1 DEF RxPart, TypeInv, TypeOK, ComBlkTypeOK
  <2>3. irq # NoIrq /\ irq'.tx = irq.tx
    BY <2>2 DEF NoIrq
  <2>4. pc \notin {"opcode", "params"}
    BY <2>3 DEF CallInv, Sending
  <2>5. Sending'
    BY <2>1, <2>4 DEF Sending
  <2>6. WaitQuiet'
    BY <2>1, <2>3 DEF WaitQuiet, CallInv
  <2>7. CASE ~Waiting'
    BY <1>0, <2>5, <2>6, <2>7 DEF CallInv, Receiving, NoLostRequest
  <2>8. CASE Waiting'
    <3>1. Receiving' /\ NoLostRequest'
      BY <1>7, <2>1, <2>8, WaitingRx
    <3> QED
      BY <1>0, <2>5, <2>6, <3>1 DEF CallInv
  <2> QED
    BY <2>7, <2>8
<1>8. CASE HandleTx
  <2>1. TxPart /\ UNCHANGED pc
    BY <1>8 DEF HandleTx, IrqTxCmd, IrqTxPage, IrqTxPaged, IrqTxStray, TxStray
  <2>2. irq.tx = TRUE /\ irq # NoIrq
    BY <2>1 DEF TxPart, TypeInv, TypeOK, ComBlkTypeOK, NoIrq
  <2> QED
    BY <1>1, <2>1, <2>2 DEF CallInv, Sending, WaitQuiet
<1>9. CASE \/ \E s \in Service : Command(s)
           \/ InitIfNeeded \/ Prepare \/ signal_request_start \/ Return
           \/ IapSetup \/ IapClaim \/ IapXfer \/ IapCleanup \/ CtlProgram
  <2>1. pc' \notin {"opcode", "params", "wait"}
    BY <1>9 DEF Command, InitIfNeeded, MSS_SYS_init, Prepare, signal_request_start, Return, Finish,
       IapSetup, IapClaim, IapXfer, IapCleanup, CtlProgram, Main
  <2> QED
    BY <2>1, <1>1
<1>10. CASE \/ CtlTake \/ CtlAnswer \/ (\E e \in Event : CtlEvent(e))
            \/ (\E d \in RespByte : CtlPor(d)) \/ UNCHANGED vars
  <2>1. UNCHANGED <<pc, cur, req, rbuf, handler, busy, intTx, nvic, irq, sysBusy,
                    state, ridx, buf>>
    BY <1>10 DEF CtlTake, CtlAnswer, CtlEvent, CtlPor, vars, drvVars, reqVars, intVars,
       svcVars
  <2> QED
    BY <2>1, <1>2
<1> QED
  BY <1>3, <1>4, <1>5, <1>6, <1>7, <1>8, <1>9, <1>10 DEF Next, MainStep, CtlStep

\* A thread spinning in wait_for_request_completion always has its request in
\* the driver, provided that no response byte has the value of the POR opcode
\* (with such a byte the digest branch idles the driver in mid-response).
THEOREM NoRequestIsLost ==
  ASSUME POR \notin RespByte
  PROVE  Spec => []NoLostRequest
<1>1. Init => CallInv
  BY DEF Init, ComBlkInit, CallInv, RxGood, Sending, WaitQuiet, Receiving, NoLostRequest,
     Waiting
<1>2. CallInv => NoLostRequest
  BY DEF CallInv
<1> QED
  BY <1>1, <1>2, CallNext, TypeInvariance, PTL DEF Spec
==============================================================================
