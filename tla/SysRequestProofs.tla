--------------------------- MODULE SysRequestProofs ---------------------------
(***************************************************************************)
(* What a command holds while its request runs (the SPI flash, the eNVM    *)
(* frequency range), the bytes of the request on their way to the System   *)
(* Controller, and the answer on its way back.  The type invariant and     *)
(* the invariant of a running call come from SysServicesProofs.            *)
(***************************************************************************)
EXTENDS SysServicesProofs, FiniteSetTheorems

-----------------------------------------------------------------------------
(* mss_iap_cmd: the SPI slave and ENVM_CR.                                   *)

\* A command issues its own request, a verify the digest check before it.
CurOfCmd == pc # "prompt" => cur = cmd \/ (cur = Digest /\ cmd \in IapVerify)

InCall == {"call", "send", "opcode", "params", "wait"}

\* What mss_iap_cmd holds of the SPI flash, at each of its steps.
SpiInv ==
  /\ pc \in {"prompt", "setup"} => spi = "none"
  /\ pc \in {"setup", "claim", "xfer"} => cmd \in IapService
  /\ pc = "claim" => spi = "setup"
  /\ pc = "xfer" => spi = "claimed"
  /\ pc \in {"init", "prepare"} \cup InCall =>
       /\ cmd \in IapService => spi = "claimed"
       /\ cmd \notin IapService => spi = "none"

\* ENVM_CR is the IAP's during the service, which has saved what it found there:
\* the design's range, unless an IAP refused before has left its own.
Raised(reg) == (reg = "max") <=> refused

EnvmInv ==
  IF pc \in InCall /\ ChangesEnvm(cur) THEN envm = "max" /\ Raised(savedEnvm)
  ELSE Raised(envm)

HeldVars == <<pc, cmd, cur, spi, envm, savedEnvm, refused>>

\* A request with pages is the command itself and no IAP: only such a command
\* comes back to the prompt without passing the cleanup of mss_iap_cmd.
LEMMA PagedIsOwnCommand ==
  ASSUME TypeInv, CurOfCmd, pc # "prompt", Kind[cur] = "paged"
  PROVE  cmd \notin IapService /\ ~ChangesEnvm(cur)
BY SysAssumption DEF CurOfCmd, ChangesEnvm

\* The interrupt handler and the System Controller hold nothing.
LEMMA HeldUnchanged ==
  ASSUME \/ Interrupt \/ HandleRx \/ HandleTx \/ CtlTake \/ CtlAnswer
         \/ (\E e \in Event : CtlEvent(e)) \/ (\E d \in RespByte : CtlPor(d))
         \/ UNCHANGED vars
  PROVE  UNCHANGED HeldVars
BY DEF Interrupt, HandleRx, HandleTx, CtlTake, CtlAnswer, CtlEvent, CtlPor, vars,
   svcVars, regVars, HeldVars

\* Every step of the command keeps its request its own.
LEMMA CurNext == TypeInv /\ CurOfCmd /\ [Next]_vars => CurOfCmd'
<1> SUFFICES ASSUME TypeInv, CurOfCmd, [Next]_vars PROVE CurOfCmd'
  OBVIOUS
<1>1. CASE \E s \in Service : Command(s)
  BY <1>1 DEF Command, CurOfCmd
<1>2. CASE Prepare \/ Return
  BY <1>2 DEF Prepare, Return, Finish, CurOfCmd
<1>3. CASE \/ InitIfNeeded \/ signal_request_start \/ SendBegin \/ SendOpcode \/ SendParams
           \/ IapSetup \/ IapClaim \/ IapXfer \/ IapCleanup
  BY <1>3 DEF InitIfNeeded, signal_request_start, SendBegin, SendOpcode, SendParams,
     IapSetup, IapClaim, IapXfer, IapCleanup, Main, CurOfCmd
<1>4. CASE CtlProgram
  BY <1>4 DEF CtlProgram, CurOfCmd
<1>5. CASE UNCHANGED HeldVars
  BY <1>5 DEF HeldVars, CurOfCmd
<1> QED
  BY <1>1, <1>2, <1>3, <1>4, <1>5, HeldUnchanged DEF Next, MainStep, CtlStep

\* Every way through mss_iap_cmd keeps account of the SPI slave.
LEMMA SpiNext == TypeInv /\ CurOfCmd /\ SpiInv /\ [Next]_vars => SpiInv'
<1> SUFFICES ASSUME TypeInv, CurOfCmd, SpiInv, [Next]_vars PROVE SpiInv'
  OBVIOUS
<1> USE DEF InCall
<1>1. CASE \E s \in Service : Command(s)
  BY <1>1 DEF Command, Main, regVars, SpiInv
<1>2. CASE Prepare \/ Return
  BY <1>2 DEF Prepare, Return, Finish, SpiInv
<1>3. CASE InitIfNeeded \/ signal_request_start \/ SendBegin \/ SendOpcode
  BY <1>3 DEF InitIfNeeded, signal_request_start, SendBegin, SendOpcode, Main, regVars,
     SpiInv
<1>4. CASE SendParams
  <2>1. pc = "params" /\ UNCHANGED <<cmd, spi>>
        /\ (pc' \in {"params", "wait"} \/ (pc' = "prompt" /\ Kind[cur] = "paged"))
    BY <1>4 DEF SendParams, Main, AfterSend, regVars
  <2> QED
    BY <2>1, PagedIsOwnCommand DEF SpiInv
<1>5. CASE IapSetup \/ IapClaim \/ IapXfer \/ IapCleanup
  BY <1>5 DEF IapSetup, IapClaim, IapXfer, IapCleanup, Main, regVars, SpiInv
<1>6. CASE CtlProgram
  BY <1>6 DEF CtlProgram, SpiInv
<1>7. CASE UNCHANGED HeldVars
  BY <1>7 DEF HeldVars, SpiInv
<1> QED
  BY <1>1, <1>2, <1>3, <1>4, <1>5, <1>6, <1>7, HeldUnchanged DEF Next, MainStep, CtlStep

\* A service that changes ENVM_CR puts back what it found, or was refused.
LEMMA EnvmNext == TypeInv /\ CurOfCmd /\ EnvmInv /\ [Next]_vars => EnvmInv'
<1> SUFFICES ASSUME TypeInv, CurOfCmd, EnvmInv, [Next]_vars PROVE EnvmInv'
  OBVIOUS
<1> USE DEF InCall, Raised
<1>1. CASE \E s \in Service : Command(s)
  BY <1>1 DEF Command, Main, regVars, EnvmInv
<1>2. CASE Prepare
  <2>1. Raised(envm) /\ pc = "prepare"
    BY <1>2 DEF Prepare, EnvmInv
  <2>2. CASE ChangesEnvm(cur)
    <3>1. envm' = "max" /\ savedEnvm' = envm
      BY <1>2, <2>2 DEF Prepare
    <3>2. CASE pc' = "call" /\ UNCHANGED <<cur, refused>>
      BY <2>1, <2>2, <3>1, <3>2 DEF EnvmInv, ChangesEnvm
    <3>3. CASE pc' \notin InCall /\ refused' = TRUE
      BY <3>1, <3>3 DEF EnvmInv
    <3> QED
      BY <1>2, <2>2, <3>2, <3>3 DEF Prepare, Finish
  <2>3. CASE ~ChangesEnvm(cur)
    <3>1. UNCHANGED envm /\ refused' = refused
      BY <1>2, <2>3 DEF Prepare, TypeInv, TypeOK, SvcTypeOK
    <3>2. pc' \in InCall => cur' = cur
      BY <1>2 DEF Prepare, Finish
    <3> QED
      BY <2>1, <2>3, <3>1, <3>2 DEF EnvmInv, ChangesEnvm
  <2> QED
    BY <2>2, <2>3
<1>3. CASE Return
  BY <1>3 DEF Return, Finish, EnvmInv
<1>4. CASE \/ InitIfNeeded \/ signal_request_start \/ SendBegin \/ SendOpcode
           \/ IapSetup \/ IapClaim \/ IapXfer \/ IapCleanup
  BY <1>4 DEF InitIfNeeded, signal_request_start, SendBegin, SendOpcode, IapSetup, IapClaim,
     IapXfer, IapCleanup, Main, regVars, ChangesEnvm, EnvmInv
<1>5. CASE SendParams
  <2>1. pc = "params" /\ UNCHANGED <<cmd, cur, envm, savedEnvm, refused>>
        /\ (pc' \in {"params", "wait"} \/ (pc' = "prompt" /\ Kind[cur] = "paged"))
    BY <1>5 DEF SendParams, Main, AfterSend, regVars
  <2> QED
    BY <2>1, PagedIsOwnCommand DEF EnvmInv, ChangesEnvm
<1>6. CASE CtlProgram
  BY <1>6 DEF CtlProgram, EnvmInv
<1>7. CASE UNCHANGED HeldVars
  BY <1>7 DEF HeldVars, EnvmInv, ChangesEnvm
<1> QED
  BY <1>1, <1>2, <1>3, <1>4, <1>5, <1>6, <1>7, HeldUnchanged DEF Next, MainStep, CtlStep

\* mss_iap_cmd holds the SPI flash slave exactly while the System Controller may
\* read the image from it, and gives it back on every way out.
THEOREM SpiFlashHeld == Spec => []SpiHeldForIap
<1>1. Init => CurOfCmd /\ SpiInv
  BY DEF Init, CurOfCmd, SpiInv, InCall
<1>2. SpiInv => SpiHeldForIap
  BY DEF SpiInv, SpiHeldForIap, InCall
<1> QED
  BY <1>1, <1>2, CurNext, SpiNext, TypeInvariance, PTL DEF Spec

\* When a command is over ENVM_CR has the design's eNVM frequency range, unless an
\* IAP was refused by clk_switching_fix since the last reset; from then on it never
\* has, because every later service saves and restores the raised range.
THEOREM EnvmKept == Spec => []EnvmAtPrompt
<1>1. Init => CurOfCmd /\ EnvmInv
  BY DEF Init, CurOfCmd, EnvmInv, InCall, Raised
<1>2. EnvmInv => EnvmAtPrompt
  BY DEF EnvmInv, EnvmAtPrompt, InCall, Raised
<1> QED
  BY <1>1, <1>2, CurNext, EnvmNext, TypeInvariance, PTL DEF Spec

-----------------------------------------------------------------------------
(* The bytes on their way to the System Controller.  TxTail ties the next    *)
(* byte of the request to the last one that went out; before MSS_SYS_init,   *)
(* which forgets the request but not its position, none has (Unborn).        *)

TxTail ==
  txPos > 0 =>
    IF tx = << >> THEN ctl.svc = req /\ ctl.got = txPos
    ELSE tx[Len(tx)].svc = req /\ tx[Len(tx)].pos + 1 = txPos

Unborn ==
  ~inited => /\ txPos = 0 /\ irqOn = FALSE /\ irq = NoIrq
             /\ pc \notin {"prepare"} \cup InCall

Stream == TxStream /\ TxTail

\* A byte written to the FIFO continues the frame of its request.
LEMMA PushKeepsStream ==
  ASSUME TypeInv, Stream, PushTx, UNCHANGED <<req, ctl>>
  PROVE  Stream'
<1>1. tx \in Seq(TxByte) /\ txPos \in Nat
  BY DEF TypeInv, TypeOK, ComBlkTypeOK
<1>2. /\ Len(tx') = Len(tx) + 1 /\ tx' # << >>
      /\ \A i \in 1..Len(tx) : tx'[i] = tx[i]
      /\ tx'[Len(tx) + 1] = [svc |-> req, pos |-> txPos]
  BY <1>1 DEF PushTx
<1>3. TxTail'
  BY <1>1, <1>2 DEF PushTx, TxTail
<1>4. TxStream'
  <2> SUFFICES ASSUME NEW i \in 1..Len(tx')
               PROVE  \/ tx'[i].pos = 0
                      \/ LET before == IF i = 1 THEN [svc |-> ctl.svc, pos |-> ctl.got - 1]
                                       ELSE tx'[i - 1]
                         IN tx'[i].svc = before.svc /\ tx'[i].pos = before.pos + 1
    BY DEF TxStream
  <2>1. CASE i \in 1..Len(tx)
    <3>1. tx'[i] = tx[i] /\ (i # 1 => tx'[i - 1] = tx[i - 1])
      BY <1>1, <1>2, <2>1
    <3> QED
      BY <2>1, <3>1 DEF Stream, TxStream
  <2>2. CASE i = Len(tx) + 1
    <3>1. tx'[i].svc = req /\ tx'[i].pos = txPos
      BY <1>2, <2>2
    <3>2. CASE txPos > 0 /\ tx = << >>
      <4>1. i = 1 /\ ctl.svc = req /\ ctl.got = txPos
        BY <2>2, <3>2 DEF Stream, TxTail
      <4> QED
        BY <1>1, <3>1, <4>1
    <3>3. CASE txPos > 0 /\ tx # << >>
      <4>1. Len(tx) >= 1 /\ i # 1 /\ i - 1 = Len(tx) /\ tx'[i - 1] = tx[Len(tx)]
        BY <1>1, <1>2, <2>2, <3>3
      <4> QED
        BY <3>1, <3>3, <4>1 DEF Stream, TxTail
    <3> QED
      BY <1>1, <3>1, <3>2, <3>3
  <2> QED
    BY <1>1, <1>2, <2>1, <2>2
<1> QED
  BY <1>3, <1>4 DEF Stream

\* So does the rest of the FIFO when the System Controller takes a byte.
LEMMA TakeKeepsStream ==
  ASSUME TypeInv, Stream, CtlTake
  PROVE  Stream'
<1>1. /\ tx \in Seq(TxByte) /\ txPos \in Nat /\ tx # << >>
      /\ UNCHANGED <<req, txPos>> /\ tx' = Tail(tx)
      /\ ctl' = [svc |-> Head(tx).svc, got |-> Head(tx).pos + 1, answered |-> FALSE]
  BY DEF TypeInv, TypeOK, ComBlkTypeOK, CtlTake, txVars, reqVars
<1>2. /\ Len(tx) >= 1 /\ Len(tx') = Len(tx) - 1 /\ tx[1] = Head(tx)
      /\ \A i \in 1..Len(tx') : tx'[i] = tx[i + 1]
      /\ tx[1] \in TxByte
  BY <1>1
<1>3. ctl'.svc = tx[1].svc /\ ctl'.got = tx[1].pos + 1 /\ ctl'.got - 1 = tx[1].pos
  BY <1>1, <1>2 DEF TxByte
<1>4. TxTail'
  <2>1. CASE tx' = << >>
    <3>0. Len(<< >>) = 0
      OBVIOUS
    <3>1. Len(tx') = 0
      BY <2>1, <3>0
    <3>2. Len(tx) = 1
      BY <1>1, <1>2, <3>1
    <3> QED
      BY <1>1, <1>3, <2>1, <3>2 DEF Stream, TxTail
  <2>2. CASE tx' # << >>
    <3>1. Len(tx') >= 1 /\ tx'[Len(tx')] = tx[Len(tx)]
      BY <1>1, <1>2, <2>2
    <3> QED
      BY <1>1, <2>2, <3>1 DEF Stream, TxTail
  <2> QED
    BY <2>1, <2>2
<1>5. TxStream'
  <2> SUFFICES ASSUME NEW i \in 1..Len(tx')
               PROVE  \/ tx'[i].pos = 0
                      \/ LET before == IF i = 1 THEN [svc |-> ctl'.svc, pos |-> ctl'.got - 1]
                                       ELSE tx'[i - 1]
                         IN tx'[i].svc = before.svc /\ tx'[i].pos = before.pos + 1
    BY DEF TxStream
  <2>1. i + 1 \in 1..Len(tx) /\ i + 1 # 1 /\ (i + 1) - 1 = i /\ tx'[i] = tx[i + 1]
    BY <1>1, <1>2
  <2>2. tx[i + 1].pos = 0 \/ (tx[i + 1].svc = tx[i].svc /\ tx[i + 1].pos = tx[i].pos + 1)
    BY <2>1 DEF Stream, TxStream
  <2>3. i # 1 => tx'[i - 1] = tx[i]
    BY <1>1, <1>2
  <2> QED
    BY <1>3, <2>1, <2>2, <2>3
<1> QED
  BY <1>4, <1>5 DEF Stream

\* Nothing is sent before MSS_SYS_init.
LEMMA UnbornNext == TypeInv /\ Unborn /\ [Next]_vars => Unborn'
<1> SUFFICES ASSUME TypeInv, Unborn, [Next]_vars PROVE Unborn'
  OBVIOUS
<1> USE DEF InCall
<1>1. CASE inited'
  BY <1>1 DEF Unborn
<1>2. CASE CtlProgram
  BY <1>2 DEF CtlProgram, Unborn
<1>3. CASE \E s \in Service : Command(s)
  BY <1>3 DEF Command, Main, drvVars, txVars, Unborn
<1>4. CASE InitIfNeeded
  BY <1>1, <1>4 DEF InitIfNeeded
<1>5. CASE IapSetup \/ IapClaim \/ IapXfer \/ IapCleanup
  BY <1>5 DEF IapSetup, IapClaim, IapXfer, IapCleanup, Main, drvVars, txVars, Unborn
<1>6. CASE Prepare \/ signal_request_start \/ SendBegin \/ SendOpcode \/ SendParams \/ Return
  <2>1. pc \in {"prepare"} \cup InCall /\ inited' = inited
    BY <1>6 DEF Prepare, signal_request_start, SendBegin, SendOpcode, SendParams, Return, Main
  <2> QED
    BY <1>1, <2>1 DEF Unborn, TypeInv, TypeOK, SvcTypeOK
<1>7. CASE Interrupt
  BY <1>7 DEF Interrupt, svcVars, Unborn
<1>8. CASE HandleRx \/ HandleTx
  <2>1. irq # NoIrq /\ inited' = inited
    BY <1>8 DEF HandleRx, HandleTx, IrqRxEvent, IrqRxDrop, IrqRxPorStart, IrqRxOpcode,
       IrqRxPorData, IrqRxData, IrqRxPaged, RxPart, IrqTxCmd, IrqTxPage, IrqTxPaged,
       IrqTxStray, TxStray, TxPart, NoIrq
  <2> QED
    BY <1>1, <2>1 DEF Unborn, TypeInv, TypeOK, SvcTypeOK
<1>9. CASE \/ CtlTake \/ CtlAnswer \/ (\E e \in Event : CtlEvent(e))
           \/ (\E d \in RespByte : CtlPor(d)) \/ UNCHANGED vars
  BY <1>9 DEF CtlTake, CtlAnswer, CtlEvent, CtlPor, txVars, drvVars, svcVars, vars, Unborn
<1> QED
  BY <1>2, <1>3, <1>4, <1>5, <1>6, <1>7, <1>8, <1>9 DEF Next, MainStep, CtlStep

\* The send functions, fill_tx_fifo and the flush of an aborted request keep the
\* bytes in the order of their frame.
LEMMA StreamNext == TypeInv /\ Unborn /\ Stream /\ [Next]_vars => Stream'
<1> SUFFICES ASSUME TypeInv, Unborn, Stream, [Next]_vars PROVE Stream'
  OBVIOUS
<1>0. tx \in Seq(TxByte) /\ txPos \in Nat
      /\ ctl \in [svc : Service \cup {NoReq}, got : Nat, answered : BOOLEAN]
  BY DEF TypeInv, TypeOK, ComBlkTypeOK, SvcTypeOK
<1>1. CASE UNCHANGED <<tx, txPos, req, ctl>>
  BY <1>1 DEF Stream, TxStream, TxTail
<1>2. CASE PushTx /\ UNCHANGED <<req, ctl>>
  BY <1>2, PushKeepsStream
<1>3. CASE CtlTake
  BY <1>3, TakeKeepsStream
<1>4. CASE CtlAnswer
  <2>1. UNCHANGED <<tx, txPos, req>> /\ ctl'.svc = ctl.svc /\ ctl'.got = ctl.got
    BY <1>0, <1>4 DEF CtlAnswer, txVars, reqVars
  <2> QED
    BY <2>1 DEF Stream, TxStream, TxTail
<1>5. CASE CtlProgram
  BY <1>5 DEF CtlProgram, Stream, TxStream, TxTail
<1>6. CASE SendBegin
  <2>1. txPos' = 0 /\ UNCHANGED ctl /\ (tx' = << >> \/ tx' = tx)
    BY <1>6 DEF SendBegin, BeginRequest
  <2>2. CASE tx' = << >>
    BY <2>1, <2>2 DEF Stream, TxStream, TxTail
  <2>3. CASE tx' = tx
    BY <2>1, <2>3 DEF Stream, TxStream, TxTail
  <2> QED
    BY <2>1, <2>2, <2>3
<1>7. CASE InitIfNeeded
  <2>1. UNCHANGED <<tx, txPos, ctl>> /\ (txPos > 0 => UNCHANGED req)
    BY <1>7 DEF InitIfNeeded, MSS_SYS_init, MSS_COMBLK_init, drvVars, txVars, reqVars, ctlVars,
       Unborn
  <2> QED
    BY <2>1 DEF Stream, TxStream, TxTail
<1>8. CASE SendOpcode \/ SendParams
  BY <1>1, <1>2, <1>8 DEF SendOpcode, send_cmd_opcode, SendParams, SendPtr, SendParam,
     SendDone, reqVars, txVars, ctlVars
<1>9. CASE HandleTx
  BY <1>1, <1>2, <1>9 DEF HandleTx, IrqTxCmd, IrqTxPage, IrqTxPaged, IrqTxStray, reqVars,
     txVars, ctlVars
<1>10. CASE \/ \E s \in Service : Command(s)
            \/ Prepare \/ signal_request_start \/ Return \/ IapSetup \/ IapClaim \/ IapXfer
            \/ IapCleanup \/ Interrupt \/ HandleRx
            \/ (\E e \in Event : CtlEvent(e)) \/ (\E d \in RespByte : CtlPor(d))
            \/ UNCHANGED vars
  <2>1. UNCHANGED <<tx, txPos, req, ctl>>
    BY <1>10 DEF Command, Prepare, signal_request_start, Return, IapSetup, IapClaim, IapXfer,
       IapCleanup, Interrupt, IrqEnter, HandleRx, IrqRxEvent, IrqRxDrop, IrqRxPorStart,
       IrqRxOpcode, IrqRxPorData, IrqRxData, IrqRxPaged, CtlEvent, CtlPor, vars, drvVars,
       txVars, reqVars, ctlVars
  <2> QED
    BY <1>1, <2>1
<1> QED
  BY <1>3, <1>4, <1>5, <1>6, <1>7, <1>8, <1>9, <1>10 DEF Next, MainStep, CtlStep

\* Whatever the FIFO depth and however the interrupt handler and the sending
\* thread share the work, the System Controller gets the bytes of each frame in
\* order and without a gap.
THEOREM FramesInOrder == Spec => []TxStream
<1>1. Init => Unborn /\ Stream
  BY DEF Init, ComBlkInit, Unborn, InCall, Stream, TxStream, TxTail
<1>2. Stream => TxStream
  BY DEF Stream
<1> QED
  BY <1>1, <1>2, UnbornNext, StreamNext, TypeInvariance, PTL DEF Spec

-----------------------------------------------------------------------------
(* A request and its answer.  Between two requests (Quiet) nothing of either *)
(* is left: the driver is free, the transmit FIFO empty, every answer read.  *)
(* While one runs, either the System Controller is still taking its bytes    *)
(* and no opcode is on its way back (Sent), or it has answered and exactly   *)
(* one is, followed by the status byte (Answered).  An ISP request never     *)
(* ends for the service layer: its handler leaves g_request_in_progress set. *)

OpcodeAt(i) == rx[i].cmd /\ \E s \in Service : rx[i].val = Opcode[s]
NoOpcode    == \A i \in 1..Len(rx) : ~OpcodeAt(i)

Quiet == ~sysBusy \/ pc = "send"

QuietInv ==
  Quiet => /\ busy = FALSE /\ handler = "none" /\ state \in {"IDLE", "RX_RESPONSE"}
           /\ tx = << >> /\ ctl.answered /\ NoOpcode

\* The thread runs the send function or waits for the answer.
Running == pc \in {"opcode", "params"} \/ Waiting

BusyInv ==
  /\ ~inited => ~sysBusy
  /\ pc \in {"send", "opcode", "params"} => sysBusy
  /\ pc \in {"opcode", "params"} => state \in {"IDLE", "RX_RESPONSE"}

\* How much of the frame has gone out.
FrameInv ==
  Running =>
    /\ pc = "opcode" => txPos = 0
    /\ Kind[cur] # "ptr" => txPos + cmdLeft = 1 + ParamLen[cur]
    /\ Kind[cur] = "ptr" => /\ cmdLeft = 0
                            /\ pc = "params" => txPos = 1
                            /\ pc = "wait" => txPos = 2

\* An ISP request that has left the send function.
IspInv ==
  sysBusy /\ pc \notin {"send", "opcode", "params", "wait"} =>
    /\ handler # "service" /\ rbuf = "isp"
    /\ req \in Service /\ Kind[req] = "paged"
    /\ state = "TX_CMD" => 1 + ParamLen[req] > TxDepth

Taken == IF ctl.answered THEN 0 ELSE ctl.got

Sent ==
  /\ NoOpcode
  /\ Taken + Len(tx) = txPos
  /\ \A i \in 1..Len(tx) : tx[i] = [svc |-> cur, pos |-> Taken + i - 1]
  /\ ~ctl.answered => ctl.svc = cur /\ ctl.got >= 1
  /\ pc = "wait" => state # "RX_RESPONSE"

\* The answer in the receive FIFO, and what is left of it in RX_RESPONSE.
AnswerComing ==
  /\ \A i \in 1..Len(rx) : OpcodeAt(i) => /\ i < Len(rx)
                                          /\ ~rx[i + 1].cmd /\ rx[i + 1].val = answer
  /\ \A i, j \in 1..Len(rx) : OpcodeAt(i) /\ OpcodeAt(j) => i = j

AnswerRead ==
  /\ NoOpcode
  /\ buf["stack"][0] = Opcode[cur]
  /\ ridx = 1 => rx # << >> /\ ~rx[1].cmd /\ rx[1].val = answer
  /\ ridx > 1 => buf["stack"][1] = answer

Answered ==
  /\ ctl.answered /\ tx = << >> /\ txPos = FrameLen(cur)
  /\ IF pc = "wait" /\ state = "RX_RESPONSE" THEN AnswerRead ELSE AnswerComing

Exchange ==
  Running => IF Kind[cur] = "paged" THEN Len(tx) <= txPos ELSE Sent \/ Answered

SessionInv == QuietInv /\ BusyInv /\ FrameInv /\ IspInv /\ Exchange

\* The command looks at the answer, unless a digest message is stored over it.
AnswerStored ==
  pc = "wait" /\ ~sysBusy =>
    /\ lastLen = RespLen[cur]
    /\ \/ buf["stack"][0] = Opcode[cur] /\ buf["stack"][1] = answer
       \/ buf["stack"][0] = POR /\ porSent > 0

NoStatus == {None, FAILURE, Reset, CLK_ERROR}

StatusInv ==
  status \notin NoStatus => /\ status = answer \/ (status = UNEXPECTED /\ porSent > 0)
                           /\ ~sysBusy /\ pc \in {"prompt", "cleanup"}

DoneInv == AnswerStored /\ StatusInv

\* The frame of a request without pages: the opcode and its parameters.
LEMMA PlainFrame ==
  ASSUME NEW s \in Service, Kind[s] # "paged"
  PROVE  /\ FrameLen(s) = 1 + ParamLen[s] /\ ParamLen[s] \in Nat
         /\ Kind[s] = "ptr" => FrameLen(s) = 2
BY ServiceAssumption DEF FrameLen

\* handle_rx_okay_irq takes the first byte and shifts the others.
LEMMA TailShifts ==
  ASSUME rx \in Seq(RxByte), rx # << >>, rx' = Tail(rx)
  PROVE  /\ Len(rx) >= 1 /\ Len(rx) \in Nat /\ Len(rx') = Len(rx) - 1
         /\ \A i \in 1..Len(rx') : i + 1 \in 1..Len(rx) /\ rx'[i] = rx[i + 1]
         /\ Head(rx) = rx[1] /\ rx' \in Seq(RxByte)
         /\ NoOpcode => NoOpcode'
<1>1. /\ Len(rx) >= 1 /\ Len(rx) \in Nat /\ Len(rx') = Len(rx) - 1
      /\ \A i \in 1..Len(rx') : i + 1 \in 1..Len(rx) /\ rx'[i] = rx[i + 1]
      /\ Head(rx) = rx[1] /\ rx' \in Seq(RxByte)
  OBVIOUS
<1>2. NoOpcode => NoOpcode'
  BY <1>1 DEF NoOpcode, OpcodeAt
<1> QED
  BY <1>1, <1>2

\* A message goes into the FIFO behind what is there.
LEMMA ConcatShape ==
  ASSUME NEW s \in Seq(RxByte), NEW t \in Seq(RxByte), NEW r, r = s \o t
  PROVE  /\ Len(r) = Len(s) + Len(t) /\ r \in Seq(RxByte)
         /\ \A i \in 1..Len(s) : r[i] = s[i]
         /\ \A i \in 1..Len(t) : r[Len(s) + i] = t[i]
OBVIOUS

\* A message is an opcode, with bit 15 set, and its data.
LEMMA MessageShape ==
  ASSUME NEW op \in Byte, NEW n \in Nat, NEW data \in [1..n -> RespByte]
  PROVE  /\ Message(op, data) \in Seq(RxByte) /\ Len(Message(op, data)) = n + 1
         /\ Message(op, data)[1] = [cmd |-> TRUE, val |-> op]
         /\ \A i \in 1..n : Message(op, data)[1 + i] = [cmd |-> FALSE, val |-> data[i]]
<1>1. Len(data) = n /\ RespByte \subseteq Byte
  BY SysAssumption
<1> DEFINE h == <<[cmd |-> TRUE, val |-> op]>>
           t == [i \in 1..n |-> [cmd |-> FALSE, val |-> data[i]]]
<1>2. h \in Seq(RxByte) /\ Len(h) = 1 /\ h[1] = [cmd |-> TRUE, val |-> op]
  BY DEF RxByte
<1>3. t \in Seq(RxByte) /\ Len(t) = n
      /\ \A i \in 1..n : t[i] = [cmd |-> FALSE, val |-> data[i]]
  <2>1. \A i \in 1..n : [cmd |-> FALSE, val |-> data[i]] \in RxByte
    BY <1>1 DEF RxByte
  <2>2. t \in [1..n -> RxByte]
    BY <2>1
  <2> QED
    BY <2>2
<1> DEFINE m == Message(op, data)
<1>4. m = h \o t
  BY <1>1 DEF Message
<1> HIDE DEF h, t, m
<1>5. h \in Seq(RxByte) /\ t \in Seq(RxByte)
  BY <1>2, <1>3
<1>6. /\ Len(m) = Len(h) + Len(t) /\ m \in Seq(RxByte)
      /\ \A i \in 1..Len(h) : m[i] = h[i]
      /\ \A i \in 1..Len(t) : m[Len(h) + i] = t[i]
  BY <1>4, <1>5, ConcatShape
<1>7. Len(h) = 1 /\ Len(t) = n
  BY <1>2, <1>3
<1>8. Len(m) = n + 1 /\ m[1] = h[1] /\ \A i \in 1..n : m[1 + i] = t[i]
  BY <1>6, <1>7
<1> QED
  BY <1>2, <1>3, <1>6, <1>8 DEF m

\* What the System Controller sends by itself has no opcode of a request in it.
LEMMA EventAppends ==
  ASSUME rx \in Seq(RxByte), \/ \E e \in Event : CtlEvent(e)
                             \/ \E d \in RespByte : CtlPor(d)
  PROVE  /\ Len(rx) \in Nat /\ Len(rx') > Len(rx) /\ rx' \in Seq(RxByte)
         /\ \A i \in 1..Len(rx) : rx'[i] = rx[i]
         /\ \A i \in 1..Len(rx') : OpcodeAt(i)' => i \in 1..Len(rx) /\ OpcodeAt(i)
<1>1. CASE \E e \in Event : CtlEvent(e)
  <2>1. PICK e \in Event : rx' = Append(rx, [cmd |-> TRUE, val |-> e])
    BY <1>1 DEF CtlEvent
  <2>2. e \in Byte /\ \A s \in Service : e # Opcode[s]
    BY SysAssumption
  <2>3. [cmd |-> TRUE, val |-> e] \in RxByte
    BY <2>2 DEF RxByte
  <2>4. /\ Len(rx) \in Nat /\ Len(rx') = Len(rx) + 1 /\ rx' \in Seq(RxByte)
        /\ \A i \in 1..Len(rx) : rx'[i] = rx[i]
        /\ rx'[Len(rx) + 1] = [cmd |-> TRUE, val |-> e]
    BY <2>1, <2>3
  <2>5. ASSUME NEW i \in 1..Len(rx'), OpcodeAt(i)' PROVE i \in 1..Len(rx) /\ OpcodeAt(i)
    <3>1. i # Len(rx) + 1
      BY <2>2, <2>4, <2>5 DEF OpcodeAt
    <3>2. i \in 1..Len(rx)
      BY <2>4, <3>1
    <3> QED
      BY <2>4, <2>5, <3>2 DEF OpcodeAt
  <2> QED
    BY <2>4, <2>5
<1>2. CASE \E d \in RespByte : CtlPor(d)
  <2>1. PICK d \in RespByte : rx' = rx \o Message(POR, <<d>>)
    BY <1>2 DEF CtlPor
  <2>2. d \in Byte /\ POR \in Byte /\ \A s \in Service : POR # Opcode[s]
    BY SysAssumption, ByteAssumption, ServiceAssumption
  <2>0. PICK n \in Nat : n = 1
    OBVIOUS
  <2>3. PICK dt \in [1..n -> RespByte] : dt = <<d>> /\ dt[1] = d
    <3>1. <<d>> \in [1..1 -> RespByte] /\ <<d>>[1] = d
      OBVIOUS
    <3> QED
      BY <2>0, <3>1
  <2> DEFINE m == Message(POR, dt)
  <2>4. m \in Seq(RxByte) /\ Len(m) = 2 /\ m[1] = [cmd |-> TRUE, val |-> POR]
        /\ m[2] = [cmd |-> FALSE, val |-> d]
    <3>1. /\ m \in Seq(RxByte) /\ Len(m) = n + 1 /\ m[1] = [cmd |-> TRUE, val |-> POR]
          /\ \A i \in 1..n : m[1 + i] = [cmd |-> FALSE, val |-> dt[i]]
      BY <2>2, MessageShape
    <3>2. 1 \in 1..n /\ n + 1 = 2 /\ 1 + 1 = 2
      BY <2>0
    <3>3. m[2] = [cmd |-> FALSE, val |-> dt[1]]
      BY <3>1, <3>2
    <3> QED
      BY <2>3, <3>1, <3>2, <3>3
  <2> HIDE DEF m
  <2>5. /\ Len(rx') = Len(rx) + Len(m) /\ rx' \in Seq(RxByte)
        /\ \A i \in 1..Len(rx) : rx'[i] = rx[i]
        /\ \A i \in 1..Len(m) : rx'[Len(rx) + i] = m[i]
    <3>1. rx' = rx \o m
      BY <2>1, <2>3 DEF m
    <3>2. m \in Seq(RxByte)
      BY <2>4
    <3> QED
      BY <3>1, <3>2, ConcatShape
  <2>6. /\ Len(rx) \in Nat /\ Len(rx') = Len(rx) + 2 /\ rx' \in Seq(RxByte)
        /\ \A i \in 1..Len(rx) : rx'[i] = rx[i]
        /\ rx'[Len(rx) + 1] = [cmd |-> TRUE, val |-> POR]
        /\ rx'[Len(rx) + 2] = [cmd |-> FALSE, val |-> d]
    <3>1. Len(m) = 2
      BY <2>4
    <3>2. rx'[Len(rx) + 1] = m[1] /\ rx'[Len(rx) + 2] = m[2]
      BY <2>5, <3>1
    <3>3. Len(rx') = Len(rx) + 2 /\ Len(rx) \in Nat
      BY <2>5, <3>1
    <3> QED
      BY <2>4, <2>5, <3>2, <3>3, Zenon
  <2>7. ASSUME NEW i \in 1..Len(rx'), OpcodeAt(i)' PROVE i \in 1..Len(rx) /\ OpcodeAt(i)
    <3>1. i # Len(rx) + 1 /\ i # Len(rx) + 2
      BY <2>2, <2>6, <2>7 DEF OpcodeAt
    <3>2. i \in 1..Len(rx)
      BY <2>6, <3>1
    <3> QED
      BY <2>6, <2>7, <3>2 DEF OpcodeAt
  <2> QED
    BY <2>6, <2>7
<1> QED
  BY <1>1, <1>2

\* The steps of a command outside a service call leave both layers alone.
LEMMA SessionIdle ==
  ASSUME TypeInv, Unborn, CallInv, SessionInv,
         \/ \E s \in Service : Command(s)
         \/ Prepare \/ signal_request_start \/ Return
         \/ IapSetup \/ IapClaim \/ IapXfer \/ IapCleanup
  PROVE  SessionInv'
<1>1. UNCHANGED <<busy, handler, state, tx, ctl, rx, rbuf, req, inited>>
  BY DEF Command, Prepare, signal_request_start, Return, IapSetup, IapClaim, IapXfer,
     IapCleanup, drvVars, reqVars, ctlVars
<1>2. pc' \notin {"opcode", "params", "wait"}
  BY DEF Command, Prepare, signal_request_start, Return, Finish, IapSetup, IapClaim, IapXfer,
     IapCleanup, Main
<1>3. \/ ~sysBusy /\ sysBusy' = TRUE /\ pc' = "send" /\ inited
      \/ /\ sysBusy' = sysBusy /\ pc' # "send"
         /\ sysBusy => pc \notin {"send", "opcode", "params", "wait"}
  <2>1. CASE signal_request_start
    <3>1. pc = "call"
      BY <2>1 DEF signal_request_start, Main
    <3> QED
      BY <2>1, <3>1 DEF signal_request_start, Main, Unborn, InCall
  <2>2. CASE Return
    BY <2>2 DEF Return, Finish, Main
  <2>3. CASE \E s \in Service : Command(s)
    BY <2>3 DEF Command, Main
  <2>4. CASE Prepare
    BY <2>4 DEF Prepare, Finish
  <2>5. CASE IapSetup \/ IapClaim \/ IapXfer \/ IapCleanup
    BY <2>5 DEF IapSetup, IapClaim, IapXfer, IapCleanup, Main
  <2> QED
    BY <2>1, <2>2, <2>3, <2>4, <2>5
<1>4. QuietInv'
  BY <1>1, <1>2, <1>3 DEF SessionInv, QuietInv, Quiet, NoOpcode, OpcodeAt
<1>5. BusyInv'
  BY <1>1, <1>2, <1>3 DEF SessionInv, BusyInv
<1>6. ~Running'
  BY <1>2 DEF Running, Waiting
<1>7. IspInv'
  BY <1>1, <1>2, <1>3 DEF SessionInv, IspInv
<1> QED
  BY <1>4, <1>5, <1>6, <1>7 DEF SessionInv, FrameInv, Exchange

\* MSS_SYS_init finds nothing of a request and leaves nothing.
LEMMA SessionInit ==
  ASSUME TypeInv, SessionInv, InitIfNeeded
  PROVE  SessionInv'
<1>1. pc = "init" /\ pc' = "prepare" /\ inited' = TRUE /\ UNCHANGED <<tx, rx, ctl>>
  BY DEF InitIfNeeded, Main, MSS_SYS_init, MSS_COMBLK_init, drvVars, ctlVars
<1>2. CASE inited
  <2>1. UNCHANGED <<busy, handler, state, rbuf, req, sysBusy>>
    BY <1>2 DEF InitIfNeeded, drvVars, reqVars
  <2> QED
    BY <1>1, <2>1 DEF SessionInv, QuietInv, Quiet, NoOpcode, OpcodeAt, BusyInv, FrameInv, IspInv,
       Exchange, Running, Waiting
<1>3. CASE ~inited
  <2>1. sysBusy' = FALSE /\ busy' = FALSE /\ handler' = "none" /\ state' = "IDLE"
    BY <1>3 DEF InitIfNeeded, MSS_SYS_init, MSS_COMBLK_init
  <2>2. ~sysBusy
    BY <1>3 DEF SessionInv, BusyInv
  <2> QED
    BY <1>1, <2>1, <2>2 DEF SessionInv, QuietInv, Quiet, NoOpcode, OpcodeAt, BusyInv, FrameInv,
       IspInv, Exchange, Running, Waiting
<1> QED
  BY <1>2, <1>3

\* The send function aborts nothing, and starts with both FIFOs free of frames.
LEMMA SessionBegin ==
  ASSUME TypeInv, SessionInv, SendBegin
  PROVE  SessionInv'
<1>1. /\ pc = "send" /\ pc' = "opcode" /\ sysBusy = TRUE /\ busy = FALSE
      /\ tx = << >> /\ ctl.answered /\ NoOpcode /\ state \in {"IDLE", "RX_RESPONSE"}
  BY DEF SendBegin, Main, SessionInv, BusyInv, QuietInv, Quiet, TypeInv, TypeOK, SvcTypeOK
<1>2. /\ UNCHANGED <<sysBusy, state, rx, ctl, inited, cur>>
      /\ tx' = << >> /\ txPos' = 0
      /\ cmdLeft' = IF Kind[cur] = "ptr" THEN 0 ELSE ParamLen[cur] + 1
  BY <1>1 DEF SendBegin, BeginRequest, AbortCompletes
<1>3. cur \in Service /\ ParamLen[cur] \in Nat
  BY <1>1, ServiceAssumption DEF TypeInv, HasRequest
<1>4. QuietInv' /\ IspInv'
  BY <1>1, <1>2 DEF QuietInv, Quiet, IspInv
<1>5. BusyInv'
  BY <1>1, <1>2 DEF BusyInv, SessionInv
<1>6. FrameInv'
  BY <1>1, <1>2, <1>3 DEF FrameInv
<1>7. Len(tx') = 0
  BY <1>2
<1>8. Sent'
  BY <1>1, <1>2, <1>7 DEF Sent, NoOpcode, OpcodeAt, Taken
<1>9. Exchange'
  BY <1>2, <1>7, <1>8 DEF Exchange
<1> QED
  BY <1>4, <1>5, <1>6, <1>9 DEF SessionInv

\* A byte written to the FIFO is the next one of the frame; when the System
\* Controller has answered there is none left.
LEMMA SentPush ==
  ASSUME TypeInv, Exchange, Running, PushTx, UNCHANGED <<cur, rx, ctl>>,
         req = cur, Kind[cur] # "paged" => txPos < FrameLen(cur),
         pc' = "wait" => state' # "RX_RESPONSE"
  PROVE  Exchange'
<1>1. tx \in Seq(TxByte) /\ txPos \in Nat
  BY DEF TypeInv, TypeOK, ComBlkTypeOK
<1>2. /\ Len(tx') = Len(tx) + 1 /\ Len(tx) \in Nat /\ txPos' = txPos + 1
      /\ \A i \in 1..Len(tx) : tx'[i] = tx[i]
      /\ tx'[Len(tx) + 1] = [svc |-> cur, pos |-> txPos]
  BY <1>1 DEF PushTx
<1>3. CASE Kind[cur] = "paged"
  BY <1>1, <1>2, <1>3 DEF Exchange
<1>4. CASE Kind[cur] # "paged"
  <2>1. Sent
    BY <1>1, <1>4, PlainFrame DEF Exchange, Answered
  <2>2. Taken' = Taken /\ Taken \in Nat
    BY DEF Taken, TypeInv, TypeOK, SvcTypeOK
  <2>3. Taken' + Len(tx') = txPos'
    BY <1>1, <1>2, <2>1, <2>2 DEF Sent
  <2>4. ASSUME NEW i \in 1..Len(tx')
        PROVE  tx'[i] = [svc |-> cur, pos |-> Taken + i - 1]
    <3>1. CASE i \in 1..Len(tx)
      BY <1>2, <2>1, <3>1 DEF Sent
    <3>2. CASE i = Len(tx) + 1
      <4>1. Taken + i - 1 = txPos
        BY <1>1, <1>2, <2>1, <2>2, <3>2 DEF Sent
      <4> QED
        BY <1>2, <3>2, <4>1
    <3> QED
      BY <1>2, <3>1, <3>2
  <2>5. Sent'
    BY <2>1, <2>2, <2>3, <2>4 DEF Sent, NoOpcode, OpcodeAt
  <2> QED
    BY <1>4, <2>5 DEF Exchange
<1> QED
  BY <1>3, <1>4

\* send_cmd_opcode, the parameter loop and the end of the send function.
LEMMA SessionSend ==
  ASSUME TypeInv, CallInv, SessionInv, SendOpcode \/ SendParams
  PROVE  SessionInv'
<1>1. /\ pc \in {"opcode", "params"} /\ Running
      /\ UNCHANGED <<cur, sysBusy, inited, rx, ctl, answer, req, rbuf, handler, busy>>
  BY DEF SendOpcode, send_cmd_opcode, SendParams, SendPtr, SendParam, SendDone, Main, reqVars,
     ctlVars, Running
<1>2. /\ sysBusy = TRUE /\ state \in {"IDLE", "RX_RESPONSE"} /\ req = cur
      /\ rbuf = RespBuffer(cur) /\ handler = HandlerOf(cur)
  BY <1>1 DEF SessionInv, BusyInv, CallInv, Sending, TypeInv, TypeOK, SvcTypeOK
<1>3. cur \in Service /\ Kind[cur] \in {"ptr", "cmd", "paged"} /\ ParamLen[cur] \in Nat
      /\ (Kind[cur] = "ptr" => ParamLen[cur] = 1)
  BY <1>1, ServiceAssumption DEF TypeInv, HasRequest
<1>4. txPos \in Nat /\ cmdLeft \in Nat /\ tx \in Seq(TxByte) /\ Len(tx) \in Nat
      /\ TxDepth \in Nat
  BY FifoAssumption DEF TypeInv, TypeOK, ComBlkTypeOK
<1>5. FrameInv /\ Exchange
  BY DEF SessionInv
<1>6. Kind[cur] # "paged" => FrameLen(cur) = 1 + ParamLen[cur]
  BY <1>3, PlainFrame
<1>7. CASE SendOpcode
  <2>1. pc = "opcode" /\ pc' = "params" /\ PushTx /\ UNCHANGED state
        /\ cmdLeft' = IF cmdLeft = 0 THEN 0 ELSE cmdLeft - 1
    BY <1>7 DEF SendOpcode, send_cmd_opcode, Main
  <2>2. txPos = 0 /\ txPos' = 1
    BY <1>1, <1>5, <2>1 DEF FrameInv, PushTx
  <2>3. FrameInv'
    BY <1>1, <1>3, <1>4, <1>5, <2>1, <2>2 DEF FrameInv
  <2>4. Kind[cur] # "paged" => txPos < FrameLen(cur)
    BY <1>3, <1>6, <2>2
  <2>5. Exchange'
    BY <1>1, <1>2, <1>5, <2>1, <2>4, SentPush
  <2>6. QuietInv' /\ IspInv' /\ BusyInv'
    BY <1>1, <1>2, <2>1 DEF QuietInv, Quiet, IspInv, BusyInv, SessionInv
  <2> QED
    BY <2>3, <2>5, <2>6 DEF SessionInv
<1>8. CASE pc = "params" /\ pc' = "wait" /\ Kind[cur] = "ptr" /\ SendPtr
  <2>1. txPos = 1 /\ txPos' = 2 /\ cmdLeft' = 0 /\ state' = "WAIT_RESPONSE" /\ PushTx
    BY <1>1, <1>5, <1>8 DEF FrameInv, SendPtr, PushTx
  <2>2. FrameInv'
    BY <1>1, <1>8, <2>1 DEF FrameInv
  <2>3. Kind[cur] # "paged" => txPos < FrameLen(cur)
    BY <1>3, <1>6, <1>8, <2>1
  <2>4. Exchange'
    BY <1>1, <1>2, <1>5, <2>1, <2>3, SentPush
  <2>5. QuietInv' /\ IspInv' /\ BusyInv'
    BY <1>1, <1>2, <1>8 DEF QuietInv, Quiet, IspInv, BusyInv, SessionInv
  <2> QED
    BY <2>2, <2>4, <2>5 DEF SessionInv
<1>9. CASE pc = "params" /\ pc' = "params" /\ Kind[cur] # "ptr" /\ SendParam
  <2>1. cmdLeft > 0 /\ cmdLeft' = cmdLeft - 1 /\ txPos' = txPos + 1 /\ UNCHANGED state
        /\ PushTx
    BY <1>9 DEF SendParam, PushTx
  <2>2. txPos + cmdLeft = 1 + ParamLen[cur]
    BY <1>1, <1>5, <1>9 DEF FrameInv
  <2>3. FrameInv'
    BY <1>1, <1>3, <1>4, <1>9, <2>1, <2>2 DEF FrameInv
  <2>4. Kind[cur] # "paged" => txPos < FrameLen(cur)
    BY <1>3, <1>4, <1>6, <2>1, <2>2
  <2>5. Exchange'
    BY <1>1, <1>2, <1>5, <1>9, <2>1, <2>4, SentPush
  <2>6. QuietInv' /\ IspInv' /\ BusyInv'
    BY <1>1, <1>2, <1>9, <2>1 DEF QuietInv, Quiet, IspInv, BusyInv, SessionInv
  <2> QED
    BY <2>3, <2>5, <2>6 DEF SessionInv
<1>10. CASE pc = "params" /\ pc' = AfterSend /\ Kind[cur] # "ptr" /\ SendDone
  <2>1. /\ UNCHANGED <<cmdLeft, txPos, tx>> /\ (cmdLeft = 0 \/ ~TxOkay)
        /\ state' = IF cmdLeft > 0 THEN "TX_CMD"
                    ELSE IF Kind[req] = "paged" THEN "TX_PAGED_DATA" ELSE "WAIT_RESPONSE"
    BY <1>10 DEF SendDone, txVars
  <2>2. txPos + cmdLeft = 1 + ParamLen[cur]
    BY <1>1, <1>5, <1>10 DEF FrameInv
  <2>3. CASE Kind[cur] = "paged"
    <3>1. pc' = "prompt" /\ ~Running'
      BY <1>10, <2>3 DEF AfterSend, Running, Waiting
    <3>2. Len(tx) <= txPos
      BY <1>1, <1>5, <2>3 DEF Exchange
    <3>3. state' = "TX_CMD" => 1 + ParamLen[req] > TxDepth
      BY <1>2, <1>3, <1>4, <2>1, <2>2, <2>3, <3>2 DEF TxOkay
    <3>4. IspInv'
      BY <1>1, <1>2, <1>3, <2>3, <3>1, <3>3 DEF IspInv, RespBuffer, HandlerOf
    <3>5. QuietInv' /\ BusyInv'
      BY <1>1, <1>2, <3>1 DEF QuietInv, Quiet, BusyInv, SessionInv
    <3> QED
      BY <3>1, <3>4, <3>5 DEF SessionInv, FrameInv, Exchange
  <2>4. CASE Kind[cur] # "paged"
    <3>1. pc' = "wait" /\ state' # "RX_RESPONSE"
      BY <1>2, <1>10, <2>1, <2>4 DEF AfterSend
    <3>2. FrameInv'
      BY <1>1, <1>10, <2>1, <2>2, <3>1 DEF FrameInv
    <3>3. Sent \/ Answered
      BY <1>1, <1>5, <2>4 DEF Exchange
    <3>4. CASE Sent
      <4>1. Sent'
        BY <1>1, <2>1, <3>1, <3>4 DEF Sent, NoOpcode, OpcodeAt, Taken
      <4> QED
        BY <1>1, <1>2, <2>4, <3>1, <3>2, <4>1 DEF SessionInv, QuietInv, Quiet, IspInv, BusyInv,
           Exchange
    <3>5. CASE Answered
      <4>1. AnswerComing
        BY <1>10, <3>5 DEF Answered
      <4>2. Answered'
        BY <1>1, <2>1, <3>1, <3>5, <4>1 DEF Answered, AnswerComing, OpcodeAt
      <4> QED
        BY <1>1, <1>2, <2>4, <3>1, <3>2, <4>2 DEF SessionInv, QuietInv, Quiet, IspInv, BusyInv,
           Exchange
    <3> QED
      BY <3>3, <3>4, <3>5
  <2> QED
    BY <2>3, <2>4
<1> QED
  BY <1>7, <1>8, <1>9, <1>10 DEF SendParams, Main, AfterSend

\* A received byte between two requests, or during an ISP request, completes
\* nothing of the service layer.
LEMMA SessionRxIdle ==
  ASSUME TypeInv, CallInv, SessionInv, HandleRx, ~Waiting
  PROVE  SessionInv'
<1>1. /\ RxPart /\ irq # NoIrq
      /\ UNCHANGED <<pc, cur, inited, ctl, tx, txPos, cmdLeft, req, rbuf>>
  BY DEF HandleRx, IrqRxEvent, IrqRxDrop, IrqRxPorStart, IrqRxOpcode, IrqRxPorData,
     IrqRxData, IrqRxPaged, RxPart, NoIrq, reqVars, txVars, ctlVars
<1>2. pc \notin {"opcode", "params"} /\ ~Running
  BY <1>1 DEF CallInv, Sending, Running
<1>3. rx \in Seq(RxByte) /\ rx # << >> /\ rx' = Tail(rx)
  BY <1>1 DEF RxPart, TypeInv, TypeOK, ComBlkTypeOK
<1>4. NoOpcode => NoOpcode'
  BY <1>3, TailShifts
<1>5. /\ handler # "service" => UNCHANGED sysBusy /\ handler' # "service"
      /\ handler = "none" /\ busy = FALSE => handler' = "none" /\ busy' = FALSE
      /\ state' = "TX_CMD" => state = "TX_CMD"
      /\ state \in {"IDLE", "RX_RESPONSE"} => state' \in {"IDLE", "RX_RESPONSE"}
  <2>1. \/ UNCHANGED <<state, handler, busy, sysBusy>>
        \/ state' \in {"IDLE", "RX_RESPONSE"} /\ UNCHANGED <<handler, busy, sysBusy>>
        \/ IrqRxData /\ (IF RespComplete THEN CallHandler(handler, RespIdx)
                                        ELSE UNCHANGED <<sysBusy, lastLen>>)
        \/ IrqRxPaged /\ CallHandler(handler, 2)
    BY DEF HandleRx, IrqRxEvent, IrqRxDrop, IrqRxPorStart, IrqRxOpcode, IrqRxPorData,
       reqVars
  <2> QED
    BY <2>1 DEF IrqRxData, IrqRxPaged, Completed, CallHandler
<1>6. CASE Quiet
  <2>1. /\ busy = FALSE /\ handler = "none" /\ state \in {"IDLE", "RX_RESPONSE"}
        /\ tx = << >> /\ ctl.answered /\ NoOpcode
    BY <1>6 DEF SessionInv, QuietInv
  <2>2. UNCHANGED sysBusy /\ handler' = "none" /\ busy' = FALSE
        /\ state' \in {"IDLE", "RX_RESPONSE"}
    BY <1>5, <2>1
  <2> QED
    BY <1>1, <1>2, <1>4, <1>6, <2>1, <2>2 DEF SessionInv, QuietInv, Quiet, BusyInv, IspInv, FrameInv,
       Exchange, Running, Waiting
<1>7. CASE ~Quiet
  <2>1. sysBusy /\ pc \notin {"send", "opcode", "params", "wait"}
    BY <1>2, <1>7 DEF Quiet, Waiting
  <2>2. /\ handler # "service" /\ rbuf = "isp" /\ req \in Service /\ Kind[req] = "paged"
        /\ state = "TX_CMD" => 1 + ParamLen[req] > TxDepth
    BY <2>1 DEF SessionInv, IspInv
  <2> QED
    BY <1>1, <1>5, <2>1, <2>2 DEF SessionInv, QuietInv, Quiet, BusyInv, IspInv, FrameInv, Exchange,
       Running, Waiting
<1> QED
  BY <1>6, <1>7

\* A received byte while the thread waits: the answer stays whole until its
\* opcode is read, and the request completes with it and with nothing else.
LEMMA SessionRxWaiting ==
  ASSUME TypeInv, CallInv, SessionInv, HandleRx, Waiting
  PROVE  /\ SessionInv'
         /\ ~sysBusy' => /\ state' = "IDLE" /\ lastLen' = RespLen[cur]
                         /\ buf'["stack"][0] = Opcode[cur] /\ buf'["stack"][1] = answer
<1>1. /\ RxPart /\ pc = "wait" /\ sysBusy = TRUE
      /\ UNCHANGED <<pc, cur, inited, ctl, answer, tx, txPos, cmdLeft, req, rbuf>>
  BY DEF HandleRx, IrqRxEvent, IrqRxDrop, IrqRxPorStart, IrqRxOpcode, IrqRxPorData,
     IrqRxData, IrqRxPaged, reqVars, txVars, ctlVars, Waiting, TypeInv, TypeOK, SvcTypeOK
<1>2. /\ handler = "service" /\ busy = TRUE /\ req = cur /\ rbuf = "stack"
      /\ state \in {"TX_CMD", "WAIT_RESPONSE", "RX_RESPONSE"}
      /\ Kind[cur] # "paged" /\ cur \in Service
  BY <1>1 DEF CallInv, NoLostRequest, WaitQuiet, TypeInv, TypeOK, ComBlkTypeOK, HasRequest
<1>3. rx \in Seq(RxByte) /\ rx # << >> /\ rx' = Tail(rx)
  BY <1>1 DEF RxPart, TypeInv, TypeOK, ComBlkTypeOK
<1>4. /\ Len(rx) >= 1 /\ Len(rx) \in Nat /\ Len(rx') = Len(rx) - 1
      /\ \A i \in 1..Len(rx') : i + 1 \in 1..Len(rx) /\ rx'[i] = rx[i + 1]
      /\ Head(rx) = rx[1] /\ (NoOpcode => NoOpcode')
  BY <1>3, TailShifts
<1>5. Running /\ FrameInv /\ (Sent \/ Answered)
  BY <1>2 DEF SessionInv, Exchange, Running
<1>6. /\ ~inited => ~sysBusy
      /\ FrameInv'
  BY <1>1, <1>5 DEF FrameInv, Running, SessionInv, BusyInv
<1>7. RespSize = RespLen[cur] /\ RespLen[cur] \in Nat /\ RespLen[cur] >= 2
  BY <1>2, ServiceAssumption DEF RespSize, NoReq
<1>8. buf \in [Buffer -> [BufIdx -> Byte \cup {Uninit}]] /\ ridx \in Nat
  BY DEF TypeInv, TypeOK, ComBlkTypeOK
<1>9. ASSUME sysBusy' = TRUE, Exchange' PROVE SessionInv'
  BY <1>1, <1>6, <1>9 DEF SessionInv, QuietInv, Quiet, BusyInv, IspInv
<1>10. CASE UNCHANGED <<state, ridx, buf, sysBusy>> /\ (state = "RX_RESPONSE" => RxCmd)
  <2>1. CASE Sent
    <3>1. Sent'
      BY <1>1, <1>4, <1>10, <2>1 DEF Sent, Taken
    <3> QED
      BY <1>1, <1>2, <1>9, <1>10, <3>1 DEF Exchange
  <2>2. CASE Answered /\ state = "RX_RESPONSE"
    <3>1. AnswerRead /\ RxCmd
      BY <1>1, <1>10, <2>2 DEF Answered
    <3>2. ridx # 1
      BY <1>4, <3>1 DEF AnswerRead, RxCmd
    <3>3. Answered'
      BY <1>1, <1>4, <1>10, <2>2, <3>1, <3>2 DEF Answered, AnswerRead
    <3> QED
      BY <1>1, <1>2, <1>9, <1>10, <3>3 DEF Exchange
  <2>3. CASE Answered /\ state # "RX_RESPONSE"
    <3>1. AnswerComing
      BY <1>1, <2>3 DEF Answered
    <3>2. \A i \in 1..Len(rx') : OpcodeAt(i)' = OpcodeAt(i + 1)
      BY <1>4 DEF OpcodeAt
    <3>3. AnswerComing'
      <4>1. ASSUME NEW i \in 1..Len(rx'), OpcodeAt(i)'
            PROVE  i < Len(rx') /\ ~rx'[i + 1].cmd /\ rx'[i + 1].val = answer'
        <5>1. i + 1 \in 1..Len(rx) /\ OpcodeAt(i + 1)
          BY <1>4, <3>2, <4>1
        <5>2. i + 1 < Len(rx) /\ ~rx[(i + 1) + 1].cmd /\ rx[(i + 1) + 1].val = answer
          BY <3>1, <5>1 DEF AnswerComing
        <5>3. i + 1 \in 1..Len(rx')
          BY <1>4, <5>1, <5>2
        <5> QED
          BY <1>1, <1>4, <5>2, <5>3
      <4>2. ASSUME NEW i \in 1..Len(rx'), NEW j \in 1..Len(rx'), OpcodeAt(i)', OpcodeAt(j)'
            PROVE  i = j
        <5>1. /\ i + 1 \in 1..Len(rx) /\ OpcodeAt(i + 1)
              /\ j + 1 \in 1..Len(rx) /\ OpcodeAt(j + 1)
          BY <1>4, <3>2, <4>2
        <5>2. i + 1 = j + 1
          BY <3>1, <5>1 DEF AnswerComing
        <5> QED
          BY <1>4, <5>2
      <4> QED
        BY <4>1, <4>2 DEF AnswerComing
    <3>4. Answered'
      BY <1>1, <1>10, <2>3, <3>3 DEF Answered
    <3> QED
      BY <1>1, <1>2, <1>9, <1>10, <3>4 DEF Exchange
  <2> QED
    BY <1>5, <2>1, <2>2, <2>3
<1>11. CASE IrqRxOpcode /\ UNCHANGED sysBusy
  <2>1. /\ ridx' = 1 /\ state' = "RX_RESPONSE" /\ state = "WAIT_RESPONSE"
        /\ buf' = [buf EXCEPT !["stack"][0] = Opcode[cur]]
        /\ rx[1].cmd /\ rx[1].val = Opcode[cur]
    BY <1>2, <1>4, <1>11 DEF IrqRxOpcode, Store, RxCmd, RxVal
  <2>2. buf'["stack"][0] = Opcode[cur]
    BY <1>8, <2>1 DEF Buffer, BufIdx
  <2>3. OpcodeAt(1) /\ 1 \in 1..Len(rx)
    BY <1>2, <1>4, <2>1 DEF OpcodeAt
  <2>4. Answered /\ AnswerComing
    BY <1>5, <2>1, <2>3 DEF Sent, NoOpcode, Answered
  <2>5. 1 < Len(rx) /\ ~rx[2].cmd /\ rx[2].val = answer
    BY <2>3, <2>4 DEF AnswerComing
  <2>6. rx' # << >> /\ rx'[1] = rx[2]
    <3>1. Len(rx') >= 1
      BY <1>4, <2>5
    <3>2. Len(<< >>) = 0
      OBVIOUS
    <3> QED
      BY <1>4, <3>1, <3>2
  <2>7. NoOpcode'
    <3> SUFFICES ASSUME NEW i \in 1..Len(rx'), OpcodeAt(i)' PROVE FALSE
      BY DEF NoOpcode
    <3>1. i + 1 \in 1..Len(rx) /\ OpcodeAt(i + 1)
      BY <1>4 DEF OpcodeAt
    <3>2. i + 1 = 1
      BY <2>3, <2>4, <3>1 DEF AnswerComing
    <3> QED
      BY <1>4, <3>2
  <2>8. AnswerRead'
    BY <1>1, <2>1, <2>2, <2>5, <2>6, <2>7 DEF AnswerRead
  <2>9. Answered'
    BY <1>1, <2>1, <2>4, <2>8 DEF Answered
  <2> QED
    BY <1>1, <1>2, <1>9, <1>11, <2>9 DEF Exchange
<1>12. CASE IrqRxData /\ (IF RespComplete THEN CallHandler(handler, RespIdx)
                                         ELSE UNCHANGED <<sysBusy, lastLen>>)
  <2>1. state = "RX_RESPONSE" /\ ridx' = RespIdx /\ ~RxCmd
    BY <1>12 DEF IrqRxData, RespData
  <2>2. ridx \in 1..(RespLen[cur] - 1) /\ ridx \in BufIdx /\ 0 \in BufIdx /\ 1 \in BufIdx
    BY <1>2, <1>7, <2>1, BufIdxFacts DEF CallInv, Receiving
  <2>3. ridx' = ridx + 1 /\ RespIdx = ridx + 1
    BY <1>7, <2>1, <2>2 DEF RespIdx
  <2>4. buf' = [buf EXCEPT !["stack"][ridx] = rx[1].val]
    BY <1>2, <1>4, <1>7, <1>12, <2>2 DEF IrqRxData, Store, RxVal
  <2>5. Answered /\ AnswerRead
    BY <1>1, <1>5, <2>1 DEF Sent, Answered
  <2>6. buf'["stack"][0] = Opcode[cur]
    BY <1>8, <2>2, <2>4, <2>5 DEF AnswerRead, Buffer
  <2>7. buf'["stack"][1] = answer
    <3>1. CASE ridx = 1
      BY <1>8, <2>2, <2>4, <2>5, <3>1 DEF AnswerRead, Buffer
    <3>2. CASE ridx # 1
      BY <1>8, <2>2, <2>4, <2>5, <3>2 DEF AnswerRead, Buffer
    <3> QED
      BY <3>1, <3>2
  <2>8. NoOpcode'
    BY <1>4, <2>5 DEF AnswerRead
  <2>9. CASE ~RespComplete
    <3>1. UNCHANGED <<state, sysBusy>>
      BY <1>12, <2>9 DEF IrqRxData
    <3>2. AnswerRead'
      BY <1>1, <1>8, <2>2, <2>3, <2>6, <2>7, <2>8 DEF AnswerRead
    <3>3. Answered'
      BY <1>1, <2>1, <2>5, <3>1, <3>2 DEF Answered
    <3> QED
      BY <1>1, <1>2, <1>9, <3>1, <3>3 DEF Exchange
  <2>10. CASE RespComplete
    <3>1. /\ state' = "IDLE" /\ handler' = "none" /\ busy' = FALSE /\ sysBusy' = FALSE
          /\ lastLen' = RespLen[cur]
      BY <1>2, <1>7, <1>12, <2>10 DEF IrqRxData, Completed, CallHandler, RespComplete
    <3>2. tx = << >> /\ ctl.answered
      BY <2>5 DEF Answered
    <3> QED
      BY <1>1, <1>6, <2>6, <2>7, <2>8, <3>1, <3>2 DEF SessionInv, QuietInv, BusyInv, IspInv,
         Exchange, Running, Waiting
  <2> QED
    BY <2>9, <2>10
<1>13. ~IrqRxPorStart /\ ~IrqRxPorData /\ ~IrqRxPaged
  BY <1>2 DEF IrqRxPorStart, IrqRxPorData, PorData, IrqRxPaged, CallInv, Receiving
<1>14. \/ UNCHANGED <<state, ridx, buf, sysBusy>> /\ (state = "RX_RESPONSE" => RxCmd)
       \/ IrqRxOpcode /\ UNCHANGED sysBusy
       \/ IrqRxData /\ (IF RespComplete THEN CallHandler(handler, RespIdx)
                                       ELSE UNCHANGED <<sysBusy, lastLen>>)
  BY <1>13 DEF HandleRx, IrqRxEvent, EventByte, IrqRxDrop
<1> QED
  BY <1>1, <1>10, <1>11, <1>12, <1>14

\* The transmit interrupt is taken for ISP requests only.
LEMMA SessionTx ==
  ASSUME TypeInv, CallInv, SessionInv, HandleTx
  PROVE  SessionInv'
<1>1. TxPart /\ UNCHANGED <<pc, cur, inited, ctl, rx, req, rbuf>>
  BY DEF HandleTx, IrqTxCmd, IrqTxPage, IrqTxPaged, IrqTxStray, TxStray, reqVars, ctlVars
<1>2. pc \notin {"opcode", "params", "wait"}
  BY <1>1 DEF TxPart, CallInv, Sending, WaitQuiet, NoIrq
<1>3. \/ /\ UNCHANGED <<sysBusy, handler, busy>>
         /\ state \in {"TX_CMD", "TX_PAGED_DATA"} /\ (state' = "TX_CMD" => state = "TX_CMD")
      \/ /\ state' = "IDLE" /\ Completed /\ CallHandler(handler, 0)
         /\ UNCHANGED tx
  BY DEF HandleTx, IrqTxCmd, IrqTxPage, IrqTxPaged, IrqTxStray, reqVars
<1>4. CASE Quiet
  <2>1. /\ busy = FALSE /\ handler = "none" /\ state \in {"IDLE", "RX_RESPONSE"}
        /\ tx = << >> /\ ctl.answered /\ NoOpcode
    BY <1>4 DEF SessionInv, QuietInv
  <2>2. /\ UNCHANGED <<sysBusy, tx>> /\ handler' = "none" /\ busy' = FALSE /\ state' = "IDLE"
    BY <1>3, <2>1 DEF Completed, CallHandler
  <2> QED
    BY <1>1, <1>2, <1>4, <2>1, <2>2 DEF SessionInv, QuietInv, Quiet, BusyInv, IspInv, FrameInv,
       Exchange, Running, Waiting, NoOpcode, OpcodeAt
<1>5. CASE ~Quiet
  <2>1. sysBusy /\ pc \notin {"send", "opcode", "params", "wait"}
    BY <1>2, <1>5 DEF Quiet
  <2>2. /\ handler # "service" /\ rbuf = "isp" /\ req \in Service /\ Kind[req] = "paged"
        /\ state = "TX_CMD" => 1 + ParamLen[req] > TxDepth
    BY <2>1 DEF SessionInv, IspInv
  <2>3. UNCHANGED sysBusy /\ handler' # "service" /\ (state' = "TX_CMD" => state = "TX_CMD")
    BY <1>3, <2>2 DEF Completed, CallHandler
  <2> QED
    BY <1>1, <2>1, <2>2, <2>3 DEF SessionInv, QuietInv, Quiet, BusyInv, IspInv, FrameInv, Exchange,
       Running, Waiting
<1> QED
  BY <1>4, <1>5

\* What the System Controller does leaves the driver and the service layer alone.
LEMMA ControllerLeaves ==
  ASSUME \/ CtlTake \/ CtlAnswer \/ (\E e \in Event : CtlEvent(e))
         \/ (\E d \in RespByte : CtlPor(d))
  PROVE  UNCHANGED <<pc, cur, sysBusy, inited, busy, handler, state, req, rbuf, txPos, cmdLeft,
                     ridx, buf, irq>>
BY DEF CtlTake, CtlAnswer, CtlEvent, CtlPor, svcVars, reqVars, txVars

\* It takes the bytes of the running request.
LEMMA SessionTake ==
  ASSUME TypeInv, CallInv, SessionInv, CtlTake
  PROVE  SessionInv'
<1>0. UNCHANGED <<pc, cur, sysBusy, inited, busy, handler, state, req, rbuf, txPos, cmdLeft,
                  ridx, buf, irq>>
  BY ControllerLeaves
<1>1. /\ tx \in Seq(TxByte) /\ txPos \in Nat /\ tx # << >> /\ tx' = Tail(tx) /\ UNCHANGED rx
      /\ ctl' = [svc |-> Head(tx).svc, got |-> Head(tx).pos + 1, answered |-> FALSE]
  BY DEF TypeInv, TypeOK, ComBlkTypeOK, CtlTake
<1>2. /\ Len(tx) \in Nat /\ Len(tx) >= 1 /\ Len(tx') = Len(tx) - 1
      /\ \A i \in 1..Len(tx') : i + 1 \in 1..Len(tx) /\ tx'[i] = tx[i + 1]
      /\ Head(tx) = tx[1]
  BY <1>1
<1>3. ~Quiet
  BY <1>1 DEF SessionInv, QuietInv
<1>4. QuietInv' /\ BusyInv' /\ FrameInv' /\ IspInv'
  BY <1>0, <1>3 DEF SessionInv, QuietInv, Quiet, BusyInv, FrameInv, IspInv, Running, Waiting
<1>5. ASSUME Running PROVE Exchange'
  <2>1. CASE Kind[cur] = "paged"
    <3>1. Len(tx) <= txPos
      BY <1>5, <2>1 DEF SessionInv, Exchange
    <3> QED
      BY <1>0, <1>1, <1>2, <2>1, <3>1 DEF Exchange
  <2>2. CASE Kind[cur] # "paged"
    <3>1. Sent
      BY <1>1, <1>5, <2>2 DEF SessionInv, Exchange, Answered
    <3>2. Taken \in Nat
      BY DEF Taken, TypeInv, TypeOK, SvcTypeOK
    <3>3. tx[1] = [svc |-> cur, pos |-> Taken + 1 - 1]
      BY <1>2, <3>1 DEF Sent
    <3>4. ctl'.svc = cur /\ ctl'.got = Taken + 1 /\ ctl'.answered = FALSE
      BY <1>1, <1>2, <3>2, <3>3
    <3>5. Taken' = Taken + 1
      BY <3>4 DEF Taken
    <3>6. Taken' + Len(tx') = txPos'
      <4>1. Taken + Len(tx) = txPos /\ txPos' = txPos
        BY <1>0, <3>1 DEF Sent
      <4>2. Len(tx) \in Nat /\ Len(tx') = Len(tx) - 1
        BY <1>2
      <4> QED
        BY <3>2, <3>5, <4>1, <4>2
    <3>7. ASSUME NEW i \in 1..Len(tx')
          PROVE  tx'[i] = [svc |-> cur', pos |-> Taken' + i - 1]
      <4>1. tx'[i] = tx[i + 1] /\ i + 1 \in 1..Len(tx)
        BY <1>2
      <4>2. tx[i + 1] = [svc |-> cur, pos |-> Taken + (i + 1) - 1]
        BY <3>1, <4>1 DEF Sent
      <4>3. Taken + (i + 1) - 1 = Taken' + i - 1
        BY <1>2, <3>2, <3>5
      <4> QED
        BY <1>0, <4>1, <4>2, <4>3
    <3>8. Sent'
      BY <1>0, <1>1, <3>1, <3>2, <3>4, <3>6, <3>7 DEF Sent, NoOpcode, OpcodeAt
    <3> QED
      BY <1>0, <2>2, <3>8 DEF Exchange
  <2> QED
    BY <2>1, <2>2
<1>6. ASSUME ~Running PROVE Exchange'
  <2>1. ~Running'
    BY <1>0, <1>6 DEF Running, Waiting
  <2> QED
    BY <2>1 DEF Exchange
<1> QED
  BY <1>4, <1>5, <1>6 DEF SessionInv

\* It answers the request it has taken to the last byte, and that only.
LEMMA SessionAnswer ==
  ASSUME TypeInv, CallInv, SessionInv, CtlAnswer
  PROVE  SessionInv'
<1>0. UNCHANGED <<pc, cur, sysBusy, inited, busy, handler, state, req, rbuf, txPos, cmdLeft,
                  ridx, buf, irq>>
  BY ControllerLeaves
<1>1. /\ ~ctl.answered /\ UNCHANGED tx /\ tx \in Seq(TxByte) /\ txPos \in Nat
      /\ cmdLeft \in Nat /\ rx \in Seq(RxByte)
      /\ ctl \in [svc : Service \cup {NoReq}, got : Nat, answered : BOOLEAN]
      /\ ctl' = [ctl EXCEPT !.answered = TRUE]
  BY DEF TypeInv, TypeOK, ComBlkTypeOK, SvcTypeOK, CtlAnswer
<1>2. ctl'.answered = TRUE
  BY <1>1
<1>3. ~Quiet
  BY <1>1 DEF SessionInv, QuietInv
<1>4. QuietInv' /\ BusyInv' /\ FrameInv' /\ IspInv'
  BY <1>0, <1>3 DEF SessionInv, QuietInv, Quiet, BusyInv, FrameInv, IspInv, Running, Waiting
<1>5. CASE ~Running
  BY <1>0, <1>4, <1>5 DEF SessionInv, Exchange, Running, Waiting
<1>6. CASE Running /\ Kind[cur] = "paged"
  BY <1>0, <1>1, <1>4, <1>6 DEF SessionInv, Exchange, Running, Waiting
<1>7. CASE Running /\ Kind[cur] # "paged"
  <2>1. Sent /\ FrameInv
    BY <1>1, <1>7 DEF SessionInv, Exchange, Answered
  <2>2. ctl.svc = cur /\ Taken = ctl.got /\ cur \in Service
    BY <1>1, <1>7, <2>1 DEF Sent, Taken, TypeInv, HasRequest, Running, Waiting
  <2>3. FrameLen(cur) = 1 + ParamLen[cur] /\ ParamLen[cur] \in Nat
        /\ (Kind[cur] = "ptr" => FrameLen(cur) = 2)
    BY <1>7, <2>2, PlainFrame
  <2>4. ctl.got = FrameLen(cur)
    BY <1>7, <2>2 DEF CtlAnswer
  <2>5. txPos <= FrameLen(cur)
    BY <1>1, <1>7, <2>1, <2>3 DEF FrameInv, Running, Waiting
  <2>6. tx = << >> /\ txPos = FrameLen(cur)
    <3>1. Len(tx) \in Nat /\ FrameLen(cur) + Len(tx) = txPos
      BY <1>1, <2>1, <2>2, <2>4 DEF Sent
    <3>2. Len(tx) = 0
      BY <1>1, <2>3, <2>5, <3>1
    <3> QED
      BY <1>1, <2>3, <2>5, <3>1, <3>2
  <2>7. PICK data \in [1..(RespLen[cur] - 1) -> RespByte] :
          rx' = rx \o Message(Opcode[cur], data) /\ answer' = data[1]
    BY <2>2 DEF CtlAnswer
  <2>8. PICK n \in Nat : n = RespLen[cur] - 1 /\ n >= 1
    BY <2>2, ServiceAssumption
  <2> DEFINE m == Message(Opcode[cur], data)
  <2>9. /\ m \in Seq(RxByte) /\ Len(m) = n + 1
        /\ m[1] = [cmd |-> TRUE, val |-> Opcode[cur]]
        /\ \A i \in 1..n : m[1 + i] = [cmd |-> FALSE, val |-> data[i]]
    <3>1. data \in [1..n -> RespByte] /\ Opcode[cur] \in Byte
      BY <2>2, <2>8, ServiceAssumption
    <3> QED
      BY <3>1, MessageShape
  <2>10. rx' = rx \o m /\ m \in Seq(RxByte)
    BY <2>7, <2>9
  <2> HIDE DEF m
  <2>11. /\ Len(rx') = Len(rx) + Len(m) /\ rx' \in Seq(RxByte)
         /\ \A i \in 1..Len(rx) : rx'[i] = rx[i]
         /\ \A i \in 1..Len(m) : rx'[Len(rx) + i] = m[i]
    BY <1>1, <2>10, ConcatShape
  <2>12. Len(rx) \in Nat /\ Len(m) = n + 1
    BY <1>1, <2>9
  <2>13. \A i \in 1..Len(rx') : OpcodeAt(i)' => i = Len(rx) + 1
    <3> SUFFICES ASSUME NEW i \in 1..Len(rx'), i # Len(rx) + 1 PROVE ~OpcodeAt(i)'
      OBVIOUS
    <3>1. CASE i \in 1..Len(rx)
      BY <2>1, <2>11, <3>1 DEF Sent, NoOpcode, OpcodeAt
    <3>2. CASE i > Len(rx)
      <4>1. PICK k \in 1..n : i = Len(rx) + (1 + k)
        <5>1. i - Len(rx) - 1 \in 1..n /\ i = Len(rx) + (1 + (i - Len(rx) - 1))
          BY <2>8, <2>11, <2>12, <3>2
        <5> QED
          BY <5>1
      <4>2. 1 + k \in 1..Len(m)
        BY <2>12
      <4>3. rx'[i] = m[1 + k]
        BY <2>11, <4>1, <4>2
      <4>4. m[1 + k] = [cmd |-> FALSE, val |-> data[k]]
        BY <2>9
      <4> QED
        BY <4>3, <4>4 DEF OpcodeAt
    <3> QED
      BY <2>12, <3>1, <3>2
  <2>14. Len(rx) + 1 < Len(rx') /\ rx'[Len(rx) + 2] = [cmd |-> FALSE, val |-> answer']
    <3>1. Len(rx) + 1 < Len(rx') /\ 2 \in 1..Len(m) /\ 1 \in 1..n /\ 1 + 1 = 2
      BY <2>8, <2>11, <2>12
    <3>2. rx'[Len(rx) + 2] = m[2]
      BY <2>11, <3>1
    <3>3. m[2] = [cmd |-> FALSE, val |-> data[1]]
      BY <2>9, <3>1
    <3> QED
      BY <2>7, <3>1, <3>2, <3>3
  <2>15. AnswerComing'
    <3>1. (Len(rx) + 1) + 1 = Len(rx) + 2
      BY <2>12
    <3> QED
      BY <2>13, <2>14, <3>1 DEF AnswerComing
  <2>16. Answered'
    <3>1. ~(pc' = "wait" /\ state' = "RX_RESPONSE")
      BY <1>0, <2>1 DEF Sent
    <3> QED
      BY <1>0, <1>1, <1>2, <2>6, <2>15, <3>1 DEF Answered
  <2> QED
    BY <1>0, <1>4, <1>7, <2>16 DEF SessionInv, Exchange
<1> QED
  BY <1>5, <1>6, <1>7

\* Asynchronous messages go behind the answer.
LEMMA SessionEvent ==
  ASSUME TypeInv, SessionInv, \/ \E e \in Event : CtlEvent(e)
                              \/ \E d \in RespByte : CtlPor(d)
  PROVE  SessionInv'
<1>0. UNCHANGED <<pc, cur, sysBusy, inited, busy, handler, state, req, rbuf, txPos, cmdLeft,
                  ridx, buf, irq>>
  BY ControllerLeaves
<1>1. UNCHANGED <<tx, ctl, answer>> /\ rx \in Seq(RxByte)
  BY DEF CtlEvent, CtlPor, TypeInv, TypeOK, ComBlkTypeOK
<1>2. /\ Len(rx) \in Nat /\ Len(rx') > Len(rx) /\ rx' \in Seq(RxByte)
      /\ \A i \in 1..Len(rx) : rx'[i] = rx[i]
      /\ \A i \in 1..Len(rx') : OpcodeAt(i)' => i \in 1..Len(rx) /\ OpcodeAt(i)
  BY <1>1, EventAppends
<1>3. NoOpcode => NoOpcode'
  BY <1>2 DEF NoOpcode
<1>4. QuietInv' /\ BusyInv' /\ FrameInv' /\ IspInv'
  BY <1>0, <1>1, <1>3 DEF SessionInv, QuietInv, Quiet, BusyInv, FrameInv, IspInv, Running, Waiting
<1>5. CASE ~Running
  <2>1. ~Running'
    BY <1>0, <1>5 DEF Running, Waiting
  <2> QED
    BY <1>4, <2>1 DEF SessionInv, Exchange
<1>6. CASE Running /\ Kind[cur] = "paged"
  BY <1>0, <1>1, <1>4, <1>6 DEF SessionInv, Exchange
<1>7. ASSUME Running, Kind[cur] # "paged", Sent PROVE SessionInv'
  <2>1. Sent'
    BY <1>0, <1>1, <1>3, <1>7 DEF Sent, Taken
  <2> QED
    BY <1>0, <1>4, <1>7, <2>1 DEF SessionInv, Exchange
<1>8. ASSUME Running, Kind[cur] # "paged", Answered PROVE SessionInv'
  <2>1. AnswerRead => AnswerRead'
    <3> SUFFICES ASSUME AnswerRead PROVE AnswerRead'
      OBVIOUS
    <3>1. rx # << >> => rx' # << >> /\ rx'[1] = rx[1]
      BY <1>1, <1>2
    <3> QED
      BY <1>0, <1>1, <1>3, <3>1 DEF AnswerRead
  <2>2. AnswerComing => AnswerComing'
    <3> SUFFICES ASSUME AnswerComing PROVE AnswerComing'
      OBVIOUS
    <3>1. ASSUME NEW i \in 1..Len(rx'), OpcodeAt(i)'
          PROVE  i < Len(rx') /\ ~rx'[i + 1].cmd /\ rx'[i + 1].val = answer'
      <4>1. i \in 1..Len(rx) /\ OpcodeAt(i)
        BY <1>2, <3>1
      <4>2. i < Len(rx) /\ ~rx[i + 1].cmd /\ rx[i + 1].val = answer
        BY <4>1 DEF AnswerComing
      <4>3. i + 1 \in 1..Len(rx)
        BY <1>2, <4>1, <4>2
      <4> QED
        BY <1>1, <1>2, <4>2, <4>3
    <3>2. ASSUME NEW i \in 1..Len(rx'), NEW j \in 1..Len(rx'), OpcodeAt(i)', OpcodeAt(j)'
          PROVE  i = j
      BY <1>2, <3>2 DEF AnswerComing
    <3> QED
      BY <3>1, <3>2 DEF AnswerComing
  <2>3. Answered'
    BY <1>0, <1>1, <1>8, <2>1, <2>2 DEF Answered
  <2> QED
    BY <1>0, <1>4, <1>8, <2>3 DEF SessionInv, Exchange
<1> QED
  BY <1>5, <1>6, <1>7, <1>8 DEF SessionInv, Exchange

\* Every step of the program and of the System Controller.
LEMMA SessionNext ==
  TypeInv /\ Unborn /\ CallInv /\ SessionInv /\ [Next]_vars => SessionInv'
<1> SUFFICES ASSUME TypeInv, Unborn, CallInv, SessionInv, [Next]_vars PROVE SessionInv'
  OBVIOUS
<1>1. CASE CtlProgram
  BY <1>1 DEF CtlProgram, SessionInv, QuietInv, NoOpcode, BusyInv, FrameInv, IspInv, Exchange,
     Running, Waiting, TypeInv, TypeOK, SvcTypeOK
<1>2. CASE Interrupt \/ UNCHANGED vars
  <2>1. UNCHANGED <<pc, cur, sysBusy, inited, busy, handler, state, req, rbuf, txPos, cmdLeft,
                    ridx, buf, tx, rx, ctl, answer>>
    BY <1>2 DEF Interrupt, IrqEnter, vars, drvVars, txVars, reqVars, svcVars, ctlVars
  <2>2. Running' = Running /\ Quiet' = Quiet /\ NoOpcode' = NoOpcode /\ Taken' = Taken
        /\ AnswerComing' = AnswerComing /\ AnswerRead' = AnswerRead
    BY <2>1 DEF Running, Waiting, Quiet, NoOpcode, OpcodeAt, Taken, AnswerComing, AnswerRead
  <2>3. Sent' = Sent /\ Answered' = Answered
    BY <2>1, <2>2 DEF Sent, Answered
  <2> QED
    BY <2>1, <2>2, <2>3 DEF SessionInv, QuietInv, BusyInv, FrameInv, IspInv, Exchange
<1>3. CASE HandleRx
  BY <1>3, SessionRxIdle, SessionRxWaiting
<1> QED
  BY <1>1, <1>2, <1>3, SessionIdle, SessionInit, SessionBegin, SessionSend, SessionTx, SessionTake,
     SessionAnswer, SessionEvent DEF Next, MainStep, CtlStep

\* The globals start between two requests.
LEMMA SessionStart == Init => Unborn /\ CallInv /\ SessionInv
<1>1. Init => Unborn /\ CallInv
  BY DEF Init, ComBlkInit, Unborn, InCall, CallInv, RxGood, Sending, WaitQuiet, Receiving,
     NoLostRequest, Waiting
<1>2. Init => SessionInv
  BY DEF Init, ComBlkInit, SessionInv, QuietInv, NoOpcode, BusyInv, FrameInv, IspInv, Exchange,
     Running, Waiting
<1> QED
  BY <1>1, <1>2

\* handle_tx_okay_irq and the send functions await the answer of an ISP request
\* only after its last page.
LEMMA PagesNext ==
  TypeInv /\ CallInv /\ SessionInv /\ PagesBeforeWait /\ [Next]_vars => PagesBeforeWait'
<1> SUFFICES ASSUME TypeInv, CallInv, SessionInv, PagesBeforeWait, [Next]_vars,
                    state' = "WAIT_RESPONSE", Kind[req'] = "paged", 1 + ParamLen[req'] <= TxDepth
             PROVE  page' = Len(PageLen) /\ dataLeft' = 0
  BY DEF PagesBeforeWait
<1>1. CASE UNCHANGED <<state, req, page, dataLeft>>
  BY <1>1 DEF PagesBeforeWait
<1>2. CASE SendBegin
  BY <1>2 DEF SendBegin, BeginRequest, Main, SessionInv, QuietInv, Quiet
<1>3. CASE InitIfNeeded
  BY <1>1, <1>3 DEF InitIfNeeded, MSS_SYS_init, MSS_COMBLK_init, drvVars, txVars, reqVars
<1>4. CASE SendOpcode
  BY <1>1, <1>4 DEF SendOpcode, send_cmd_opcode, reqVars
<1>5. CASE SendParams
  <2>1. pc = "params" /\ req = cur
    BY <1>5 DEF SendParams, Main, CallInv, Sending
  <2> QED
    BY <1>1, <1>5, <2>1 DEF SendParams, SendPtr, SendParam, SendDone, reqVars, txVars
<1>6. CASE HandleRx
  BY <1>1, <1>6 DEF HandleRx, IrqRxEvent, IrqRxDrop, IrqRxPorStart, IrqRxOpcode, IrqRxPorData,
     IrqRxData, IrqRxPaged, txVars, reqVars
<1>7. CASE HandleTx
  <2>1. CASE IrqTxCmd
    <3>1. state = "TX_CMD" /\ TxPart /\ UNCHANGED req
      BY <2>1 DEF IrqTxCmd, reqVars
    <3>2. ~Quiet /\ pc \notin {"opcode", "params", "wait"}
      BY <3>1 DEF SessionInv, QuietInv, TxPart, CallInv, Sending, WaitQuiet, NoIrq
    <3>3. req \in Service /\ 1 + ParamLen[req] > TxDepth
      BY <3>1, <3>2 DEF SessionInv, IspInv, Quiet
    <3> QED
      BY <3>1, <3>3, ServiceAssumption, FifoAssumption
  <2>2. CASE IrqTxPage
    <3>1. page \in 0..Len(PageLen) /\ Len(PageLen) \in Nat
      BY FifoAssumption DEF TypeInv, TypeOK, ComBlkTypeOK
    <3>2. dataLeft = 0 /\ state = "TX_PAGED_DATA"
      BY <2>2 DEF IrqTxPage
    <3>3. ~(page < Len(PageLen)) /\ UNCHANGED <<page, dataLeft>>
      BY <2>2, <3>2 DEF IrqTxPage
    <3> QED
      BY <3>1, <3>2, <3>3
  <2>3. CASE IrqTxPaged \/ IrqTxStray
    BY <2>3 DEF IrqTxPaged, IrqTxStray
  <2> QED
    BY <1>7, <2>1, <2>2, <2>3 DEF HandleTx
<1>8. CASE CtlProgram
  BY <1>8 DEF CtlProgram
<1>9. CASE \/ \E s \in Service : Command(s)
           \/ Prepare \/ signal_request_start \/ Return \/ IapSetup \/ IapClaim \/ IapXfer
           \/ IapCleanup \/ Interrupt \/ CtlTake \/ CtlAnswer
           \/ (\E e \in Event : CtlEvent(e)) \/ (\E d \in RespByte : CtlPor(d))
           \/ UNCHANGED vars
  BY <1>1, <1>9 DEF Command, Prepare, signal_request_start, Return, IapSetup, IapClaim, IapXfer,
     IapCleanup, Interrupt, IrqEnter, CtlTake, CtlAnswer, CtlEvent, CtlPor, vars, drvVars,
     txVars, reqVars
<1> QED
  BY <1>2, <1>3, <1>4, <1>5, <1>6, <1>7, <1>8, <1>9 DEF Next, MainStep, CtlStep

\* The answer to an ISP request is awaited only after the page handler has handed
\* out all its pages and all of them are in the FIFO, for every page sequence and
\* every command that fits into the FIFO; no response byte has the value of the
\* POR opcode.
THEOREM PagesSentBeforeWait ==
  ASSUME POR \notin RespByte
  PROVE  Spec => []PagesBeforeWait
<1>1. Init => PagesBeforeWait
  BY DEF Init, ComBlkInit, PagesBeforeWait
<1> QED
  BY <1>1, SessionStart, SessionNext, PagesNext, CallNext, UnbornNext, TypeInvariance, PTL DEF Spec

-----------------------------------------------------------------------------
(* The response array of a service function, a local variable, after the     *)
(* function has returned.  The driver keeps the pointer to it.  OwnInv says  *)
(* that the service layer's completion handler is installed only while its   *)
(* thread sends or waits; then a driver with a dead array (Dead) is idle, or *)
(* has stored the opcode of a digest message and reads its data byte.        *)

NoPor   == \A i \in 1..Len(rx) : rx[i].cmd => rx[i].val # POR
PorPaid == porSent = 0 => NoPor

OwnInv ==
  /\ handler = "service" => sysBusy /\ pc \in {"opcode", "params", "wait"}
  /\ pc \in {"send", "opcode", "params"} => sysBusy
  /\ pc \in {"opcode", "params"} => /\ nvic = FALSE /\ irq = NoIrq
                                   /\ rbuf = RespBuffer(cur) /\ handler = HandlerOf(cur)

Dead == rbuf = "stack" /\ pc \notin {"opcode", "params"} /\ ~Waiting

DeadInv ==
  Dead => /\ state \in {"IDLE", "RX_RESPONSE"}
          /\ state = "RX_RESPONSE" => ridx = 1 /\ buf["stack"][0] = POR /\ porSent > 0

\* Only the System Controller's digest messages are counted.
LEMMA PorSentStep ==
  ASSUME TypeInv, [Next]_vars
  PROVE  /\ porSent \in Nat
         /\ porSent' = porSent \/ porSent' = porSent + 1
         /\ porSent > 0 => porSent' > 0
         /\ porSent' = 0 => porSent = 0
<1>1. porSent \in Nat
  BY DEF TypeInv, TypeOK, SvcTypeOK
<1>2. CASE (\E s \in Service : Command(s)) \/ MainStep
  <2>1. porSent' = porSent
    BY <1>2 DEF Command, MainStep, InitIfNeeded, Prepare, signal_request_start, SendBegin, SendOpcode,
       SendParams, Return, IapSetup, IapClaim, IapXfer, IapCleanup, ctlVars
  <2> QED
    BY <1>1, <2>1
<1>3. CASE Interrupt \/ HandleRx \/ HandleTx \/ CtlStep \/ (\E e \in Event : CtlEvent(e))
           \/ UNCHANGED vars
  <2>1. porSent' = porSent
    BY <1>3 DEF Interrupt, HandleRx, HandleTx, CtlStep, CtlTake, CtlAnswer, CtlProgram, CtlEvent,
       vars, ctlVars
  <2> QED
    BY <1>1, <2>1
<1>4. CASE \E d \in RespByte : CtlPor(d)
  <2>1. porSent' = porSent + 1
    BY <1>4 DEF CtlPor
  <2> QED
    BY <1>1, <2>1
<1> QED
  BY <1>2, <1>3, <1>4 DEF Next

\* The POR opcode comes only with a digest message.
LEMMA PorPaidNext == TypeInv /\ PorPaid /\ [Next]_vars => PorPaid'
<1> SUFFICES ASSUME TypeInv, PorPaid, [Next]_vars, porSent' = 0 PROVE NoPor'
  BY DEF PorPaid
<1>x. NoPor
  BY PorSentStep DEF PorPaid
<1>0. rx \in Seq(RxByte)
  BY DEF TypeInv, TypeOK, ComBlkTypeOK
<1>1. CASE UNCHANGED rx
  BY <1>1, <1>x DEF NoPor
<1>2. CASE HandleRx
  <2>1. rx # << >> /\ rx' = Tail(rx)
    BY <1>2 DEF HandleRx, IrqRxEvent, IrqRxDrop, IrqRxPorStart, IrqRxOpcode, IrqRxPorData,
       IrqRxData, IrqRxPaged, RxPart
  <2>2. \A i \in 1..Len(rx') : i + 1 \in 1..Len(rx) /\ rx'[i] = rx[i + 1]
    BY <1>0, <2>1, TailShifts
  <2> QED
    BY <1>x, <2>2 DEF NoPor
<1>3. CASE CtlAnswer
  <2>1. PICK data \in [1..(RespLen[ctl.svc] - 1) -> RespByte] :
          rx' = rx \o Message(Opcode[ctl.svc], data)
    BY <1>3 DEF CtlAnswer
  <2>2. ctl.svc \in Service /\ Opcode[ctl.svc] \in Byte /\ Opcode[ctl.svc] # POR
    BY <1>3, ServiceAssumption DEF CtlAnswer, TypeInv, CtlHasRequest
  <2>3. PICK n \in Nat : n = RespLen[ctl.svc] - 1
    BY <2>2, ServiceAssumption
  <2> DEFINE m == Message(Opcode[ctl.svc], data)
  <2>4. /\ m \in Seq(RxByte) /\ Len(m) = n + 1
        /\ m[1] = [cmd |-> TRUE, val |-> Opcode[ctl.svc]]
        /\ \A i \in 1..n : m[1 + i] = [cmd |-> FALSE, val |-> data[i]]
    <3>1. data \in [1..n -> RespByte]
      BY <2>3
    <3> QED
      BY <2>2, <3>1, MessageShape
  <2>5. rx' = rx \o m /\ m \in Seq(RxByte)
    BY <2>1, <2>4
  <2>6. ASSUME NEW k \in 1..Len(m), m[k].cmd PROVE m[k].val # POR
    <3>1. CASE k = 1
      BY <2>2, <2>4, <3>1
    <3>2. CASE k # 1
      <4>0. Len(m) = n + 1
        BY <2>4
      <4>1. PICK i \in 1..n : k = 1 + i
        <5>1. k - 1 \in 1..n /\ k = 1 + (k - 1)
          BY <3>2, <4>0
        <5> QED
          BY <5>1
      <4>2. m[k] = [cmd |-> FALSE, val |-> data[i]]
        BY <2>4, <4>1
      <4> QED
        BY <2>6, <4>2
    <3> QED
      BY <3>1, <3>2
  <2> HIDE DEF m
  <2>7. /\ Len(rx') = Len(rx) + Len(m)
        /\ \A i \in 1..Len(rx) : rx'[i] = rx[i]
        /\ \A i \in 1..Len(m) : rx'[Len(rx) + i] = m[i]
    BY <1>0, <2>5, ConcatShape
  <2>8. Len(rx) \in Nat /\ Len(m) \in Nat
    BY <1>0, <2>5
  <2>9. ASSUME NEW i \in 1..Len(rx'), rx'[i].cmd PROVE rx'[i].val # POR
    <3>1. CASE i \in 1..Len(rx)
      BY <1>x, <2>7, <2>9, <3>1 DEF NoPor
    <3>2. CASE i > Len(rx)
      <4>1. PICK k \in 1..Len(m) : i = Len(rx) + k
        <5>1. i - Len(rx) \in 1..Len(m) /\ i = Len(rx) + (i - Len(rx))
          BY <2>7, <2>8, <3>2
        <5> QED
          BY <5>1
      <4> QED
        BY <2>6, <2>7, <2>9, <4>1
    <3> QED
      BY <2>8, <3>1, <3>2
  <2> QED
    BY <2>9 DEF NoPor
<1>4. ASSUME NEW e \in Event, CtlEvent(e) PROVE NoPor'
  <2>1. rx' = Append(rx, [cmd |-> TRUE, val |-> e]) /\ e # POR /\ e \in Byte
    BY <1>4, SysAssumption DEF CtlEvent
  <2>2. /\ Len(rx') = Len(rx) + 1 /\ Len(rx) \in Nat
        /\ \A i \in 1..Len(rx) : rx'[i] = rx[i]
        /\ rx'[Len(rx) + 1] = [cmd |-> TRUE, val |-> e]
    BY <1>0, <2>1 DEF RxByte
  <2> QED
    BY <1>x, <2>1, <2>2 DEF NoPor
<1>5. ASSUME NEW d \in RespByte, CtlPor(d) PROVE NoPor'
  <2>1. porSent' = porSent + 1 /\ porSent = 0
    BY <1>5, PorSentStep DEF CtlPor, TypeInv, TypeOK, SvcTypeOK
  <2> QED
    BY <2>1
<1>6. CASE CtlProgram
  BY <1>6 DEF CtlProgram, NoPor
<1>7. CASE \/ \E s \in Service : Command(s)
           \/ MainStep \/ Interrupt \/ HandleTx \/ CtlTake \/ UNCHANGED vars
  <2>1. UNCHANGED rx
    BY <1>7 DEF Command, MainStep, InitIfNeeded, MSS_SYS_init, MSS_COMBLK_init, Prepare,
       signal_request_start, SendBegin, BeginRequest, SendOpcode, send_cmd_opcode,
       SendParams, SendPtr, SendParam, SendDone, Return, IapSetup, IapClaim, IapXfer,
       IapCleanup, Interrupt, IrqEnter, HandleTx, IrqTxCmd, IrqTxPage, IrqTxPaged,
       IrqTxStray, CtlTake, vars, drvVars
  <2> QED
    BY <2>1, <1>1
<1> QED
  BY <1>2, <1>3, <1>4, <1>5, <1>6, <1>7 DEF Next, CtlStep

\* The service layer's completion handler belongs to a thread that sends or
\* waits, and the NVIC masks the interrupt while it sends.
LEMMA OwnNext == TypeInv /\ OwnInv /\ [Next]_vars => OwnInv'
<1> SUFFICES ASSUME TypeInv, OwnInv, [Next]_vars PROVE OwnInv'
  OBVIOUS
<1>0. sysBusy \in BOOLEAN /\ busy \in BOOLEAN
  BY DEF TypeInv, TypeOK, SvcTypeOK, ComBlkTypeOK
<1>1. CASE UNCHANGED <<pc, cur, handler, sysBusy, nvic, irq, rbuf>>
  BY <1>1 DEF OwnInv, RespBuffer, HandlerOf
<1>2. CASE \/ (\E s \in Service : Command(s)) \/ Prepare
           \/ IapSetup \/ IapClaim \/ IapXfer \/ IapCleanup
  <2>1. /\ pc \notin {"opcode", "params", "wait"} /\ pc' \notin {"send", "opcode", "params", "wait"}
        /\ UNCHANGED handler
    BY <1>2 DEF Command, Prepare, Finish, IapSetup, IapClaim, IapXfer, IapCleanup, Main, drvVars,
       reqVars
  <2> QED
    BY <2>1 DEF OwnInv
<1>3. CASE signal_request_start
  <2>1. pc = "call" /\ pc' = "send" /\ sysBusy' = TRUE /\ UNCHANGED handler
    BY <1>3 DEF signal_request_start, Main, drvVars, reqVars
  <2> QED
    BY <2>1 DEF OwnInv
<1>4. CASE Return
  <2>1. pc = "wait" /\ ~sysBusy /\ UNCHANGED handler /\ pc' \in {"prepare", "cleanup", "prompt"}
    BY <1>4 DEF Return, Finish, drvVars, reqVars
  <2> QED
    BY <2>1 DEF OwnInv
<1>5. CASE InitIfNeeded
  <2>1. pc = "init" /\ pc' = "prepare" /\ handler' \in {handler, "none"}
    BY <1>5 DEF InitIfNeeded, Main, MSS_SYS_init, MSS_COMBLK_init, drvVars, reqVars
  <2> QED
    BY <2>1 DEF OwnInv
<1>6. CASE SendBegin
  <2>1. /\ pc = "send" /\ pc' = "opcode" /\ nvic' = FALSE /\ irq' = NoIrq
        /\ rbuf' = RespBuffer(cur) /\ handler' = HandlerOf(cur) /\ cur' = cur
    BY <1>6 DEF SendBegin, BeginRequest, Main, InIrq, HandlerOf
  <2>2. sysBusy' = sysBusy
    BY <1>6, <2>1 DEF SendBegin, CallHandler, OwnInv
  <2> QED
    BY <2>1, <2>2 DEF OwnInv, RespBuffer, HandlerOf
<1>7. CASE SendOpcode \/ SendParams
  <2>1. /\ pc \in {"opcode", "params"} /\ UNCHANGED <<cur, handler, sysBusy, irq, rbuf>>
        /\ \/ pc' = "params" /\ UNCHANGED nvic
           \/ pc' = "wait"
           \/ pc' = "prompt" /\ Kind[cur] = "paged"
    BY <1>7 DEF SendOpcode, send_cmd_opcode, SendParams, SendPtr, SendParam, SendDone, Main, AfterSend,
       reqVars, intVars
  <2> QED
    BY <2>1 DEF OwnInv, RespBuffer, HandlerOf
<1>8. CASE Interrupt
  <2>1. nvic = TRUE /\ UNCHANGED <<pc, cur, handler, sysBusy, nvic, rbuf>>
    BY <1>8 DEF Interrupt, IrqEnter, svcVars, reqVars, intVars, TypeInv, TypeOK, ComBlkTypeOK
  <2> QED
    BY <2>1 DEF OwnInv
<1>9. CASE HandleRx \/ HandleTx
  <2>1. irq # NoIrq /\ UNCHANGED pc
    BY <1>9 DEF HandleRx, HandleTx, IrqRxEvent, IrqRxDrop, IrqRxPorStart, IrqRxOpcode, IrqRxPorData,
       IrqRxData, IrqRxPaged, RxPart, IrqTxCmd, IrqTxPage, IrqTxPaged, IrqTxStray, TxStray, TxPart, NoIrq
  <2>2. pc \notin {"opcode", "params"}
    BY <2>1 DEF OwnInv
  <2>3. UNCHANGED <<handler, sysBusy>> \/ (handler' = "none" /\ (handler # "service" => UNCHANGED sysBusy))
    BY <1>9 DEF HandleRx, HandleTx, IrqRxEvent, IrqRxDrop, IrqRxPorStart, IrqRxOpcode, IrqRxPorData,
       IrqRxData, IrqRxPaged, IrqTxCmd, IrqTxPage, IrqTxPaged, IrqTxStray, Completed, CallHandler, reqVars
  <2> QED
    BY <2>1, <2>2, <2>3 DEF OwnInv
<1>10. CASE CtlProgram
  BY <1>10 DEF CtlProgram, OwnInv
<1>11. CASE \/ CtlTake \/ CtlAnswer \/ (\E e \in Event : CtlEvent(e))
            \/ (\E d \in RespByte : CtlPor(d)) \/ UNCHANGED vars
  BY <1>1, <1>11 DEF CtlTake, CtlAnswer, CtlEvent, CtlPor, vars, drvVars, svcVars, reqVars, intVars
<1> QED
  BY <1>2, <1>3, <1>4, <1>5, <1>6, <1>7, <1>8, <1>9, <1>10, <1>11 DEF Next, MainStep, CtlStep

\* What a received byte does to a dead array: nothing, or it is one of the two
\* of a digest message.
LEMMA DeadRx ==
  ASSUME TypeInv, PorPaid, OwnInv, DeadInv, HandleRx, Dead
  PROVE  /\ DeadInv'
         /\ buf'["stack"] # buf["stack"] => DigestInto("stack")
<1>1. /\ RxPart /\ UNCHANGED <<pc, rbuf, porSent>> /\ rx \in Seq(RxByte) /\ porSent \in Nat
      /\ buf \in [Buffer -> [BufIdx -> Byte \cup {Uninit}]]
  BY DEF HandleRx, IrqRxEvent, IrqRxDrop, IrqRxPorStart, IrqRxOpcode, IrqRxPorData, IrqRxData,
     IrqRxPaged, reqVars, ctlVars, TypeInv, TypeOK, ComBlkTypeOK, SvcTypeOK
<1>2. Head(rx) = rx[1] /\ 1 \in 1..Len(rx)
  BY <1>1 DEF RxPart
<1>3. rbuf = "stack" /\ state \in {"IDLE", "RX_RESPONSE"}
      /\ (state = "RX_RESPONSE" => ridx = 1 /\ buf["stack"][0] = POR /\ porSent > 0)
  BY DEF DeadInv, Dead
<1>4. ~IrqRxOpcode /\ ~IrqRxPaged /\ ~IrqRxData
  BY <1>3 DEF IrqRxOpcode, IrqRxPaged, IrqRxData, RespData
<1>5. CASE IrqRxEvent \/ IrqRxDrop
  <2>1. UNCHANGED <<state, ridx, buf>>
    BY <1>5 DEF IrqRxEvent, IrqRxDrop
  <2> QED
    BY <1>1, <1>3, <2>1 DEF DeadInv
<1>6. CASE IrqRxPorStart
  <2>1. /\ RxCmd /\ RxVal = POR /\ ridx' = 1
        /\ buf' = [buf EXCEPT !["stack"][0] = POR, !["stack"][1] = Zero]
    BY <1>3, <1>6 DEF IrqRxPorStart
  <2>2. porSent > 0
    <3>1. ~NoPor
      BY <1>2, <2>1 DEF NoPor, RxCmd, RxVal
    <3> QED
      BY <1>1, <3>1 DEF PorPaid
  <2>3. buf'["stack"] = [[buf["stack"] EXCEPT ![0] = POR] EXCEPT ![1] = Zero]
    BY <1>1, <2>1, NamesTyped
  <2>4. buf'["stack"][0] = POR /\ \A i \in BufIdx \ {0, 1} : buf'["stack"][i] = buf["stack"][i]
    BY <1>1, <2>3, NamesTyped, BufIdxFacts
  <2> QED
    <3>1. porSent' > 0 /\ state' = "RX_RESPONSE"
      BY <1>1, <1>6, <2>2 DEF IrqRxPorStart
    <3>2. DeadInv'
      BY <2>1, <2>4, <3>1 DEF DeadInv
    <3> QED
      BY <2>2, <2>4, <3>2 DEF DigestInto
<1>7. CASE IrqRxPorData
  <2>1. ridx = 1 /\ buf["stack"][0] = POR /\ porSent > 0 /\ state' = "IDLE"
        /\ buf' = [buf EXCEPT !["stack"][1] = RxVal]
    BY <1>3, <1>7 DEF IrqRxPorData, PorData, Store
  <2>2. buf'["stack"] = [buf["stack"] EXCEPT ![1] = RxVal]
    BY <1>1, <2>1, NamesTyped
  <2>3. buf'["stack"][0] = POR /\ \A i \in BufIdx \ {0, 1} : buf'["stack"][i] = buf["stack"][i]
    BY <1>1, <2>1, <2>2, NamesTyped, BufIdxFacts
  <2> QED
    BY <2>1, <2>3 DEF DeadInv, DigestInto
<1> QED
  BY <1>4, <1>5, <1>6, <1>7 DEF HandleRx

\* The driver lets go of a request when its thread does.
LEMMA DeadNext == TypeInv /\ PorPaid /\ OwnInv /\ DeadInv /\ [Next]_vars => DeadInv'
<1> SUFFICES ASSUME TypeInv, PorPaid, OwnInv, DeadInv, [Next]_vars PROVE DeadInv'
  OBVIOUS
<1>0. porSent > 0 => porSent' > 0
  BY PorSentStep
<1>1. ASSUME Dead' => Dead, UNCHANGED <<state, ridx>>, buf'["stack"] = buf["stack"] PROVE DeadInv'
  BY <1>0, <1>1 DEF DeadInv
<1>2. CASE \/ (\E s \in Service : Command(s)) \/ Prepare \/ signal_request_start \/ Return
           \/ IapSetup \/ IapClaim \/ IapXfer \/ IapCleanup
  <2>1. UNCHANGED <<state, ridx, buf, rbuf>>
    BY <1>2 DEF Command, Prepare, signal_request_start, Return, IapSetup, IapClaim, IapXfer, IapCleanup,
       drvVars, reqVars
  <2>2. pc \notin {"opcode", "params"} /\ ~Waiting
    BY <1>2 DEF Command, Prepare, signal_request_start, Return, IapSetup, IapClaim, IapXfer, IapCleanup,
       Main, Waiting
  <2> QED
    BY <1>1, <2>1, <2>2 DEF Dead
<1>3. CASE InitIfNeeded
  <2>1. pc = "init" /\ pc' = "prepare"
        /\ (rbuf' = "g_response" \/ UNCHANGED <<state, ridx, buf, rbuf>>)
    BY <1>3 DEF InitIfNeeded, Main, MSS_SYS_init, MSS_COMBLK_init, drvVars, reqVars
  <2> QED
    BY <1>1, <2>1 DEF Dead, DeadInv, Waiting
<1>4. CASE SendBegin
  BY <1>4 DEF SendBegin, Main, DeadInv, Dead
<1>5. CASE SendOpcode \/ SendParams
  <2>1. /\ pc \in {"opcode", "params"} /\ UNCHANGED <<cur, sysBusy, rbuf>>
        /\ \/ pc' \in {"params", "wait"}
           \/ pc' = "prompt" /\ Kind[cur] = "paged"
    BY <1>5 DEF SendOpcode, send_cmd_opcode, SendParams, SendPtr, SendParam, SendDone, Main, AfterSend,
       reqVars
  <2>2. ~Dead'
    BY <2>1 DEF OwnInv, RespBuffer, Dead, Waiting
  <2> QED
    BY <2>2 DEF DeadInv
<1>6. CASE HandleRx
  <2>0. UNCHANGED <<pc, rbuf>>
    BY <1>6 DEF HandleRx, IrqRxEvent, IrqRxDrop, IrqRxPorStart, IrqRxOpcode, IrqRxPorData, IrqRxData,
       IrqRxPaged, reqVars
  <2>1. CASE Dead
    BY <1>6, <2>1, DeadRx
  <2>2. CASE ~Dead /\ Dead'
    <3>1. sysBusy # sysBusy'
      BY <2>0, <2>2 DEF Dead, Waiting
    <3>2. state' = "IDLE"
      BY <1>6, <3>1 DEF HandleRx, IrqRxData, IrqRxPaged
    <3> QED
      BY <3>2 DEF DeadInv
  <2> QED
    BY <2>1, <2>2 DEF DeadInv
<1>7. CASE HandleTx
  <2>0. UNCHANGED <<pc, rbuf, ridx, buf>>
    BY <1>7 DEF HandleTx, IrqTxCmd, IrqTxPage, IrqTxPaged, IrqTxStray, reqVars
  <2>1. CASE IrqTxStray
    BY <2>1 DEF IrqTxStray, DeadInv
  <2>2. CASE (IrqTxCmd \/ IrqTxPage \/ IrqTxPaged) /\ UNCHANGED sysBusy
    <3>1. state \in {"TX_CMD", "TX_PAGED_DATA"} /\ (Dead' => Dead)
      BY <2>0, <2>2 DEF IrqTxCmd, IrqTxPage, IrqTxPaged, Dead, Waiting
    <3> QED
      BY <3>1 DEF DeadInv
  <2> QED
    BY <1>7, <2>1, <2>2 DEF HandleTx
<1>8. CASE CtlProgram
  BY <1>8 DEF CtlProgram, DeadInv, Dead
<1>9. CASE \/ Interrupt \/ CtlTake \/ CtlAnswer \/ (\E e \in Event : CtlEvent(e))
           \/ (\E d \in RespByte : CtlPor(d)) \/ UNCHANGED vars
  <2>1. UNCHANGED <<state, ridx, buf, rbuf, pc, sysBusy>>
    BY <1>9 DEF Interrupt, IrqEnter, CtlTake, CtlAnswer, CtlEvent, CtlPor, vars, drvVars, svcVars, reqVars
  <2> QED
    BY <1>1, <2>1 DEF Dead, Waiting
<1> QED
  BY <1>2, <1>3, <1>4, <1>5, <1>6, <1>7, <1>8, <1>9 DEF Next, MainStep, CtlStep

\* Who writes to the array, step by step.
LEMMA StackStep ==
  ASSUME TypeInv, PorPaid, OwnInv, DeadInv, [Next]_vars, buf'["stack"] # buf["stack"]
  PROVE  \/ SendBegin
         \/ HandleRx /\ (Waiting \/ DigestInto("stack"))
<1>1. buf \in [Buffer -> [BufIdx -> Byte \cup {Uninit}]]
  BY DEF TypeInv, TypeOK, ComBlkTypeOK
<1>2. CASE HandleRx
  <2>1. RxPart /\ irq # NoIrq
    BY <1>2 DEF HandleRx, IrqRxEvent, IrqRxDrop, IrqRxPorStart, IrqRxOpcode, IrqRxPorData, IrqRxData,
       IrqRxPaged, RxPart, NoIrq
  <2>2. pc \notin {"opcode", "params"}
    BY <2>1 DEF OwnInv
  <2>3. rbuf = "stack"
    <3>1. \/ UNCHANGED buf
          \/ \E f : buf' = [buf EXCEPT ![rbuf] = f]
      BY <1>2 DEF HandleRx, IrqRxEvent, IrqRxDrop, IrqRxPorStart, IrqRxOpcode, IrqRxPorData,
         IrqRxData, IrqRxPaged, Store
    <3> QED
      BY <1>1, <3>1, NamesTyped
  <2> QED
    BY <1>2, <2>2, <2>3, DeadRx DEF Dead
<1>3. CASE CtlProgram
  BY <1>3 DEF CtlProgram, Buffer
<1>4. CASE \/ (\E s \in Service : Command(s)) \/ MainStep \/ Interrupt \/ HandleTx
           \/ CtlTake \/ CtlAnswer \/ (\E e \in Event : CtlEvent(e))
           \/ (\E d \in RespByte : CtlPor(d)) \/ UNCHANGED vars
  <2>1. SendBegin \/ UNCHANGED buf
    BY <1>4 DEF Command, MainStep, InitIfNeeded, MSS_SYS_init, MSS_COMBLK_init, Prepare,
       signal_request_start, SendOpcode, send_cmd_opcode, SendParams, SendPtr, SendParam, SendDone,
       Return, IapSetup, IapClaim, IapXfer, IapCleanup, Interrupt, IrqEnter, HandleTx, IrqTxCmd,
       IrqTxPage, IrqTxPaged, IrqTxStray, CtlTake, CtlAnswer, CtlEvent, CtlPor, vars, drvVars
  <2> QED
    BY <2>1
<1> QED
  BY <1>2, <1>3, <1>4 DEF Next, CtlStep

\* All of this holds from the start.
LEMMA DeadStart == Init => PorPaid /\ OwnInv /\ DeadInv
BY DEF Init, ComBlkInit, PorPaid, NoPor, OwnInv, DeadInv, Dead

\* A service function's response array is written by the function's own call, and
\* after its return, through the pointer the driver keeps, by a POR digest message
\* only: two bytes at its start.  No other message, no status byte of any value and
\* no later request gets there, whatever the System Controller sends.
THEOREM StackGetsDigestOnly == Spec => DeadStackGetsDigestOnly
<1>1. TypeInv /\ PorPaid /\ OwnInv /\ DeadInv /\ [Next]_vars
        => [buf'["stack"] # buf["stack"]
              => \/ pc = "wait" \/ (pc = "send" /\ pc' = "opcode") \/ DigestInto("stack")]_vars
  <2> SUFFICES ASSUME TypeInv, PorPaid, OwnInv, DeadInv, [Next]_vars, buf'["stack"] # buf["stack"]
               PROVE  pc = "wait" \/ (pc = "send" /\ pc' = "opcode") \/ DigestInto("stack")
    OBVIOUS
  <2> QED
    BY StackStep DEF SendBegin, Main, Waiting
<1> QED
  BY <1>1, DeadStart, PorPaidNext, OwnNext, DeadNext, TypeInvariance, PTL
     DEF Spec, DeadStackGetsDigestOnly

\* A byte received when no service request is under way leaves the result of the
\* last one alone, but for a digest message.
LEMMA QuietRx ==
  ASSUME TypeInv, PorPaid, OwnInv, DeadInv, HandleRx, ~Waiting
  PROVE  /\ UNCHANGED <<sysBusy, lastLen>>
         /\ buf'["stack"] = buf["stack"] \/ (buf'["stack"][0] = POR /\ porSent > 0)
<1>1. handler # "service"
  <2>1. irq # NoIrq
    BY DEF HandleRx, IrqRxEvent, IrqRxDrop, IrqRxPorStart, IrqRxOpcode, IrqRxPorData, IrqRxData,
       IrqRxPaged, RxPart, NoIrq
  <2> QED
    BY <2>1 DEF OwnInv, Waiting
<1>2. UNCHANGED <<sysBusy, lastLen>>
  BY <1>1 DEF HandleRx, CallHandler
<1>3. ~SendBegin
  BY DEF SendBegin, Main, InIrq, HandleRx, IrqRxEvent, IrqRxDrop, IrqRxPorStart, IrqRxOpcode,
     IrqRxPorData, IrqRxData, IrqRxPaged, RxPart, NoIrq
<1>4. buf'["stack"] = buf["stack"] \/ DigestInto("stack")
  BY <1>3, StackStep DEF Next
<1> QED
  BY <1>2, <1>4 DEF DigestInto

\* From the completion of a request to the next command its answer is the one
\* that is stored and returned, or the digest message after it makes an error.
LEMMA DoneNext ==
  TypeInv /\ CallInv /\ SessionInv /\ PorPaid /\ OwnInv /\ DeadInv /\ DoneInv /\ [Next]_vars
    => DoneInv'
<1> SUFFICES ASSUME TypeInv, CallInv, SessionInv, PorPaid, OwnInv, DeadInv, DoneInv, [Next]_vars
             PROVE  AnswerStored' /\ StatusInv'
  BY DEF DoneInv
<1>0. AnswerStored /\ StatusInv /\ (porSent > 0 => porSent' > 0)
  BY PorSentStep DEF DoneInv
<1>1. CASE UNCHANGED <<pc, cur, sysBusy, lastLen, buf, answer, status>>
  BY <1>0, <1>1 DEF AnswerStored, StatusInv
<1>2. CASE Return
  <2>1. /\ pc = "wait" /\ ~sysBusy /\ UNCHANGED <<sysBusy, lastLen, buf, answer>>
        /\ Finish(IF cmd \in IapProgram /\ ServiceStatus = Zero THEN FAILURE
                  ELSE ServiceStatus)
    BY <1>2 DEF Return, drvVars, ctlVars
  <2>2. ServiceStatus = answer \/ (ServiceStatus = UNEXPECTED /\ porSent > 0)
    <3>1. cur \in Service /\ Opcode[cur] # POR
      BY <2>1, ServiceAssumption DEF TypeInv, HasRequest
    <3> QED
      BY <1>0, <2>1, <3>1 DEF AnswerStored, ServiceStatus
  <2>3. status \in NoStatus
    BY <1>0, <2>1 DEF StatusInv
  <2>4. /\ pc' \in {"prepare", "cleanup", "prompt"} /\ status' \in {status, FAILURE, ServiceStatus}
        /\ status' \notin {status, FAILURE} => pc' \in {"cleanup", "prompt"}
    BY <2>1 DEF Finish
  <2>5. StatusInv'
    BY <1>0, <2>1, <2>2, <2>3, <2>4 DEF StatusInv, NoStatus
  <2> QED
    BY <2>4, <2>5 DEF AnswerStored
<1>3. CASE Prepare
  <2>1. /\ pc = "prepare" /\ pc' \in {"prepare", "cleanup", "prompt", "call"}
        /\ status' \in {status, CLK_ERROR}
        /\ UNCHANGED <<sysBusy, answer>>
    BY <1>3 DEF Prepare, Finish, drvVars, ctlVars
  <2> QED
    BY <1>0, <2>1 DEF AnswerStored, StatusInv, NoStatus
<1>4. CASE \E s \in Service : Command(s)
  <2>1. pc = "prompt" /\ pc' \in {"setup", "init"} /\ status' = None
    BY <1>4 DEF Command, Main
  <2> QED
    BY <2>1 DEF AnswerStored, StatusInv, NoStatus
<1>5. CASE IapSetup \/ IapClaim \/ IapXfer \/ IapCleanup
  <2>1. /\ pc \in {"setup", "claim", "xfer"} \/ (pc = "cleanup" /\ pc' = "prompt")
        /\ pc' # "wait" /\ status' \in {status, FAILURE}
        /\ UNCHANGED <<sysBusy, answer>>
    BY <1>5 DEF IapSetup, IapClaim, IapXfer, IapCleanup, Main, ctlVars
  <2> QED
    BY <1>0, <2>1 DEF AnswerStored, StatusInv, NoStatus
<1>6. CASE InitIfNeeded
  <2>1. pc = "init" /\ pc' = "prepare" /\ UNCHANGED status
    BY <1>6 DEF InitIfNeeded, MSS_SYS_init, Main
  <2> QED
    BY <1>0, <2>1 DEF AnswerStored, StatusInv
<1>7. CASE signal_request_start
  <2>1. pc = "call" /\ pc' = "send" /\ UNCHANGED status
    BY <1>7 DEF signal_request_start, Main
  <2> QED
    BY <1>0, <2>1 DEF AnswerStored, StatusInv
<1>8. CASE SendBegin \/ SendOpcode \/ SendParams
  <2>1. pc \in {"send", "opcode", "params"} /\ pc' \in {"opcode", "params", "wait", "prompt"}
        /\ UNCHANGED status
    BY <1>8 DEF SendBegin, SendOpcode, SendParams, Main, AfterSend
  <2>2. pc' = "wait" => sysBusy'
    <3>1. sysBusy = TRUE
      BY <2>1 DEF OwnInv, TypeInv, TypeOK, SvcTypeOK
    <3> QED
      BY <1>8, <3>1 DEF SendBegin, SendOpcode, SendParams, Main
  <2> QED
    BY <1>0, <2>1, <2>2 DEF AnswerStored, StatusInv
<1>9. CASE HandleRx
  <2>1. UNCHANGED <<pc, cur, answer, status>>
    BY <1>9 DEF HandleRx, ctlVars
  <2>2. CASE ~Waiting
    <3>1. /\ UNCHANGED <<sysBusy, lastLen>>
          /\ buf'["stack"] = buf["stack"] \/ (buf'["stack"][0] = POR /\ porSent > 0)
      BY <1>9, <2>2, QuietRx
    <3> QED
      BY <1>0, <2>1, <3>1 DEF AnswerStored, StatusInv
  <2>3. CASE Waiting
    <3>1. pc = "wait"
      BY <2>3 DEF Waiting
    <3>2. ~sysBusy' => /\ lastLen' = RespLen[cur]
                       /\ buf'["stack"][0] = Opcode[cur] /\ buf'["stack"][1] = answer
      BY <1>9, <2>3, SessionRxWaiting
    <3> QED
      BY <1>0, <2>1, <3>1, <3>2 DEF AnswerStored, StatusInv
  <2> QED
    BY <2>2, <2>3
<1>10. CASE HandleTx
  <2>1. TxPart /\ UNCHANGED <<pc, cur, answer, status, buf>>
    BY <1>10 DEF HandleTx, IrqTxCmd, IrqTxPage, IrqTxPaged, IrqTxStray, TxStray, ctlVars
  <2>2. pc # "wait" /\ handler # "service"
    BY <2>1 DEF TxPart, CallInv, WaitQuiet, OwnInv, NoIrq
  <2>3. UNCHANGED sysBusy
    BY <1>10, <2>2 DEF HandleTx, CallHandler
  <2> QED
    BY <1>0, <2>1, <2>2, <2>3 DEF AnswerStored, StatusInv
<1>11. CASE CtlAnswer
  <2>1. UNCHANGED <<pc, cur, sysBusy, lastLen, buf, status>> /\ ~ctl.answered
    BY <1>11 DEF CtlAnswer, svcVars
  <2>2. sysBusy
    BY <2>1 DEF SessionInv, QuietInv, Quiet
  <2> QED
    BY <1>0, <2>1, <2>2 DEF AnswerStored, StatusInv
<1>12. CASE CtlProgram
  <2>1. pc' = "prompt" /\ status' = Reset
    BY <1>12 DEF CtlProgram
  <2> QED
    BY <2>1 DEF AnswerStored, StatusInv, NoStatus
<1>13. CASE \/ Interrupt \/ CtlTake \/ (\E e \in Event : CtlEvent(e))
            \/ (\E d \in RespByte : CtlPor(d)) \/ UNCHANGED vars
  BY <1>1, <1>13 DEF Interrupt, IrqEnter, CtlTake, CtlEvent, CtlPor, vars, drvVars, svcVars,
     ctlVars
<1> QED
  BY <1>2, <1>3, <1>4, <1>5, <1>6, <1>7, <1>8, <1>9, <1>10, <1>11, <1>12, <1>13
     DEF Next, MainStep, CtlStep

\* The status a command returns is the one in the System Controller's answer to
\* this request, whatever messages come before or between; with a digest message
\* after the answer it may be MSS_SYS_UNEXPECTED_ERROR instead, but never another
\* status.  No byte after an opcode has the value of the POR opcode (the driver
\* takes the byte that follows such a byte for a digest message, and the request
\* is lost).
THEOREM StatusIsTheAnswer ==
  ASSUME POR \notin RespByte
  PROVE  Spec => []StatusIsAnswer
<1>1. Init => DoneInv
  BY DEF Init, DoneInv, AnswerStored, StatusInv, NoStatus
<1>2. DoneInv => StatusIsAnswer
  BY DEF DoneInv, StatusInv, NoStatus, StatusIsAnswer
<1> QED
  BY <1>1, <1>2, SessionStart, SessionNext, DeadStart, PorPaidNext, OwnNext, DeadNext, DoneNext,
     CallNext, UnbornNext, TypeInvariance, PTL DEF Spec

-----------------------------------------------------------------------------
(* POR digest events.  Each one the application hears of is paid for by a    *)
(* byte of the POR opcode's value the System Controller sent: those still in *)
(* the FIFO, and the one the driver has just stored and takes for the start  *)
(* of a digest message (Pending), have not been reported yet.                *)

PorAt(i) == rx[i].val = POR
PorIdx   == {i \in 1..Len(rx) : PorAt(i)}
Pending  == state = "RX_RESPONSE" /\ ridx >= 1 /\ buf[rbuf][ridx - 1] = POR

IrqEnabled == irq # NoIrq => nvic = TRUE

One(p) == IF p THEN 1 ELSE 0

PorCount == porSeen + Cardinality(PorIdx) + One(Pending) <= porSent + porData

\* A truth value counts for one or nothing.
LEMMA OneType == \A p : One(p) \in {0, 1}
BY DEF One

\* The balance of a received byte, a being 1 when it counts.
LEMMA RxBalance ==
  ASSUME NEW seen \in Nat, NEW card \in Nat, NEW p \in {0, 1}, NEW paid \in Nat, NEW a \in {0, 1},
         NEW seen2 \in Nat, NEW p2 \in {0, 1}, NEW card2, card2 = card - a,
         seen + card + p <= paid, seen2 + p2 <= seen + p + a
  PROVE  seen2 + card2 + p2 <= paid
OBVIOUS

\* Sending a message pays for what it brings.
LEMMA SendBalance ==
  ASSUME NEW seen \in Nat, NEW card \in Nat, NEW p \in {0, 1}, NEW paid \in Nat, NEW k \in Nat,
         NEW card2 \in Nat, seen + card + p <= paid, card2 <= card + k
  PROVE  seen + card2 + p <= paid + k
OBVIOUS

\* There are finitely many of them.
LEMMA PorIdxFinite ==
  ASSUME rx \in Seq(RxByte)
  PROVE  IsFiniteSet(PorIdx) /\ Cardinality(PorIdx) \in Nat
<1>1. Len(rx) \in Int /\ 1 \in Int
  OBVIOUS
<1>2. IsFiniteSet(1..Len(rx))
  BY <1>1, FS_Interval
<1>3. PorIdx \in SUBSET (1..Len(rx))
  BY DEF PorIdx
<1>4. IsFiniteSet(PorIdx)
  BY <1>2, <1>3, FS_Subset
<1> QED
  BY <1>4, FS_CardinalityType

\* Reading a byte takes it out of the count.
LEMMA PorIdxTail ==
  ASSUME rx \in Seq(RxByte), rx # << >>, rx' = Tail(rx)
  PROVE  Cardinality(PorIdx') = Cardinality(PorIdx) - One(PorAt(1))
<1>1. /\ Len(rx) >= 1 /\ Len(rx) \in Nat /\ Len(rx') = Len(rx) - 1
      /\ \A i \in 1..Len(rx') : i + 1 \in 1..Len(rx) /\ rx'[i] = rx[i + 1]
  BY TailShifts
<1> DEFINE R == PorIdx \ {1}
           f == [i \in R |-> i - 1]
<1>2. IsFiniteSet(PorIdx)
  BY PorIdxFinite
<1>3. IsFiniteSet(R) /\ Cardinality(R) = IF 1 \in PorIdx THEN Cardinality(PorIdx) - 1
                                         ELSE Cardinality(PorIdx)
  BY <1>2, FS_RemoveElement
<1>4. ASSUME NEW i \in R PROVE i - 1 \in PorIdx'
  <2>1. i \in 1..Len(rx) /\ i # 1 /\ PorAt(i)
    BY DEF PorIdx
  <2>2. i - 1 \in 1..Len(rx') /\ (i - 1) + 1 = i
    BY <1>1, <2>1
  <2>3. rx'[i - 1] = rx[i]
    BY <1>1, <2>2
  <2> QED
    BY <2>1, <2>2, <2>3 DEF PorIdx, PorAt
<1>5. ASSUME NEW j \in PorIdx' PROVE j + 1 \in R /\ (j + 1) - 1 = j
  <2>1. j \in 1..Len(rx') /\ PorAt(j)'
    BY DEF PorIdx
  <2>2. j + 1 \in 1..Len(rx) /\ rx'[j] = rx[j + 1] /\ j + 1 # 1 /\ (j + 1) - 1 = j
    BY <1>1, <2>1
  <2> QED
    BY <2>1, <2>2 DEF PorIdx, PorAt
<1>6. R \subseteq Int
  BY <1>1 DEF PorIdx
<1>7. f \in Bijection(R, PorIdx')
  <2>1. f \in [R -> PorIdx']
    BY <1>4
  <2>2. \A x, y \in R : f[x] = f[y] => x = y
    BY <1>6
  <2>3. \A j \in PorIdx' : \E x \in R : f[x] = j
    BY <1>5
  <2> QED
    BY <2>1, <2>2, <2>3 DEF Bijection, Injection, Surjection, IsInjective
<1>8. Cardinality(PorIdx') = Cardinality(R)
  BY <1>3, <1>7, FS_Bijection DEF ExistsBijection
<1>9. 1 \in PorIdx <=> PorAt(1)
  BY <1>1 DEF PorIdx
<1>10. Cardinality(PorIdx) \in Nat
  BY PorIdxFinite
<1> QED
  BY <1>3, <1>8, <1>9, <1>10 DEF One

\* The interrupt handler runs only while the NVIC lets it.
LEMMA IrqEnabledNext == TypeInv /\ IrqEnabled /\ [Next]_vars => IrqEnabled'
<1> SUFFICES ASSUME TypeInv, IrqEnabled, [Next]_vars PROVE IrqEnabled'
  OBVIOUS
<1>1. CASE UNCHANGED <<irq, nvic>>
  BY <1>1 DEF IrqEnabled
<1>2. CASE HandleRx \/ HandleTx
  <2>1. irq # NoIrq /\ UNCHANGED nvic
    BY <1>2 DEF HandleRx, IrqRxEvent, IrqRxDrop, IrqRxPorStart, IrqRxOpcode, IrqRxPorData,
       IrqRxData, IrqRxPaged, RxPart, HandleTx, IrqTxCmd, IrqTxPage, IrqTxPaged, IrqTxStray,
       TxStray, TxPart, intVars, NoIrq
  <2> QED
    BY <2>1 DEF IrqEnabled
<1>3. CASE Interrupt
  BY <1>3 DEF Interrupt, IrqEnter, intVars, IrqEnabled, TypeInv, TypeOK, ComBlkTypeOK
<1>4. CASE SendBegin \/ SendParams \/ SendOpcode
  BY <1>4 DEF SendBegin, BeginRequest, SendOpcode, send_cmd_opcode, SendParams, SendPtr, SendParam,
     SendDone, Main, InIrq, intVars, IrqEnabled
<1>5. CASE InitIfNeeded
  BY <1>1, <1>5 DEF InitIfNeeded, MSS_SYS_init, MSS_COMBLK_init, drvVars, intVars, IrqEnabled
<1>6. CASE CtlProgram
  BY <1>6 DEF CtlProgram, IrqEnabled
<1>7. CASE \/ \E s \in Service : Command(s)
           \/ Prepare \/ signal_request_start \/ Return \/ IapSetup \/ IapClaim \/ IapXfer
           \/ IapCleanup \/ CtlTake \/ CtlAnswer
           \/ (\E e \in Event : CtlEvent(e)) \/ (\E d \in RespByte : CtlPor(d))
           \/ UNCHANGED vars
  BY <1>1, <1>7 DEF Command, Prepare, signal_request_start, Return, IapSetup, IapClaim, IapXfer,
     IapCleanup, CtlTake, CtlAnswer, CtlEvent, CtlPor, vars, drvVars, intVars
<1> QED
  BY <1>2, <1>3, <1>4, <1>5, <1>6, <1>7 DEF Next, MainStep, CtlStep

\* A received byte is reported at most once, and only if it has the value of the
\* POR opcode: an event at once, a stored byte when the next one comes.
LEMMA PorRx ==
  ASSUME TypeInv, StoreInBounds, IrqEnabled, PorCount, HandleRx
  PROVE  PorCount'
<1>1. /\ RxPart /\ UNCHANGED <<rbuf, req, porSent, porData>> /\ rx \in Seq(RxByte)
      /\ porSeen \in Nat /\ porSent \in Nat /\ porData \in Nat /\ ridx \in Nat
      /\ buf \in [Buffer -> [BufIdx -> Byte \cup {Uninit}]] /\ rbuf \in Buffer
  BY DEF HandleRx, IrqRxEvent, IrqRxDrop, IrqRxPorStart, IrqRxOpcode, IrqRxPorData,
     IrqRxData, IrqRxPaged, reqVars, ctlVars, TypeInv, TypeOK, ComBlkTypeOK, SvcTypeOK
<1>2. rx # << >> /\ rx' = Tail(rx) /\ nvic = TRUE /\ Head(rx) = rx[1]
  BY <1>1 DEF RxPart, IrqEnabled, NoIrq
<1>3. state = "RX_RESPONSE" => ridx >= 1
  BY <1>2 DEF StoreInBounds
<1>4. Cardinality(PorIdx') = Cardinality(PorIdx) - One(PorAt(1))
  BY <1>1, <1>2, PorIdxTail
<1>5. Cardinality(PorIdx) \in Nat
  BY <1>1, PorIdxFinite
<1>6. PorAt(1) <=> RxVal = POR
  BY <1>2 DEF RxVal, PorAt
<1>7. ASSUME porSeen' \in Nat,
             porSeen' + One(Pending') <= porSeen + One(Pending) + One(PorAt(1))
      PROVE  PorCount'
  <2>1. One(Pending) \in {0, 1} /\ One(Pending') \in {0, 1} /\ One(PorAt(1)) \in {0, 1}
    BY OneType
  <2>2. porSent + porData \in Nat
    BY <1>1
  <2>3. porSeen + Cardinality(PorIdx) + One(Pending) <= porSent + porData
    BY DEF PorCount
  <2>4. porSeen' + Cardinality(PorIdx') + One(Pending') <= porSent + porData
    <3> HIDE DEF PorIdx, Pending, PorAt
    <3> QED
      BY <1>1, <1>4, <1>5, <1>7, <2>1, <2>2, <2>3, RxBalance
  <2> QED
    BY <1>1, <2>4 DEF PorCount
<1>8. CASE IrqRxEvent /\ Deliver(RxVal)
  <2>1. Pending' = Pending
    BY <1>8 DEF IrqRxEvent, reqVars, Pending
  <2>2. porSeen' = porSeen + One(PorAt(1))
    BY <1>1, <1>6, <1>8 DEF Deliver, One
  <2> QED
    BY <1>1, <1>7, <2>1, <2>2 DEF One
<1>9. CASE IrqRxPorData /\ Deliver(buf[rbuf][ridx - 1])
  <2>1. state = "RX_RESPONSE" /\ buf[rbuf][ridx - 1] = POR /\ state' = "IDLE"
    BY <1>9 DEF IrqRxPorData, PorData
  <2>2. Pending /\ ~Pending'
    BY <1>3, <2>1 DEF Pending
  <2>3. porSeen' = porSeen + 1
    BY <1>9, <2>1 DEF Deliver
  <2> QED
    BY <1>1, <1>7, <2>2, <2>3 DEF One
<1>10. ASSUME UNCHANGED porSeen, Pending' => Pending PROVE PorCount'
  BY <1>1, <1>7, <1>10 DEF One
<1>11. ASSUME UNCHANGED porSeen, RxVal = POR PROVE PorCount'
  BY <1>1, <1>6, <1>7, <1>11 DEF One
<1>12. CASE IrqRxDrop /\ UNCHANGED porSeen
  <2>1. Pending' = Pending
    BY <1>12 DEF IrqRxDrop, reqVars, Pending
  <2> QED
    BY <1>10, <1>12, <2>1
<1>13. CASE IrqRxPorStart /\ UNCHANGED porSeen
  BY <1>11, <1>13 DEF IrqRxPorStart
<1>14. CASE IrqRxOpcode /\ UNCHANGED porSeen
  <2>1. /\ state = "WAIT_RESPONSE" /\ ridx' = 1
        /\ buf' = [buf EXCEPT ![rbuf][0] = Opcode[req]]
    BY <1>14 DEF IrqRxOpcode, Store
  <2>2. req \in Service /\ Opcode[req] # POR
    BY <2>1, ServiceAssumption DEF TypeInv, StateHasRequest
  <2>3. buf'[rbuf'][ridx' - 1] = Opcode[req]
    BY <1>1, <2>1, BufIdxFacts
  <2>4. ~Pending'
    BY <2>2, <2>3 DEF Pending
  <2> QED
    BY <1>10, <1>14, <2>4
<1>15. CASE IrqRxData /\ UNCHANGED porSeen
  <2>1. state = "RX_RESPONSE" /\ buf[rbuf][ridx - 1] # POR /\ ridx' = RespIdx
    BY <1>15 DEF IrqRxData, RespData
  <2>2. CASE ridx < RespSize /\ RxVal # POR
    <3>1. buf' = [buf EXCEPT ![rbuf][ridx] = RxVal] /\ ridx' = ridx + 1
      BY <1>15, <2>1, <2>2 DEF IrqRxData, Store, RespIdx
    <3>2. req \in Service /\ RespLen[req] \in Nat /\ ridx < RespLen[req]
      <4>1. req \in Service \cup {NoReq}
        BY DEF TypeInv, TypeOK, ComBlkTypeOK
      <4> QED
        BY <1>1, <2>2, <4>1, ServiceAssumption DEF RespSize
    <3>3. ridx \in BufIdx
      BY <1>1, <3>2, BufIdxFacts
    <3>4. ridx' - 1 = ridx
      BY <1>1, <3>1
    <3>5. buf'[rbuf][ridx] = RxVal
      BY <1>1, <3>1, <3>3
    <3>6. ~Pending'
      BY <1>1, <2>2, <3>4, <3>5 DEF Pending
    <3> QED
      BY <1>10, <1>15, <3>6
  <2>3. CASE ~(ridx < RespSize)
    <3>1. UNCHANGED <<buf, ridx>>
      BY <1>15, <2>1, <2>3 DEF IrqRxData, RespIdx
    <3>2. ~Pending'
      BY <1>1, <2>1, <3>1 DEF Pending
    <3> QED
      BY <1>10, <1>15, <3>2
  <2>4. CASE RxVal = POR
    BY <1>11, <1>15, <2>4
  <2> QED
    BY <2>2, <2>3, <2>4
<1>16. CASE IrqRxPaged /\ UNCHANGED porSeen
  <2>1. ~Pending'
    BY <1>16 DEF IrqRxPaged, Pending
  <2> QED
    BY <1>10, <1>16, <2>1
<1> QED
  BY <1>8, <1>9, <1>12, <1>13, <1>14, <1>15, <1>16 DEF HandleRx

\* A message brings its opcode and the data bytes of that value.
LEMMA PorIdxMessage ==
  ASSUME rx \in Seq(RxByte), NEW op \in Byte, NEW n \in Nat, NEW data \in [1..n -> RespByte],
         rx' = rx \o Message(op, data)
  PROVE  /\ Cardinality(PorIdx') \in Nat
         /\ Cardinality(PorIdx') <= Cardinality(PorIdx) + PorBytes(data) + One(op = POR)
<1>0. PICK L \in Nat : L = Len(rx)
  OBVIOUS
<1> DEFINE m == Message(op, data)
           D == {i \in 1..n : data[i] = POR}
           E == {i \in 1..Len(rx') : i > L + 1 /\ PorAt(i)'}
           f == [i \in D |-> L + 1 + i]
<1>1. /\ m \in Seq(RxByte) /\ Len(m) = n + 1
      /\ m[1] = [cmd |-> TRUE, val |-> op]
      /\ \A i \in 1..n : m[1 + i] = [cmd |-> FALSE, val |-> data[i]]
  BY MessageShape
<1>2. rx' = rx \o m /\ m \in Seq(RxByte)
  BY <1>1
<1> HIDE DEF m
<1>3. /\ Len(rx') = L + Len(m)
      /\ \A i \in 1..L : rx'[i] = rx[i]
      /\ \A i \in 1..Len(m) : rx'[L + i] = m[i]
  BY <1>0, <1>2, ConcatShape
<1>4. L \in Nat /\ Len(m) = n + 1 /\ 1 \in 1..Len(m)
  BY <1>1
<1>5. Len(rx') = L + 1 + n
  BY <1>3, <1>4
<1>6. rx'[L + 1].val = op
  BY <1>1, <1>3, <1>4
<1>7. ASSUME NEW k \in 1..n PROVE rx'[L + 1 + k].val = data[k] /\ L + 1 + k \in 1..Len(rx')
  <2>1. 1 + k \in 1..Len(m) /\ L + 1 + k = L + (1 + k)
    BY <1>4
  <2>2. rx'[L + (1 + k)] = m[1 + k]
    BY <1>3, <2>1
  <2>3. m[1 + k] = [cmd |-> FALSE, val |-> data[k]]
    BY <1>1
  <2>4. L + 1 + k \in 1..Len(rx')
    BY <1>4, <1>5
  <2> QED
    BY <2>1, <2>2, <2>3, <2>4
<1>8. f \in Surjection(D, E)
  <2>1. ASSUME NEW i \in D PROVE f[i] \in E
    BY <1>4, <1>7 DEF PorAt
  <2>2. ASSUME NEW j \in E PROVE \E i \in D : f[i] = j
    <3>1. PICK k \in 1..n : j = L + 1 + k
      <4>1. j - L - 1 \in 1..n /\ j = L + 1 + (j - L - 1)
        BY <1>4, <1>5
      <4> QED
        BY <4>1
    <3>2. k \in D
      BY <1>7, <3>1 DEF PorAt
    <3> QED
      BY <3>1, <3>2
  <2>3. f \in [D -> E]
    BY <2>1
  <2> QED
    BY <2>2, <2>3 DEF Surjection
<1>9. IsFiniteSet(D) /\ PorBytes(data) = Cardinality(D) /\ PorBytes(data) \in Nat
  BY PorBytesType
<1>10. IsFiniteSet(E) /\ Cardinality(E) <= Cardinality(D)
  BY <1>8, <1>9, FS_Surjection
<1>11. IsFiniteSet(PorIdx) /\ Cardinality(PorIdx) \in Nat
  BY PorIdxFinite
<1>12. PorIdx' = (PorIdx \cup E) \cup (IF op = POR THEN {L + 1} ELSE {})
  <2>1. \A i \in 1..L : PorAt(i)' = PorAt(i)
    BY <1>3 DEF PorAt
  <2>2. PorAt(L + 1)' <=> op = POR
    BY <1>6 DEF PorAt
  <2>3. PorIdx = {i \in 1..L : PorAt(i)}
    BY <1>0 DEF PorIdx
  <2>4. PorIdx' = {i \in 1..Len(rx') : PorAt(i)'}
    BY DEF PorIdx
  <2>5. \A i \in 1..Len(rx') : i \in 1..L \/ i = L + 1 \/ i > L + 1
    BY <1>4, <1>5
  <2>6. L + 1 \in 1..Len(rx') /\ \A i \in 1..L : i \in 1..Len(rx') /\ ~(i > L + 1)
    BY <1>4, <1>5
  <2>7. ASSUME NEW i \in PorIdx'
        PROVE  i \in (PorIdx \cup E) \cup (IF op = POR THEN {L + 1} ELSE {})
    BY <2>1, <2>2, <2>3, <2>4, <2>5
  <2>8. ASSUME NEW i \in (PorIdx \cup E) \cup (IF op = POR THEN {L + 1} ELSE {})
        PROVE  i \in PorIdx'
    BY <2>1, <2>2, <2>3, <2>4, <2>6
  <2> QED
    BY <2>7, <2>8
<1>13. /\ IsFiniteSet(PorIdx \cup E) /\ Cardinality(PorIdx \cup E) \in Nat
       /\ Cardinality(PorIdx \cup E) <= Cardinality(PorIdx) + Cardinality(E)
  <2> HIDE DEF E
  <2>1. /\ IsFiniteSet(PorIdx \cup E)
        /\ Cardinality(PorIdx \cup E)
             = Cardinality(PorIdx) + Cardinality(E) - Cardinality(PorIdx \cap E)
    BY <1>10, <1>11, FS_Union
  <2>2. IsFiniteSet(PorIdx \cap E)
    BY <1>11, FS_Subset
  <2>3. Cardinality(PorIdx \cap E) \in Nat /\ Cardinality(E) \in Nat
        /\ Cardinality(PorIdx \cup E) \in Nat
    BY <1>10, <2>1, <2>2, FS_CardinalityType
  <2> QED
    BY <1>11, <2>1, <2>3
<1>14. Cardinality(E) \in Nat /\ Cardinality(D) \in Nat
  BY <1>9, <1>10, FS_CardinalityType
<1> HIDE DEF D, E
<1>15. CASE op = POR
  <2>1. PorIdx' = (PorIdx \cup E) \cup {L + 1}
    BY <1>12, <1>15
  <2>0. Cardinality((PorIdx \cup E) \cup {L + 1})
          = IF L + 1 \in PorIdx \cup E THEN Cardinality(PorIdx \cup E)
            ELSE Cardinality(PorIdx \cup E) + 1
    BY <1>13, FS_AddElement
  <2>2. Cardinality(PorIdx') <= Cardinality(PorIdx \cup E) + 1
    BY <1>13, <2>0, <2>1
  <2>3. IsFiniteSet(PorIdx')
    BY <1>13, <2>1, FS_AddElement
  <2>4. Cardinality(PorIdx') \in Nat
    BY <2>3, FS_CardinalityType
  <2> QED
    BY <1>9, <1>10, <1>11, <1>13, <1>14, <1>15, <2>2, <2>4 DEF One
<1>16. CASE op # POR
  <2>1. PorIdx' = PorIdx \cup E
    BY <1>12, <1>16
  <2> QED
    BY <1>9, <1>10, <1>11, <1>13, <1>14, <1>16, <2>1 DEF One
<1> QED
  BY <1>15, <1>16

\* What the System Controller sends adds to the count what may be reported of it.
LEMMA PorSend ==
  ASSUME TypeInv, PorCount,
         CtlAnswer \/ (\E e \in Event : CtlEvent(e)) \/ (\E d \in RespByte : CtlPor(d))
  PROVE  PorCount'
<1>0. /\ rx \in Seq(RxByte) /\ porSeen \in Nat /\ porSent \in Nat /\ porData \in Nat
      /\ UNCHANGED <<state, ridx, rbuf, buf, porSeen>>
  BY DEF TypeInv, TypeOK, ComBlkTypeOK, SvcTypeOK, CtlAnswer, CtlEvent, CtlPor, svcVars, reqVars
<1>1. Pending' = Pending
  BY <1>0 DEF Pending
<1>2. Cardinality(PorIdx) \in Nat /\ Len(rx) \in Nat
  BY <1>0, PorIdxFinite
<1>3. ASSUME NEW k \in Nat, Cardinality(PorIdx') \in Nat,
             Cardinality(PorIdx') <= Cardinality(PorIdx) + k,
             porSent' + porData' = (porSent + porData) + k
      PROVE  PorCount'
  <2>1. One(Pending) \in {0, 1} /\ One(Pending') = One(Pending)
    BY <1>1, OneType
  <2>2. porSent + porData \in Nat
    BY <1>0
  <2>3. porSeen + Cardinality(PorIdx) + One(Pending) <= porSent + porData
    BY DEF PorCount
  <2>4. porSeen + Cardinality(PorIdx') + One(Pending) <= (porSent + porData) + k
    BY <1>0, <1>2, <1>3, <2>1, <2>2, <2>3, SendBalance
  <2>5. porSeen' = porSeen
    BY <1>0
  <2> QED
    BY <1>3, <2>1, <2>4, <2>5 DEF PorCount
<1>4. ASSUME NEW e \in Event, CtlEvent(e) PROVE PorCount'
  <2>1. /\ rx' = Append(rx, [cmd |-> TRUE, val |-> e]) /\ e # POR /\ e \in Byte
        /\ UNCHANGED <<porSent, porData>>
    BY <1>4, SysAssumption DEF CtlEvent
  <2>2. /\ Len(rx') = Len(rx) + 1
        /\ \A i \in 1..Len(rx) : rx'[i] = rx[i]
        /\ rx'[Len(rx) + 1] = [cmd |-> TRUE, val |-> e]
    BY <1>0, <2>1 DEF RxByte
  <2>3. \A i \in Nat : i = Len(rx) + 1 => ~PorAt(i)'
    BY <2>1, <2>2 DEF PorAt
  <2>4. \A i \in 1..Len(rx) : PorAt(i)' = PorAt(i)
    BY <2>2 DEF PorAt
  <2>5. PorIdx' = PorIdx
    BY <1>2, <2>2, <2>3, <2>4 DEF PorIdx
  <2> QED
    BY <1>0, <1>1, <2>1, <2>5 DEF PorCount
<1>5. CASE CtlAnswer
  <2>1. PICK data \in [1..(RespLen[ctl.svc] - 1) -> RespByte] :
          /\ rx' = rx \o Message(Opcode[ctl.svc], data)
          /\ porData' = porData + PorBytes(data)
    BY <1>5 DEF CtlAnswer, CountPorData
  <2>2. ctl.svc \in Service /\ Opcode[ctl.svc] \in Byte /\ Opcode[ctl.svc] # POR
        /\ RespLen[ctl.svc] - 1 \in Nat /\ UNCHANGED porSent
    BY <1>5, ServiceAssumption DEF CtlAnswer, TypeInv, CtlHasRequest
  <2>3. /\ Cardinality(PorIdx') \in Nat
        /\ Cardinality(PorIdx') <= Cardinality(PorIdx) + PorBytes(data) + One(Opcode[ctl.svc] = POR)
    BY <1>0, <2>1, <2>2, PorIdxMessage
  <2>4. PorBytes(data) \in Nat /\ One(Opcode[ctl.svc] = POR) = 0
    BY <2>2, PorBytesType DEF One
  <2>5. /\ Cardinality(PorIdx') <= Cardinality(PorIdx) + PorBytes(data)
        /\ porSent' \in Nat /\ porData' \in Nat
        /\ porSent' + porData' = (porSent + porData) + PorBytes(data)
    BY <1>0, <1>2, <2>1, <2>2, <2>3, <2>4
  <2> QED
    BY <1>3, <2>3, <2>4, <2>5
<1>6. ASSUME NEW d \in RespByte, CtlPor(d) PROVE PorCount'
  <2>1. /\ rx' = rx \o Message(POR, <<d>>) /\ porSent' = porSent + 1 /\ POR \in Byte
        /\ porData' = porData + PorBytes(<<d>>)
    BY <1>6, ByteAssumption DEF CtlPor, CountPorData
  <2>2. PICK n \in Nat : n = 1
    OBVIOUS
  <2>3. <<d>> \in [1..n -> RespByte]
    BY <2>2
  <2>4. /\ Cardinality(PorIdx') \in Nat
        /\ Cardinality(PorIdx') <= Cardinality(PorIdx) + PorBytes(<<d>>) + One(POR = POR)
    BY <1>0, <2>1, <2>3, PorIdxMessage
  <2>5. PorBytes(<<d>>) \in Nat /\ One(POR = POR) = 1
    BY <2>3, PorBytesType DEF One
  <2>6. /\ Cardinality(PorIdx') <= Cardinality(PorIdx) + (PorBytes(<<d>>) + 1)
        /\ porSent' \in Nat /\ porData' \in Nat /\ PorBytes(<<d>>) + 1 \in Nat
        /\ porSent' + porData' = (porSent + porData) + (PorBytes(<<d>>) + 1)
    BY <1>0, <1>2, <2>1, <2>4, <2>5
  <2> QED
    BY <1>3, <2>4, <2>6
<1> QED
  BY <1>4, <1>5, <1>6

\* A step that neither sends nor receives starts no digest message.
LEMMA PorKeeps ==
  ASSUME TypeInv, PorCount, UNCHANGED <<rx, porSeen, porSent, porData>>, Pending' => Pending
  PROVE  PorCount'
<1>1. /\ porSeen \in Nat /\ porSent \in Nat /\ porData \in Nat /\ rx \in Seq(RxByte)
  BY DEF TypeInv, TypeOK, SvcTypeOK, ComBlkTypeOK
<1>2. PorIdx' = PorIdx /\ Cardinality(PorIdx) \in Nat
  BY <1>1, PorIdxFinite DEF PorIdx, PorAt
<1>3. porSeen + Cardinality(PorIdx') + One(Pending) <= porSent + porData
  BY <1>2 DEF PorCount
<1>4. One(Pending') <= One(Pending) /\ One(Pending) \in {0, 1} /\ One(Pending') \in {0, 1}
  BY DEF One
<1>5. porSeen + Cardinality(PorIdx') + One(Pending') <= porSent + porData
  BY <1>1, <1>2, <1>3, <1>4
<1> QED
  BY <1>5 DEF PorCount

\* Every step keeps account of the digest messages.
LEMMA PorNext == TypeInv /\ StoreInBounds /\ IrqEnabled /\ PorCount /\ [Next]_vars => PorCount'
<1> SUFFICES ASSUME TypeInv, StoreInBounds, IrqEnabled, PorCount, [Next]_vars PROVE PorCount'
  OBVIOUS
<1>1. CASE UNCHANGED <<rx, porSeen, porSent, porData, state, ridx, rbuf, buf>>
  <2>1. Pending' = Pending
    BY <1>1 DEF Pending
  <2> QED
    BY <1>1, <2>1, PorKeeps
<1>2. CASE SendBegin
  <2>1. UNCHANGED <<rx, porSeen, porSent, porData>> /\ ~Pending'
    BY <1>2 DEF SendBegin, BeginRequest, Pending
  <2> QED
    BY <2>1, PorKeeps
<1>3. CASE SendOpcode \/ SendParams
  <2>1. /\ UNCHANGED <<rx, porSeen, porSent, porData, ridx, rbuf, buf>>
        /\ state' # "RX_RESPONSE" \/ UNCHANGED state
    BY <1>3 DEF SendOpcode, send_cmd_opcode, SendParams, SendPtr, SendParam, SendDone, reqVars,
       ctlVars
  <2>2. Pending' => Pending
    BY <2>1 DEF Pending
  <2> QED
    BY <2>1, <2>2, PorKeeps
<1>4. CASE InitIfNeeded
  <2>1. /\ UNCHANGED <<rx, porSeen, porSent, porData>>
        /\ state' # "RX_RESPONSE" \/ UNCHANGED <<state, ridx, rbuf, buf>>
    BY <1>4 DEF InitIfNeeded, MSS_SYS_init, MSS_COMBLK_init, drvVars, reqVars, ctlVars
  <2>2. Pending' => Pending
    BY <2>1 DEF Pending
  <2> QED
    BY <2>1, <2>2, PorKeeps
<1>5. CASE HandleTx
  <2>1. /\ UNCHANGED <<rx, porSeen, porSent, porData, ridx, rbuf, buf>>
        /\ state' # "RX_RESPONSE" \/ UNCHANGED state
    BY <1>5 DEF HandleTx, IrqTxCmd, IrqTxPage, IrqTxPaged, IrqTxStray, reqVars, ctlVars
  <2>2. Pending' => Pending
    BY <2>1 DEF Pending
  <2> QED
    BY <2>1, <2>2, PorKeeps
<1>6. CASE CtlProgram
  <2>1. rx' = << >> /\ ~Pending' /\ UNCHANGED <<porSeen, porSent, porData>>
    BY <1>6 DEF CtlProgram, Pending
  <2>2. PorIdx' = {}
    BY <2>1 DEF PorIdx
  <2>3. Cardinality(PorIdx') = 0
    BY <2>2, FS_EmptySet
  <2>4. /\ porSeen \in Nat /\ porSent \in Nat /\ porData \in Nat /\ Cardinality(PorIdx) \in Nat
        /\ One(Pending) \in {0, 1}
    BY PorIdxFinite, OneType DEF TypeInv, TypeOK, SvcTypeOK, ComBlkTypeOK
  <2>5. porSeen + Cardinality(PorIdx) + One(Pending) <= porSent + porData
    BY DEF PorCount
  <2>6. One(Pending') = 0
    BY <2>1 DEF One
  <2>7. porSeen + 0 + 0 <= porSent + porData
    BY <2>4, <2>5
  <2> QED
    BY <2>1, <2>3, <2>6, <2>7 DEF PorCount
<1>7. CASE \/ \E s \in Service : Command(s)
           \/ Prepare \/ signal_request_start \/ Return \/ IapSetup \/ IapClaim \/ IapXfer
           \/ IapCleanup \/ CtlTake \/ Interrupt \/ UNCHANGED vars
  BY <1>1, <1>7 DEF Command, Prepare, signal_request_start, Return, IapSetup, IapClaim, IapXfer,
     IapCleanup, CtlTake, Interrupt, IrqEnter, vars, drvVars, reqVars, svcVars, ctlVars
<1> QED
  BY <1>2, <1>3, <1>4, <1>5, <1>6, <1>7, PorRx, PorSend DEF Next, MainStep, CtlStep

\* The application hears of at most one POR digest error for each byte of that
\* opcode's value the System Controller has sent, whether as an opcode or as data:
\* handle_rx_okay_irq invents none, and reports none twice.
THEOREM PorEventsPaidFor == Spec => []PorEventPerByte
<1>1. Init => StoreInBounds /\ IrqEnabled
  BY DEF Init, ComBlkInit, StoreInBounds, IrqEnabled
<1>2. Init => PorCount
  <2> SUFFICES ASSUME Init PROVE PorCount
    OBVIOUS
  <2>1. PorIdx = {} /\ ~Pending /\ porSeen = 0 /\ porSent = 0 /\ porData = 0
    BY DEF Init, ComBlkInit, PorIdx, Pending
  <2>2. Cardinality(PorIdx) = 0
    BY <2>1, FS_EmptySet
  <2> QED
    BY <2>1, <2>2 DEF PorCount, One
<1>3. TypeInv /\ PorCount => PorEventPerByte
  <2> SUFFICES ASSUME TypeInv, PorCount PROVE PorEventPerByte
    OBVIOUS
  <2>1. /\ porSeen \in Nat /\ porSent \in Nat /\ porData \in Nat /\ Cardinality(PorIdx) \in Nat
        /\ One(Pending) \in {0, 1}
    BY PorIdxFinite, OneType DEF TypeInv, TypeOK, SvcTypeOK, ComBlkTypeOK
  <2>2. porSeen + Cardinality(PorIdx) + One(Pending) <= porSent + porData
    BY DEF PorCount
  <2> QED
    BY <2>1, <2>2 DEF PorEventPerByte
<1> QED
  BY <1>1, <1>2, <1>3, BoundsNext, IrqEnabledNext, PorNext, TypeInvariance, PTL DEF Spec
==============================================================================
