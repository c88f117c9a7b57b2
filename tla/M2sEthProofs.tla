---------------------------- MODULE M2sEthProofs ----------------------------
(***************************************************************************)
(* Proofs about M2sEth, for any ring size and any number of frames and     *)
(* packets.  The transmit side and the receive ring's "handed over once"   *)
(* are proved with handlers that may restart or halt the device in the     *)
(* middle of m2s_eth_recv; that the ring is a queue in order, without.     *)
(***************************************************************************)
EXTENDS M2sEth, FiniteSetTheorems, SequenceTheorems, TLAPS

\* The transmit DMA holds a packet only while it is on and the descriptor is
\* its own, and the descriptor is filled by sends only.
Engine ==
  /\ txFetched # NoFrame => txFull /\ txOn
  /\ txFull => NetTxPacket # NoFrame
  /\ NetTxPacket \in Nat

\* A send that waits: the packet under way, or gone, is its own.
Waiting ==
  /\ pc = "loop" => ~txWait
  /\ txWait /\ txFull => txFetched \in {NoFrame, NetTxPacket}
  /\ txWait /\ ~txFull => sent = NetTxPacket

\* A send that returned 0 leaves nothing behind that could still be sent.
Returned == sendRv = "ok" /\ ~txWait => sent = NetTxPacket /\ ~txFull

TxInv == Engine /\ Waiting /\ Returned

LEMMA TxInit == Init => TxInv
<1> SUFFICES ASSUME Init PROVE TxInv
  OBVIOUS
<1>1. NetTxPacket \in Nat
  BY DEF Init, NoFrame
<1>2. ~txFull /\ ~txWait /\ txFetched = NoFrame /\ sendRv = "none"
  BY DEF Init
<1> QED BY <1>1, <1>2 DEF TxInv, Engine, Waiting, Returned

\* eth_init and eth_halt: the DMA is stopped and forgets what it had read.
LEMMA DeviceStep ==
  ASSUME TxInv, m2s_eth_init \/ m2s_eth_halt, ~txWait, UNCHANGED <<send, sent>>
  PROVE  TxInv'
<1>1. txFetched' = NoFrame /\ (txFull' => txFull)
  BY DEF m2s_eth_init, m2s_eth_halt
<1>2. ~txWait' /\ NetTxPacket' = NetTxPacket /\ sendRv' = sendRv /\ sent' = sent
  BY DEF send
<1> QED BY <1>1, <1>2 DEF TxInv, Engine, Waiting, Returned

\* m2s_eth_recv outside the handler does not touch the transmit side.
LEMMA RecvStep ==
  ASSUME TxInv, RecvEnter \/ RecvFrame \/ RecvUpdate \/ RecvExit \/ DmaFrame
  PROVE  TxInv'
<1> USE DEF txVars, tx, send
<1>1. CASE RecvEnter \/ RecvUpdate
  BY <1>1 DEF TxInv, Engine, Waiting, Returned, RecvEnter, RecvUpdate
<1>2. CASE RecvExit
  BY <1>2 DEF TxInv, Engine, Waiting, Returned, RecvExit
<1>3. CASE DmaFrame
  BY <1>3 DEF TxInv, Engine, Waiting, Returned, DmaFrame
<1>4. CASE RecvFrame
  <2>1. ~txWait /\ UNCHANGED <<send, sent>> /\ pc' = "update"
    BY <1>4 DEF RecvFrame, TxInv, Waiting
  <2>2. CASE m2s_eth_init \/ m2s_eth_halt
    BY <2>1, <2>2, DeviceStep
  <2>3. CASE UNCHANGED tx
    BY <2>1, <2>3 DEF TxInv, Engine, Waiting, Returned
  <2> QED BY <1>4, <2>2, <2>3 DEF RecvFrame
<1> QED BY <1>1, <1>2, <1>3, <1>4

\* m2s_eth_send itself.
LEMMA SendStep ==
  ASSUME TxInv, SendEnter \/ SendOk \/ SendTimeout
  PROVE  TxInv'
<1> USE DEF TxInv, Engine, Waiting, Returned, tx, NoFrame
<1>1. CASE SendEnter
  <2>1. pc \in {"out", "update"} /\ pc' = pc /\ ~txWait /\ NetTxPacket' = NetTxPacket + 1
    BY <1>1 DEF SendEnter, MaySend
  <2>2. CASE sendRv' \in {"EINVAL", "EBUSY"} /\ UNCHANGED <<txFull, txOn, txWait>>
    BY <1>1, <2>1, <2>2 DEF SendEnter
  <2>3. CASE ~txOn /\ txFull' = TRUE /\ txOn' = TRUE /\ txWait' = TRUE /\ UNCHANGED sendRv
    BY <1>1, <2>1, <2>3 DEF SendEnter
  <2> QED BY <1>1, <2>2, <2>3 DEF SendEnter
<1>2. CASE SendOk
  BY <1>2 DEF SendOk
<1>3. CASE SendTimeout
  BY <1>3 DEF SendTimeout
<1> QED BY <1>1, <1>2, <1>3

\* The transmit DMA.
LEMMA DmaStep ==
  ASSUME TxInv, TxFetch \/ TxDone \/ TxStop
  PROVE  TxInv'
<1> USE DEF TxInv, Engine, Waiting, Returned, send
<1>1. CASE TxFetch
  BY <1>1 DEF TxFetch
<1>2. CASE TxDone
  BY <1>2 DEF TxDone
<1>3. CASE TxStop
  BY <1>3 DEF TxStop
<1> QED BY <1>1, <1>2, <1>3

\* m2s_eth_send returns 0 only when the packet it was given went out: after any
\* sequence of time-outs, refusals, restarts and halts it does not take the end
\* of an earlier transmission for its own.
THEOREM SendHonest == Spec => []SendOkMeansSent
<1>1. TxInv /\ [Next]_vars => TxInv'
  <2> SUFFICES ASSUME TxInv, [Next]_vars PROVE TxInv'
    OBVIOUS
  <2>1. CASE Start \/ Stop
    BY <2>1, DeviceStep DEF Start, Stop
  <2>2. CASE Recv \/ DmaFrame
    BY <2>2, RecvStep DEF Recv
  <2>3. CASE Send
    BY <2>3, SendStep DEF Send
  <2>4. CASE TxDma
    BY <2>4, DmaStep DEF TxDma
  <2>5. CASE UNCHANGED vars
    BY <2>5 DEF vars, txVars, tx, send, TxInv, Engine, Waiting, Returned
  <2> QED BY <2>1, <2>2, <2>3, <2>4, <2>5 DEF Next
<1>2. TxInv => SendOkMeansSent
  BY DEF TxInv, Returned, SendOkMeansSent
<1> QED BY <1>1, <1>2, TxInit, PTL DEF Spec

------------------------------------------------------------------------------
(* Types.                                                                   *)

LEMMA SuccType == ASSUME NEW i \in Idx PROVE Succ(i) \in Idx
<1>1. N \in Nat \ {0} /\ i + 1 \in Int
  BY RingAssumption DEF Idx
<1>2. \A a \in Int : a % N \in 0..(N - 1)
  BY <1>1
<1> QED BY <1>1, <1>2 DEF Succ, Idx

LEMMA ZeroIdx == 0 \in Idx
BY RingAssumption DEF Idx

\* The part of TypeOK the receive side writes, and the part the sends write.
RxType ==
  /\ empty \in [Idx -> BOOLEAN] /\ frame \in [Idx -> Nat]
  /\ cur \in Idx /\ local \in Idx /\ dma \in Idx
  /\ pc \in {"out", "loop", "update"}
  /\ arrived \in Nat /\ got \in Nat

OnType == macOn \in BOOLEAN /\ dmaOn \in BOOLEAN

TxOnType == txFull \in BOOLEAN /\ txOn \in BOOLEAN /\ txWait \in BOOLEAN

TxType ==
  /\ txFetched \in Nat /\ NetTxPacket \in Nat /\ sent \in Nat
  /\ sendRv \in {"none", "ok", "EINVAL", "EBUSY", "ETIMEDOUT"}

LEMMA TypeParts == TypeOK <=> RxType /\ OnType /\ TxOnType /\ TxType
BY DEF TypeOK, RxType, OnType, TxOnType, TxType

LEMMA TypeInit == Init => TypeOK
<1> SUFFICES ASSUME Init PROVE RxType /\ OnType /\ TxOnType /\ TxType
  BY TypeParts
<1>1. RxType
  BY ZeroIdx DEF Init, RxType, NoFrame
<1>2. OnType /\ TxOnType /\ TxType
  BY DEF Init, OnType, TxOnType, TxType, NoFrame
<1> QED BY <1>1, <1>2

LEMMA RxTypeStep == RxType /\ [Next]_vars => RxType'
<1> SUFFICES ASSUME RxType, [Next]_vars PROVE RxType'
  OBVIOUS
<1> USE DEF RxType
<1>1. CASE Start
  BY <1>1, ZeroIdx DEF Start, m2s_eth_init
<1>2. CASE Stop
  BY <1>2 DEF Stop, m2s_eth_halt
<1>3. CASE RecvEnter \/ RecvExit
  BY <1>3 DEF RecvEnter, RecvExit, ring, mac
<1>4. CASE RecvFrame
  <2>1. local' \in Idx /\ pc' = "update" /\ got' \in Nat
    BY <1>4 DEF RecvFrame
  <2>2. UNCHANGED <<frame, arrived>>
    BY <1>4 DEF RecvFrame
  <2>3. empty' \in [Idx -> BOOLEAN] /\ cur' \in Idx /\ dma' \in Idx
    <3>1. CASE UNCHANGED <<empty, cur, mac, tx>>
      BY <3>1 DEF mac
    <3>2. CASE m2s_eth_init
      BY <3>2, ZeroIdx DEF m2s_eth_init
    <3>3. CASE m2s_eth_halt
      BY <3>3 DEF m2s_eth_halt
    <3> QED BY <1>4, <3>1, <3>2, <3>3 DEF RecvFrame
  <2> QED BY <2>1, <2>2, <2>3
<1>5. CASE RecvUpdate
  BY <1>5, SuccType DEF RecvUpdate, mac
<1>6. CASE DmaFrame
  <2>1. UNCHANGED <<cur, local, pc, got>> /\ arrived' = arrived + 1
    BY <1>6 DEF DmaFrame
  <2>2. CASE empty[dma]
    <3>1. /\ empty' = [empty EXCEPT ![dma] = FALSE]
          /\ frame' = [frame EXCEPT ![dma] = arrived + 1] /\ dma' = Succ(dma)
      BY <1>6, <2>2 DEF DmaFrame
    <3>2. empty' \in [Idx -> BOOLEAN]
      BY <3>1
    <3>3. frame' \in [Idx -> Nat] /\ dma' \in Idx
      BY <3>1, SuccType
    <3> QED BY <2>1, <3>2, <3>3
  <2>3. CASE ~empty[dma]
    BY <1>6, <2>1, <2>3 DEF DmaFrame
  <2> QED BY <2>2, <2>3
<1>7. CASE Send
  BY <1>7 DEF Send, SendEnter, SendOk, SendTimeout, ring, mac
<1>8. CASE TxDma
  BY <1>8 DEF TxDma, TxFetch, TxDone, TxStop, ring, mac
<1>9. CASE UNCHANGED vars
  BY <1>9 DEF vars, ring, mac
<1> QED BY <1>1, <1>2, <1>3, <1>4, <1>5, <1>6, <1>7, <1>8, <1>9 DEF Next, Recv

LEMMA OnTypeStep == OnType /\ [Next]_vars => OnType'
<1> SUFFICES ASSUME OnType, [Next]_vars PROVE OnType'
  OBVIOUS
<1> USE DEF OnType, mac
<1>1. CASE Start \/ Stop
  BY <1>1 DEF Start, Stop, m2s_eth_init, m2s_eth_halt
<1>2. CASE Recv
  BY <1>2 DEF Recv, RecvEnter, RecvFrame, RecvUpdate, RecvExit, m2s_eth_init, m2s_eth_halt
<1>3. CASE DmaFrame
  BY <1>3 DEF DmaFrame
<1>4. CASE Send \/ TxDma
  BY <1>4 DEF Send, SendEnter, SendOk, SendTimeout, TxDma, TxFetch, TxDone, TxStop
<1>5. CASE UNCHANGED vars
  BY <1>5 DEF vars
<1> QED BY <1>1, <1>2, <1>3, <1>4, <1>5 DEF Next

LEMMA TxOnTypeStep == TxOnType /\ [Next]_vars => TxOnType'
<1> SUFFICES ASSUME TxOnType, [Next]_vars PROVE TxOnType'
  OBVIOUS
<1> USE DEF TxOnType, tx, send, txVars
<1>1. CASE Start \/ Stop
  BY <1>1 DEF Start, Stop, m2s_eth_init, m2s_eth_halt
<1>2. CASE Recv
  BY <1>2 DEF Recv, RecvEnter, RecvFrame, RecvUpdate, RecvExit, m2s_eth_init, m2s_eth_halt
<1>3. CASE DmaFrame
  BY <1>3 DEF DmaFrame
<1>4. CASE Send
  BY <1>4 DEF Send, SendEnter, SendOk, SendTimeout
<1>5. CASE TxDma
  BY <1>5 DEF TxDma, TxFetch, TxDone, TxStop
<1>6. CASE UNCHANGED vars
  BY <1>6 DEF vars
<1> QED BY <1>1, <1>2, <1>3, <1>4, <1>5, <1>6 DEF Next

LEMMA TxTypeStep == TxType /\ [Next]_vars => TxType'
<1> SUFFICES ASSUME TxType, [Next]_vars PROVE TxType'
  OBVIOUS
<1> USE DEF TxType, tx, send, txVars, NoFrame
<1>1. CASE Start \/ Stop
  BY <1>1 DEF Start, Stop, m2s_eth_init, m2s_eth_halt
<1>2. CASE Recv
  BY <1>2 DEF Recv, RecvEnter, RecvFrame, RecvUpdate, RecvExit, m2s_eth_init, m2s_eth_halt
<1>3. CASE DmaFrame
  BY <1>3 DEF DmaFrame
<1>4. CASE Send
  BY <1>4 DEF Send, SendEnter, SendOk, SendTimeout
<1>5. CASE TxDma
  BY <1>5 DEF TxDma, TxFetch, TxDone, TxStop
<1>6. CASE UNCHANGED vars
  BY <1>6 DEF vars
<1> QED BY <1>1, <1>2, <1>3, <1>4, <1>5, <1>6 DEF Next

\* The driver's indices stay inside the ring (m2s_bd_cur_rx, the descriptor
\* m2s_eth_recv writes after NetReceive, and the one the DMA fills) through any
\* restart or halt of the device, for any ring size.
THEOREM EthTyping == Spec => []TypeOK
<1>1. TypeOK /\ [Next]_vars => TypeOK'
  <2> SUFFICES ASSUME TypeOK, [Next]_vars PROVE TypeOK'
    OBVIOUS
  <2>1. RxType' /\ OnType' /\ TxOnType' /\ TxType'
    BY TypeParts, RxTypeStep, OnTypeStep, TxOnTypeStep, TxTypeStep
  <2> QED BY <2>1 DEF TypeOK, RxType, OnType, TxOnType, TxType
<1> QED BY <1>1, TypeInit, PTL DEF Spec

------------------------------------------------------------------------------
(* No frame is handed over twice.                                           *)

\* The full descriptors hold different frames that have arrived; the frame
\* handed over last is in none of them, except in the one m2s_eth_recv is about
\* to give back.
Distinct ==
  \A i, j \in Idx : ~empty[i] /\ ~empty[j] /\ frame[i] = frame[j] => i = j

Arrived ==
  /\ \A i \in Idx : ~empty[i] => frame[i] \in 1..arrived
  /\ got <= arrived

Handed == \A i \in Idx : ~empty[i] /\ frame[i] = got => pc = "update" /\ i = local

OnceInv == RxType /\ Distinct /\ Arrived /\ Handed

LEMMA OnceInit == Init => OnceInv
<1> SUFFICES ASSUME Init PROVE OnceInv
  OBVIOUS
<1>1. RxType
  BY TypeInit, TypeParts
<1>2. \A i \in Idx : empty[i]
  BY DEF Init
<1>3. got <= arrived
  BY DEF Init, NoFrame
<1> QED BY <1>1, <1>2, <1>3 DEF OnceInv, Distinct, Arrived, Handed

\* Steps that leave the buffers and the counters alone and only empty
\* descriptors.
LEMMA OnceEmptied ==
  ASSUME OnceInv, UNCHANGED <<frame, arrived, got>>, RxType',
         \A i \in Idx : ~empty'[i] => ~empty[i],
         pc = "update" => (pc' = "update" /\ local' = local) \/ empty'[local]
  PROVE  OnceInv'
<1>1. Distinct' /\ Arrived'
  BY DEF OnceInv, Distinct, Arrived
<1>2. Handed'
  BY DEF OnceInv, Handed
<1> QED BY <1>1, <1>2 DEF OnceInv

LEMMA OnceFrame ==
  ASSUME OnceInv, RecvFrame, RxType'
  PROVE  OnceInv'
<1>1. /\ cur \in Idx /\ ~empty[cur] /\ got' = frame[cur] /\ pc' = "update" /\ local' = cur
      /\ UNCHANGED <<frame, arrived>>
  BY DEF RecvFrame, OnceInv, RxType
<1>2. \A i \in Idx : ~empty'[i] => ~empty[i]
  BY DEF RecvFrame, m2s_eth_init, m2s_eth_halt
<1>3. Distinct'
  BY <1>1, <1>2 DEF OnceInv, Distinct
<1>4. Arrived'
  BY <1>1, <1>2 DEF OnceInv, Arrived, RxType
<1>5. Handed'
  BY <1>1, <1>2 DEF OnceInv, Distinct, Handed
<1> QED BY <1>3, <1>4, <1>5 DEF OnceInv

LEMMA OnceDma ==
  ASSUME OnceInv, DmaFrame, RxType'
  PROVE  OnceInv'
<1>1. UNCHANGED <<cur, local, pc, got>> /\ arrived' = arrived + 1 /\ arrived \in Nat /\ got \in Nat
  BY DEF DmaFrame, OnceInv, RxType
<1>2. CASE ~empty[dma]
  <2>1. UNCHANGED <<empty, frame>>
    BY <1>2 DEF DmaFrame
  <2> QED BY <1>1, <2>1 DEF OnceInv, Distinct, Arrived, Handed
<1>3. CASE empty[dma]
  <2>1. /\ empty' = [empty EXCEPT ![dma] = FALSE] /\ frame' = [frame EXCEPT ![dma] = arrived + 1]
        /\ dma \in Idx /\ DOMAIN empty = Idx /\ DOMAIN frame = Idx
    BY <1>3 DEF DmaFrame, OnceInv, RxType
  <2>2. frame'[dma] = arrived + 1
    BY <2>1
  <2>3. \A i \in Idx : i # dma => frame'[i] = frame[i] /\ empty'[i] = empty[i]
    BY <2>1
  <2>4. \A i \in Idx : ~empty[i] => frame[i] \in 1..arrived
    BY DEF OnceInv, Arrived
  <2>5. \A i \in Idx : ~empty'[i] => frame'[i] \in 1..arrived'
    BY <1>1, <2>2, <2>3, <2>4
  <2>6. got <= arrived
    BY DEF OnceInv, Arrived
  <2>7. Arrived'
    BY <1>1, <2>5, <2>6 DEF Arrived
  <2>8. Distinct'
    BY <1>1, <2>2, <2>3, <2>4 DEF OnceInv, Distinct
  <2>9. Handed'
    BY <1>1, <2>2, <2>3, <2>6 DEF OnceInv, Handed
  <2> QED BY <2>7, <2>8, <2>9 DEF OnceInv
<1> QED BY <1>2, <1>3

LEMMA OnceStep == OnceInv /\ [Next]_vars => OnceInv'
<1> SUFFICES ASSUME OnceInv, [Next]_vars PROVE OnceInv'
  OBVIOUS
<1>0. RxType' /\ local \in Idx /\ empty \in [Idx -> BOOLEAN]
  BY RxTypeStep DEF OnceInv, RxType
<1>1. CASE Start
  <2>1. \A i \in Idx : empty'[i]
    BY <1>1 DEF Start, m2s_eth_init
  <2> QED BY <1>0, <1>1, <2>1, OnceEmptied DEF Start
<1>2. CASE RecvFrame
  BY <1>0, <1>2, OnceFrame
<1>3. CASE RecvUpdate
  <2>1. empty' = [empty EXCEPT ![local] = TRUE] /\ UNCHANGED <<frame, arrived, got>>
    BY <1>3 DEF RecvUpdate
  <2>2. (\A i \in Idx : ~empty'[i] => ~empty[i]) /\ empty'[local]
    BY <1>0, <2>1
  <2> QED BY <1>0, <2>1, <2>2, OnceEmptied
<1>4. CASE DmaFrame
  BY <1>0, <1>4, OnceDma
<1>5. CASE Stop \/ RecvEnter \/ RecvExit \/ Send \/ TxDma \/ UNCHANGED vars
  <2>1. UNCHANGED <<empty, frame, arrived, got, local>>
    BY <1>5 DEF Stop, m2s_eth_halt, RecvEnter, RecvExit, Send, SendEnter, SendOk,
                SendTimeout, TxDma, TxFetch, TxDone, TxStop, vars, ring
  <2>2. pc = "update" => pc' = "update"
    BY <1>5 DEF Stop, RecvEnter, RecvExit, Send, SendEnter, SendOk, SendTimeout,
                TxDma, TxFetch, TxDone, TxStop, vars
  <2> QED BY <1>0, <2>1, <2>2, OnceEmptied
<1> QED BY <1>1, <1>2, <1>3, <1>4, <1>5 DEF Next, Recv

\* m2s_eth_recv passes no frame to NetReceive a second time, for any ring size
\* and whatever the packet handler did to the device (NetStartAgain, eth_halt)
\* before m2s_eth_recv gave back the descriptor it had remembered.
THEOREM FrameHandedOnce == Spec => []HandedOnce
<1>1. OnceInv => HandedOnce
  BY DEF OnceInv, Handed, HandedOnce, Full
<1> QED BY <1>1, OnceInit, OnceStep, PTL DEF Spec

------------------------------------------------------------------------------
(* The ring is in order when no handler restarts or halts the device.       *)

\* Index arithmetic on the ring.
LEMMA RingMod ==
  ASSUME NEW a \in Idx, NEW k \in 0..N
  PROVE  (a + k) % N = IF a + k < N THEN a + k ELSE a + k - N
<1>0. N \in Nat \ {0} /\ a \in 0..(N - 1)
  BY RingAssumption DEF Idx
<1>1. CASE a + k < N
  <2>1. a + k \in 0..(N - 1)
    BY <1>0, <1>1
  <2> QED BY <1>0, <1>1, <2>1
<1>2. CASE ~(a + k < N)
  <2>1. a + k \in N..(2 * N - 1)
    BY <1>0, <1>2
  <2> QED BY <1>0, <1>2, <2>1
<1> QED BY <1>1, <1>2

\* The k-th descriptor from a.
At(a, k) == IF a + k < N THEN a + k ELSE a + k - N

LEMMA AtMod ==
  ASSUME NEW a \in Idx, NEW k \in 0..N
  PROVE  (a + k) % N = At(a, k)
BY RingMod DEF At

LEMMA SuccAt == ASSUME NEW a \in Idx PROVE Succ(a) = At(a, 1)
<1>1. 1 \in 0..N
  BY RingAssumption
<1> QED BY <1>1, AtMod DEF Succ

LEMMA AtType ==
  ASSUME NEW a \in Idx, NEW k \in 0..N
  PROVE  At(a, k) \in Idx
BY RingAssumption DEF At, Idx

LEMMA IdxInRing == \A k \in Idx : k \in 0..N /\ ~(k < 0)
BY RingAssumption DEF Idx

LEMMA AtInjective ==
  ASSUME NEW a \in Idx, NEW k \in Idx, NEW l \in Idx, At(a, k) = At(a, l)
  PROVE  k = l
BY RingAssumption DEF At, Idx

LEMMA AtOnto ==
  ASSUME NEW a \in Idx, NEW i \in Idx
  PROVE  \E k \in Idx : At(a, k) = i
<1> DEFINE k == IF i >= a THEN i - a ELSE i - a + N
<1>1. k \in Idx /\ At(a, k) = i
  BY RingAssumption DEF At, Idx
<1> QED BY <1>1

\* Moving the first descriptor on by one.
LEMMA AtSucc ==
  ASSUME NEW a \in Idx, NEW k \in 0..(N - 1)
  PROVE  At(At(a, 1), k) = At(a, k + 1)
BY RingAssumption DEF At, Idx

LEMMA AtLast ==
  ASSUME NEW a \in Idx
  PROVE  At(a, 0) = a /\ At(a, N) = a
BY RingAssumption DEF At, Idx

\* n descriptors from m2s_bd_cur_rx on are full, the others empty.
Window(n) == \A k \in Idx : ~empty[At(cur, k)] <=> k < n

\* The DMA, while it runs, is behind them; m2s_eth_recv gives back the first.
WindowInv(n) ==
  /\ Window(n)
  /\ dmaOn => dma = At(cur, n)
  /\ pc = "update" => local = cur /\ n > 0

SyncInv ==
  /\ RxType
  /\ pc # "out" => macOn
  /\ \E n \in 0..N : WindowInv(n)

LEMMA SyncInit == Init => SyncInv
<1> SUFFICES ASSUME Init PROVE SyncInv
  OBVIOUS
<1>1. RxType
  BY TypeInit, TypeParts
<1>2. \A k \in Idx : empty[At(cur, k)]
  <2> SUFFICES ASSUME NEW k \in Idx PROVE empty[At(cur, k)]
    OBVIOUS
  <2>1. At(cur, k) \in Idx
    BY <1>1, AtType, IdxInRing DEF RxType
  <2> QED BY <2>1 DEF Init
<1>3. Window(0)
  BY <1>2, IdxInRing DEF Window
<1>5. WindowInv(0)
  BY <1>3 DEF Init, WindowInv
<1>4. 0 \in 0..N
  BY RingAssumption
<1> QED BY <1>1, <1>4, <1>5 DEF Init, SyncInv


\* A descriptor is given back and m2s_bd_cur_rx moves on.
LEMMA SyncUpdate ==
  ASSUME SyncInv, RecvUpdate, NEW n \in 0..N, WindowInv(n)
  PROVE  n - 1 \in 0..N /\ WindowInv(n - 1)'
<1>0. N \in Nat \ {0} /\ cur \in Idx /\ empty \in [Idx -> BOOLEAN]
  BY RingAssumption DEF SyncInv, RxType
<1>1. /\ local = cur /\ n > 0 /\ empty' = [empty EXCEPT ![cur] = TRUE] /\ cur' = At(cur, 1)
      /\ UNCHANGED <<dmaOn, dma>> /\ pc' = "loop"
  BY <1>0, SuccAt DEF RecvUpdate, WindowInv, mac
<1>2. n - 1 \in 0..N /\ n - 1 \in 0..(N - 1) /\ n \in Nat
  BY <1>0, <1>1
<1>3. dmaOn' => dma' = At(cur', n - 1)
  <2>1. At(At(cur, 1), n - 1) = At(cur, (n - 1) + 1)
    BY <1>0, <1>2, AtSucc
  <2>2. (n - 1) + 1 = n
    BY <1>2
  <2> QED BY <1>1, <2>1, <2>2 DEF WindowInv
<1>4. ASSUME NEW k \in Idx PROVE ~empty'[At(cur', k)] <=> k < n - 1
  <2>0. k \in 0..(N - 1) /\ k + 1 \in 0..N
    BY <1>0 DEF Idx
  <2>1. At(cur', k) = At(cur, k + 1)
    BY <1>0, <1>1, <2>0, AtSucc
  <2>2. CASE k + 1 < N
    <3>1. k + 1 \in Idx /\ 0 \in Idx /\ k + 1 # 0
      BY <1>0, <2>0, <2>2 DEF Idx
    <3>2. At(cur, k + 1) # cur /\ At(cur, k + 1) \in Idx
      BY <1>0, <2>0, <3>1, AtInjective, AtLast, AtType
    <3>3. ~empty[At(cur, k + 1)] <=> k + 1 < n
      BY <3>1 DEF WindowInv, Window
    <3>4. k + 1 < n <=> k < n - 1
      BY <1>2, <2>0
    <3> QED BY <1>0, <1>1, <2>1, <3>2, <3>3, <3>4
  <2>3. CASE ~(k + 1 < N)
    <3>1. k + 1 = N /\ ~(k < n - 1)
      BY <1>0, <1>2, <2>0, <2>3
    <3>2. At(cur', k) = cur
      BY <1>0, <2>1, <3>1, AtLast
    <3> QED BY <1>0, <1>1, <3>1, <3>2
  <2> QED BY <2>2, <2>3
<1>5. Window(n - 1)'
  BY <1>4 DEF Window
<1>6. pc' # "update"
  BY <1>1
<1> QED BY <1>2, <1>3, <1>5, <1>6 DEF WindowInv

\* A frame fills the descriptor behind the window.
LEMMA SyncDma ==
  ASSUME SyncInv, DmaFrame, empty[dma], NEW n \in 0..N, WindowInv(n)
  PROVE  n < N /\ n + 1 \in 0..N /\ WindowInv(n + 1)'
<1>0. N \in Nat \ {0} /\ cur \in Idx /\ empty \in [Idx -> BOOLEAN] /\ dma \in Idx
  BY RingAssumption DEF SyncInv, RxType
<1>1. /\ dma = At(cur, n) /\ empty' = [empty EXCEPT ![dma] = FALSE] /\ dma' = At(dma, 1)
      /\ UNCHANGED <<cur, pc, local, dmaOn>>
  BY <1>0, SuccAt DEF DmaFrame, WindowInv
<1>2. n # N
  <2> SUFFICES ASSUME n = N PROVE FALSE
    OBVIOUS
  <2>1. dma = cur /\ At(cur, 0) = cur
    BY <1>0, <1>1, AtLast
  <2>2. 0 \in Idx /\ 0 < n
    BY <1>0 DEF Idx
  <2> QED BY <2>1, <2>2 DEF WindowInv, Window
<1>3. n < N /\ n + 1 \in 0..N /\ n \in Idx /\ n \in 0..(N - 1) /\ n \in Nat
  BY <1>0, <1>2 DEF Idx
<1>4. At(At(cur, n), 1) = At(cur, n + 1)
  BY <1>0, <1>3 DEF At, Idx
<1>5. ASSUME NEW k \in Idx PROVE ~empty'[At(cur, k)] <=> k < n + 1
  <2>a. k \in Nat
    BY <1>0 DEF Idx
  <2>b. At(cur, k) \in Idx
    BY <1>0, IdxInRing, AtType
  <2>0. k \in Nat /\ At(cur, k) \in Idx
    BY <2>a, <2>b
  <2>1. CASE k = n
    BY <1>0, <1>1, <1>3, <2>1
  <2>2. CASE k # n
    <3>1. At(cur, k) # dma
      BY <1>0, <1>1, <1>3, <2>2, AtInjective
    <3>2. ~empty[At(cur, k)] <=> k < n
      BY DEF WindowInv, Window
    <3>3. k < n <=> k < n + 1
      BY <1>3, <2>0, <2>2
    <3> QED BY <1>0, <1>1, <2>0, <3>1, <3>2, <3>3
  <2> QED BY <2>1, <2>2
<1>6. Window(n + 1)'
  BY <1>1, <1>5 DEF Window
<1>7. n + 1 > 0 /\ (pc = "update" => local = cur)
  BY <1>3 DEF WindowInv
<1> QED BY <1>1, <1>3, <1>4, <1>6, <1>7 DEF WindowInv

\* The loop ends at an empty descriptor: nothing is left in the window.
LEMMA SyncExit ==
  ASSUME SyncInv, RecvExit, NEW n \in 0..N, WindowInv(n)
  PROVE  n = 0 /\ WindowInv(n)'
<1>0. N \in Nat \ {0} /\ cur \in Idx /\ 0 \in Idx /\ n \in Nat
  BY RingAssumption, ZeroIdx DEF SyncInv, RxType
<1>1. empty[cur] /\ UNCHANGED <<empty, cur, local>> /\ pc' = "out"
  BY DEF RecvExit, ring
<1>2. n = 0
  <2>1. At(cur, 0) = cur
    BY <1>0, AtLast
  <2>2. ~(0 < n)
    BY <1>0, <1>1, <2>1 DEF WindowInv, Window
  <2> QED BY <1>0, <2>2
<1>3. dmaOn' => dma' = At(cur', n)
  BY <1>0, <1>1, <1>2, AtLast DEF RecvExit, WindowInv, mac
<1>4. Window(n)'
  BY <1>1 DEF WindowInv, Window
<1>5. pc' # "update"
  BY <1>1
<1> QED BY <1>2, <1>3, <1>4, <1>5 DEF WindowInv

\* The other steps leave the window as it is.
LEMMA SyncSame ==
  ASSUME NEW n \in 0..N, WindowInv(n), UNCHANGED <<empty, cur, dma>>,
         dmaOn' => dmaOn,
         pc' = "update" => local' = cur /\ n > 0
  PROVE  WindowInv(n)'
BY DEF WindowInv, Window

LEMMA SyncEmpty ==
  ASSUME cur' = 0, dma' = 0, \A i \in Idx : empty'[i], pc' # "update"
  PROVE  0 \in 0..N /\ WindowInv(0)'
<1>0. 0 \in 0..N /\ 0 \in Idx
  BY RingAssumption, ZeroIdx
<1>1. \A k \in Idx : At(0, k) \in Idx /\ ~(k < 0)
  BY <1>0, IdxInRing, AtType
<1>2. Window(0)'
  BY <1>1 DEF Window
<1>3. At(0, 0) = 0
  BY <1>0, AtLast
<1> QED BY <1>0, <1>2, <1>3 DEF WindowInv


\* Every step keeps the window, moving it only where the ring does.
LEMMA SyncStep ==
  ASSUME Reacts = {}, SyncInv, [Next]_vars
  PROVE  SyncInv'
<1>0. RxType' /\ cur \in Idx /\ dma \in Idx
  BY RxTypeStep DEF SyncInv, RxType
<1> PICK n \in 0..N : WindowInv(n)
  BY DEF SyncInv
<1>1. CASE Start
  <2>1. cur' = 0 /\ dma' = 0 /\ (\A i \in Idx : empty'[i]) /\ pc' = "out"
    BY <1>1 DEF Start, m2s_eth_init
  <2> QED BY <1>0, <2>1, SyncEmpty DEF SyncInv
<1>2. CASE Stop
  <2>1. UNCHANGED <<empty, cur, dma>> /\ ~dmaOn' /\ pc' = "out"
    BY <1>2 DEF Stop, m2s_eth_halt
  <2>2. WindowInv(n)'
    BY <2>1, SyncSame
  <2> QED BY <1>0, <2>1, <2>2 DEF SyncInv
<1>3. CASE RecvFrame
  <2>1. UNCHANGED <<empty, cur, dma, dmaOn, macOn>> /\ local' = cur /\ ~empty[cur] /\ pc = "loop"
    BY <1>3 DEF RecvFrame, mac
  <2>2. n > 0
    <3>1. At(cur, 0) = cur /\ 0 \in Idx
      BY <1>0, AtLast, ZeroIdx
    <3> QED BY <2>1, <3>1 DEF WindowInv, Window
  <2>3. WindowInv(n)'
    BY <2>1, <2>2, SyncSame
  <2> QED BY <1>0, <2>1, <2>3 DEF SyncInv
<1>4. CASE RecvUpdate
  <2>1. pc = "update" /\ macOn' = macOn
    BY <1>4 DEF RecvUpdate, mac
  <2>2. n - 1 \in 0..N /\ WindowInv(n - 1)'
    BY <1>4, SyncUpdate
  <2> QED BY <1>0, <2>1, <2>2 DEF SyncInv
<1>5. CASE RecvExit
  <2>1. pc' = "out" /\ WindowInv(n)'
    BY <1>5, SyncExit DEF RecvExit
  <2> QED BY <1>0, <2>1 DEF SyncInv
<1>6. CASE DmaFrame
  <2>1. macOn' = macOn /\ pc' = pc /\ local' = local /\ cur' = cur
    BY <1>6 DEF DmaFrame
  <2>2. CASE empty[dma]
    <3>1. n + 1 \in 0..N /\ WindowInv(n + 1)'
      BY <1>6, <2>2, SyncDma
    <3> QED BY <1>0, <2>1, <3>1 DEF SyncInv
  <2>3. CASE ~empty[dma]
    <3>1. UNCHANGED <<empty, cur, dma>> /\ ~dmaOn'
      BY <1>6, <2>3 DEF DmaFrame
    <3>2. pc' = "update" => local' = cur /\ n > 0
      BY <2>1 DEF WindowInv
    <3>3. WindowInv(n)'
      BY <3>1, <3>2, SyncSame
    <3> QED BY <1>0, <2>1, <3>3 DEF SyncInv
  <2> QED BY <2>2, <2>3
<1>7. CASE RecvEnter \/ Send \/ TxDma \/ UNCHANGED vars
  <2>1. UNCHANGED <<empty, cur, dma, dmaOn, macOn, local>>
    BY <1>7 DEF RecvEnter, Send, SendEnter, SendOk, SendTimeout, TxDma, TxFetch, TxDone,
                TxStop, vars, ring, mac
  <2>2. (pc' = "update" => pc = "update") /\ (pc' # "out" => pc # "out" \/ macOn)
    BY <1>7 DEF RecvEnter, Send, SendEnter, SendOk, SendTimeout, TxDma, TxFetch, TxDone,
                TxStop, vars
  <2>3. pc' = "update" => local' = cur /\ n > 0
    BY <2>1, <2>2 DEF WindowInv
  <2>4. WindowInv(n)'
    BY <2>1, <2>3, SyncSame
  <2> QED BY <1>0, <2>1, <2>2, <2>4 DEF SyncInv
<1> QED BY <1>1, <1>2, <1>3, <1>4, <1>5, <1>6, <1>7 DEF Next, Recv

\* The window's length is the number of full descriptors.
LEMMA WindowLength ==
  ASSUME RxType, NEW n \in 0..N, Window(n)
  PROVE  IsFiniteSet(Full) /\ Cardinality(Full) = n
<1>0. N \in Nat \ {0} /\ cur \in Idx /\ n \in Nat
  BY RingAssumption DEF RxType
<1> DEFINE f == [k \in 1..n |-> At(cur, k - 1)]
<1>1. ASSUME NEW k \in 1..n PROVE k - 1 \in Idx /\ k - 1 < n
  BY <1>0 DEF Idx
<1>2. ASSUME NEW k \in 1..n PROVE f[k] \in Full
  <2>1. k - 1 \in Idx /\ k - 1 < n
    BY <1>1
  <2>2. At(cur, k - 1) \in Idx
    BY <1>0, <2>1, IdxInRing, AtType
  <2> QED BY <2>1, <2>2 DEF Full, Window
<1>3. f \in [1..n -> Full]
  BY <1>2
<1>4. ASSUME NEW k \in 1..n, NEW l \in 1..n, f[k] = f[l] PROVE k = l
  <2>1. k - 1 \in Idx /\ l - 1 \in Idx
    BY <1>1
  <2>2. k - 1 = l - 1
    BY <1>0, <1>4, <2>1, AtInjective
  <2> QED BY <2>2
<1>5. ASSUME NEW i \in Full PROVE \E k \in 1..n : f[k] = i
  <2>1. i \in Idx /\ ~empty[i]
    BY DEF Full
  <2>2. PICK l \in Idx : At(cur, l) = i
    BY <1>0, <2>1, AtOnto
  <2>3. l < n /\ l \in Nat
    BY <1>0, <2>1, <2>2 DEF Window, Idx
  <2>4. l + 1 \in 1..n /\ (l + 1) - 1 = l
    BY <1>0, <2>3
  <2> QED BY <2>2, <2>4
<1>6. f \in Bijection(1..n, Full)
  <2> HIDE DEF f
  <2>1. f \in Injection(1..n, Full)
    BY <1>3, <1>4 DEF Injection, IsInjective
  <2>2. f \in Surjection(1..n, Full)
    BY <1>3, <1>5 DEF Surjection
  <2> QED BY <2>1, <2>2 DEF Bijection
<1>7. ExistsBijection(1..n, Full)
  BY <1>6 DEF ExistsBijection
<1>8. IsFiniteSet(1..n) /\ Cardinality(1..n) = n
  BY <1>0, FS_Interval
<1> QED BY <1>7, <1>8, FS_Bijection

\* With handlers that leave the device alone, m2s_bd_cur_rx and the DMA's own
\* position never drift apart: between two calls of m2s_eth_recv the full
\* descriptors are exactly the ones from m2s_bd_cur_rx to the DMA, for any ring
\* size, through overruns, restarts of a stopped DMA, and eth_halt and eth_init.
THEOREM RingStaysInSync ==
  ASSUME Reacts = {}
  PROVE  Spec => []RingInSync
<1>1. SyncInv => RingInSync
  <2> SUFFICES ASSUME SyncInv, pc = "out", dmaOn
               PROVE  /\ (cur + Cardinality(Full)) % N = dma
                      /\ \A k \in Idx : ~empty[(cur + k) % N] <=> k < Cardinality(Full)
    BY DEF RingInSync
  <2> PICK n \in 0..N : WindowInv(n)
    BY DEF SyncInv
  <2>1. RxType /\ cur \in Idx
    BY DEF SyncInv, RxType
  <2>2. Cardinality(Full) = n
    BY <2>1, WindowLength DEF WindowInv
  <2>3. (cur + n) % N = dma
    BY <2>1, AtMod DEF WindowInv
  <2>4. \A k \in Idx : (cur + k) % N = At(cur, k)
    BY <2>1, IdxInRing, AtMod
  <2> QED BY <2>2, <2>3, <2>4 DEF WindowInv, Window
<1>2. SyncInv /\ [Next]_vars => SyncInv'
  BY SyncStep
<1> QED BY <1>1, <1>2, SyncInit, PTL DEF Spec

------------------------------------------------------------------------------
(* The ring implements RxQueue.                                             *)

\* The queue of the refinement mapping.
Qbar == IF macOn THEN [k \in 1..Cardinality(Pending) |-> frame[(First + k - 1) % N]]
        ELSE << >>

\* The frames of m descriptors from a on, in a memory of frames.
Frames(mem, a, m) == [k \in 1..m |-> mem[At(a, k - 1)]]

\* What is waiting when n descriptors are full.
Shape(n) == IF pc = "update" THEN Frames(frame, At(cur, 1), n - 1) ELSE Frames(frame, cur, n)

LEMMA FramesMod ==
  ASSUME NEW mem, NEW a \in Idx, NEW m \in 0..N
  PROVE  [k \in 1..m |-> mem[(a + k - 1) % N]] = Frames(mem, a, m)
<1>1. ASSUME NEW k \in 1..m PROVE (a + k - 1) % N = At(a, k - 1)
  <2>1. k - 1 \in 0..N /\ a + k - 1 = a + (k - 1)
    BY RingAssumption DEF Idx
  <2> QED BY <2>1, AtMod
<1> QED BY <1>1 DEF Frames

LEMMA QueueShape == SyncInv /\ macOn => \A n \in 0..N : WindowInv(n) => Qbar = Shape(n)
<1> SUFFICES ASSUME SyncInv, macOn, NEW n \in 0..N, WindowInv(n) PROVE Qbar = Shape(n)
  OBVIOUS
<1>0. N \in Nat \ {0} /\ cur \in Idx /\ RxType /\ n \in Nat
  BY RingAssumption DEF SyncInv, RxType
<1>1. IsFiniteSet(Full) /\ Cardinality(Full) = n
  BY <1>0, WindowLength DEF WindowInv
<1>2. CASE pc = "update"
  <2>1. local = cur /\ n > 0 /\ 0 \in Idx
    BY <1>2, ZeroIdx DEF WindowInv
  <2>2. cur \in Full
    BY <1>0, <2>1, AtLast DEF WindowInv, Window, Full
  <2>3. Cardinality(Pending) = n - 1
    BY <1>1, <1>2, <2>1, <2>2, FS_RemoveElement DEF Pending
  <2>4. First = At(cur, 1) /\ At(cur, 1) \in Idx
    BY <1>0, <1>2, SuccAt, SuccType DEF First
  <2>5. n - 1 \in 0..N
    BY <1>0, <2>1
  <2>6. [k \in 1..(n - 1) |-> frame[(At(cur, 1) + k - 1) % N]] = Frames(frame, At(cur, 1), n - 1)
    BY <2>4, <2>5, FramesMod
  <2> QED BY <1>2, <2>3, <2>4, <2>6 DEF Qbar, Shape
<1>3. CASE pc # "update"
  <2>1. Cardinality(Pending) = n /\ First = cur
    BY <1>1, <1>3 DEF Pending, First
  <2>2. [k \in 1..n |-> frame[(cur + k - 1) % N]] = Frames(frame, cur, n)
    BY <1>0, FramesMod
  <2> QED BY <1>3, <2>1, <2>2 DEF Qbar, Shape
<1> QED BY <1>2, <1>3

LEMMA FramesSeq ==
  ASSUME NEW mem \in [Idx -> Nat], NEW a \in Idx, NEW m \in 0..N
  PROVE  /\ Frames(mem, a, m) \in Seq(Nat) /\ Len(Frames(mem, a, m)) = m
         /\ \A k \in 1..m : Frames(mem, a, m)[k] = mem[At(a, k - 1)]
<1>0. N \in Nat \ {0} /\ m \in Nat
  BY RingAssumption
<1>1. ASSUME NEW k \in 1..m PROVE mem[At(a, k - 1)] \in Nat
  <2>1. k - 1 \in 0..N
    BY <1>0
  <2>2. At(a, k - 1) \in Idx
    BY <2>1, AtType
  <2> QED BY <2>2
<1>2. [k \in 1..m |-> mem[At(a, k - 1)]] \in Seq(Nat)
  BY <1>0, <1>1
<1>3. Len([k \in 1..m |-> mem[At(a, k - 1)]]) = m
  BY <1>0
<1> QED BY <1>2, <1>3 DEF Frames

LEMMA FramesLen ==
  ASSUME NEW mem \in [Idx -> Nat], NEW a \in Idx, NEW m \in 0..N, NEW q, q = Frames(mem, a, m)
  PROVE  Len(q) = m
BY FramesSeq

\* Taking the first frame, and adding one behind the last.
LEMMA FramesTake ==
  ASSUME NEW mem \in [Idx -> Nat], NEW a \in Idx, NEW n \in 1..N
  PROVE  /\ Frames(mem, a, n) # << >>
         /\ Head(Frames(mem, a, n)) = mem[a]
         /\ Tail(Frames(mem, a, n)) = Frames(mem, At(a, 1), n - 1)
<1>0. N \in Nat \ {0} /\ n \in Nat \ {0} /\ n \in 0..N /\ n - 1 \in 0..N /\ 1 \in 0..N
  BY RingAssumption
<1>1. At(a, 1) \in Idx
  BY <1>0, AtType
<1> DEFINE q == Frames(mem, a, n)
           r == Frames(mem, At(a, 1), n - 1)
<1>2. /\ q \in Seq(Nat) /\ Len(q) = n
      /\ \A k \in 1..n : q[k] = mem[At(a, k - 1)]
  BY <1>0, FramesSeq
<1>3. /\ r \in Seq(Nat) /\ Len(r) = n - 1
      /\ \A k \in 1..(n - 1) : r[k] = mem[At(At(a, 1), k - 1)]
  BY <1>0, <1>1, FramesSeq
<1> HIDE DEF q, r
<1>4. q # << >>
  BY <1>0, <1>2
<1>5. 1 \in 1..n /\ 1 - 1 = 0
  BY <1>0
<1>6. q[1] = mem[a]
  BY <1>2, <1>5, AtLast
<1>7. Head(q) = q[1]
  BY <1>2, <1>4
<1>8. /\ Tail(q) \in Seq(Nat) /\ Len(Tail(q)) = n - 1
      /\ \A k \in 1..(n - 1) : Tail(q)[k] = q[k + 1]
  BY <1>0, <1>2, <1>4, HeadTailProperties
<1>9. ASSUME NEW k \in 1..(n - 1) PROVE Tail(q)[k] = r[k]
  <2>1. k + 1 \in 1..n /\ (k + 1) - 1 = (k - 1) + 1 /\ k - 1 \in 0..(N - 1)
    BY <1>0
  <2>2. At(At(a, 1), k - 1) = At(a, (k - 1) + 1)
    BY <2>1, AtSucc
  <2>3. Tail(q)[k] = mem[At(a, (k - 1) + 1)]
    BY <1>2, <1>8, <2>1
  <2> QED BY <1>3, <2>2, <2>3
<1>10. Tail(q) = r
  BY <1>3, <1>8, <1>9, SeqEqual
<1> QED BY <1>4, <1>6, <1>7, <1>10 DEF q, r

Queued(q, f) == Append(q, f)

LEMMA FramesAdd ==
  ASSUME NEW mem \in [Idx -> Nat], NEW a \in Idx, NEW m \in Idx, NEW f \in Nat,
         NEW mm \in [Idx -> Nat], mm[At(a, m)] = f,
         \A i \in Idx : i # At(a, m) => mm[i] = mem[i]
  PROVE  Frames(mm, a, m + 1) = Queued(Frames(mem, a, m), f)
<1>0. N \in Nat \ {0} /\ m \in Nat /\ m \in 0..N /\ m + 1 \in 0..N
  BY RingAssumption DEF Idx
<1>1. At(a, m) \in Idx
  BY IdxInRing, AtType
<1> DEFINE q == Frames(mem, a, m)
           r == Frames(mm, a, m + 1)
<1>2. /\ q \in Seq(Nat) /\ Len(q) = m
      /\ \A k \in 1..m : q[k] = mem[At(a, k - 1)]
  BY <1>0, FramesSeq
<1>3. /\ r \in Seq(Nat) /\ Len(r) = m + 1
      /\ \A k \in 1..(m + 1) : r[k] = mm[At(a, k - 1)]
  BY <1>0, FramesSeq
<1> HIDE DEF q, r
<1>4. /\ Append(q, f) \in Seq(Nat) /\ Len(Append(q, f)) = m + 1
      /\ \A k \in 1..m : Append(q, f)[k] = q[k]
      /\ Append(q, f)[m + 1] = f
  BY <1>2, AppendProperties
<1>5. ASSUME NEW k \in 1..(m + 1) PROVE r[k] = Append(q, f)[k]
  <2>1. CASE k = m + 1
    <3>1. k - 1 = m
      BY <1>0, <2>1
    <3> QED BY <1>1, <1>3, <1>4, <2>1, <3>1
  <2>2. CASE k # m + 1
    <3>1. k \in 1..m /\ k - 1 \in Idx /\ k - 1 # m
      BY <1>0, <2>2 DEF Idx
    <3>2. At(a, k - 1) # At(a, m)
      BY <3>1, AtInjective
    <3>3. At(a, k - 1) \in Idx
      BY <3>1, IdxInRing, AtType
    <3> QED BY <1>2, <1>3, <1>4, <3>1, <3>2, <3>3
  <2> QED BY <2>1, <2>2
<1>6. r = Append(q, f)
  BY <1>3, <1>4, <1>5, SeqEqual
<1> QED BY <1>6 DEF q, r, Queued


\* Steps that move neither the window nor what is in it.
LEMMA QueueSame ==
  ASSUME UNCHANGED <<empty, frame, cur, local, macOn>>,
         pc' = pc \/ (pc # "update" /\ pc' # "update")
  PROVE  Qbar' = Qbar
<1>1. Full' = Full
  BY DEF Full
<1>2. Pending' = Pending /\ First' = First
  BY <1>1 DEF Pending, First, Succ
<1> QED BY <1>2 DEF Qbar

\* Each step of the driver and of the DMA is a step of the queue.
LEMMA QueueStep ==
  ASSUME Reacts = {}, SyncInv, SyncInv', [Next]_vars,
         macOn' => (\A n \in 0..N : WindowInv(n) => Qbar = Shape(n))'
  PROVE  \/ Qbar' = << >> /\ got' = got
         \/ Qbar' = Qbar /\ got' = got
         \/ Qbar # << >> /\ got' = Head(Qbar) /\ Qbar' = Tail(Qbar)
         \/ /\ Len(Qbar) < N /\ got' = got
            /\ \E f \in 1..MaxFrames : Qbar' = Append(Qbar, f)
<1>0. N \in Nat \ {0} /\ cur \in Idx /\ dma \in Idx /\ frame \in [Idx -> Nat] /\ At(cur, 1) \in Idx
  BY RingAssumption, SuccAt, SuccType DEF SyncInv, RxType
<1>a. PICK n \in 0..N : WindowInv(n)
  BY DEF SyncInv
<1>b. macOn => Qbar = Shape(n)
  BY <1>a, QueueShape
<1>c. ASSUME NEW m \in 0..N, WindowInv(m)', macOn' PROVE Qbar' = Shape(m)'
  BY <1>c
<1>1. CASE Start
  <2>1. cur' = 0 /\ dma' = 0 /\ (\A i \in Idx : empty'[i]) /\ pc' = "out" /\ got' = got
    BY <1>1 DEF Start, m2s_eth_init
  <2>2. 0 \in 0..N /\ WindowInv(0)'
    BY <2>1, SyncEmpty
  <2>3. Shape(0)' = << >>
    BY <2>1 DEF Shape, Frames
  <2>4. Qbar' = << >>
    BY <1>c, <2>2, <2>3 DEF Qbar
  <2> QED BY <2>1, <2>4
<1>2. CASE Stop
  BY <1>2 DEF Stop, m2s_eth_halt, Qbar
<1>3. CASE RecvFrame
  <2>1. /\ UNCHANGED <<empty, cur, dma, dmaOn, macOn, frame>> /\ local' = cur /\ ~empty[cur]
        /\ pc = "loop" /\ pc' = "update" /\ got' = frame[cur] /\ macOn
    BY <1>3 DEF RecvFrame, mac, SyncInv
  <2>2. n > 0
    <3>1. At(cur, 0) = cur /\ 0 \in Idx
      BY <1>0, AtLast, ZeroIdx
    <3> QED BY <1>a, <2>1, <3>1 DEF WindowInv, Window
  <2>3. WindowInv(n)'
    BY <1>a, <2>1, <2>2, SyncSame
  <2>4. Qbar = Frames(frame, cur, n) /\ Qbar' = Frames(frame, At(cur, 1), n - 1)
    BY <1>b, <1>c, <2>1, <2>3 DEF Shape
  <2>5. n \in 1..N
    BY <1>0, <2>2
  <2>6. Qbar # << >> /\ Head(Qbar) = frame[cur] /\ Tail(Qbar) = Frames(frame, At(cur, 1), n - 1)
    BY <1>0, <2>4, <2>5, FramesTake
  <2> QED BY <2>1, <2>4, <2>6
<1>4. CASE RecvUpdate
  <2>1. /\ cur' = At(cur, 1) /\ UNCHANGED <<frame, macOn, got>> /\ pc = "update" /\ pc' = "loop"
        /\ macOn
    BY <1>0, <1>4, SuccAt DEF RecvUpdate, mac, SyncInv
  <2>2. n - 1 \in 0..N /\ WindowInv(n - 1)'
    BY <1>4, <1>a, SyncUpdate
  <2>3. Qbar = Frames(frame, At(cur, 1), n - 1)
    BY <1>b, <2>1 DEF Shape
  <2>4. Qbar' = Frames(frame, At(cur, 1), n - 1)
    BY <1>c, <2>1, <2>2 DEF Shape
  <2> QED BY <2>1, <2>3, <2>4
<1>5. CASE DmaFrame /\ empty[dma]
  <2>1. /\ UNCHANGED <<cur, pc, macOn, got>> /\ macOn /\ frame' = [frame EXCEPT ![dma] = arrived + 1]
        /\ dma = At(cur, n)
    BY <1>5, <1>a DEF DmaFrame, WindowInv
  <2>2. n < N /\ n + 1 \in 0..N /\ WindowInv(n + 1)'
    BY <1>5, <1>a, SyncDma
  <2>3. arrived + 1 \in 1..MaxFrames /\ arrived + 1 \in Nat
    BY <1>5, RingAssumption DEF DmaFrame, SyncInv, RxType
  <2>6. PICK f \in Nat : f = arrived + 1
    BY <2>3
  <2>7. /\ frame' \in [Idx -> Nat] /\ frame'[At(cur, n)] = f
        /\ \A i \in Idx : i # At(cur, n) => frame'[i] = frame[i]
    BY <1>0, <2>1, <2>6
  <2>4. CASE pc = "update"
    <3>1. n > 0
      BY <1>a, <2>4 DEF WindowInv
    <3>2. n - 1 \in Idx /\ n - 1 \in 0..(N - 1) /\ (n - 1) + 1 = n /\ n - 1 < N /\ (n + 1) - 1 = n
          /\ n - 1 \in 0..N
      BY <1>0, <2>2, <3>1 DEF Idx
    <3>3. At(At(cur, 1), n - 1) = At(cur, n)
      BY <1>0, <3>2, AtSucc
    <3>4. Qbar = Frames(frame, At(cur, 1), n - 1) /\ Qbar' = Frames(frame', At(cur, 1), n)
      BY <1>b, <1>c, <2>1, <2>2, <2>4, <3>2 DEF Shape
    <3>b. frame'[At(At(cur, 1), n - 1)] = f
          /\ \A i \in Idx : i # At(At(cur, 1), n - 1) => frame'[i] = frame[i]
      BY <2>7, <3>3
    <3>c. Frames(frame', At(cur, 1), (n - 1) + 1)
            = Queued(Frames(frame, At(cur, 1), n - 1), f)
      BY <1>0, <2>7, <3>2, <3>b, FramesAdd
    <3>5. Qbar' = Append(Qbar, f)
      BY <3>2, <3>4, <3>c DEF Queued
    <3>a. Len(Qbar) = n - 1
      BY <1>0, <3>2, <3>4, FramesLen
    <3>6. Len(Qbar) < N
      BY <3>2, <3>a
    <3> QED BY <2>1, <2>3, <2>6, <3>5, <3>6
  <2>5. CASE pc # "update"
    <3>1. n \in Idx
      BY <1>0, <2>2 DEF Idx
    <3>2. Qbar = Frames(frame, cur, n) /\ Qbar' = Frames(frame', cur, n + 1)
      BY <1>b, <1>c, <2>1, <2>2, <2>5 DEF Shape
    <3>c. Frames(frame', cur, n + 1) = Queued(Frames(frame, cur, n), f)
      BY <1>0, <2>7, <3>1, FramesAdd
    <3>3. Qbar' = Append(Qbar, f)
      BY <3>2, <3>c DEF Queued
    <3>a. Len(Qbar) = n
      BY <1>0, <3>2, FramesLen
    <3>4. Len(Qbar) < N
      BY <2>2, <3>a
    <3> QED BY <2>1, <2>3, <2>6, <3>3, <3>4
  <2> QED BY <2>4, <2>5
<1>6. CASE DmaFrame /\ ~empty[dma]
  <2>1. UNCHANGED <<empty, frame, cur, local, macOn, pc, got>>
    BY <1>6 DEF DmaFrame
  <2> QED BY <2>1, QueueSame
<1>7. CASE RecvEnter \/ RecvExit \/ Send \/ TxDma \/ UNCHANGED vars
  <2>1. UNCHANGED <<empty, frame, cur, local, macOn, got>>
    BY <1>7 DEF RecvEnter, RecvExit, Send, SendEnter, SendOk, SendTimeout, TxDma, TxFetch,
                TxDone, TxStop, vars, ring, mac
  <2>2. pc' = pc \/ (pc # "update" /\ pc' # "update")
    BY <1>7 DEF RecvEnter, RecvExit, Send, SendEnter, SendOk, SendTimeout, TxDma, TxFetch,
                TxDone, TxStop, vars
  <2> QED BY <2>1, <2>2, QueueSame
<1> QED BY <1>1, <1>2, <1>3, <1>4, <1>5, <1>6, <1>7 DEF Next, Recv

\* The receive side of the driver is the bounded queue of RxQueue: frames come
\* out of m2s_eth_recv in the order the DMA received them, each once, none
\* appears from nowhere, and only eth_halt and eth_init throw waiting ones away;
\* for any ring size, with handlers that leave the device alone.
THEOREM RingImplementsQueue ==
  ASSUME Reacts = {}
  PROVE  Spec => ImplementsQueue
<1> USE DEF Qbar
<1>1. Init => Queue!Init
  BY DEF Init, Queue!Init, NoFrame, Queue!NoFrame
<1>2. SyncInv /\ SyncInv' /\ [Next]_vars
       /\ (SyncInv /\ macOn => \A n \in 0..N : WindowInv(n) => Qbar = Shape(n))'
      => [Queue!Next]_<<Qbar, got>>
  <2> SUFFICES ASSUME SyncInv, SyncInv', [Next]_vars,
                      (SyncInv /\ macOn => \A n \in 0..N : WindowInv(n) => Qbar = Shape(n))'
               PROVE  [Queue!Next]_<<Qbar, got>>
    OBVIOUS
  <2> HIDE DEF Qbar
  <2>1. \/ Qbar' = << >> /\ got' = got
        \/ Qbar' = Qbar /\ got' = got
        \/ Qbar # << >> /\ got' = Head(Qbar) /\ Qbar' = Tail(Qbar)
        \/ /\ Len(Qbar) < N /\ got' = got
           /\ \E f \in 1..MaxFrames : Qbar' = Append(Qbar, f)
    BY QueueStep
  <2> USE DEF Qbar
  <2> QED BY <2>1 DEF Queue!Next, Queue!Arrive, Queue!Take, Queue!Flush
<1>3. SyncInv /\ [Next]_vars => SyncInv'
  BY SyncStep
<1> QED BY <1>1, <1>2, <1>3, SyncInit, QueueShape, PTL DEF Spec, ImplementsQueue, Queue!Spec
==============================================================================
