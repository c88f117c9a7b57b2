------------------------------- MODULE M2sEth -------------------------------
(***************************************************************************)
(* The SmartFusion2 Ethernet MAC driver (drivers/net/m2s_eth.c):           *)
(* m2s_eth_init, m2s_eth_recv, m2s_eth_send and m2s_eth_halt, against the  *)
(* MAC's DMA engines, which fill the receive ring and empty the one        *)
(* transmit descriptor on their own.                                       *)
(*                                                                         *)
(* m2s_eth_recv hands a frame to NetReceive and touches the ring again     *)
(* when NetReceive returns; a packet handler may call NetStartAgain        *)
(* (eth_halt, eth_init) or eth_halt in between, or send.  Frames are       *)
(* numbered.                                                               *)
(***************************************************************************)
EXTENDS Integers, FiniteSets, Sequences

CONSTANTS
  N,            \* M2S_RX_BD_NUM
  MaxFrames,    \* bound on the frames that arrive
  MaxSends,     \* bound on the packets that are sent
  Reacts        \* what a packet handler may do to the device:
                \* subset of {"restart", "halt"}

ASSUME RingAssumption ==
  N \in Nat \ {0} /\ {MaxFrames, MaxSends} \subseteq Nat /\ Reacts \subseteq {"restart", "halt"}

Idx == 0..(N - 1)
NoFrame == 0

VARIABLES
  empty,        \* [Idx -> BOOLEAN], M2S_BD_EMPTY of cfg_size
  frame,        \* [Idx -> frame in the descriptor's buffer]
  cur,          \* m2s_bd_cur_rx
  local,        \* the variable bd of m2s_eth_recv
  pc,           \* m2s_eth_recv: "out", "loop", or "update" after NetReceive
  macOn,        \* MAC out of reset
  dmaOn,        \* rx_ctrl & M2S_MAC_DMA_CTRL_ENA
  dma,          \* descriptor the DMA fills next
  arrived,      \* frames that have arrived
  got,          \* frame handed to NetReceive last
  txFull,       \* the transmit descriptor is not M2S_BD_EMPTY
  txOn,         \* tx_ctrl & M2S_MAC_DMA_CTRL_ENA
  txFetched,    \* packet the transmit DMA has read from memory
  txWait,       \* m2s_eth_send waits for the descriptor
  NetTxPacket,  \* packet in the one buffer packets are built in
  sent,         \* packet that went out last
  sendRv        \* result of the last m2s_eth_send

ring == <<empty, frame, cur, local>>
mac  == <<macOn, dmaOn, dma>>
tx   == <<txFull, txOn, txFetched>>
send == <<txWait, NetTxPacket, sendRv>>
txVars == <<tx, send, sent>>
vars == <<ring, pc, mac, arrived, got, txVars>>

TypeOK ==
  /\ empty \in [Idx -> BOOLEAN] /\ frame \in [Idx -> Nat]
  /\ cur \in Idx /\ local \in Idx
  /\ pc \in {"out", "loop", "update"}
  /\ macOn \in BOOLEAN /\ dmaOn \in BOOLEAN /\ dma \in Idx
  /\ arrived \in Nat /\ got \in Nat
  /\ {txFull, txOn, txWait} \subseteq BOOLEAN
  /\ {txFetched, NetTxPacket, sent} \subseteq Nat
  /\ sendRv \in {"none", "ok", "EINVAL", "EBUSY", "ETIMEDOUT"}

Init ==
  /\ empty = [i \in Idx |-> TRUE] /\ frame = [i \in Idx |-> NoFrame]
  /\ cur = 0 /\ local = 0 /\ pc = "out"
  /\ macOn = FALSE /\ dmaOn = FALSE /\ dma = 0
  /\ arrived = 0 /\ got = NoFrame
  /\ txFull = FALSE /\ txOn = FALSE /\ txFetched = NoFrame /\ txWait = FALSE
  /\ NetTxPacket = NoFrame /\ sent = NoFrame /\ sendRv = "none"

\* Mutant: the index does not wrap.
SuccMutant(i) == i + 1

Succ(i) == (i + 1) % N

\* m2s_eth_init: descriptors emptied, indices reset, DMA started at the first;
\* when the FIFOs or the PHY do not come up it ends in m2s_eth_halt.
m2s_eth_init ==
  /\ empty' = [i \in Idx |-> TRUE] /\ cur' = 0 /\ dma' = 0
  /\ \E ok \in BOOLEAN : macOn' = ok /\ dmaOn' = ok
  /\ txFull' = FALSE /\ txOn' = FALSE /\ txFetched' = NoFrame

\* m2s_eth_halt: MAC in reset; cfg_size of the descriptors stays as it is.
m2s_eth_halt ==
  /\ macOn' = FALSE /\ dmaOn' = FALSE /\ txOn' = FALSE /\ txFetched' = NoFrame
  /\ UNCHANGED <<empty, cur, dma, txFull>>

\* NetLoop, outside m2s_eth_recv: eth_halt and eth_init at its start and when a
\* timeout starts it again, eth_halt at its end.
Start == /\ pc = "out" /\ ~txWait /\ m2s_eth_init
         /\ UNCHANGED <<frame, local, pc, arrived, got, send, sent>>

Stop == /\ pc = "out" /\ ~txWait /\ macOn /\ m2s_eth_halt
        /\ UNCHANGED <<frame, local, pc, arrived, got, send, sent>>

\* Mutant: nothing is done while the DMA is stopped.
RecvEnterMutant ==
  /\ pc = "out" /\ ~txWait /\ macOn /\ dmaOn
  /\ pc' = "loop"
  /\ UNCHANGED <<ring, mac, arrived, got, txVars>>

\* eth_rx is called only between Start and Stop.
RecvEnter ==
  /\ pc = "out" /\ ~txWait /\ macOn
  /\ pc' = "loop"
  /\ UNCHANGED <<ring, mac, arrived, got, txVars>>

\* One frame is passed to NetReceive, whose handler may react.
RecvFrame ==
  /\ pc = "loop" /\ ~empty[cur]
  /\ local' = cur /\ pc' = "update"
  /\ got' = frame[cur]
  /\ \/ UNCHANGED <<empty, cur, mac, tx>>
     \/ "restart" \in Reacts /\ m2s_eth_init
     \/ "halt" \in Reacts /\ m2s_eth_halt
  /\ UNCHANGED <<frame, arrived, send, sent>>

\* Mutant: the descriptor is not given back.
RecvUpdateMutant ==
  /\ pc = "update" /\ ~txWait
  /\ cur' = Succ(cur)
  /\ pc' = "loop"
  /\ UNCHANGED <<empty, frame, local, mac, arrived, got, txVars>>

\* The descriptor is given back and the index moves on.
RecvUpdate ==
  /\ pc = "update" /\ ~txWait
  /\ empty' = [empty EXCEPT ![local] = TRUE]
  /\ cur' = Succ(cur)
  /\ pc' = "loop"
  /\ UNCHANGED <<frame, local, mac, arrived, got, txVars>>

\* Mutant: a stopped DMA is restarted at the first descriptor.
RecvExitMutant ==
  /\ pc = "loop" /\ empty[cur]
  /\ pc' = "out"
  /\ IF dmaOn THEN UNCHANGED mac
     ELSE dma' = 0 /\ dmaOn' = TRUE /\ UNCHANGED macOn
  /\ UNCHANGED <<ring, arrived, got, txVars>>

\* The loop ends at a descriptor the DMA owns; a stopped DMA is restarted there.
RecvExit ==
  /\ pc = "loop" /\ empty[cur]
  /\ pc' = "out"
  /\ IF dmaOn THEN UNCHANGED mac
     ELSE dma' = cur /\ dmaOn' = TRUE /\ UNCHANGED macOn
  /\ UNCHANGED <<ring, arrived, got, txVars>>

\* The DMA engine (external): it fills the next descriptor, or stops when that
\* one has not been given back.
DmaFrame ==
  /\ macOn /\ dmaOn /\ arrived < MaxFrames
  /\ arrived' = arrived + 1
  /\ IF empty[dma]
     THEN /\ empty' = [empty EXCEPT ![dma] = FALSE]
          /\ frame' = [frame EXCEPT ![dma] = arrived + 1]
          /\ dma' = Succ(dma) /\ UNCHANGED dmaOn
     ELSE dmaOn' = FALSE /\ UNCHANGED <<empty, frame, dma>>
  /\ UNCHANGED <<cur, local, pc, macOn, got, txVars>>

\* Where a packet is sent: by NetLoop's timers, or by a handler inside
\* m2s_eth_recv.  The callers look at no result and build the next packet in
\* the same buffer.
MaySend == pc \in {"out", "update"} /\ macOn /\ ~txWait /\ NetTxPacket < MaxSends

\* Mutant: the DMA may still be at work.
SendEnterMutant ==
  /\ MaySend
  /\ NetTxPacket' = NetTxPacket + 1
  /\ txFull' = TRUE /\ txOn' = TRUE /\ txWait' = TRUE
  /\ UNCHANGED <<ring, pc, mac, arrived, got, txFetched, sent, sendRv>>

\* m2s_eth_send of a new packet: refused when its length is bad, which may be
\* so of any packet, and while the DMA is on.
SendEnter ==
  /\ MaySend
  /\ NetTxPacket' = NetTxPacket + 1
  /\ \/ sendRv' = "EINVAL" /\ UNCHANGED <<txFull, txOn, txWait>>
     \/ txOn /\ sendRv' = "EBUSY" /\ UNCHANGED <<txFull, txOn, txWait>>
     \/ ~txOn /\ txFull' = TRUE /\ txOn' = TRUE /\ txWait' = TRUE /\ UNCHANGED sendRv
  /\ UNCHANGED <<ring, pc, mac, arrived, got, txFetched, sent>>

SendOk ==
  /\ txWait /\ ~txFull
  /\ txWait' = FALSE /\ sendRv' = "ok"
  /\ UNCHANGED <<ring, pc, mac, arrived, got, tx, NetTxPacket, sent>>

\* The last tick decides, also when the descriptor has become empty by then.
SendTimeout ==
  /\ txWait
  /\ txWait' = FALSE /\ sendRv' = "ETIMEDOUT"
  /\ UNCHANGED <<ring, pc, mac, arrived, got, tx, NetTxPacket, sent>>

\* The transmit DMA (external): it reads the packet, sends it and gives the
\* descriptor back, and stops when it finds the next one, the same, empty.
TxFetch ==
  /\ macOn /\ txOn /\ txFull /\ txFetched = NoFrame
  /\ txFetched' = NetTxPacket
  /\ UNCHANGED <<ring, pc, mac, arrived, got, txFull, txOn, send, sent>>

TxDone ==
  /\ txFetched # NoFrame
  /\ sent' = txFetched /\ txFetched' = NoFrame /\ txFull' = FALSE
  /\ UNCHANGED <<ring, pc, mac, arrived, got, txOn, send>>

TxStop ==
  /\ txOn /\ ~txFull
  /\ txOn' = FALSE
  /\ UNCHANGED <<ring, pc, mac, arrived, got, txFull, txFetched, send, sent>>

Send == SendEnter \/ SendOk \/ SendTimeout
TxDma == TxFetch \/ TxDone \/ TxStop

Recv == RecvEnter \/ RecvFrame \/ RecvUpdate \/ RecvExit

Next == Start \/ Stop \/ Recv \/ DmaFrame \/ Send \/ TxDma

Spec == Init /\ [][Next]_vars

\* NetLoop polls for ever, and m2s_eth_send waits for a bounded time.
FairSpec == Spec /\ WF_vars(Recv) /\ WF_vars(SendOk \/ SendTimeout)

------------------------------------------------------------------------------
(* Properties.                                                              *)

Full == {i \in Idx : ~empty[i]}

\* The descriptors still to be handed over, in ring order from the first.
First == IF pc = "update" THEN Succ(cur) ELSE cur
Pending == IF pc = "update" THEN Full \ {local} ELSE Full

\* m2s_bd_cur_rx is the descriptor to process next: between two calls of
\* m2s_eth_recv the full descriptors are the ones from m2s_bd_cur_rx up to,
\* and not including, the one the DMA fills next.
RingInSync ==
  pc = "out" /\ dmaOn
    => /\ (cur + Cardinality(Full)) % N = dma
       /\ \A k \in Idx : ~empty[(cur + k) % N] <=> k < Cardinality(Full)

\* The ring is a queue: frames come out in the order they arrived, once each.
Queue == INSTANCE RxQueue WITH
  Capacity <- N, Frame <- 1..MaxFrames,
  queue <- IF macOn THEN [k \in 1..Cardinality(Pending) |-> frame[(First + k - 1) % N]]
           ELSE << >>,
  got <- got

ImplementsQueue == Queue!Spec

\* No frame is handed over twice: once m2s_eth_recv has passed a frame to
\* NetReceive and given its descriptor back, no full descriptor holds it,
\* whatever the handler did to the device in between.
HandedOnce == pc # "update" /\ got # NoFrame => \A i \in Full : frame[i] # got

\* m2s_eth_send returns 0 only for the packet it was given: after any sequence of
\* packets given up or refused, "sent" never comes from the end of an earlier
\* transmission.
SendOkMeansSent == sendRv = "ok" /\ ~txWait => sent = NetTxPacket

\* A frame in the ring is handed over, or thrown away by eth_halt or eth_init:
\* polling never leaves it there.
FrameNotStuck ==
  \A f \in 1..MaxFrames :
    (\E i \in Full : frame[i] = f) ~> (~macOn \/ \A i \in Full : frame[i] # f)
==============================================================================
