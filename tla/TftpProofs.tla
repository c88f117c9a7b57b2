----------------------------- MODULE TftpProofs -----------------------------
(***************************************************************************)
(* Proofs about Tftp: for any file, block sizes, number of tries and       *)
(* transfers, and a network that loses, delays, reorders and duplicates.   *)
(*                                                                         *)
(* The first part ties every packet to the transfer it belongs to and the  *)
(* client to one transfer per try (SameTransfer).  The second, for files   *)
(* whose block numbers do not wrap, follows the bytes: what is             *)
(* acknowledged is in memory (AckMeansStored), and so the image of a       *)
(* successful download is the file (ImageExact).                           *)
(***************************************************************************)
EXTENDS Tftp, FiniteSetTheorems, TLAPS

------------------------------------------------------------------------------
(* The invariant: control.                                                  *)

Types ==
  /\ pc \in {"idle", "rx", "switch"}
  /\ netState \in {"CONTINUE", "RESTART", "SUCCESS", "FAIL"}
  /\ result \in {"none", "ok", "failed"}
  /\ filesize \in Nat /\ tryCount \in Nat
  /\ handler \in {"none", "tftp", "again"} /\ timer \in {"none", "tftp", "again"}
  /\ arpTry \in 0..ArpMax /\ arpWait.op \in {"none", "RRQ", "ACK"}
  /\ tstate \in {"RRQ", "OACK", "DATA"} /\ serverPort \in 0..MaxTid
  /\ block \in 0..(SeqSize - 1) /\ lastBlock \in 0..(SeqSize - 1)
  /\ wrapOffset \in Nat /\ blkSize \in {BlkDef, BlkOpt}
  /\ timeouts \in 0..(TimeoutMax + 1)
  /\ lost \in 0..MaxLoss

MemType == DOMAIN mem \subseteq Nat /\ xferSize \in Nat

\* handler and timer go together; a try that is over waits with
\* startAgainHandler; nothing is under way before the first try.
Control ==
  /\ pc = "idle" /\ result = "none" => handler = "none"
  /\ pc # "idle" => result = "none"
  /\ handler = "none" => net = {} /\ DOMAIN srv = {} /\ arpWait = None /\ tryCount = 0
  /\ timer = "tftp" => handler = "tftp"
  /\ timer = "again" => handler = "again"
  /\ netState = "RESTART" => handler = "again"
  /\ timeouts = TimeoutMax + 1 => handler = "again" \/ netState = "FAIL"

------------------------------------------------------------------------------
(* The invariant: packets and transfers.                                    *)

\* The port of a try that has been made, and is not to come.
OldPort(x, try, h) == x \in Nat /\ x <= try /\ (h = "again" => x < try)

Transfer(tr, try, h) ==
  /\ tr \in [port : Nat, cur : Nat, blk : {BlkDef, BlkOpt}] /\ OldPort(tr.port, try, h)
  /\ tr.cur > 0 => (tr.cur - 1) * tr.blk <= FileLen

Transfers ==
  /\ \E n \in Nat : DOMAIN srv = 1..n /\ 1..n \subseteq Tid
  /\ \A t \in DOMAIN srv : Transfer(srv[t], tryCount, handler)

\* Packet p carries block k of a transfer with block size b.
Carries(p, k, b) ==
  /\ p.num = Seq16(k) /\ p.off = (k - 1) * b
  /\ p.len = IF p.off + b <= FileLen THEN b ELSE FileLen - p.off

\* Every packet is of a transfer the server opened, for the port it was opened
\* for, and a block is one the server has reached.
Packet(p, s, try, h) ==
  /\ p.op \in {"none", "RRQ", "ACK", "OACK", "ERROR", "DATA", "ARP_REQUEST", "ARP_REPLY"}
  /\ p.op \in {"RRQ", "ERROR"} => OldPort(p.port, try, h)
  /\ p.op \in {"ACK", "OACK", "DATA"} => p.tid \in DOMAIN s /\ p.port = s[p.tid].port
  /\ p.op = "ACK" => p.num \in 0..(SeqSize - 1)
  /\ p.op = "OACK" => p.blk = s[p.tid].blk
  /\ p.op = "DATA" => \E k \in 1..s[p.tid].cur : Carries(p, k, s[p.tid].blk)

Packets ==
  /\ Packet(arpWait, srv, tryCount, handler)
  /\ \A p \in net : Packet(p, srv, tryCount, handler)

------------------------------------------------------------------------------
(* The invariant: one transfer per try.                                     *)

NoAck(p, try) == p.op = "ACK" => p.port # try

\* Before the first answer the client has acknowledged nothing in this try, so
\* no transfer with the negotiated block size has sent data.
Request ==
  handler = "tftp" /\ tstate = "RRQ"
    => /\ blkSize = BlkDef /\ block = 0
       /\ NoAck(arpWait, tryCount) /\ \A p \in net : NoAck(p, tryCount)
       /\ \A t \in DOMAIN srv : srv[t].port = tryCount /\ srv[t].cur > 0 => srv[t].blk = BlkDef

Session ==
  handler = "tftp" /\ tstate # "RRQ"
    => /\ serverPort \in DOMAIN srv
       /\ srv[serverPort].port = tryCount /\ srv[serverPort].blk = blkSize

TftpInv == Types /\ MemType /\ Control /\ Transfers /\ Packets /\ Request /\ Session

------------------------------------------------------------------------------
(* The invariant: bytes.                                                    *)

\* No block number of the file wraps, with either block size.
NoWrap == (SeqSize - 1) * BlkDef > FileLen /\ (SeqSize - 1) * BlkOpt > FileLen

\* The first x units of the file are in memory.
Stored(x, m) == \A u \in Nat : u < x /\ u < FileLen => u \in DOMAIN m

Memory == (\A u \in DOMAIN mem : mem[u] = u) /\ wrapOffset = 0 /\ xferSize <= FileLen

AckStored(p, s, m) == p.op = "ACK" => Stored(p.num * s[p.tid].blk, m)

Sent == \A t \in DOMAIN srv : Stored((srv[t].cur - 1) * srv[t].blk, mem)
Acks == AckStored(arpWait, srv, mem) /\ \A p \in net : AckStored(p, srv, mem)

Client ==
  handler = "tftp" /\ tstate # "RRQ" /\ netState # "FAIL"
    => Stored(block * blkSize, mem) /\ (tstate = "DATA" => lastBlock = block)

Ended ==
  /\ netState = "SUCCESS" => xferSize = FileLen /\ Stored(FileLen, mem)
  /\ result = "none" => filesize = 0
  /\ result = "ok" => filesize = FileLen /\ Stored(FileLen, mem)

ByteInv == Memory /\ Sent /\ Acks /\ Client /\ Ended


------------------------------------------------------------------------------
(* What the operators of the model do.                                      *)

LEMMA Constants ==
  /\ FileLen \in Nat /\ BlkDef \in Nat \ {0} /\ BlkOpt \in Nat \ {0}
  /\ SeqSize \in Nat \ {0, 1} /\ TimeoutMax \in Nat /\ ArpMax \in Nat \ {0, 1}
  /\ MaxTid \in Nat /\ MaxLoss \in Nat /\ NetRetry \in Nat
BY TftpAssumption

LEMMA SeqRange == ASSUME NEW k \in Int PROVE Seq16(k) \in 0..(SeqSize - 1)
BY Constants DEF Seq16

LEMMA StartAgainEffect ==
  ASSUME NetStartAgain
  PROVE  \/ netState' = "FAIL" /\ UNCHANGED <<tryCount, handler, timer>>
         \/ /\ tryCount' = tryCount + 1 /\ handler' = "again" /\ timer' = "again"
            /\ netState' = netState
BY DEF NetStartAgain

LEMMA SendEffect ==
  ASSUME NEW pkt, NEW known, NEW inNet, NetSendUDPPacket(pkt, known, inNet)
  PROVE  /\ \A p \in net' : p \in inNet \/ p = pkt \/ p = ArpReq
         /\ UNCHANGED <<arpWait, arpTry>> \/ (arpWait' = pkt /\ arpTry' = 1)
BY DEF NetSendUDPPacket

LEMMA TakingEffect == ASSUME NEW q PROVE \A p \in AfterTaking(q) : p \in net
BY DEF AfterTaking

\* What the invariant says of a packet to the client.
LEMMA PacketFacts ==
  ASSUME TftpInv, NEW p \in net, p.op \in ToClient
  PROVE  /\ p.op # "ERROR" => p.tid \in DOMAIN srv /\ p.tid \in 0..MaxTid /\ p.port = srv[p.tid].port
         /\ p.op = "OACK" => p.blk = srv[p.tid].blk /\ p.blk \in {BlkDef, BlkOpt}
         /\ p.op = "DATA" => p.num \in 0..(SeqSize - 1)
<1>1. Packet(p, srv, tryCount, handler) /\ Transfers
  BY DEF TftpInv, Packets
<1>2. p.op # "ERROR" => p.tid \in DOMAIN srv /\ p.port = srv[p.tid].port
  BY <1>1 DEF Packet, ToClient
<1>3. DOMAIN srv \subseteq 0..MaxTid
  BY <1>1, Constants DEF Transfers, Tid
<1>4. p.op = "OACK" => p.blk = srv[p.tid].blk /\ p.blk \in {BlkDef, BlkOpt}
  BY <1>1, <1>2 DEF Packet, Transfers, Transfer
<1>5. p.op = "DATA" => p.num \in 0..(SeqSize - 1)
  <2> SUFFICES ASSUME p.op = "DATA" PROVE p.num \in 0..(SeqSize - 1)
    OBVIOUS
  <2>1. PICK k \in 1..srv[p.tid].cur : Carries(p, k, srv[p.tid].blk)
    BY <1>1 DEF Packet
  <2>2. k \in Int
    OBVIOUS
  <2> QED BY <2>1, <2>2, SeqRange DEF Carries
<1> QED BY <1>2, <1>3, <1>4, <1>5

LEMMA StartEffect ==
  ASSUME NEW try, TftpStart(try)
  PROVE  /\ handler' = "tftp" /\ timer' = "tftp" /\ serverPort' = 0 /\ timeouts' = 0
         /\ tstate' = "RRQ" /\ block' = 0 /\ ether' = FALSE /\ blkSize' = BlkDef
         /\ arpWait' = RRQ(try) /\ arpTry' = 1 /\ UNCHANGED <<lastBlock, wrapOffset>>
         /\ xferSize' = 0 /\ \A p \in net' : p \in net \/ p = ArpReq
BY DEF TftpStart, NetSendUDPPacket

------------------------------------------------------------------------------
(* Types.                                                                   *)

LEMMA TypesInit == Init => Types
BY Constants DEF Init, Types, None

LEMMA TypesClient ==
  ASSUME TftpInv, ClientStep \/ Abort
  PROVE  Types'
<1> USE DEF Types
<1>0. Types /\ Control
  BY DEF TftpInv
<1>1. CASE NetLoop \/ Restart
  <2>1. PICK try : TftpStart(try)
    BY <1>1 DEF NetLoop, Restart
  <2>a. /\ handler' = "tftp" /\ timer' = "tftp" /\ serverPort' = 0 /\ timeouts' = 0
        /\ tstate' = "RRQ" /\ block' = 0 /\ blkSize' = BlkDef
        /\ arpWait' = RRQ(try) /\ arpTry' = 1 /\ UNCHANGED <<lastBlock, wrapOffset>>
    BY <2>1, StartEffect
  <2>2. /\ handler' = "tftp" /\ timer' = "tftp" /\ serverPort' = 0 /\ timeouts' = 0
        /\ tstate' = "RRQ" /\ block' = 0 /\ blkSize' = BlkDef
        /\ arpWait'.op = "RRQ" /\ arpTry' = 1 /\ UNCHANGED <<lastBlock, wrapOffset>>
    BY <2>a DEF RRQ
  <2>3. /\ pc' = "rx" /\ netState' = "CONTINUE" /\ UNCHANGED <<result, filesize, lost>>
        /\ tryCount' \in Nat
    BY <1>0, <1>1 DEF NetLoop, Restart, srvVars
  <2> QED BY <1>0, <2>2, <2>3, Constants
<1>2. CASE NetLoopNoLink \/ Fail \/ Abort
  BY <1>0, <1>2 DEF NetLoopNoLink, Fail, Abort, ctlVars, arpVars, tftpVars, srvVars
<1>3. CASE Succeed
  BY <1>0, <1>3 DEF TftpInv, MemType, Succeed, ctlVars, arpVars, tftpVars, srvVars
<1>4. CASE ArpTimeoutCheck
  BY <1>0, <1>4, Constants DEF ArpTimeoutCheck, NetStartAgain, AfterTimer, ctlVars, tftpVars, srvVars
<1>5. CASE TftpTimeout
  <2>1. Elapsed /\ timer = "tftp" /\ timeouts' = timeouts + 1
    BY <1>5 DEF TftpTimeout
  <2>2. timeouts # TimeoutMax + 1
    BY <1>0, <2>1 DEF Control, Elapsed
  <2>3. timeouts' \in 0..(TimeoutMax + 1)
    BY <1>0, <2>1, <2>2, Constants
  <2>4. arpTry' \in 0..ArpMax /\ arpWait'.op \in {"none", "RRQ", "ACK"}
    BY <1>0, <1>5, Constants DEF TftpTimeout, NetSendUDPPacket, TftpPacket, RRQ, ACK
  <2>5. UNCHANGED <<result, filesize, tftpVars, lost>> /\ pc' \in {"idle", "rx", "switch"}
    BY <1>5 DEF TftpTimeout, AfterTimer, srvVars
  <2>6. /\ netState' \in {"CONTINUE", "RESTART", "SUCCESS", "FAIL"} /\ tryCount' \in Nat
        /\ handler' \in {"none", "tftp", "again"} /\ timer' \in {"none", "tftp", "again"}
    BY <1>0, <1>5 DEF TftpTimeout, NetStartAgain, ctlVars
  <2> QED BY <1>0, <2>3, <2>4, <2>5, <2>6 DEF tftpVars
<1>6. CASE startAgainTimeout
  BY <1>0, <1>6 DEF startAgainTimeout, AfterTimer, arpVars, tftpVars, srvVars
<1> QED BY <1>1, <1>2, <1>3, <1>4, <1>5, <1>6 DEF ClientStep

LEMMA TypesReceive ==
  ASSUME TftpInv, ReceivePacket
  PROVE  Types'
<1> USE DEF Types
<1>0. Types
  BY DEF TftpInv
<1>1. CASE ReceiveArpReply
  BY <1>0, <1>1 DEF ReceiveArpReply, loopVars, ctlVars, tftpVars, srvVars, None
<1>2. ASSUME NEW p \in net, ReceiveIgnored(p) PROVE Types'
  BY <1>0, <1>2 DEF ReceiveIgnored, loopVars, ctlVars, arpVars, tftpVars, srvVars
<1>3. ASSUME NEW p \in net, ReceiveOack(p) PROVE Types'
  <2>1. p.tid \in 0..MaxTid /\ p.blk \in {BlkDef, BlkOpt}
    BY <1>3, PacketFacts DEF ReceiveOack, ToClient
  <2>2. arpTry' \in 0..ArpMax /\ arpWait'.op \in {"none", "RRQ", "ACK"}
    BY <1>0, <1>3, Constants DEF ReceiveOack, NetSendUDPPacket, TftpPacket, RRQ, ACK
  <2> QED BY <1>0, <1>3, <2>1, <2>2 DEF ReceiveOack, loopVars, ctlVars, srvVars
<1>4. ASSUME NEW p \in net, ReceiveError(p) PROVE Types'
  BY <1>0, <1>4 DEF ReceiveError, NetStartAgain, ctlVars, arpVars, tftpVars, srvVars
<1>5. ASSUME NEW p \in net, ReceiveDataBadFirst(p) PROVE Types'
  <2>1. p.tid \in 0..MaxTid /\ p.num \in 0..(SeqSize - 1)
    BY <1>5, PacketFacts DEF ReceiveDataBadFirst, ToClient
  <2> QED BY <1>0, <1>5, <2>1, Constants DEF ReceiveDataBadFirst, NetStartAgain, arpVars, srvVars
<1>6. ASSUME NEW p \in net, ReceiveDataAgain(p) PROVE Types'
  <2>1. p.num \in 0..(SeqSize - 1)
    BY <1>6, PacketFacts DEF ReceiveDataAgain, ToClient
  <2>2. Wrapped(p) \in Nat
    BY <1>0, Constants DEF Wrapped
  <2> QED BY <1>0, <1>6, <2>1, <2>2 DEF ReceiveDataAgain, loopVars, ctlVars, arpVars, srvVars
<1>7. ASSUME NEW p \in net, ReceiveData(p) PROVE Types'
  <2>1. p.tid \in 0..MaxTid /\ p.num \in 0..(SeqSize - 1)
    BY <1>7, PacketFacts DEF ReceiveData, ToClient
  <2>2. Wrapped(p) \in Nat
    BY <1>0, Constants DEF Wrapped
  <2>3. arpTry' \in 0..ArpMax /\ arpWait'.op \in {"none", "RRQ", "ACK"}
    BY <1>0, <1>7, Constants DEF ReceiveData, NetSendUDPPacket, TftpPacket, RRQ, ACK
  <2> QED BY <1>0, <1>7, <2>1, <2>2, <2>3 DEF ReceiveData, srvVars
<1> QED BY <1>1, <1>2, <1>3, <1>4, <1>5, <1>6, <1>7 DEF ReceivePacket

LEMMA TypesOthers ==
  ASSUME TftpInv, ServerStep \/ (\E p \in net : LosePacket(p)) \/ UNCHANGED vars
  PROVE  Types'
<1>0. Types
  BY DEF TftpInv
<1>1. UNCHANGED clientVars
  BY DEF ServerStep, ServerArp, ServerRrq, ServerAck, LosePacket, clientVars, vars
<1>2. lost' \in 0..MaxLoss
  <2>1. lost' = lost \/ (lost' = lost + 1 /\ lost < MaxLoss)
    BY DEF ServerStep, ServerArp, ServerRrq, ServerAck, LosePacket, vars, srvVars
  <2> QED BY <1>0, <2>1, Constants DEF Types
<1> QED BY <1>0, <1>1, <1>2 DEF Types, clientVars, loopVars, ctlVars, arpVars, tftpVars


LEMMA DataInt ==
  ASSUME TftpInv, NEW p \in net, p.op = "DATA"
  PROVE  p.len \in Int /\ p.off \in Int
<1>1. Packet(p, srv, tryCount, handler) /\ Transfers
  BY DEF TftpInv, Packets
<1>2. p.tid \in DOMAIN srv
  BY <1>1 DEF Packet
<1>3. PICK k \in 1..srv[p.tid].cur : Carries(p, k, srv[p.tid].blk)
  BY <1>1 DEF Packet
<1>4. srv[p.tid].blk \in Nat
  BY <1>1, <1>2, Constants DEF Transfers, Transfer
<1>5. p.off \in Int
  BY <1>3, <1>4 DEF Carries
<1> QED BY <1>3, <1>4, <1>5, Constants DEF Carries

\* store_block writes at or above load_addr, also for block 0 after a wrap.
LEMMA StorePlace ==
  ASSUME TftpInv, NEW p \in net, ReceiveData(p)
  PROVE  (p.num - 1) * blkSize + wrapOffset' \in Nat
<1>1. p.num \in Nat /\ blkSize \in Nat /\ wrapOffset \in Nat
  BY PacketFacts, Constants DEF ReceiveData, ToClient, TftpInv, Types
<1>2. CASE FirstBlock
  <2>1. p.num = 1 /\ wrapOffset' = 0
    BY <1>2 DEF ReceiveData
  <2> QED BY <1>1, <2>1
<1>3. CASE ~FirstBlock /\ p.num = 0
  <2>1. wrapOffset' = wrapOffset + blkSize * SeqSize
    BY <1>3 DEF ReceiveData, Wrapped
  <2>2. PICK s \in Nat : SeqSize = s + 1
    BY Constants
  <2>3. blkSize * SeqSize = blkSize * s + blkSize /\ blkSize * s \in Nat
    BY <1>1, <2>2
  <2>4. (p.num - 1) * blkSize = 0 - blkSize
    BY <1>1, <1>3
  <2> HIDE <2>2
  <2> QED BY <1>1, <2>1, <2>3, <2>4
<1>4. CASE ~FirstBlock /\ p.num # 0
  <2>1. wrapOffset' = wrapOffset
    BY <1>4 DEF ReceiveData, Wrapped
  <2>2. p.num - 1 \in Nat
    BY <1>1, <1>4
  <2>3. (p.num - 1) * blkSize \in Nat
    BY <1>1, <2>2
  <2> QED BY <1>1, <2>1, <2>3
<1> QED BY <1>2, <1>3, <1>4

LEMMA MemTypeStep == TftpInv /\ [Next]_vars => MemType'
<1> SUFFICES ASSUME TftpInv, [Next]_vars PROVE MemType'
  OBVIOUS
<1>0. MemType
  BY DEF TftpInv
<1>1. ASSUME NEW p \in net, ReceiveData(p) PROVE MemType'
  <2> DEFINE at == (p.num - 1) * blkSize + wrapOffset'
  <2>1. at \in Nat
    BY <1>1, StorePlace
  <2>2. p.len \in Int
    BY <1>1, DataInt DEF ReceiveData
  <2>3. /\ mem' = [u \in DOMAIN mem \cup at..(at + p.len - 1) |->
                     IF u \in at..(at + p.len - 1) THEN p.off + (u - at) ELSE mem[u]]
        /\ xferSize' = IF xferSize < at + p.len THEN at + p.len ELSE xferSize
    BY <1>1 DEF ReceiveData, store_block
  <2> HIDE DEF at
  <2>4. DOMAIN mem' = DOMAIN mem \cup at..(at + p.len - 1)
    BY <2>3
  <2>5. at..(at + p.len - 1) \subseteq Nat
    BY <2>1, <2>2
  <2>6. xferSize' \in Nat
    BY <1>0, <2>1, <2>2, <2>3 DEF MemType
  <2> QED BY <1>0, <2>4, <2>5, <2>6 DEF MemType
<1>2. CASE NetLoop \/ Restart
  <2>1. xferSize' = 0 /\ mem' = mem
    BY <1>2 DEF NetLoop, Restart, TftpStart
  <2> QED BY <1>0, <2>1 DEF MemType
<1>3. CASE UNCHANGED dataVars
  BY <1>0, <1>3 DEF MemType, dataVars
<1>4. ClientStep \/ Abort => NetLoop \/ Restart \/ UNCHANGED dataVars
  BY DEF ClientStep, NetLoopNoLink, Succeed, Fail, Abort, ArpTimeoutCheck, TftpTimeout, startAgainTimeout
<1>5. ReceivePacket => UNCHANGED dataVars \/ \E p \in net : ReceiveData(p)
  BY DEF ReceivePacket, ReceiveArpReply, ReceiveIgnored, ReceiveOack, ReceiveError,
         ReceiveDataBadFirst, ReceiveDataAgain
<1>6. ServerStep \/ (\E p \in net : LosePacket(p)) \/ UNCHANGED vars => UNCHANGED dataVars
  BY DEF ServerStep, ServerArp, ServerRrq, ServerAck, LosePacket, clientVars, vars
<1> QED BY <1>1, <1>2, <1>3, <1>4, <1>5, <1>6 DEF Next

------------------------------------------------------------------------------
(* Control.                                                                 *)

LEMMA ControlClient ==
  ASSUME TftpInv, ClientStep \/ Abort
  PROVE  Control'
<1> USE DEF Control
<1>0. Types /\ Control
  BY DEF TftpInv
<1>1. CASE NetLoop \/ Restart
  <2>1. PICK try : TftpStart(try)
    BY <1>1 DEF NetLoop, Restart
  <2>2. handler' = "tftp" /\ timer' = "tftp" /\ timeouts' = 0
    BY <2>1, StartEffect
  <2>3. pc' = "rx" /\ netState' = "CONTINUE" /\ result' = result /\ result = "none"
    BY <1>0, <1>1 DEF NetLoop, Restart
  <2>4. 0 # TimeoutMax + 1
    BY Constants
  <2> QED BY <2>2, <2>3, <2>4
<1>2. CASE NetLoopNoLink \/ Fail \/ Abort \/ Succeed
  BY <1>0, <1>2 DEF NetLoopNoLink, Fail, Abort, Succeed, ctlVars, arpVars, srvVars
<1>3. CASE ArpTimeoutCheck \/ TftpTimeout
  <2>1. /\ Elapsed /\ pc = "rx" /\ netState # "FAIL" /\ netState # "RESTART" /\ result = "none"
        /\ UNCHANGED <<result, filesize, srv>> /\ pc' \in {"rx", "switch"}
    BY <1>0, <1>3 DEF ArpTimeoutCheck, TftpTimeout, Elapsed, AfterTimer, srvVars
  <2>2. handler \in {"tftp", "again"}
    BY <1>0, <1>3 DEF ArpTimeoutCheck, TftpTimeout, Types
  <2>3. CASE NetStartAgain
    <3>1. handler' \in {"tftp", "again"} /\ netState' # "RESTART"
      BY <2>1, <2>2, <2>3, StartAgainEffect
    <3>2. handler' = "again" \/ netState' = "FAIL"
      BY <2>3, StartAgainEffect
    <3>3. (timer' = "tftp" => handler' = "tftp") /\ (timer' = "again" => handler' = "again")
      BY <1>0, <2>3, StartAgainEffect
    <3> QED BY <2>1, <3>1, <3>2, <3>3
  <2>4. CASE UNCHANGED <<netState, tryCount, ctlVars>>
    <3>1. timeouts' # TimeoutMax + 1 \/ timeouts' = timeouts \/ NetStartAgain
      BY <1>0, <1>3, Constants DEF ArpTimeoutCheck, TftpTimeout, Types
    <3> QED BY <1>0, <2>1, <2>2, <2>3, <2>4, <3>1 DEF ctlVars
  <2> QED BY <1>3, <2>3, <2>4 DEF ArpTimeoutCheck, TftpTimeout
<1>4. CASE startAgainTimeout
  BY <1>0, <1>4 DEF startAgainTimeout, Elapsed, AfterTimer, arpVars, srvVars
<1> QED BY <1>1, <1>2, <1>3, <1>4 DEF ClientStep

LEMMA ControlReceive ==
  ASSUME TftpInv, ReceivePacket
  PROVE  Control'
<1> USE DEF Control
<1>0. Types /\ Control
  BY DEF TftpInv
<1>1. /\ pc = "rx" /\ netState # "FAIL" /\ net # {} /\ handler \in {"tftp", "again"} /\ result = "none"
      /\ UNCHANGED <<pc, result, srv>>
  BY <1>0 DEF ReceivePacket, ReceiveArpReply, ReceiveIgnored, ReceiveOack, ReceiveError,
         ReceiveDataBadFirst, ReceiveDataAgain, ReceiveData, Receive, Types, loopVars, srvVars
<1>2. UNCHANGED timeouts
  BY DEF ReceivePacket, ReceiveArpReply, ReceiveIgnored, ReceiveOack, ReceiveError,
         ReceiveDataBadFirst, ReceiveDataAgain, ReceiveData
<1>3. CASE NetStartAgain
  <2>1. handler' \in {"tftp", "again"} /\ (netState' = "RESTART" => handler' = "again")
    BY <1>0, <1>1, <1>3, StartAgainEffect
  <2>2. handler' = "again" \/ netState' = "FAIL"
    BY <1>3, StartAgainEffect
  <2>3. (timer' = "tftp" => handler' = "tftp") /\ (timer' = "again" => handler' = "again")
    BY <1>0, <1>3, StartAgainEffect
  <2> QED BY <1>1, <2>1, <2>2, <2>3
<1>4. CASE UNCHANGED ctlVars /\ netState' \in {netState, "FAIL"}
  BY <1>0, <1>1, <1>2, <1>4 DEF ctlVars
<1>5. CASE handler = "tftp" /\ handler' = "tftp" /\ timer' = "tftp" /\ netState' \in {netState, "SUCCESS"}
  BY <1>0, <1>1, <1>2, <1>5
<1>6. ASSUME NEW p \in net, ReceiveData(p)
      PROVE  handler = "tftp" /\ handler' = "tftp" /\ timer' = "tftp" /\ netState' \in {netState, "SUCCESS"}
  BY <1>6 DEF ReceiveData, Accepted
<1>7. ReceiveArpReply => UNCHANGED ctlVars /\ netState' \in {netState, "FAIL"}
  BY DEF ReceiveArpReply, loopVars
<1>8. ASSUME NEW p \in net,
             \/ ReceiveIgnored(p) \/ ReceiveOack(p) \/ ReceiveError(p)
             \/ ReceiveDataBadFirst(p) \/ ReceiveDataAgain(p)
      PROVE  NetStartAgain \/ (UNCHANGED ctlVars /\ netState' \in {netState, "FAIL"})
  BY <1>8 DEF ReceiveIgnored, ReceiveOack, ReceiveError, ReceiveDataBadFirst, ReceiveDataAgain, loopVars
<1> QED BY <1>3, <1>4, <1>5, <1>6, <1>7, <1>8 DEF ReceivePacket

LEMMA ControlOthers ==
  ASSUME TftpInv, ServerStep \/ (\E p \in net : LosePacket(p)) \/ UNCHANGED vars
  PROVE  Control'
<1>0. Control
  BY DEF TftpInv
<1>1. UNCHANGED clientVars
  BY DEF ServerStep, ServerArp, ServerRrq, ServerAck, LosePacket, clientVars, vars
<1>2. net # {} \/ UNCHANGED <<net, srv>>
  BY DEF ServerStep, ServerArp, vars, srvVars
<1> QED BY <1>0, <1>1, <1>2 DEF Control, clientVars, loopVars, ctlVars, arpVars


------------------------------------------------------------------------------
(* Transfers.                                                               *)

\* A port stays one of a try that has been made.
LEMMA PortsKept ==
  ASSUME TftpInv, [Next]_vars
  PROVE  \A x : OldPort(x, tryCount, handler) => OldPort(x, tryCount', handler')
<1>0. Types /\ Control /\ tryCount \in Nat
  BY DEF TftpInv, Types
<1>1. \/ tryCount' = tryCount /\ (handler' = "again" => handler = "again")
      \/ tryCount' = tryCount + 1
  <2>1. CASE NetLoop
    BY <1>0, <2>1 DEF NetLoop, Control
  <2>2. CASE Restart
    BY <1>0, <2>2 DEF Restart, Control
  <2>3. CASE NetLoopNoLink \/ Fail \/ Abort \/ Succeed \/ startAgainTimeout
    BY <2>3 DEF NetLoopNoLink, Fail, Abort, Succeed, startAgainTimeout, ctlVars
  <2>4. CASE ArpTimeoutCheck \/ TftpTimeout
    BY <2>4, StartAgainEffect DEF ArpTimeoutCheck, TftpTimeout, ctlVars
  <2>5. CASE ReceivePacket
    BY <2>5, StartAgainEffect DEF ReceivePacket, ReceiveArpReply, ReceiveIgnored, ReceiveOack,
         ReceiveError, ReceiveDataBadFirst, ReceiveDataAgain, ReceiveData, loopVars, ctlVars
  <2>6. CASE ServerStep \/ (\E p \in net : LosePacket(p)) \/ UNCHANGED vars
    BY <2>6 DEF ServerStep, ServerArp, ServerRrq, ServerAck, LosePacket, clientVars, loopVars,
                ctlVars, vars
  <2> QED BY <2>1, <2>2, <2>3, <2>4, <2>5, <2>6 DEF Next, ClientStep
<1> QED BY <1>0, <1>1 DEF OldPort

\* Only the server changes a transfer.
LEMMA SrvByServer ==
  ASSUME [Next]_vars
  PROVE  UNCHANGED srv \/ \E p \in net : ServerRrq(p) \/ ServerAck(p)
<1>1. ClientStep \/ Abort => UNCHANGED srv
  BY DEF ClientStep, NetLoop, NetLoopNoLink, Restart, Succeed, Fail, Abort, ArpTimeoutCheck,
         TftpTimeout, startAgainTimeout, srvVars
<1>2. ReceivePacket => UNCHANGED srv
  BY DEF ReceivePacket, ReceiveArpReply, ReceiveIgnored, ReceiveOack, ReceiveError,
         ReceiveDataBadFirst, ReceiveDataAgain, ReceiveData, srvVars
<1>3. ServerArp \/ (\E p \in net : LosePacket(p)) \/ UNCHANGED vars => UNCHANGED srv
  BY DEF ServerArp, LosePacket, vars, srvVars
<1> QED BY <1>1, <1>2, <1>3 DEF Next, ServerStep

\* The two ways the server's table changes.
LEMMA RrqEffect ==
  ASSUME TftpInv, NEW p \in net, ServerRrq(p)
  PROVE  \/ /\ UNCHANGED srv
            /\ \E c \in ServerErrors : net' = AfterTaking(p) \cup {ERROR(p.port, 0, c)}
         \/ \E start \in {[cur |-> 0, blk |-> BlkOpt], [cur |-> 1, blk |-> BlkDef]} :
              /\ NewTid \in Tid
              /\ srv' = [t \in DOMAIN srv \cup {NewTid} |->
                           IF t = NewTid THEN [port |-> p.port, cur |-> start.cur, blk |-> start.blk]
                           ELSE srv[t]]
              /\ net' = AfterTaking(p) \cup
                          {IF start.cur = 0 THEN OACK(p.port, NewTid, start.blk)
                           ELSE DATA(p.port, NewTid, 1, start.blk)}
BY DEF ServerRrq

LEMMA NewTidIsNew ==
  ASSUME TftpInv
  PROVE  NewTid \notin DOMAIN srv /\ \E n \in Nat : DOMAIN srv = 1..n /\ NewTid = n + 1
<1>1. PICK n \in Nat : DOMAIN srv = 1..n
  BY DEF TftpInv, Transfers
<1>2. Cardinality(1..n) = n
  BY FS_Interval
<1>3. NewTid = n + 1
  BY <1>1, <1>2 DEF NewTid
<1> QED BY <1>1, <1>3

LEMMA AckEffect ==
  ASSUME NEW p \in net, ServerAck(p)
  PROVE  /\ p.op = "ACK" /\ p.tid \in DOMAIN srv
         /\ \/ /\ UNCHANGED srv
               /\ net' = AfterTaking(p) \/ net' = AfterTaking(p) \cup {Current(p.tid)}
            \/ /\ p.num = Seq16(srv[p.tid].cur) /\ ~LastBlock(p.tid)
               /\ srv' = [srv EXCEPT ![p.tid].cur = srv[p.tid].cur + 1]
               /\ net' = AfterTaking(p) \cup
                           {DATA(srv[p.tid].port, p.tid, srv[p.tid].cur + 1, srv[p.tid].blk)}
BY DEF ServerAck

\* A transfer keeps its port and its block size and never goes back.
LEMMA SrvGrows ==
  ASSUME TftpInv, [Next]_vars
  PROVE  \A t \in DOMAIN srv :
           /\ t \in DOMAIN srv' /\ srv'[t].port = srv[t].port /\ srv'[t].blk = srv[t].blk
           /\ srv'[t].cur = srv[t].cur \/ srv'[t].cur = srv[t].cur + 1
<1>1. CASE UNCHANGED srv
  BY <1>1
<1>2. ASSUME NEW p \in net, ServerRrq(p), ~UNCHANGED srv
      PROVE  \A t \in DOMAIN srv : t \in DOMAIN srv' /\ srv'[t] = srv[t]
  BY <1>2, RrqEffect, NewTidIsNew
<1>3. ASSUME NEW p \in net, ServerAck(p), ~UNCHANGED srv
      PROVE  \A t \in DOMAIN srv :
               /\ t \in DOMAIN srv' /\ srv'[t].port = srv[t].port /\ srv'[t].blk = srv[t].blk
               /\ srv'[t].cur = srv[t].cur \/ srv'[t].cur = srv[t].cur + 1
  <2>1. srv' = [srv EXCEPT ![p.tid].cur = srv[p.tid].cur + 1]
    BY <1>3, AckEffect
  <2>2. \A t \in DOMAIN srv : srv[t] \in [port : Nat, cur : Nat, blk : {BlkDef, BlkOpt}]
    BY DEF TftpInv, Transfers, Transfer
  <2> QED BY <2>1, <2>2
<1> QED BY <1>1, <1>2, <1>3, SrvByServer


LEMMA TransfersStep == TftpInv /\ [Next]_vars => Transfers'
<1> SUFFICES ASSUME TftpInv, [Next]_vars PROVE Transfers'
  OBVIOUS
<1>0. Transfers /\ Packets
  BY DEF TftpInv
<1>a. PICK n \in Nat : DOMAIN srv = 1..n /\ 1..n \subseteq Tid
  BY <1>0 DEF Transfers
<1>b. \A tr : Transfer(tr, tryCount, handler) => Transfer(tr, tryCount', handler')
  BY PortsKept DEF Transfer
<1>1. CASE UNCHANGED srv
  BY <1>0, <1>1, <1>b DEF Transfers
<1>2. ASSUME NEW p \in net, ServerRrq(p), ~UNCHANGED srv PROVE Transfers'
  <2>1. PICK start \in {[cur |-> 0, blk |-> BlkOpt], [cur |-> 1, blk |-> BlkDef]} :
          /\ NewTid \in Tid
          /\ srv' = [t \in DOMAIN srv \cup {NewTid} |->
                       IF t = NewTid THEN [port |-> p.port, cur |-> start.cur, blk |-> start.blk]
                       ELSE srv[t]]
    BY <1>2, RrqEffect
  <2>2. NewTid = n + 1
    BY <1>a, NewTidIsNew
  <2>3. DOMAIN srv' = 1..(n + 1) /\ 1..(n + 1) \subseteq Tid /\ n + 1 \in Nat
    BY <1>a, <2>1, <2>2
  <2>4. OldPort(p.port, tryCount, handler)
    BY <1>0, <1>2 DEF Packets, Packet, ServerRrq
  <2>5. start.cur \in Nat /\ start.blk \in {BlkDef, BlkOpt} /\ start.cur <= 1
    BY <2>1
  <2>6. Transfer([port |-> p.port, cur |-> start.cur, blk |-> start.blk], tryCount, handler)
    <3> DEFINE tr == [port |-> p.port, cur |-> start.cur, blk |-> start.blk]
    <3>1. tr.port = p.port /\ tr.cur = start.cur /\ tr.blk = start.blk
      OBVIOUS
    <3>2. tr \in [port : Nat, cur : Nat, blk : {BlkDef, BlkOpt}]
      BY <2>4, <2>5 DEF OldPort
    <3>3. start.cur > 0 => start.cur - 1 = 0
      BY <2>5
    <3>4. start.cur > 0 => (start.cur - 1) * start.blk <= FileLen
      BY <2>5, <3>3, Constants
    <3> HIDE DEF tr
    <3> QED BY <2>4, <3>1, <3>2, <3>4 DEF Transfer, tr
  <2>7. \A t \in DOMAIN srv' : Transfer(srv'[t], tryCount, handler)
    <3> DEFINE tr == [port |-> p.port, cur |-> start.cur, blk |-> start.blk]
    <3> HIDE DEF tr
    <3>1. \A t \in DOMAIN srv' : srv'[t] = tr \/ (t \in DOMAIN srv /\ srv'[t] = srv[t])
      BY <2>1 DEF tr
    <3> QED BY <1>0, <2>6, <3>1 DEF Transfers, tr
  <2>8. \A t \in DOMAIN srv' : Transfer(srv'[t], tryCount', handler')
    BY <1>b, <2>7
  <2> QED BY <2>3, <2>8 DEF Transfers
<1>3. ASSUME NEW p \in net, ServerAck(p), ~UNCHANGED srv PROVE Transfers'
  <2> DEFINE t == p.tid
  <2>1. /\ t \in DOMAIN srv /\ p.op = "ACK" /\ ~LastBlock(t)
        /\ srv' = [srv EXCEPT ![t].cur = srv[t].cur + 1]
    BY <1>3, AckEffect
  <2> HIDE DEF t
  <2>2. DOMAIN srv' = DOMAIN srv
    BY <2>1
  <2>3. Transfer(srv[t], tryCount, handler) /\ srv[t].cur \in Nat /\ srv[t].blk \in Nat
        /\ srv[t] \in [port : Nat, cur : Nat, blk : {BlkDef, BlkOpt}]
    BY <1>0, <2>1, Constants DEF Transfers, Transfer
  <2>4. \A s \in DOMAIN srv : s # t => srv'[s] = srv[s]
    BY <2>1
  <2>5. srv'[t] = [srv[t] EXCEPT !.cur = srv[t].cur + 1]
    BY <2>1
  <2>6. srv'[t] \in [port : Nat, cur : Nat, blk : {BlkDef, BlkOpt}]
    BY <2>3, <2>5
  <2>7. srv'[t].port = srv[t].port /\ srv'[t].cur = srv[t].cur + 1 /\ srv'[t].blk = srv[t].blk
    BY <2>3, <2>5
  <2>8. srv[t].cur * srv[t].blk <= FileLen
    <3>1. CASE srv[t].cur = 0
      BY <2>3, <3>1, Constants
    <3>2. CASE srv[t].cur > 0
      <4>1. ~(srv[t].cur * srv[t].blk > FileLen)
        BY <2>1, <3>2 DEF LastBlock
      <4>2. srv[t].cur * srv[t].blk \in Nat
        BY <2>3
      <4> QED BY <4>1, <4>2, Constants
    <3> QED BY <2>3, <3>1, <3>2
  <2>9. (srv'[t].cur - 1) * srv'[t].blk <= FileLen
    <3>1. srv'[t].cur - 1 = srv[t].cur
      BY <2>3, <2>7
    <3> QED BY <2>7, <2>8, <3>1
  <2>10. Transfer(srv'[t], tryCount, handler)
    BY <2>3, <2>6, <2>7, <2>9 DEF Transfer
  <2>11. \A s \in DOMAIN srv' : Transfer(srv'[s], tryCount, handler)
    BY <1>0, <2>2, <2>4, <2>10 DEF Transfers
  <2>12. \A s \in DOMAIN srv' : Transfer(srv'[s], tryCount', handler')
    BY <1>b, <2>11
  <2> QED BY <1>a, <2>2, <2>12 DEF Transfers
<1> QED BY <1>1, <1>2, <1>3, SrvByServer


------------------------------------------------------------------------------
(* Packets.                                                                 *)

LEMMA PacketKept ==
  ASSUME TftpInv, [Next]_vars
  PROVE  \A p : Packet(p, srv, tryCount, handler) => Packet(p, srv', tryCount', handler')
<1> SUFFICES ASSUME NEW p, Packet(p, srv, tryCount, handler)
             PROVE  Packet(p, srv', tryCount', handler')
  OBVIOUS
<1>1. p.op \in {"RRQ", "ERROR"} => OldPort(p.port, tryCount', handler')
  BY PortsKept DEF Packet
<1>2. p.op \in {"ACK", "OACK", "DATA"}
        => /\ p.tid \in DOMAIN srv' /\ p.port = srv'[p.tid].port
           /\ p.tid \in DOMAIN srv /\ srv'[p.tid].blk = srv[p.tid].blk
  BY SrvGrows DEF Packet
<1>3. p.op = "OACK" => p.blk = srv'[p.tid].blk
  BY <1>2 DEF Packet
<1>4. p.op = "DATA" => \E k \in 1..srv'[p.tid].cur : Carries(p, k, srv'[p.tid].blk)
  <2> SUFFICES ASSUME p.op = "DATA"
               PROVE  \E k \in 1..srv'[p.tid].cur : Carries(p, k, srv'[p.tid].blk)
    OBVIOUS
  <2>1. PICK k \in 1..srv[p.tid].cur : Carries(p, k, srv[p.tid].blk)
    BY DEF Packet
  <2>2. srv[p.tid].cur \in Nat
    BY <1>2 DEF TftpInv, Transfers, Transfer
  <2>3. srv'[p.tid].cur = srv[p.tid].cur \/ srv'[p.tid].cur = srv[p.tid].cur + 1
    BY <1>2, SrvGrows
  <2>4. k \in 1..srv'[p.tid].cur
    BY <2>2, <2>3
  <2> QED BY <1>2, <2>1, <2>4
<1> QED BY <1>1, <1>2, <1>3, <1>4 DEF Packet

LEMMA PacketsFrom ==
  ASSUME TftpInv, [Next]_vars,
         \A p \in net' : p \in net \/ p = arpWait \/ Packet(p, srv', tryCount', handler'),
         arpWait' = arpWait \/ Packet(arpWait', srv', tryCount', handler')
  PROVE  Packets'
<1>1. Packet(arpWait, srv', tryCount', handler') /\ \A p \in net : Packet(p, srv', tryCount', handler')
  BY PacketKept DEF TftpInv, Packets
<1> QED BY <1>1 DEF Packets

\* The packets that can be made.
LEMMA ArpPackets ==
  \A s, try, h : Packet(ArpReq, s, try, h) /\ Packet(ArpRep, s, try, h) /\ Packet(None, s, try, h)
BY DEF Packet, ArpReq, ArpRep, None

LEMMA RrqPacket ==
  ASSUME NEW s, NEW try \in Nat
  PROVE  Packet(RRQ(try), s, try, "tftp")
BY DEF Packet, RRQ, OldPort

LEMMA AckPacket ==
  ASSUME NEW s, NEW try, NEW h, NEW t \in DOMAIN s, NEW n \in 0..(SeqSize - 1), s[t].port = try
  PROVE  Packet(ACK(try, t, n), s, try, h)
BY DEF Packet, ACK

LEMMA OackPacket ==
  ASSUME NEW s, NEW try, NEW h, NEW t \in DOMAIN s, NEW q, NEW b, s[t].port = q, s[t].blk = b
  PROVE  Packet(OACK(q, t, b), s, try, h)
BY DEF Packet, OACK

LEMMA DataPacket ==
  ASSUME NEW s, NEW try, NEW h, NEW t \in DOMAIN s, NEW q, NEW b, NEW k \in 1..s[t].cur,
         s[t].port = q, s[t].blk = b
  PROVE  Packet(DATA(q, t, k, b), s, try, h)
<1> DEFINE p == DATA(q, t, k, b)
<1>1. /\ p.op = "DATA" /\ p.port = q /\ p.tid = t /\ p.num = Seq16(k) /\ p.off = (k - 1) * b
      /\ p.len = IF (k - 1) * b + b <= FileLen THEN b ELSE FileLen - (k - 1) * b
  BY DEF DATA
<1> HIDE DEF p
<1>2. Carries(p, k, b)
  BY <1>1 DEF Carries
<1>3. \E i \in 1..s[p.tid].cur : Carries(p, i, s[p.tid].blk)
  BY <1>1, <1>2
<1> QED BY <1>1, <1>3 DEF Packet, p

LEMMA ErrorPacket ==
  ASSUME NEW s, NEW try, NEW h, NEW q, NEW c, OldPort(q, try, h)
  PROVE  Packet(ERROR(q, 0, c), s, try, h)
BY DEF Packet, ERROR

LEMMA PacketsClient ==
  ASSUME TftpInv, ClientStep \/ Abort
  PROVE  Packets'
<1>0. Types /\ Control /\ Session /\ [Next]_vars
  BY DEF TftpInv, Next
<1>1. CASE NetLoop \/ Restart
  <2>1. TftpStart(tryCount') /\ tryCount' \in Nat
    BY <1>0, <1>1 DEF NetLoop, Restart, Types
  <2>2. arpWait' = RRQ(tryCount') /\ handler' = "tftp" /\ \A p \in net' : p \in net \/ p = ArpReq
    BY <2>1, StartEffect
  <2>3. Packet(arpWait', srv', tryCount', handler')
    BY <2>1, <2>2, RrqPacket
  <2> QED BY <1>0, <2>2, <2>3, ArpPackets, PacketsFrom
<1>2. CASE UNCHANGED <<net, arpWait>>
  BY <1>0, <1>2, PacketsFrom
<1>3. CASE ArpTimeoutCheck
  <2>1. arpWait' = arpWait /\ \A p \in net' : p \in net \/ p = ArpReq
    BY <1>3 DEF ArpTimeoutCheck
  <2> QED BY <1>0, <2>1, ArpPackets, PacketsFrom
<1>4. CASE TftpTimeout /\ ~UNCHANGED <<net, arpWait>>
  <2> DEFINE pkt == TftpPacket(tstate, tryCount, serverPort, block)
  <2>1. NetSendUDPPacket(pkt, ether, net) /\ UNCHANGED <<tryCount, handler, srv>> /\ timer = "tftp"
    BY <1>4 DEF TftpTimeout, ctlVars, srvVars
  <2>2. handler = "tftp" /\ tryCount \in Nat /\ block \in 0..(SeqSize - 1)
    BY <1>0, <2>1 DEF Control, Types
  <2>3. Packet(pkt, srv', tryCount', handler')
    <3>1. CASE tstate = "RRQ"
      BY <2>1, <2>2, <3>1, RrqPacket DEF TftpPacket
    <3>2. CASE tstate # "RRQ"
      <4>1. serverPort \in DOMAIN srv /\ srv[serverPort].port = tryCount
        BY <1>0, <2>2, <3>2 DEF Session
      <4> QED BY <2>1, <2>2, <3>2, <4>1, AckPacket DEF TftpPacket
    <3> QED BY <3>1, <3>2
  <2> HIDE DEF pkt
  <2>4. /\ \A p \in net' : p \in net \/ p = pkt \/ p = ArpReq
        /\ arpWait' = arpWait \/ arpWait' = pkt
    BY <2>1, SendEffect
  <2> QED BY <1>0, <2>3, <2>4, ArpPackets, PacketsFrom
<1> QED BY <1>1, <1>2, <1>3, <1>4 DEF ClientStep, NetLoopNoLink, Succeed, Fail, Abort,
                                       startAgainTimeout, arpVars

LEMMA PacketsReceive ==
  ASSUME TftpInv, ReceivePacket
  PROVE  Packets'
<1>0. Types /\ Control /\ Session /\ [Next]_vars
  BY DEF TftpInv, Next
<1>1. CASE ReceiveArpReply
  <2>1. /\ \A p \in net' : p \in net \/ p = arpWait
        /\ arpWait' = arpWait \/ arpWait' = None
    BY <1>1, TakingEffect DEF ReceiveArpReply
  <2> QED BY <1>0, <2>1, ArpPackets, PacketsFrom
<1>2. ASSUME NEW p \in net,
             ReceiveIgnored(p) \/ ReceiveError(p) \/ ReceiveDataBadFirst(p) \/ ReceiveDataAgain(p)
      PROVE  Packets'
  <2>1. net' = AfterTaking(p) /\ UNCHANGED arpWait
    BY <1>2 DEF ReceiveIgnored, ReceiveError, ReceiveDataBadFirst, ReceiveDataAgain, arpVars
  <2> QED BY <1>0, <2>1, TakingEffect, PacketsFrom
<1>3. ASSUME NEW p \in net, NEW n \in 0..(SeqSize - 1),
             p.op \in {"OACK", "DATA"}, Accepted(p), UNCHANGED <<tryCount, handler, srv>>,
             NetSendUDPPacket(ACK(tryCount, p.tid, n), ether, AfterTaking(p))
      PROVE  Packets'
  <2>1. p.tid \in DOMAIN srv /\ srv[p.tid].port = tryCount
    BY <1>3, PacketFacts DEF Accepted, ToClient
  <2> DEFINE pkt == ACK(tryCount, p.tid, n)
  <2>2. Packet(pkt, srv', tryCount', handler')
    BY <1>3, <2>1, AckPacket
  <2> HIDE DEF pkt
  <2>3. NetSendUDPPacket(pkt, ether, AfterTaking(p))
    BY <1>3 DEF pkt
  <2>4. /\ \A q \in net' : q \in AfterTaking(p) \/ q = pkt \/ q = ArpReq
        /\ arpWait' = arpWait \/ arpWait' = pkt
    BY <2>3, SendEffect
  <2> QED BY <1>0, <2>2, <2>4, TakingEffect, ArpPackets, PacketsFrom
<1>4. ASSUME NEW p \in net, ReceiveOack(p) PROVE Packets'
  <2>1. /\ p.op = "OACK" /\ Accepted(p) /\ UNCHANGED <<tryCount, handler, srv>>
        /\ NetSendUDPPacket(ACK(tryCount, p.tid, block), ether, AfterTaking(p))
        /\ block \in 0..(SeqSize - 1)
    BY <1>0, <1>4 DEF ReceiveOack, TftpPacket, loopVars, ctlVars, srvVars, Types
  <2> QED BY <1>3, <2>1
<1>5. ASSUME NEW p \in net, ReceiveData(p) PROVE Packets'
  <2>1. /\ p.op = "DATA" /\ Accepted(p) /\ UNCHANGED <<tryCount, handler, srv>>
        /\ NetSendUDPPacket(ACK(tryCount, p.tid, p.num), ether, AfterTaking(p))
    BY <1>5 DEF ReceiveData, TftpPacket, srvVars
  <2>2. p.num \in 0..(SeqSize - 1)
    BY <2>1, PacketFacts DEF ToClient
  <2> QED BY <1>3, <2>1, <2>2
<1> QED BY <1>1, <1>2, <1>4, <1>5 DEF ReceivePacket

LEMMA PacketsServer ==
  ASSUME TftpInv, ServerStep \/ (\E p \in net : LosePacket(p)) \/ UNCHANGED vars
  PROVE  Packets'
<1>0. Transfers /\ Packets /\ [Next]_vars
  BY DEF TftpInv, Next
<1>1. UNCHANGED <<arpWait, tryCount, handler>>
  BY DEF ServerStep, ServerArp, ServerRrq, ServerAck, LosePacket, clientVars, vars, arpVars, loopVars,
         ctlVars
<1>2. CASE ServerArp \/ (\E p \in net : LosePacket(p)) \/ UNCHANGED vars
  <2>1. \A p \in net' : p \in net \/ p = ArpRep
    BY <1>2, TakingEffect DEF ServerArp, LosePacket, vars
  <2> QED BY <1>0, <1>1, <2>1, ArpPackets, PacketsFrom
<1>3. ASSUME NEW p \in net, ServerRrq(p) PROVE Packets'
  <2>1. OldPort(p.port, tryCount, handler)
    BY <1>0, <1>3 DEF Packets, Packet, ServerRrq
  <2>2. CASE \E c \in ServerErrors : net' = AfterTaking(p) \cup {ERROR(p.port, 0, c)}
    <3>1. PICK c \in ServerErrors : net' = AfterTaking(p) \cup {ERROR(p.port, 0, c)}
      BY <2>2
    <3>2. Packet(ERROR(p.port, 0, c), srv', tryCount', handler')
      BY <1>1, <2>1, ErrorPacket
    <3> QED BY <1>0, <1>1, <3>1, <3>2, TakingEffect, PacketsFrom
  <2>3. ASSUME NEW start \in {[cur |-> 0, blk |-> BlkOpt], [cur |-> 1, blk |-> BlkDef]},
               srv' = [t \in DOMAIN srv \cup {NewTid} |->
                         IF t = NewTid THEN [port |-> p.port, cur |-> start.cur, blk |-> start.blk]
                         ELSE srv[t]],
               net' = AfterTaking(p) \cup
                        {IF start.cur = 0 THEN OACK(p.port, NewTid, start.blk)
                         ELSE DATA(p.port, NewTid, 1, start.blk)}
        PROVE  Packets'
    <3>1. /\ NewTid \in DOMAIN srv' /\ srv'[NewTid].port = p.port
          /\ srv'[NewTid].cur = start.cur /\ srv'[NewTid].blk = start.blk
      BY <2>3
    <3> DEFINE pkt == IF start.cur = 0 THEN OACK(p.port, NewTid, start.blk)
                      ELSE DATA(p.port, NewTid, 1, start.blk)
    <3>2. Packet(pkt, srv', tryCount', handler')
      <4>1. CASE start.cur = 0
        BY <3>1, <4>1, OackPacket
      <4>2. CASE start.cur = 1
        <5>1. 1 \in 1..srv'[NewTid].cur
          BY <3>1, <4>2
        <5>2. Packet(DATA(p.port, NewTid, 1, start.blk), srv', tryCount', handler')
          BY <3>1, <5>1, DataPacket
        <5> QED BY <4>2, <5>2
      <4> QED BY <4>1, <4>2
    <3> HIDE DEF pkt
    <3>3. \A q \in net' : q \in net \/ q = pkt
      BY <2>3, TakingEffect DEF pkt
    <3> QED BY <1>0, <1>1, <3>2, <3>3, PacketsFrom
  <2> QED BY <1>3, <2>2, <2>3, RrqEffect
<1>4. ASSUME NEW p \in net, ServerAck(p) PROVE Packets'
  <2> DEFINE t == p.tid
  <2>1. t \in DOMAIN srv /\ Transfer(srv[t], tryCount, handler)
    BY <1>0, <1>4, AckEffect DEF Transfers
  <2>2. srv[t].cur \in Nat
    BY <2>1 DEF Transfer
  <2>3. CASE UNCHANGED srv
    <3>1. Packet(Current(t), srv, tryCount, handler)
      <4>1. CASE srv[t].cur = 0
        BY <2>1, <4>1, OackPacket DEF Current
      <4>2. CASE srv[t].cur # 0
        <5>1. srv[t].cur \in 1..srv[t].cur
          BY <2>2, <4>2
        <5> QED BY <2>1, <4>2, <5>1, DataPacket DEF Current
      <4> QED BY <4>1, <4>2
    <3>3. srv' # [srv EXCEPT ![t].cur = srv[t].cur + 1]
      <4> SUFFICES ASSUME srv = [srv EXCEPT ![t].cur = srv[t].cur + 1] PROVE FALSE
        BY <2>3
      <4>1. srv[t] \in [port : Nat, cur : Nat, blk : {BlkDef, BlkOpt}]
        BY <2>1 DEF Transfer
      <4>2. srv[t].cur = srv[t].cur + 1
        BY <2>1, <4>1
      <4> QED BY <2>2, <4>2
    <3>4. net' = AfterTaking(p) \/ net' = AfterTaking(p) \cup {Current(t)}
      BY <1>4, <3>3, AckEffect
    <3> QED BY <1>0, <1>1, <2>3, <3>1, <3>4, TakingEffect, PacketsFrom
  <2>4. CASE ~UNCHANGED srv
    <3>1. /\ srv' = [srv EXCEPT ![t].cur = srv[t].cur + 1]
          /\ net' = AfterTaking(p) \cup {DATA(srv[t].port, t, srv[t].cur + 1, srv[t].blk)}
      BY <1>4, <2>4, AckEffect
    <3>2. /\ t \in DOMAIN srv' /\ srv'[t].port = srv[t].port
          /\ srv'[t].blk = srv[t].blk /\ srv'[t].cur = srv[t].cur + 1
      <4>1. srv[t] \in [port : Nat, cur : Nat, blk : {BlkDef, BlkOpt}]
        BY <2>1 DEF Transfer
      <4> QED BY <2>1, <3>1, <4>1
    <3>3. srv[t].cur + 1 \in 1..srv'[t].cur
      BY <2>2, <3>2
    <3>4. Packet(DATA(srv[t].port, t, srv[t].cur + 1, srv[t].blk), srv', tryCount', handler')
      BY <3>2, <3>3, DataPacket
    <3> QED BY <1>0, <1>1, <3>1, <3>4, TakingEffect, PacketsFrom
  <2> QED BY <2>3, <2>4
<1> QED BY <1>2, <1>3, <1>4 DEF ServerStep


------------------------------------------------------------------------------
(* One transfer per try.                                                    *)

\* Ports of acknowledgements and of transfers.
LEMMA AckPort ==
  ASSUME TftpInv, NEW p, Packet(p, srv, tryCount, handler), p.op = "ACK"
  PROVE  OldPort(p.port, tryCount, handler) /\ p.tid \in DOMAIN srv /\ p.port = srv[p.tid].port
BY DEF Packet, TftpInv, Transfers, Transfer

LEMMA RequestStart ==
  ASSUME TftpInv, NetLoop \/ Restart
  PROVE  Request'
<1>0. Types /\ Control /\ Transfers /\ Packets
  BY DEF TftpInv
<1>1. TftpStart(tryCount') /\ UNCHANGED srv
  BY <1>0 DEF NetLoop, Restart, srvVars
<1>2. /\ blkSize' = BlkDef /\ block' = 0 /\ arpWait' = RRQ(tryCount')
      /\ \A p \in net' : p \in net \/ p = ArpReq
  BY <1>1, StartEffect
<1>3. NoAck(arpWait', tryCount')
  BY <1>2 DEF NoAck, RRQ
<1>4. (handler = "none" /\ net = {} /\ DOMAIN srv = {}) \/ (handler = "again" /\ tryCount' = tryCount)
  BY <1>0 DEF NetLoop, Restart, Control
<1>5. \A t \in DOMAIN srv : srv[t].port # tryCount'
  BY <1>0, <1>4 DEF Transfers, Transfer, OldPort
<1>6. \A p \in net : NoAck(p, tryCount')
  BY <1>0, <1>4, AckPort DEF NoAck, Packets, OldPort
<1>7. \A p \in net' : NoAck(p, tryCount')
  BY <1>2, <1>6 DEF NoAck, ArpReq
<1> QED BY <1>1, <1>2, <1>3, <1>5, <1>7 DEF Request

\* Steps that keep the try and add no acknowledgement.
LEMMA RequestKept ==
  ASSUME TftpInv, UNCHANGED <<blkSize, block, tryCount>>,
         handler = "tftp", tstate = "RRQ",
         \A p \in net' : p \in net \/ p = arpWait \/ p.op # "ACK",
         arpWait' = arpWait \/ arpWait'.op # "ACK",
         \A t \in DOMAIN srv' :
            \/ t \in DOMAIN srv /\ srv'[t] = srv[t]
            \/ srv'[t].port # tryCount \/ srv'[t].blk = BlkDef \/ ~(srv'[t].cur > 0)
  PROVE  Request'
<1>1. Request
  BY DEF TftpInv
<1>2. NoAck(arpWait', tryCount') /\ \A p \in net' : NoAck(p, tryCount')
  BY <1>1 DEF Request, NoAck
<1> QED BY <1>1, <1>2 DEF Request

LEMMA RequestStep == TftpInv /\ [Next]_vars => Request'
<1> SUFFICES ASSUME TftpInv, [Next]_vars PROVE Request'
  OBVIOUS
<1>0. Types /\ Control
  BY DEF TftpInv
<1>1. CASE NetLoop \/ Restart
  BY <1>1, RequestStart
<1>2. CASE NetLoopNoLink \/ Fail \/ Abort \/ Succeed \/ startAgainTimeout
  <2>1. UNCHANGED <<blkSize, block, tryCount, handler, tstate, net, arpWait, srv>>
    BY <1>2 DEF NetLoopNoLink, Fail, Abort, Succeed, startAgainTimeout, ctlVars, tftpVars, arpVars, srvVars
  <2> QED BY <2>1, RequestKept DEF Request
<1>3. CASE ArpTimeoutCheck \/ TftpTimeout
  <2>1. UNCHANGED <<blkSize, block, tstate, srv>>
    BY <1>3 DEF ArpTimeoutCheck, TftpTimeout, tftpVars, srvVars
  <2>2. handler' = "tftp" => handler = "tftp" /\ tryCount' = tryCount
    BY <1>3, StartAgainEffect DEF ArpTimeoutCheck, TftpTimeout, ctlVars
  <2>3. tstate = "RRQ" => /\ \A p \in net' : p \in net \/ p.op # "ACK"
                          /\ arpWait' = arpWait \/ arpWait'.op # "ACK"
    BY <1>3 DEF ArpTimeoutCheck, TftpTimeout, NetSendUDPPacket, TftpPacket, RRQ, ArpReq
  <2> QED BY <2>1, <2>2, <2>3, RequestKept DEF Request
<1>4. CASE ReceiveArpReply
  <2>1. UNCHANGED <<blkSize, block, tryCount, handler, tstate, srv>>
    BY <1>4 DEF ReceiveArpReply, loopVars, ctlVars, tftpVars, srvVars
  <2>2. /\ \A p \in net' : p \in net \/ p = arpWait
        /\ arpWait' = arpWait \/ arpWait' = None
    BY <1>4, TakingEffect DEF ReceiveArpReply
  <2> QED BY <2>1, <2>2, RequestKept DEF Request, None
<1>5. ASSUME NEW p \in net, ReceiveIgnored(p) \/ ReceiveError(p) \/ ReceiveDataAgain(p) PROVE Request'
  <2>1. UNCHANGED <<blkSize, tstate, srv, arpWait>> /\ net' = AfterTaking(p)
    BY <1>5 DEF ReceiveIgnored, ReceiveError, ReceiveDataAgain, tftpVars, srvVars, arpVars
  <2>2. handler' = "tftp" => handler = "tftp" /\ tryCount' = tryCount
    BY <1>5, StartAgainEffect DEF ReceiveIgnored, ReceiveError, ReceiveDataAgain, loopVars, ctlVars
  <2>3. tstate = "RRQ" => block' = block
    BY <1>5 DEF ReceiveIgnored, ReceiveError, ReceiveDataAgain, FirstBlock, tftpVars
  <2> QED BY <2>1, <2>2, <2>3, TakingEffect, RequestKept DEF Request
<1>6. ASSUME NEW p \in net, ReceiveOack(p) \/ ReceiveDataBadFirst(p) \/ ReceiveData(p) PROVE Request'
  <2>1. tstate' # "RRQ"
    BY <1>6 DEF ReceiveOack, ReceiveDataBadFirst, ReceiveData
  <2> QED BY <2>1 DEF Request
<1>7. CASE ServerArp \/ (\E p \in net : LosePacket(p)) \/ UNCHANGED vars
  <2>1. UNCHANGED <<blkSize, block, tryCount, handler, tstate, srv, arpWait>>
    BY <1>7 DEF ServerArp, LosePacket, vars, clientVars, loopVars, ctlVars, arpVars, tftpVars, srvVars
  <2>2. \A p \in net' : p \in net \/ p.op # "ACK"
    BY <1>7, TakingEffect DEF ServerArp, LosePacket, vars, ArpRep
  <2> QED BY <2>1, <2>2, RequestKept DEF Request
<1>8. ASSUME NEW p \in net, ServerRrq(p) PROVE Request'
  <2>1. UNCHANGED <<blkSize, block, tryCount, handler, tstate, arpWait>>
    BY <1>8 DEF ServerRrq, clientVars, loopVars, ctlVars, arpVars, tftpVars
  <2>2. \A q \in net' : q \in net \/ q.op # "ACK"
    BY <1>8, RrqEffect, TakingEffect DEF ERROR, OACK, DATA
  <2>3. CASE UNCHANGED srv
    BY <2>1, <2>2, <2>3, RequestKept DEF Request
  <2>4. CASE ~UNCHANGED srv
    <3>1. PICK start \in {[cur |-> 0, blk |-> BlkOpt], [cur |-> 1, blk |-> BlkDef]} :
            srv' = [t \in DOMAIN srv \cup {NewTid} |->
                      IF t = NewTid THEN [port |-> p.port, cur |-> start.cur, blk |-> start.blk]
                      ELSE srv[t]]
      BY <1>8, <2>4, RrqEffect
    <3>2. start.blk = BlkDef \/ ~(start.cur > 0)
      OBVIOUS
    <3>3. \A t \in DOMAIN srv' : \/ t \in DOMAIN srv /\ srv'[t] = srv[t]
                                 \/ srv'[t].cur = start.cur /\ srv'[t].blk = start.blk
      BY <3>1
    <3>4. \A t \in DOMAIN srv' : \/ t \in DOMAIN srv /\ srv'[t] = srv[t]
                                 \/ srv'[t].blk = BlkDef \/ ~(srv'[t].cur > 0)
      BY <3>2, <3>3
    <3> QED BY <2>1, <2>2, <3>4, RequestKept DEF Request
  <2> QED BY <2>3, <2>4
<1>9. ASSUME NEW p \in net, ServerAck(p) PROVE Request'
  <2>1. UNCHANGED <<blkSize, block, tryCount, handler, tstate, arpWait>>
    BY <1>9 DEF ServerAck, clientVars, loopVars, ctlVars, arpVars, tftpVars
  <2>2. \A q \in net' : q \in net \/ q.op # "ACK"
    <3>1. \A t, q, k, b : DATA(q, t, k, b).op # "ACK" /\ OACK(q, t, b).op # "ACK"
      BY DEF DATA, OACK
    <3>2. Current(p.tid).op # "ACK"
      BY <3>1 DEF Current
    <3> DEFINE d == DATA(srv[p.tid].port, p.tid, srv[p.tid].cur + 1, srv[p.tid].blk)
    <3>3. d.op # "ACK"
      BY <3>1
    <3>4. \/ net' = AfterTaking(p) \/ net' = AfterTaking(p) \cup {Current(p.tid)}
          \/ net' = AfterTaking(p) \cup {d}
      BY <1>9, AckEffect
    <3> HIDE DEF d
    <3> QED BY <3>2, <3>3, <3>4, TakingEffect
  <2>3. CASE UNCHANGED srv
    BY <2>1, <2>2, <2>3, RequestKept DEF Request
  <2>4. CASE ~UNCHANGED srv
    <3> SUFFICES ASSUME handler = "tftp", tstate = "RRQ" PROVE Request'
      BY <2>1 DEF Request
    <3>1. srv' = [srv EXCEPT ![p.tid].cur = srv[p.tid].cur + 1] /\ p.op = "ACK" /\ p.tid \in DOMAIN srv
      BY <1>9, <2>4, AckEffect
    <3>2. srv[p.tid].port # tryCount
      BY <3>1, AckPort DEF TftpInv, Request, NoAck, Packets
    <3>3. srv'[p.tid].port = srv[p.tid].port
      BY <3>1, SrvGrows
    <3>4. DOMAIN srv' = DOMAIN srv /\ \A t \in DOMAIN srv : t # p.tid => srv'[t] = srv[t]
      BY <3>1
    <3>5. \A t \in DOMAIN srv' : (t \in DOMAIN srv /\ srv'[t] = srv[t]) \/ srv'[t].port # tryCount
      BY <3>2, <3>3, <3>4
    <3> QED BY <2>1, <2>2, <3>5, RequestKept
  <2> QED BY <2>3, <2>4
<1> QED BY <1>1, <1>2, <1>3, <1>4, <1>5, <1>6, <1>7, <1>8, <1>9
        DEF Next, ClientStep, ReceivePacket, ServerStep

\* The transfer of a data packet the client takes has the client's block size.
LEMMA DataBlockSize ==
  ASSUME TftpInv, NEW p \in net, p.op = "DATA", Accepted(p)
  PROVE  /\ p.tid \in DOMAIN srv /\ srv[p.tid].port = tryCount /\ srv[p.tid].blk = blkSize
         /\ handler = "tftp"
<1>1. /\ p.tid \in DOMAIN srv /\ srv[p.tid].port = tryCount /\ handler = "tftp"
      /\ tstate = "RRQ" \/ p.tid = serverPort
  BY PacketFacts DEF Accepted, ToClient
<1>2. CASE tstate = "RRQ"
  <2>1. Packet(p, srv, tryCount, handler) /\ Transfer(srv[p.tid], tryCount, handler)
    BY <1>1 DEF TftpInv, Packets, Transfers
  <2>2. \E k \in 1..srv[p.tid].cur : Carries(p, k, srv[p.tid].blk)
    BY <2>1 DEF Packet
  <2>3. srv[p.tid].cur > 0
    BY <2>1, <2>2 DEF Transfer
  <2> QED BY <1>1, <1>2, <2>3 DEF TftpInv, Request
<1>3. CASE tstate # "RRQ"
  BY <1>1, <1>3 DEF TftpInv, Session
<1> QED BY <1>1, <1>2, <1>3

LEMMA SessionStep == TftpInv /\ [Next]_vars => Session'
<1> SUFFICES ASSUME TftpInv, [Next]_vars PROVE Session'
  OBVIOUS
<1>0. Session
  BY DEF TftpInv
<1>1. CASE \/ UNCHANGED <<tstate, serverPort, blkSize>>
              /\ (handler' = "tftp" => handler = "tftp" /\ tryCount' = tryCount)
  <2> SUFFICES ASSUME handler' = "tftp", tstate' # "RRQ"
               PROVE  /\ serverPort' \in DOMAIN srv'
                      /\ srv'[serverPort'].port = tryCount' /\ srv'[serverPort'].blk = blkSize'
    BY DEF Session
  <2>1. /\ serverPort \in DOMAIN srv
        /\ srv[serverPort].port = tryCount /\ srv[serverPort].blk = blkSize
    BY <1>0, <1>1 DEF Session
  <2> QED BY <1>1, <2>1, SrvGrows
<1>2. CASE NetLoop \/ Restart
  <2>1. tstate' = "RRQ"
    BY <1>2 DEF NetLoop, Restart, TftpStart
  <2> QED BY <2>1 DEF Session
<1>3. CASE NetLoopNoLink \/ Fail \/ Abort \/ Succeed \/ startAgainTimeout \/ ArpTimeoutCheck \/ TftpTimeout
  <2>1. UNCHANGED <<tstate, serverPort, blkSize>>
    BY <1>3 DEF NetLoopNoLink, Fail, Abort, Succeed, startAgainTimeout, ArpTimeoutCheck, TftpTimeout,
                tftpVars
  <2>2. handler' = "tftp" => handler = "tftp" /\ tryCount' = tryCount
    BY <1>3, StartAgainEffect DEF NetLoopNoLink, Fail, Abort, Succeed, startAgainTimeout,
                ArpTimeoutCheck, TftpTimeout, ctlVars
  <2> QED BY <1>1, <2>1, <2>2
<1>4. CASE ReceiveArpReply
  BY <1>1, <1>4 DEF ReceiveArpReply, loopVars, ctlVars, tftpVars
<1>5. ASSUME NEW p \in net, ReceiveIgnored(p) \/ ReceiveError(p) \/ ReceiveDataAgain(p) PROVE Session'
  <2>1. UNCHANGED <<tstate, serverPort, blkSize>>
    BY <1>5 DEF ReceiveIgnored, ReceiveError, ReceiveDataAgain, tftpVars
  <2>2. handler' = "tftp" => handler = "tftp" /\ tryCount' = tryCount
    BY <1>5, StartAgainEffect DEF ReceiveIgnored, ReceiveError, ReceiveDataAgain, loopVars, ctlVars
  <2> QED BY <1>1, <2>1, <2>2
<1>6. ASSUME NEW p \in net, ReceiveOack(p) PROVE Session'
  <2>1. /\ serverPort' = p.tid /\ blkSize' = p.blk /\ tryCount' = tryCount
        /\ p.op = "OACK" /\ p.port = tryCount
    BY <1>6 DEF ReceiveOack, Accepted, loopVars
  <2>2. p.tid \in DOMAIN srv /\ srv[p.tid].port = tryCount /\ srv[p.tid].blk = p.blk
    BY <2>1, PacketFacts DEF ToClient
  <2>3. p.tid \in DOMAIN srv' /\ srv'[p.tid].port = tryCount /\ srv'[p.tid].blk = p.blk
    BY <2>2, SrvGrows
  <2> QED BY <2>1, <2>3 DEF Session
<1>7. ASSUME NEW p \in net, ReceiveDataBadFirst(p) \/ ReceiveData(p) PROVE Session'
  <2>1. p.op = "DATA" /\ Accepted(p) /\ serverPort' = p.tid /\ blkSize' = blkSize
    BY <1>7 DEF ReceiveDataBadFirst, ReceiveData
  <2>2. handler' = "tftp" => tryCount' = tryCount
    BY <1>7, StartAgainEffect DEF ReceiveDataBadFirst, ReceiveData
  <2>3. p.tid \in DOMAIN srv /\ srv[p.tid].port = tryCount /\ srv[p.tid].blk = blkSize
    BY <2>1, DataBlockSize
  <2>4. p.tid \in DOMAIN srv' /\ srv'[p.tid].port = tryCount /\ srv'[p.tid].blk = blkSize
    BY <2>3, SrvGrows
  <2> QED BY <2>1, <2>2, <2>4 DEF Session
<1>8. CASE ServerStep \/ (\E p \in net : LosePacket(p)) \/ UNCHANGED vars
  <2>1. UNCHANGED <<tstate, serverPort, blkSize, handler, tryCount>>
    BY <1>8 DEF ServerStep, ServerArp, ServerRrq, ServerAck, LosePacket, vars, clientVars, loopVars,
                ctlVars, tftpVars
  <2> QED BY <1>1, <2>1
<1> QED BY <1>2, <1>3, <1>4, <1>5, <1>6, <1>7, <1>8 DEF Next, ClientStep, ReceivePacket


LEMMA TftpInit == Init => TftpInv
<1> SUFFICES ASSUME Init PROVE TftpInv
  OBVIOUS
<1>1. Types
  BY TypesInit
<1>2. /\ net = {} /\ srv = << >> /\ arpWait = None /\ mem = << >> /\ xferSize = 0 /\ handler = "none"
      /\ timer = "none" /\ netState = "CONTINUE" /\ pc = "idle" /\ result = "none"
      /\ timeouts = 0 /\ tryCount = 0
  BY DEF Init
<1>3. DOMAIN srv = {} /\ DOMAIN mem = {} /\ 1..0 = {}
  BY <1>2
<1>4. MemType
  BY <1>2, <1>3 DEF MemType
<1>5. Control
  BY <1>2, <1>3, Constants DEF Control
<1>6. Transfers
  <2>1. 0 \in Nat /\ DOMAIN srv = 1..0 /\ 1..0 \subseteq Tid
    BY <1>3
  <2> QED BY <1>3, <2>1 DEF Transfers
<1>7. Packets
  BY <1>2, ArpPackets DEF Packets
<1>8. Request /\ Session
  BY <1>2 DEF Request, Session
<1> QED BY <1>1, <1>4, <1>5, <1>6, <1>7, <1>8 DEF TftpInv

LEMMA TftpStep == TftpInv /\ [Next]_vars => TftpInv'
<1> SUFFICES ASSUME TftpInv, [Next]_vars PROVE TftpInv'
  OBVIOUS
<1>1. \/ ClientStep \/ Abort \/ ReceivePacket
      \/ (ServerStep \/ (\E p \in net : LosePacket(p)) \/ UNCHANGED vars)
  BY DEF Next
<1>2. Types'
  BY <1>1, TypesClient, TypesReceive, TypesOthers
<1>3. Control'
  BY <1>1, ControlClient, ControlReceive, ControlOthers
<1>4. Packets'
  BY <1>1, PacketsClient, PacketsReceive, PacketsServer
<1>5. MemType' /\ Transfers' /\ Request' /\ Session'
  BY MemTypeStep, TransfersStep, RequestStep, SessionStep
<1> QED BY <1>2, <1>3, <1>4, <1>5 DEF TftpInv

EtherType == ether \in BOOLEAN

LEMMA EtherStep == EtherType /\ [Next]_vars => EtherType'
<1> SUFFICES ASSUME EtherType, [Next]_vars PROVE EtherType'
  OBVIOUS
<1>1. ClientStep \/ Abort => ether' = ether \/ ether' = FALSE
  BY DEF ClientStep, NetLoop, NetLoopNoLink, Restart, Succeed, Fail, Abort, ArpTimeoutCheck,
         TftpTimeout, startAgainTimeout, TftpStart, arpVars
<1>2. ReceivePacket => ether' = ether \/ ether' = TRUE
  BY DEF ReceivePacket, ReceiveArpReply, ReceiveIgnored, ReceiveOack, ReceiveError,
         ReceiveDataBadFirst, ReceiveDataAgain, ReceiveData, arpVars
<1>3. ServerStep \/ (\E p \in net : LosePacket(p)) \/ UNCHANGED vars => ether' = ether
  BY DEF ServerStep, ServerArp, ServerRrq, ServerAck, LosePacket, clientVars, vars, arpVars
<1> QED BY <1>1, <1>2, <1>3 DEF Next, EtherType

\* The client's counters stay in range for any file and any network: block
\* numbers in 16 bits, the timeout and ARP counters below their limits, the
\* place store_block writes to at or above load_addr, also when numbers wrap.
THEOREM TftpTyping == Spec => []TypeOK
<1>1. TftpInv /\ EtherType => TypeOK
  <2> SUFFICES ASSUME TftpInv, EtherType PROVE TypeOK
    OBVIOUS
  <2>1. DOMAIN srv \subseteq Tid
    BY DEF TftpInv, Transfers
  <2>2. Types /\ MemType
    BY DEF TftpInv
  <2> QED BY <2>1, <2>2 DEF TypeOK, Types, MemType, EtherType
<1>2. Init => EtherType
  BY DEF Init, EtherType
<1> QED BY <1>1, <1>2, TftpInit, TftpStep, EtherStep, PTL DEF Spec

\* One transfer per try: whatever the network repeats, delays or reorders of
\* earlier tries and of other transfers, TftpHandler stays with one transfer,
\* opened for its present port, and uses the block size of that transfer.
THEOREM OneTransfer == Spec => []SameTransfer
<1>1. TftpInv => SameTransfer
  BY DEF TftpInv, Session, SameTransfer
<1> QED BY <1>1, TftpInit, TftpStep, PTL DEF Spec


------------------------------------------------------------------------------
(* Bytes, for a file whose block numbers do not wrap.                       *)

LEMMA MulLess ==
  ASSUME NEW a \in Int, NEW c \in Nat, NEW b \in Nat \ {0}, NEW x \in Nat, a * b <= x, c * b > x
  PROVE  a < c
<1> SUFFICES ASSUME a >= c PROVE FALSE
  OBVIOUS
<1>1. PICK d \in Nat : a = c + d
  <2>1. a - c \in Nat /\ a = c + (a - c)
    OBVIOUS
  <2> QED BY <2>1
<1>2. a * b = c * b + d * b /\ d * b \in Nat /\ c * b \in Nat
  BY <1>1
<1>3. a * b \in Int
  OBVIOUS
<1> HIDE <1>1
<1> QED BY <1>2, <1>3

LEMMA MulMono ==
  ASSUME NEW a \in Nat, NEW c \in Nat, NEW b \in Nat, a <= c
  PROVE  a * b \in Nat /\ c * b \in Nat /\ a * b <= c * b
<1>1. PICK d \in Nat : c = a + d
  <2>1. c - a \in Nat /\ c = a + (c - a)
    OBVIOUS
  <2> QED BY <2>1
<1>2. c * b = a * b + d * b /\ d * b \in Nat /\ a * b \in Nat
  BY <1>1
<1>3. c * b \in Nat
  OBVIOUS
<1> HIDE <1>1
<1> QED BY <1>2, <1>3

\* The block a transfer has reached keeps its number on the wire.
LEMMA NumberFits ==
  ASSUME NoWrap, TftpInv, NEW t \in DOMAIN srv, NEW k \in 0..srv[t].cur
  PROVE  k < SeqSize /\ Seq16(k) = k
<1>1. /\ srv[t].cur \in Nat /\ srv[t].blk \in {BlkDef, BlkOpt}
      /\ srv[t].cur > 0 => (srv[t].cur - 1) * srv[t].blk <= FileLen
  BY DEF TftpInv, Transfers, Transfer
<1>2. k < SeqSize
  <2>1. CASE srv[t].cur = 0
    BY <1>1, <2>1, Constants
  <2>2. CASE srv[t].cur # 0
    <3>1. /\ srv[t].blk \in Nat \ {0} /\ srv[t].cur - 1 \in Int /\ SeqSize - 1 \in Nat
          /\ (srv[t].cur - 1) * srv[t].blk <= FileLen /\ (SeqSize - 1) * srv[t].blk > FileLen
          /\ FileLen \in Nat
      BY <1>1, <2>2, Constants DEF NoWrap
    <3>2. srv[t].cur - 1 < SeqSize - 1
      BY <3>1, MulLess
    <3> QED BY <1>1, <3>2, Constants
  <2> QED BY <2>1, <2>2
<1>3. k \in 0..(SeqSize - 1)
  BY <1>1, <1>2, Constants
<1> QED BY <1>2, <1>3, Constants DEF Seq16

\* What a data packet the client accepts carries, and what is stored before it.
LEMMA DataExact ==
  ASSUME NoWrap, TftpInv, ByteInv, NEW p \in net, p.op = "DATA", Accepted(p)
  PROVE  /\ p.num \in Nat \ {0} /\ blkSize \in Nat \ {0}
         /\ p.off \in 0..FileLen /\ p.len \in Nat
         /\ (p.num - 1) * blkSize = p.off /\ p.num * blkSize = p.off + blkSize
         /\ p.off + p.len <= FileLen
         /\ p.len = blkSize \/ p.off + p.len = FileLen
         /\ p.len <= blkSize
         /\ Stored(p.off, mem)
<1>1. p.tid \in DOMAIN srv /\ srv[p.tid].blk = blkSize /\ blkSize \in Nat \ {0}
  BY DataBlockSize, Constants DEF TftpInv, Types
<1>2. PICK k \in 1..srv[p.tid].cur : Carries(p, k, blkSize)
  BY <1>1 DEF TftpInv, Packets, Packet
<1>3. srv[p.tid].cur \in Nat /\ k \in Nat \ {0} /\ k - 1 \in Nat /\ k \in 0..srv[p.tid].cur
  BY <1>1, <1>2 DEF TftpInv, Transfers, Transfer
<1>4. p.num = k
  BY <1>1, <1>2, <1>3, NumberFits DEF Carries
<1>5. p.off = (k - 1) * blkSize /\ p.off \in Nat
  BY <1>1, <1>2, <1>3 DEF Carries
<1>6. k * blkSize = p.off + blkSize
  BY <1>1, <1>3, <1>5
<1>7. srv[p.tid].cur > 0 /\ srv[p.tid].cur - 1 \in Nat /\ k - 1 <= srv[p.tid].cur - 1
  BY <1>2, <1>3
<1>8. (srv[p.tid].cur - 1) * blkSize <= FileLen
  BY <1>1, <1>7 DEF TftpInv, Transfers, Transfer
<1>9. /\ (srv[p.tid].cur - 1) * blkSize \in Nat
      /\ p.off <= (srv[p.tid].cur - 1) * blkSize
  BY <1>1, <1>3, <1>5, <1>7, MulMono
<1>10. p.off \in 0..FileLen
  BY <1>5, <1>8, <1>9, Constants
<1>11. Stored(p.off, mem)
  <2>1. Stored((srv[p.tid].cur - 1) * blkSize, mem)
    BY <1>1 DEF ByteInv, Sent
  <2> DEFINE x == (srv[p.tid].cur - 1) * blkSize
  <2>2. x \in Nat /\ p.off <= x /\ Stored(x, mem)
    BY <1>9, <2>1
  <2> HIDE DEF x
  <2> QED BY <1>5, <2>2 DEF Stored
<1>12. p.len = IF p.off + blkSize <= FileLen THEN blkSize ELSE FileLen - p.off
  BY <1>2 DEF Carries
<1>13. /\ p.len \in Nat /\ p.off + p.len <= FileLen /\ p.len <= blkSize
       /\ p.len = blkSize \/ p.off + p.len = FileLen
  BY <1>1, <1>10, <1>12, Constants
<1> QED BY <1>1, <1>3, <1>4, <1>5, <1>6, <1>10, <1>11, <1>13

\* store_block puts the block at its place and keeps the rest.
LEMMA StoreEffect ==
  ASSUME NoWrap, TftpInv, ByteInv, NEW p \in net, ReceiveData(p)
  PROVE  /\ wrapOffset' = 0
         /\ DOMAIN mem' = DOMAIN mem \cup p.off..(p.off + p.len - 1)
         /\ \A u \in DOMAIN mem' : mem'[u] = u
         /\ xferSize' = IF xferSize < p.off + p.len THEN p.off + p.len ELSE xferSize
         /\ Stored(p.off + p.len, mem')
<1>1. p.op = "DATA" /\ Accepted(p)
  BY DEF ReceiveData
<1>2. /\ p.num \in Nat \ {0} /\ blkSize \in Nat \ {0} /\ p.off \in 0..FileLen /\ p.len \in Nat
      /\ (p.num - 1) * blkSize = p.off /\ Stored(p.off, mem)
  BY <1>1, DataExact
<1>3. wrapOffset' = 0
  BY <1>2 DEF ReceiveData, Wrapped, ByteInv, Memory
<1> DEFINE at == (p.num - 1) * blkSize + wrapOffset'
<1>4. at = p.off /\ p.off \in Nat
  BY <1>2, <1>3
<1>5. /\ mem' = [u \in DOMAIN mem \cup at..(at + p.len - 1) |->
                   IF u \in at..(at + p.len - 1) THEN p.off + (u - at) ELSE mem[u]]
      /\ xferSize' = IF xferSize < at + p.len THEN at + p.len ELSE xferSize
  BY DEF ReceiveData, store_block
<1> HIDE DEF at
<1>6. DOMAIN mem' = DOMAIN mem \cup p.off..(p.off + p.len - 1)
  BY <1>4, <1>5
<1>7. ASSUME NEW u \in DOMAIN mem' PROVE mem'[u] = u
  <2>1. CASE u \in p.off..(p.off + p.len - 1)
    <3>1. mem'[u] = p.off + (u - p.off)
      BY <1>4, <1>5, <1>6, <2>1
    <3> QED BY <1>2, <1>4, <2>1, <3>1
  <2>2. CASE u \notin p.off..(p.off + p.len - 1)
    <3>1. mem'[u] = mem[u] /\ u \in DOMAIN mem
      BY <1>4, <1>5, <1>6, <2>2
    <3> QED BY <3>1 DEF ByteInv, Memory
  <2> QED BY <2>1, <2>2
<1>8. Stored(p.off + p.len, mem')
  <2> SUFFICES ASSUME NEW u \in Nat, u < p.off + p.len, u < FileLen PROVE u \in DOMAIN mem'
    BY DEF Stored
  <2>1. CASE u < p.off
    BY <1>2, <1>6, <2>1 DEF Stored
  <2>2. CASE ~(u < p.off)
    <3>1. u \in p.off..(p.off + p.len - 1)
      BY <1>2, <1>4, <2>2
    <3> QED BY <1>6, <3>1
  <2> QED BY <2>1, <2>2
<1> QED BY <1>3, <1>4, <1>5, <1>6, <1>7, <1>8


\* Only data packets write memory, and what is stored stays stored.
LEMMA MemByData ==
  ASSUME [Next]_vars
  PROVE  UNCHANGED mem \/ \E p \in net : ReceiveData(p)
<1>1. ClientStep \/ Abort => UNCHANGED mem
  BY DEF ClientStep, NetLoop, NetLoopNoLink, Restart, Succeed, Fail, Abort, ArpTimeoutCheck,
         TftpTimeout, startAgainTimeout, dataVars
<1>2. ReceivePacket => UNCHANGED mem \/ \E p \in net : ReceiveData(p)
  BY DEF ReceivePacket, ReceiveArpReply, ReceiveIgnored, ReceiveOack, ReceiveError,
         ReceiveDataBadFirst, ReceiveDataAgain, dataVars
<1>3. ServerStep \/ (\E p \in net : LosePacket(p)) \/ UNCHANGED vars => UNCHANGED mem
  BY DEF ServerStep, ServerArp, ServerRrq, ServerAck, LosePacket, clientVars, vars, dataVars
<1> QED BY <1>1, <1>2, <1>3 DEF Next

LEMMA StoredKept ==
  ASSUME NoWrap, TftpInv, ByteInv, [Next]_vars
  PROVE  \A x : Stored(x, mem) => Stored(x, mem')
<1>1. CASE UNCHANGED mem
  BY <1>1
<1>2. ASSUME NEW p \in net, ReceiveData(p) PROVE DOMAIN mem \subseteq DOMAIN mem'
  BY <1>2, StoreEffect
<1> QED BY <1>1, <1>2, MemByData DEF Stored

LEMMA MemoryStep ==
  ASSUME NoWrap, TftpInv, ByteInv, [Next]_vars
  PROVE  Memory'
<1>0. Memory
  BY DEF ByteInv
<1>1. ASSUME NEW p \in net, ReceiveData(p) PROVE Memory'
  <2>1. p.off + p.len <= FileLen
    BY <1>1, DataExact DEF ReceiveData
  <2>2. /\ wrapOffset' = 0 /\ \A u \in DOMAIN mem' : mem'[u] = u
        /\ xferSize' = IF xferSize < p.off + p.len THEN p.off + p.len ELSE xferSize
    BY <1>1, StoreEffect
  <2>3. xferSize' <= FileLen
    BY <1>0, <2>1, <2>2 DEF Memory
  <2> QED BY <2>2, <2>3 DEF Memory
<1>2. CASE UNCHANGED mem /\ wrapOffset' = 0 /\ xferSize' \in {0, xferSize}
  BY <1>0, <1>2, Constants DEF Memory
<1>3. NetLoop \/ Restart => UNCHANGED <<mem, wrapOffset>> /\ xferSize' = 0
  BY DEF NetLoop, Restart, TftpStart
<1>4. NetLoopNoLink \/ Succeed \/ Fail \/ Abort \/ ArpTimeoutCheck \/ TftpTimeout \/ startAgainTimeout
        => UNCHANGED <<mem, wrapOffset, xferSize>>
  BY DEF NetLoopNoLink, Succeed, Fail, Abort, ArpTimeoutCheck, TftpTimeout, startAgainTimeout,
         dataVars, tftpVars
<1>5. ReceiveArpReply => UNCHANGED <<mem, wrapOffset, xferSize>>
  BY DEF ReceiveArpReply, dataVars, tftpVars
<1>6. ASSUME NEW p \in net, ReceiveIgnored(p) \/ ReceiveOack(p) \/ ReceiveError(p)
      PROVE  UNCHANGED <<mem, wrapOffset, xferSize>>
  BY <1>6 DEF ReceiveIgnored, ReceiveOack, ReceiveError, dataVars, tftpVars
<1>7. ASSUME NEW p \in net, ReceiveDataBadFirst(p) \/ ReceiveDataAgain(p)
      PROVE  UNCHANGED <<mem, xferSize>> /\ wrapOffset' = 0
  <2>1. p.num # 0 \/ ReceiveDataBadFirst(p)
    BY <1>7, DataExact DEF ReceiveDataAgain
  <2> QED BY <1>0, <1>7, <2>1 DEF ReceiveDataBadFirst, ReceiveDataAgain, Wrapped, dataVars, Memory
<1>8. ServerStep \/ (\E p \in net : LosePacket(p)) \/ UNCHANGED vars
        => UNCHANGED <<mem, wrapOffset, xferSize>>
  BY DEF ServerStep, ServerArp, ServerRrq, ServerAck, LosePacket, clientVars, vars, dataVars, tftpVars
<1>9. wrapOffset = 0
  BY <1>0 DEF Memory
<1> QED BY <1>1, <1>2, <1>3, <1>4, <1>5, <1>6, <1>7, <1>8, <1>9 DEF Next, ClientStep, ReceivePacket

LEMMA SentStep ==
  ASSUME NoWrap, TftpInv, ByteInv, [Next]_vars
  PROVE  Sent'
<1>0. Sent /\ Transfers
  BY DEF ByteInv, TftpInv
<1>a. \A t \in DOMAIN srv : Stored((srv[t].cur - 1) * srv[t].blk, mem')
  BY <1>0, StoredKept DEF Sent
<1>1. CASE UNCHANGED srv
  BY <1>1, <1>a DEF Sent
<1>2. ASSUME NEW p \in net, ServerRrq(p), ~UNCHANGED srv PROVE Sent'
  <2>1. PICK start \in {[cur |-> 0, blk |-> BlkOpt], [cur |-> 1, blk |-> BlkDef]} :
          srv' = [t \in DOMAIN srv \cup {NewTid} |->
                    IF t = NewTid THEN [port |-> p.port, cur |-> start.cur, blk |-> start.blk]
                    ELSE srv[t]]
    BY <1>2, RrqEffect
  <2>2. (start.cur - 1) * start.blk \in Int /\ (start.cur - 1) * start.blk <= 0
    <3>1. CASE start = [cur |-> 0, blk |-> BlkOpt]
      <4>1. start.cur - 1 = -1 /\ start.blk = BlkOpt
        BY <3>1
      <4> QED BY <4>1, Constants
    <3>2. CASE start = [cur |-> 1, blk |-> BlkDef]
      <4>1. start.cur - 1 = 0 /\ start.blk = BlkDef
        BY <3>2
      <4> QED BY <4>1, Constants
    <3> QED BY <3>1, <3>2
  <2>3. Stored((start.cur - 1) * start.blk, mem')
    <3> DEFINE x == (start.cur - 1) * start.blk
    <3>1. x \in Int /\ x <= 0
      BY <2>2
    <3> HIDE DEF x
    <3>2. Stored(x, mem')
      BY <3>1 DEF Stored
    <3> QED BY <3>2 DEF x
  <2>4. \A t \in DOMAIN srv' : \/ t \in DOMAIN srv /\ srv'[t] = srv[t]
                               \/ srv'[t].cur = start.cur /\ srv'[t].blk = start.blk
    BY <2>1
  <2>5. \A t \in DOMAIN srv' : Stored((srv'[t].cur - 1) * srv'[t].blk, mem')
    BY <1>a, <2>3, <2>4
  <2> QED BY <2>5 DEF Sent
<1>3. ASSUME NEW p \in net, ServerAck(p), ~UNCHANGED srv PROVE Sent'
  <2> DEFINE t == p.tid
  <2>1. /\ t \in DOMAIN srv /\ p.op = "ACK" /\ p.num = Seq16(srv[t].cur)
        /\ srv' = [srv EXCEPT ![t].cur = srv[t].cur + 1]
    BY <1>3, AckEffect
  <2>2. Stored(p.num * srv[t].blk, mem')
    <3>1. Stored(p.num * srv[t].blk, mem)
      BY <2>1 DEF ByteInv, Acks, AckStored
    <3> QED BY <3>1, StoredKept
  <2> HIDE DEF t
  <2>3. srv[t] \in [port : Nat, cur : Nat, blk : {BlkDef, BlkOpt}] /\ srv[t].cur \in Nat
    BY <1>0, <2>1 DEF Transfers, Transfer
  <2>4. p.num = srv[t].cur
    <3>1. srv[t].cur \in 0..srv[t].cur
      BY <2>3
    <3> QED BY <2>1, <3>1, NumberFits
  <2>5. srv'[t].cur - 1 = srv[t].cur /\ srv'[t].blk = srv[t].blk
    BY <2>1, <2>3
  <2>6. DOMAIN srv' = DOMAIN srv /\ \A s \in DOMAIN srv : s # t => srv'[s] = srv[s]
    BY <2>1
  <2>7. Stored((srv'[t].cur - 1) * srv'[t].blk, mem')
    BY <2>2, <2>4, <2>5
  <2>8. \A s \in DOMAIN srv' : Stored((srv'[s].cur - 1) * srv'[s].blk, mem')
    BY <1>a, <2>6, <2>7
  <2> QED BY <2>8 DEF Sent
<1> QED BY <1>1, <1>2, <1>3, SrvByServer


\* The block the client takes is stored when it is acknowledged.
LEMMA BlockStored ==
  ASSUME NoWrap, TftpInv, ByteInv, NEW p \in net, ReceiveData(p)
  PROVE  Stored(p.num * blkSize, mem')
<1>1. /\ blkSize \in Nat \ {0} /\ p.off \in 0..FileLen /\ p.len \in Nat
      /\ p.num * blkSize = p.off + blkSize
      /\ p.len = blkSize \/ p.off + p.len = FileLen
  BY DataExact DEF ReceiveData
<1>2. Stored(p.off + p.len, mem')
  BY StoreEffect
<1> DEFINE x == p.num * blkSize
<1>3. x = p.off + blkSize
  BY <1>1
<1> HIDE DEF x
<1>4. \A u \in Nat : u < x /\ u < FileLen => u < p.off + p.len
  BY <1>1, <1>3, Constants
<1>5. Stored(x, mem')
  BY <1>2, <1>4 DEF Stored
<1> QED BY <1>5 DEF x

LEMMA AcksFrom ==
  ASSUME NoWrap, TftpInv, ByteInv, [Next]_vars,
         \A p \in net' : p \in net \/ p = arpWait \/ AckStored(p, srv', mem'),
         arpWait' = arpWait \/ AckStored(arpWait', srv', mem')
  PROVE  Acks'
<1>1. ASSUME NEW p, Packet(p, srv, tryCount, handler), AckStored(p, srv, mem)
      PROVE  AckStored(p, srv', mem')
  <2> SUFFICES ASSUME p.op = "ACK" PROVE Stored(p.num * srv'[p.tid].blk, mem')
    BY DEF AckStored
  <2>1. p.tid \in DOMAIN srv
    BY <1>1, AckPort
  <2>2. srv'[p.tid].blk = srv[p.tid].blk
    BY <2>1, SrvGrows
  <2>3. Stored(p.num * srv[p.tid].blk, mem')
    BY <1>1, StoredKept DEF AckStored
  <2> QED BY <2>2, <2>3
<1>2. AckStored(arpWait, srv', mem') /\ \A p \in net : AckStored(p, srv', mem')
  BY <1>1 DEF TftpInv, Packets, ByteInv, Acks
<1> QED BY <1>2 DEF Acks

LEMMA NotAnAck ==
  \A p, s, m : p.op # "ACK" => AckStored(p, s, m)
BY DEF AckStored

\* An acknowledgement of n blocks sent to transfer t.
LEMMA AckIsStored ==
  ASSUME NEW try, NEW t, NEW n, NEW s, NEW m, Stored(n * s[t].blk, m)
  PROVE  AckStored(ACK(try, t, n), s, m)
BY DEF AckStored, ACK

LEMMA AcksClient ==
  ASSUME NoWrap, TftpInv, ByteInv, ClientStep \/ Abort
  PROVE  Acks'
<1>0. Types /\ Control /\ Session /\ Client /\ [Next]_vars
  BY DEF TftpInv, ByteInv, Next
<1>a. ArpReq.op # "ACK" /\ \A try : RRQ(try).op # "ACK"
  BY DEF ArpReq, RRQ
<1>1. CASE NetLoop \/ Restart
  <2>1. PICK try : TftpStart(try)
    BY <1>1 DEF NetLoop, Restart
  <2>2. arpWait' = RRQ(try) /\ \A p \in net' : p \in net \/ p = ArpReq
    BY <2>1, StartEffect
  <2> QED BY <1>0, <1>a, <2>2, NotAnAck, AcksFrom
<1>2. CASE UNCHANGED <<net, arpWait>>
  BY <1>0, <1>2, AcksFrom
<1>3. CASE ArpTimeoutCheck
  <2>1. arpWait' = arpWait /\ \A p \in net' : p \in net \/ p = ArpReq
    BY <1>3 DEF ArpTimeoutCheck
  <2> QED BY <1>0, <1>a, <2>1, NotAnAck, AcksFrom
<1>4. CASE TftpTimeout /\ ~UNCHANGED <<net, arpWait>>
  <2> DEFINE pkt == TftpPacket(tstate, tryCount, serverPort, block)
  <2>1. NetSendUDPPacket(pkt, ether, net) /\ UNCHANGED <<srv, mem>> /\ timer = "tftp" /\ netState # "FAIL"
    BY <1>4 DEF TftpTimeout, Elapsed, srvVars, dataVars
  <2>2. handler = "tftp"
    BY <1>0, <2>1 DEF Control
  <2>3. AckStored(pkt, srv', mem')
    <3>1. CASE tstate = "RRQ"
      BY <1>a, <3>1, NotAnAck DEF TftpPacket
    <3>2. CASE tstate # "RRQ"
      <4>1. srv[serverPort].blk = blkSize /\ Stored(block * blkSize, mem)
        BY <1>0, <2>1, <2>2, <3>2 DEF Session, Client
      <4>2. Stored(block * srv[serverPort].blk, mem)
        BY <4>1
      <4>3. AckStored(ACK(tryCount, serverPort, block), srv, mem)
        BY <4>2, AckIsStored
      <4> QED BY <2>1, <3>2, <4>3 DEF TftpPacket
    <3> QED BY <3>1, <3>2
  <2> HIDE DEF pkt
  <2>4. /\ \A p \in net' : p \in net \/ p = pkt \/ p = ArpReq
        /\ arpWait' = arpWait \/ arpWait' = pkt
    BY <2>1, SendEffect
  <2> QED BY <1>0, <1>a, <2>3, <2>4, NotAnAck, AcksFrom
<1> QED BY <1>1, <1>2, <1>3, <1>4 DEF ClientStep, NetLoopNoLink, Succeed, Fail, Abort,
                                       startAgainTimeout, arpVars

LEMMA AcksReceive ==
  ASSUME NoWrap, TftpInv, ByteInv, ReceivePacket
  PROVE  Acks'
<1>0. Types /\ Control /\ Request /\ Session /\ Client /\ [Next]_vars
  BY DEF TftpInv, ByteInv, Next
<1>a. ArpReq.op # "ACK" /\ None.op # "ACK"
  BY DEF ArpReq, None
<1>1. CASE ReceiveArpReply
  <2>1. /\ \A p \in net' : p \in net \/ p = arpWait
        /\ arpWait' = arpWait \/ arpWait' = None
    BY <1>1, TakingEffect DEF ReceiveArpReply
  <2> QED BY <1>0, <1>a, <2>1, NotAnAck, AcksFrom
<1>2. ASSUME NEW p \in net,
             ReceiveIgnored(p) \/ ReceiveError(p) \/ ReceiveDataBadFirst(p) \/ ReceiveDataAgain(p)
      PROVE  Acks'
  <2>1. net' = AfterTaking(p) /\ UNCHANGED arpWait
    BY <1>2 DEF ReceiveIgnored, ReceiveError, ReceiveDataBadFirst, ReceiveDataAgain, arpVars
  <2> QED BY <1>0, <2>1, TakingEffect, AcksFrom
<1>3. ASSUME NEW p \in net, NEW pkt, AckStored(pkt, srv', mem'),
             NetSendUDPPacket(pkt, ether, AfterTaking(p))
      PROVE  Acks'
  <2>1. /\ \A q \in net' : q \in AfterTaking(p) \/ q = pkt \/ q = ArpReq
        /\ arpWait' = arpWait \/ arpWait' = pkt
    BY <1>3, SendEffect
  <2> QED BY <1>0, <1>3, <1>a, <2>1, NotAnAck, TakingEffect, AcksFrom
<1>4. ASSUME NEW p \in net, ReceiveOack(p) PROVE Acks'
  <2>1. /\ p.op = "OACK" /\ Accepted(p) /\ UNCHANGED <<srv, mem>> /\ netState # "FAIL"
        /\ NetSendUDPPacket(ACK(tryCount, p.tid, block), ether, AfterTaking(p))
    BY <1>4 DEF ReceiveOack, Receive, TftpPacket, srvVars, dataVars
  <2>2. p.tid \in DOMAIN srv /\ handler = "tftp" /\ srv[p.tid].blk \in Nat
    BY <2>1, PacketFacts, Constants DEF Accepted, ToClient
  <2>3. Stored(block * srv[p.tid].blk, mem)
    <3>1. CASE tstate = "RRQ"
      <4>1. block * srv[p.tid].blk = 0
        BY <1>0, <2>2, <3>1 DEF Request
      <4>2. Stored(0, mem)
        BY DEF Stored
      <4> QED BY <4>1, <4>2
    <3>2. CASE tstate # "RRQ"
      BY <1>0, <2>1, <2>2, <3>2 DEF Session, Client, Accepted
    <3> QED BY <3>1, <3>2
  <2>4. AckStored(ACK(tryCount, p.tid, block), srv', mem')
    BY <2>1, <2>3, AckIsStored
  <2> QED BY <1>3, <2>1, <2>4
<1>5. ASSUME NEW p \in net, ReceiveData(p) PROVE Acks'
  <2>1. /\ p.op = "DATA" /\ Accepted(p) /\ UNCHANGED srv
        /\ NetSendUDPPacket(ACK(tryCount, p.tid, p.num), ether, AfterTaking(p))
    BY <1>5 DEF ReceiveData, TftpPacket, srvVars
  <2>2. srv'[p.tid].blk = blkSize
    BY <2>1, DataBlockSize
  <2>3. Stored(p.num * srv'[p.tid].blk, mem')
    BY <1>5, <2>2, BlockStored
  <2>4. AckStored(ACK(tryCount, p.tid, p.num), srv', mem')
    BY <2>3, AckIsStored
  <2> QED BY <1>3, <2>1, <2>4
<1> QED BY <1>1, <1>2, <1>4, <1>5 DEF ReceivePacket

LEMMA AcksOthers ==
  ASSUME NoWrap, TftpInv, ByteInv, ServerStep \/ (\E p \in net : LosePacket(p)) \/ UNCHANGED vars
  PROVE  Acks'
<1>0. [Next]_vars
  BY DEF Next
<1>1. UNCHANGED arpWait
  BY DEF ServerStep, ServerArp, ServerRrq, ServerAck, LosePacket, clientVars, vars, arpVars
<1>2. CASE ServerArp \/ (\E p \in net : LosePacket(p)) \/ UNCHANGED vars
  <2>1. \A p \in net' : p \in net \/ p.op # "ACK"
    BY <1>2, TakingEffect DEF ServerArp, LosePacket, vars, ArpRep
  <2> QED BY <1>0, <1>1, <2>1, NotAnAck, AcksFrom
<1>3. ASSUME NEW p \in net, ServerRrq(p) PROVE Acks'
  <2>1. \A q \in net' : q \in net \/ q.op # "ACK"
    BY <1>3, RrqEffect, TakingEffect DEF ERROR, OACK, DATA
  <2> QED BY <1>0, <1>1, <2>1, NotAnAck, AcksFrom
<1>4. ASSUME NEW p \in net, ServerAck(p) PROVE Acks'
  <2> DEFINE d == DATA(srv[p.tid].port, p.tid, srv[p.tid].cur + 1, srv[p.tid].blk)
  <2>1. d.op # "ACK" /\ Current(p.tid).op # "ACK"
    BY DEF DATA, OACK, Current
  <2>2. \/ net' = AfterTaking(p) \/ net' = AfterTaking(p) \cup {Current(p.tid)}
        \/ net' = AfterTaking(p) \cup {d}
    BY <1>4, AckEffect
  <2> HIDE DEF d
  <2>3. \A q \in net' : q \in net \/ q.op # "ACK"
    BY <2>1, <2>2, TakingEffect
  <2> QED BY <1>0, <1>1, <2>3, NotAnAck, AcksFrom
<1> QED BY <1>2, <1>3, <1>4 DEF ServerStep


\* A step that leaves the client's place in the transfer alone.
LEMMA ClientKept ==
  ASSUME NoWrap, TftpInv, ByteInv, [Next]_vars, UNCHANGED <<tstate, block, lastBlock, blkSize>>,
         handler' = "tftp" => handler = "tftp",
         netState' # "FAIL" => netState # "FAIL" \/ handler' # "tftp"
  PROVE  Client'
<1>1. Stored(block * blkSize, mem) => Stored(block * blkSize, mem')
  BY StoredKept
<1> QED BY <1>1 DEF ByteInv, Client

LEMMA ClientBytes ==
  ASSUME NoWrap, TftpInv, ByteInv, [Next]_vars
  PROVE  Client'
<1>0. Types /\ Control /\ Request /\ Session /\ Client
  BY DEF TftpInv, ByteInv
<1>1. CASE NetLoop \/ Restart
  <2>1. tstate' = "RRQ"
    BY <1>1 DEF NetLoop, Restart, TftpStart
  <2> QED BY <2>1 DEF Client
<1>2. CASE NetLoopNoLink \/ Succeed \/ Fail \/ Abort
  <2>1. UNCHANGED <<tstate, block, lastBlock, blkSize, handler, netState>>
    BY <1>2 DEF NetLoopNoLink, Succeed, Fail, Abort, tftpVars, ctlVars
  <2> QED BY <2>1, ClientKept
<1>3. CASE ArpTimeoutCheck \/ TftpTimeout \/ startAgainTimeout
  <2>1. UNCHANGED <<tstate, block, lastBlock, blkSize>> /\ netState # "FAIL"
    BY <1>3 DEF ArpTimeoutCheck, TftpTimeout, startAgainTimeout, Elapsed, tftpVars
  <2>2. NetStartAgain \/ UNCHANGED handler
    BY <1>3 DEF ArpTimeoutCheck, TftpTimeout, startAgainTimeout, ctlVars
  <2>3. handler' = "tftp" => handler = "tftp"
    BY <2>2, StartAgainEffect
  <2> QED BY <2>1, <2>3, ClientKept
<1>4. CASE ReceiveArpReply
  <2>1. UNCHANGED <<tstate, block, lastBlock, blkSize, handler, netState>>
    BY <1>4 DEF ReceiveArpReply, loopVars, tftpVars, ctlVars
  <2> QED BY <2>1, ClientKept
<1>5. ASSUME NEW p \in net, ReceiveIgnored(p) PROVE Client'
  <2>1. UNCHANGED <<tstate, block, lastBlock, blkSize, handler, netState>>
    BY <1>5 DEF ReceiveIgnored, loopVars, tftpVars, ctlVars
  <2> QED BY <2>1, ClientKept
<1>6. ASSUME NEW p \in net, ReceiveError(p) PROVE Client'
  <2>1. UNCHANGED <<tstate, block, lastBlock, blkSize>> /\ netState # "FAIL"
    BY <1>6 DEF ReceiveError, Receive, tftpVars
  <2>2. NetStartAgain \/ UNCHANGED handler
    BY <1>6 DEF ReceiveError, ctlVars
  <2>3. handler' = "tftp" => handler = "tftp"
    BY <2>2, StartAgainEffect
  <2> QED BY <2>1, <2>3, ClientKept
<1>7. ASSUME NEW p \in net, ReceiveOack(p) PROVE Client'
  <2>1. /\ p.op = "OACK" /\ Accepted(p) /\ UNCHANGED <<block, srv, handler, mem>>
        /\ tstate' = "OACK" /\ blkSize' = p.blk /\ netState # "FAIL"
    BY <1>7 DEF ReceiveOack, Receive, ctlVars, srvVars, dataVars
  <2>2. handler = "tftp" /\ p.blk = srv[p.tid].blk /\ p.blk \in Nat
    BY <2>1, PacketFacts, Constants DEF Accepted, ToClient
  <2>3. Stored(block * p.blk, mem)
    <3>1. CASE tstate = "RRQ"
      <4>1. block * p.blk = 0
        BY <1>0, <2>2, <3>1 DEF Request
      <4>2. Stored(0, mem)
        BY DEF Stored
      <4> QED BY <4>1, <4>2
    <3>2. CASE tstate # "RRQ"
      BY <1>0, <2>1, <2>2, <3>2 DEF Session, Client, Accepted
    <3> QED BY <3>1, <3>2
  <2>4. Stored(block' * blkSize', mem')
    BY <2>1, <2>3
  <2> QED BY <2>1, <2>4 DEF Client
<1>8. ASSUME NEW p \in net, ReceiveDataBadFirst(p) PROVE Client'
  <2>1. handler' = "again" \/ netState' = "FAIL"
    BY <1>8, StartAgainEffect DEF ReceiveDataBadFirst
  <2> QED BY <2>1 DEF Client
<1>9. ASSUME NEW p \in net, ReceiveDataAgain(p) PROVE Client'
  <2>1. /\ handler = "tftp" /\ tstate = "DATA" /\ netState # "FAIL" /\ p.num = lastBlock
        /\ block' = p.num /\ UNCHANGED <<tstate, lastBlock, blkSize, handler>>
    BY <1>0, <1>9 DEF ReceiveDataAgain, Receive, Accepted, FirstBlock, Types, ctlVars
  <2>2. block' = block
    BY <1>0, <2>1 DEF Client
  <2> QED BY <2>1, <2>2, ClientKept
<1>10. ASSUME NEW p \in net, ReceiveData(p) PROVE Client'
  <2>1. block' = p.num /\ lastBlock' = p.num /\ blkSize' = blkSize
    BY <1>10 DEF ReceiveData
  <2>2. Stored(p.num * blkSize, mem')
    BY <1>10, BlockStored
  <2>3. Stored(block' * blkSize', mem')
    BY <2>1, <2>2
  <2> QED BY <2>1, <2>3 DEF Client
<1>11. CASE ServerStep \/ (\E p \in net : LosePacket(p)) \/ UNCHANGED vars
  <2>1. UNCHANGED <<tstate, block, lastBlock, blkSize, handler, netState>>
    BY <1>11 DEF ServerStep, ServerArp, ServerRrq, ServerAck, LosePacket, clientVars, vars,
                 loopVars, tftpVars, ctlVars
  <2> QED BY <2>1, ClientKept
<1> QED BY <1>1, <1>2, <1>3, <1>4, <1>5, <1>6, <1>7, <1>8, <1>9, <1>10, <1>11
        DEF Next, ClientStep, ReceivePacket

\* A step that neither ends the transfer nor starts a new one.
LEMMA EndedKept ==
  ASSUME NoWrap, TftpInv, ByteInv, [Next]_vars,
         netState' = "SUCCESS" => netState = "SUCCESS" /\ UNCHANGED xferSize,
         result' = result \/ result' = "failed", UNCHANGED filesize
  PROVE  Ended'
<1>1. Stored(FileLen, mem) => Stored(FileLen, mem')
  BY StoredKept
<1> QED BY <1>1 DEF ByteInv, Ended

LEMMA EndedStep ==
  ASSUME NoWrap, TftpInv, ByteInv, [Next]_vars
  PROVE  Ended'
<1>0. Types /\ MemType /\ Control /\ Memory /\ Ended
  BY DEF TftpInv, ByteInv
<1>1. CASE NetLoop \/ Restart
  <2>1. netState' = "CONTINUE" /\ UNCHANGED <<result, filesize>>
    BY <1>1 DEF NetLoop, Restart
  <2> QED BY <2>1, EndedKept
<1>2. CASE NetLoopNoLink \/ Fail \/ Abort
  <2>1. UNCHANGED <<netState, xferSize, filesize>> /\ result' = "failed"
    BY <1>2 DEF NetLoopNoLink, Fail, Abort, dataVars
  <2> QED BY <2>1, EndedKept
<1>3. CASE Succeed
  <2>1. /\ pc # "idle" /\ netState = "SUCCESS" /\ result' = "ok" /\ UNCHANGED <<netState, xferSize, mem>>
        /\ filesize' = IF xferSize > 0 THEN xferSize ELSE filesize
    BY <1>3 DEF Succeed, dataVars
  <2>2. filesize = 0
    BY <1>0, <2>1 DEF Control, Ended
  <2>3. xferSize = FileLen /\ Stored(FileLen, mem)
    BY <1>0, <2>1 DEF Ended
  <2>4. filesize' = FileLen
    BY <2>1, <2>2, <2>3, Constants
  <2> QED BY <2>1, <2>3, <2>4 DEF Ended
<1>4. CASE ArpTimeoutCheck \/ TftpTimeout \/ startAgainTimeout
  <2>1. UNCHANGED <<result, filesize, xferSize>>
    BY <1>4 DEF ArpTimeoutCheck, TftpTimeout, startAgainTimeout, dataVars
  <2>2. NetStartAgain \/ netState' = netState \/ netState' = "RESTART"
    BY <1>4 DEF ArpTimeoutCheck, TftpTimeout, startAgainTimeout
  <2>3. netState' = "SUCCESS" => netState = "SUCCESS"
    BY <2>2, StartAgainEffect
  <2> QED BY <2>1, <2>3, EndedKept
<1>5. CASE ReceiveArpReply
  <2>1. UNCHANGED <<netState, result, filesize, xferSize>>
    BY <1>5 DEF ReceiveArpReply, loopVars, dataVars
  <2> QED BY <2>1, EndedKept
<1>6. ASSUME NEW p \in net, ReceiveIgnored(p) \/ ReceiveOack(p) \/ ReceiveDataAgain(p) PROVE Ended'
  <2>1. UNCHANGED <<netState, result, filesize, xferSize>>
    BY <1>6 DEF ReceiveIgnored, ReceiveOack, ReceiveDataAgain, loopVars, dataVars
  <2> QED BY <2>1, EndedKept
<1>7. ASSUME NEW p \in net, ReceiveError(p) \/ ReceiveDataBadFirst(p) PROVE Ended'
  <2>1. UNCHANGED <<result, filesize, xferSize>>
    BY <1>7 DEF ReceiveError, ReceiveDataBadFirst, dataVars
  <2>2. NetStartAgain \/ netState' = "FAIL"
    BY <1>7 DEF ReceiveError, ReceiveDataBadFirst
  <2>3. netState' = "SUCCESS" => netState = "SUCCESS"
    BY <2>2, StartAgainEffect
  <2> QED BY <2>1, <2>3, EndedKept
<1>8. ASSUME NEW p \in net, ReceiveData(p) PROVE Ended'
  <2>1. /\ UNCHANGED <<result, filesize>> /\ netState' = IF LastPacket(p) THEN "SUCCESS" ELSE netState
    BY <1>8 DEF ReceiveData
  <2>2. /\ p.off \in Nat /\ p.len \in Nat /\ p.off + p.len <= FileLen /\ blkSize \in Nat
        /\ p.len = blkSize \/ p.off + p.len = FileLen
    <3>1. /\ p.off \in 0..FileLen /\ p.len \in Nat /\ p.off + p.len <= FileLen
          /\ blkSize \in Nat \ {0} /\ (p.len = blkSize \/ p.off + p.len = FileLen)
      BY <1>8, DataExact DEF ReceiveData
    <3> QED BY <3>1, Constants
  <2>3. /\ xferSize' = IF xferSize < p.off + p.len THEN p.off + p.len ELSE xferSize
        /\ Stored(p.off + p.len, mem')
    BY <1>8, StoreEffect
  <2>4. xferSize \in Nat /\ xferSize <= FileLen
    BY <1>0 DEF MemType, Memory
  <2>5. CASE LastPacket(p)
    <3>1. p.off + p.len = FileLen
      BY <2>2, <2>5 DEF LastPacket
    <3>2. xferSize' = FileLen
      BY <2>3, <2>4, <3>1, Constants
    <3>3. Stored(FileLen, mem')
      BY <2>3, <3>1
    <3>4. result' = "none" /\ filesize' = 0
      BY <1>0, <1>8, <2>1 DEF Control, Ended, ReceiveData, Receive
    <3> QED BY <3>2, <3>3, <3>4 DEF Ended
  <2>6. CASE ~LastPacket(p)
    <3>1. netState = "SUCCESS" => xferSize' = xferSize
      BY <1>0, <2>2, <2>3, <2>4, Constants DEF Ended
    <3> QED BY <2>1, <2>6, <3>1, EndedKept
  <2> QED BY <2>5, <2>6
<1>9. CASE ServerStep \/ (\E p \in net : LosePacket(p)) \/ UNCHANGED vars
  <2>1. UNCHANGED <<netState, result, filesize, xferSize>>
    BY <1>9 DEF ServerStep, ServerArp, ServerRrq, ServerAck, LosePacket, clientVars, vars,
                loopVars, dataVars
  <2> QED BY <2>1, EndedKept
<1> QED BY <1>1, <1>2, <1>3, <1>4, <1>5, <1>6, <1>7, <1>8, <1>9 DEF Next, ClientStep, ReceivePacket

LEMMA ByteInit == Init => ByteInv
<1> SUFFICES ASSUME Init PROVE ByteInv
  OBVIOUS
<1>1. Memory
  BY Constants DEF Init, Memory
<1>2. Sent /\ Client
  BY DEF Init, Sent, Client
<1>3. Acks
  <2>1. arpWait.op # "ACK" /\ net = {}
    BY DEF Init, None
  <2> QED BY <2>1, NotAnAck DEF Acks
<1>4. Ended
  BY DEF Init, Ended
<1> QED BY <1>1, <1>2, <1>3, <1>4 DEF ByteInv

LEMMA ByteStep ==
  ASSUME NoWrap
  PROVE  TftpInv /\ ByteInv /\ [Next]_vars => ByteInv'
<1> SUFFICES ASSUME TftpInv, ByteInv, [Next]_vars PROVE ByteInv'
  OBVIOUS
<1>1. Acks'
  BY AcksClient, AcksReceive, AcksOthers DEF Next
<1>2. Memory' /\ Sent'
  BY MemoryStep, SentStep
<1>3. Client' /\ Ended'
  BY ClientBytes, EndedStep
<1> QED BY <1>1, <1>2, <1>3 DEF ByteInv

\* An acknowledgement is only sent for what store_block has written: whatever
\* the network does, and in every try, all the file's bytes up to the
\* acknowledged block are at their place in memory while the packet exists.
THEOREM AcksAreStored ==
  ASSUME NoWrap
  PROVE  Spec => []AckMeansStored
<1>1. TftpInv /\ ByteInv => AckMeansStored
  <2> SUFFICES ASSUME TftpInv, ByteInv, NEW p \in net, p.op = "ACK", p.tid \in DOMAIN srv,
                      NEW u \in 0..(p.num * srv[p.tid].blk - 1), u < FileLen
               PROVE  u \in DOMAIN mem /\ mem[u] = u
    BY DEF AckMeansStored
  <2>1. Stored(p.num * srv[p.tid].blk, mem)
    BY DEF ByteInv, Acks, AckStored
  <2>2. p.num * srv[p.tid].blk \in Int
    <3>1. p.num \in Int
      BY DEF TftpInv, Packets, Packet
    <3>2. srv[p.tid].blk \in Int
      BY Constants DEF TftpInv, Transfers, Transfer
    <3> QED BY <3>1, <3>2
  <2> DEFINE x == p.num * srv[p.tid].blk
  <2>3. x \in Int /\ u \in 0..(x - 1) /\ Stored(x, mem)
    BY <2>1, <2>2
  <2> HIDE DEF x
  <2>4. u \in DOMAIN mem
    BY <2>3 DEF Stored
  <2> QED BY <2>4 DEF ByteInv, Memory
<1>2. TftpInv /\ ByteInv /\ [Next]_vars => ByteInv'
  BY ByteStep
<1> QED BY <1>1, <1>2, TftpInit, TftpStep, ByteInit, PTL DEF Spec

\* When NetLoop(TFTP) returns success, memory from load_addr on holds the file,
\* every byte at its place, and filesize is its length: with lost, repeated,
\* delayed and reordered packets, timeouts, and tries that were given up.
THEOREM DownloadExact ==
  ASSUME NoWrap
  PROVE  Spec => []ImageExact
<1>1. ByteInv => ImageExact
  <2> SUFFICES ASSUME ByteInv, result = "ok" PROVE ImageExact
    BY DEF ImageExact
  <2>1. filesize = FileLen /\ Stored(FileLen, mem)
    BY DEF ByteInv, Ended
  <2>2. \A u \in 0..(FileLen - 1) : u \in DOMAIN mem
    BY <2>1, Constants DEF Stored
  <2> QED BY <2>1, <2>2 DEF ImageExact, ByteInv, Memory
<1>2. TftpInv /\ ByteInv /\ [Next]_vars => ByteInv'
  BY ByteStep
<1> QED BY <1>1, <1>2, TftpInit, TftpStep, ByteInit, PTL DEF Spec


\* "Same block again; ignore it": TftpHandler adds to TftpBlockWrapOffset before
\* it sees that a packet repeats the last block, which moves the blocks that
\* follow when the number is 0.  Only a wrap gives a block the number 0, so a
\* file whose numbers do not wrap is safe from it.
THEOREM RepeatIsIgnored ==
  ASSUME NoWrap
  PROVE  Spec => SameBlockIgnored
<1> DEFINE Kept == \A p \in net : ReceiveDataAgain(p) => wrapOffset' = wrapOffset
<1>1. TftpInv /\ ByteInv /\ [Next]_vars => [Kept]_vars
  <2> SUFFICES ASSUME TftpInv, ByteInv, NEW p \in net, ReceiveDataAgain(p)
               PROVE  wrapOffset' = wrapOffset
    OBVIOUS
  <2>1. p.num # 0
    BY DataExact DEF ReceiveDataAgain
  <2> QED BY <2>1 DEF ReceiveDataAgain, Wrapped
<1>2. TftpInv /\ ByteInv /\ [Next]_vars => ByteInv'
  BY ByteStep
<1> QED BY <1>1, <1>2, TftpInit, TftpStep, ByteInit, PTL DEF Spec, SameBlockIgnored
==============================================================================
