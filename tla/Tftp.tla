-------------------------------- MODULE Tftp --------------------------------
(***************************************************************************)
(* The "tftp" command: the TFTP client of net/tftp.c inside NetLoop        *)
(* (net/net.c), with the ARP exchange that precedes the first request and  *)
(* the start-again logic, against an external server that serves one file. *)
(*                                                                         *)
(* The file is FileLen units long; unit u holds the value u, so that the   *)
(* image is right when mem[u] = u.  The network is a set of packets.  With *)
(* Dup a packet stays in it for ever: it may be lost, delayed, reordered   *)
(* and delivered any number of times.  Without, it is delivered once or    *)
(* lost, at most MaxLoss times.                                            *)
(***************************************************************************)
EXTENDS Integers, FiniteSets

CONSTANTS
  FileLen,        \* length of the file
  BlkDef,         \* TFTP_BLOCK_SIZE
  BlkOpt,         \* TftpBlkSizeOption
  SeqSize,        \* TFTP_SEQUENCE_SIZE
  TimeoutMax,     \* TIMEOUT_COUNT
  ArpMax,         \* ARP_TIMEOUT_COUNT
  NetRetry,       \* the value of netretry; "yes" is any larger number
  MaxTid,         \* bound on the transfers the server opens
  ServerErrors,   \* the ERROR packets the server may send
  Dup,            \* packets may be duplicated
  MaxLoss,        \* bound on lost packets when not Dup
  Patient         \* timeouts only when the network is empty

ASSUME TftpAssumption ==
  /\ FileLen \in Nat /\ BlkDef \in Nat \ {0} /\ BlkOpt \in Nat \ {0}
  /\ SeqSize \in Nat \ {0, 1}
  /\ TimeoutMax \in Nat /\ ArpMax \in Nat \ {0, 1} /\ NetRetry \in Nat
  /\ MaxTid \in Nat /\ MaxLoss \in Nat
  /\ ServerErrors \subseteq {"notfound", "other"}
  /\ Dup \in BOOLEAN /\ Patient \in BOOLEAN

VARIABLES
  pc,             \* "idle", or NetLoop: "rx" in eth_rx, "switch" after a timeout
  netState,       \* NetState
  result,         \* what NetLoop returned
  filesize,       \* environment variable filesize
  tryCount,       \* NetTryCount; also stands for TftpOurPort, new in each try
  handler,        \* packetHandler: TftpHandler or startAgainHandler
  timer,          \* timeHandler
  ether,          \* NetServerEther is known
  arpWait,        \* packet waiting for the ARP reply, or None
  arpTry,         \* NetArpWaitTry
  tstate,         \* TftpState
  serverPort,     \* TftpServerPort: 0 stands for the well known port
  block,          \* TftpBlock
  lastBlock,      \* TftpLastBlock
  wrapOffset,     \* TftpBlockWrapOffset
  blkSize,        \* TftpBlkSize
  timeouts,       \* TftpTimeoutCount
  mem,            \* memory from load_addr on, as far as it was written
  xferSize,       \* NetBootFileXferSize
  net,            \* packets in the network
  lost,           \* packets lost so far
  srv             \* the server's transfers

loopVars == <<pc, netState, result, filesize, tryCount>>
ctlVars  == <<handler, timer>>
arpVars  == <<ether, arpWait, arpTry>>
tftpVars == <<tstate, serverPort, block, lastBlock, wrapOffset, blkSize>>
dataVars == <<mem, xferSize>>
srvVars  == <<lost, srv>>
vars == <<loopVars, ctlVars, arpVars, tftpVars, timeouts, dataVars, net, srvVars>>

None == [op |-> "none"]
Tid  == 1..MaxTid
Seq16(n) == n % SeqSize

\* The packets.  port is the client's port, tid the server's.
RRQ(p)          == [op |-> "RRQ", port |-> p]
ACK(p, t, n)    == [op |-> "ACK", port |-> p, tid |-> t, num |-> n]
OACK(p, t, b)   == [op |-> "OACK", port |-> p, tid |-> t, blk |-> b]
ERROR(p, t, c)  == [op |-> "ERROR", port |-> p, tid |-> t, code |-> c]
DATA(p, t, k, b) ==
  LET off == (k - 1) * b
  IN [op |-> "DATA", port |-> p, tid |-> t, num |-> Seq16(k), off |-> off,
      len |-> IF off + b <= FileLen THEN b ELSE FileLen - off]
ArpReq == [op |-> "ARP_REQUEST"]
ArpRep == [op |-> "ARP_REPLY"]

TypeOK ==
  /\ pc \in {"idle", "rx", "switch"}
  /\ netState \in {"CONTINUE", "RESTART", "SUCCESS", "FAIL"}
  /\ result \in {"none", "ok", "failed"}
  /\ filesize \in Nat /\ tryCount \in Nat
  /\ handler \in {"none", "tftp", "again"} /\ timer \in {"none", "tftp", "again"}
  /\ ether \in BOOLEAN /\ arpTry \in 0..ArpMax
  /\ arpWait.op \in {"none", "RRQ", "ACK"}
  /\ tstate \in {"RRQ", "OACK", "DATA"}
  /\ serverPort \in 0..MaxTid
  /\ block \in 0..(SeqSize - 1) /\ lastBlock \in 0..(SeqSize - 1)
  /\ wrapOffset \in Nat /\ blkSize \in {BlkDef, BlkOpt}
  /\ timeouts \in 0..(TimeoutMax + 1)
  /\ DOMAIN mem \subseteq Nat /\ xferSize \in Nat
  /\ lost \in 0..MaxLoss
  /\ DOMAIN srv \subseteq Tid

------------------------------------------------------------------------------
(* Sending.                                                                 *)

\* Mutant: the acknowledgement names the block wanted next.
TftpPacketMutant(ts, try, port, n) ==
  IF ts = "RRQ" THEN RRQ(try) ELSE ACK(try, port, n + 1)

\* TftpSend builds the packet of the current state.
TftpPacket(ts, try, port, n) ==
  IF ts = "RRQ" THEN RRQ(try) ELSE ACK(try, port, n)

\* NetSendUDPPacket: without the server's Ethernet address the packet takes the
\* place of any packet that is waiting, and an ARP request goes out instead.
NetSendUDPPacket(pkt, known, inNet) ==
  IF known
  THEN net' = inNet \cup {pkt} /\ UNCHANGED <<arpWait, arpTry>>
  ELSE net' = inNet \cup {ArpReq} /\ arpWait' = pkt /\ arpTry' = 1

\* Mutants: TftpTimeoutCount is not reset; TftpBlkSize is not reverted.
TftpStartKeepsCount(try) ==
  /\ handler' = "tftp" /\ timer' = "tftp"
  /\ serverPort' = 0 /\ UNCHANGED timeouts /\ tstate' = "RRQ" /\ block' = 0
  /\ ether' = FALSE /\ blkSize' = BlkDef
  /\ NetSendUDPPacket(RRQ(try), FALSE, net)
  /\ UNCHANGED <<lastBlock, wrapOffset>>
  /\ xferSize' = 0

TftpStartKeepsBlkSize(try) ==
  /\ handler' = "tftp" /\ timer' = "tftp"
  /\ serverPort' = 0 /\ timeouts' = 0 /\ tstate' = "RRQ" /\ block' = 0
  /\ ether' = FALSE /\ UNCHANGED blkSize
  /\ NetSendUDPPacket(RRQ(try), FALSE, net)
  /\ UNCHANGED <<lastBlock, wrapOffset>>
  /\ xferSize' = 0

\* TftpStart: one more try.  NetBootFileXferSize is reset by NetLoop.
TftpStart(try) ==
  /\ handler' = "tftp" /\ timer' = "tftp"
  /\ serverPort' = 0 /\ timeouts' = 0 /\ tstate' = "RRQ" /\ block' = 0
  /\ ether' = FALSE /\ blkSize' = BlkDef
  /\ NetSendUDPPacket(RRQ(try), FALSE, net)
  /\ UNCHANGED <<lastBlock, wrapOffset>>
  /\ xferSize' = 0

\* NetStartAgain: with one Ethernet device eth_try_another always wraps, so the
\* loop waits with startAgainHandler until startAgainTimeout.
NetStartAgain ==
  IF tryCount >= NetRetry
  THEN netState' = "FAIL" /\ UNCHANGED <<tryCount, handler, timer>>
  ELSE /\ tryCount' = tryCount + 1
       /\ handler' = "again" /\ timer' = "again"
       /\ UNCHANGED netState

------------------------------------------------------------------------------
(* NetLoop.                                                                 *)

Init ==
  /\ pc = "idle" /\ netState = "CONTINUE" /\ result = "none" /\ filesize = 0
  /\ tryCount = 0 /\ handler = "none" /\ timer = "none"
  /\ ether = FALSE /\ arpWait = None /\ arpTry = 0
  /\ tstate = "RRQ" /\ serverPort = 0 /\ block = 0 /\ lastBlock = 0
  /\ wrapOffset = 0 /\ blkSize = BlkDef /\ timeouts = 0
  /\ mem = << >> /\ xferSize = 0
  /\ net = {} /\ lost = 0 /\ srv = << >>

\* NetLoop(TFTP) is entered.
NetLoop ==
  /\ pc = "idle" /\ result = "none"
  /\ pc' = "rx" /\ netState' = "CONTINUE"
  /\ tryCount' = 1
  /\ TftpStart(1)
  /\ UNCHANGED <<result, filesize, mem, srvVars>>

\* eth_init fails: no link.
NetLoopNoLink ==
  /\ pc = "idle" /\ result = "none"
  /\ result' = "failed"
  /\ UNCHANGED <<pc, netState, filesize, tryCount, ctlVars, arpVars, tftpVars,
                 timeouts, dataVars, net, srvVars>>

\* The switch at the end of a turn.
Restart ==
  /\ pc \in {"rx", "switch"} /\ netState = "RESTART"
  /\ pc' = "rx" /\ netState' = "CONTINUE"
  /\ TftpStart(tryCount)
  /\ UNCHANGED <<result, filesize, tryCount, mem, srvVars>>

Succeed ==
  /\ pc \in {"rx", "switch"} /\ netState = "SUCCESS"
  /\ pc' = "idle" /\ result' = "ok"
  /\ filesize' = IF xferSize > 0 THEN xferSize ELSE filesize
  /\ UNCHANGED <<netState, tryCount, ctlVars, arpVars, tftpVars, timeouts,
                 dataVars, net, srvVars>>

Fail ==
  /\ pc \in {"rx", "switch"} /\ netState = "FAIL"
  /\ pc' = "idle" /\ result' = "failed"
  /\ UNCHANGED <<netState, filesize, tryCount, ctlVars, arpVars, tftpVars,
                 timeouts, dataVars, net, srvVars>>

\* ctrl-c
Abort ==
  /\ pc = "rx" /\ ~Patient
  /\ pc' = "idle" /\ result' = "failed"
  /\ UNCHANGED <<netState, filesize, tryCount, ctlVars, arpVars, tftpVars,
                 timeouts, dataVars, net, srvVars>>

\* A timer may run out, also when the last packet has just ended the transfer; a
\* Patient world answers before it does.
Elapsed ==
  /\ pc = "rx" /\ netState \in {"CONTINUE", "SUCCESS"}
  /\ Patient => net = {} /\ netState = "CONTINUE"

AfterTimer == pc' = IF netState' = "CONTINUE" THEN "rx" ELSE "switch"

\* ArpTimeoutCheck.  Fewer than ArpMax ARP timeouts fit into the 10 seconds
\* before startAgainTimeout.
ArpTimeoutCheck ==
  /\ Elapsed /\ arpWait # None
  /\ handler = "again" => arpTry + 1 < ArpMax
  /\ IF arpTry + 1 >= ArpMax
     THEN arpTry' = 0 /\ NetStartAgain /\ UNCHANGED net
     ELSE /\ arpTry' = arpTry + 1 /\ net' = net \cup {ArpReq}
          /\ UNCHANGED <<netState, tryCount, ctlVars>>
  /\ AfterTimer
  /\ UNCHANGED <<result, filesize, ether, arpWait, tftpVars, timeouts, dataVars,
                 srvVars>>

\* Mutant: the timer is set again but nothing is sent.
TftpTimeoutMutant ==
  /\ Elapsed /\ timer = "tftp"
  /\ timeouts' = timeouts + 1
  /\ IF timeouts + 1 > TimeoutMax THEN NetStartAgain
     ELSE UNCHANGED <<netState, tryCount, ctlVars>>
  /\ AfterTimer
  /\ UNCHANGED <<result, filesize, arpVars, tftpVars, dataVars, net, srvVars>>

TftpTimeout ==
  /\ Elapsed /\ timer = "tftp"
  /\ timeouts' = timeouts + 1
  /\ IF timeouts + 1 > TimeoutMax
     THEN NetStartAgain /\ UNCHANGED <<arpWait, arpTry, net>>
     ELSE /\ NetSendUDPPacket(TftpPacket(tstate, tryCount, serverPort, block),
                              ether, net)
          /\ UNCHANGED <<netState, tryCount, ctlVars>>
  /\ AfterTimer
  /\ UNCHANGED <<result, filesize, ether, tftpVars, dataVars, srvVars>>

startAgainTimeout ==
  /\ Elapsed /\ timer = "again"
  /\ timer' = "none" /\ netState' = "RESTART"
  /\ AfterTimer
  /\ UNCHANGED <<result, filesize, tryCount, handler, arpVars, tftpVars, timeouts,
                 dataVars, net, srvVars>>

------------------------------------------------------------------------------
(* eth_rx: NetReceive, which passes UDP packets to the current handler.  It *)
(* may pass on several packets before NetLoop looks at NetState, but none   *)
(* after eth_halt.                                                          *)

AfterTaking(p) == IF Dup THEN net ELSE net \ {p}

Receive(p) == pc = "rx" /\ netState # "FAIL" /\ p \in net

\* ARP reply: the waiting packet is sent.
ReceiveArpReply ==
  /\ Receive(ArpRep)
  /\ IF arpWait # None
     THEN /\ ether' = TRUE /\ arpWait' = None
          /\ net' = AfterTaking(ArpRep) \cup {arpWait}
     ELSE net' = AfterTaking(ArpRep) /\ UNCHANGED <<ether, arpWait>>
  /\ UNCHANGED <<loopVars, ctlVars, arpTry, tftpVars, timeouts, dataVars, srvVars>>

\* The checks at the head of TftpHandler.
Accepted(p) ==
  /\ handler = "tftp" /\ p.port = tryCount
  /\ tstate = "RRQ" \/ p.tid = serverPort

ToClient == {"OACK", "DATA", "ERROR"}

ReceiveIgnored(p) ==
  /\ Receive(p) /\ p.op \in ToClient /\ ~Accepted(p)
  /\ net' = AfterTaking(p)
  /\ UNCHANGED <<loopVars, ctlVars, arpVars, tftpVars, timeouts, dataVars, srvVars>>

ReceiveOack(p) ==
  /\ Receive(p) /\ p.op = "OACK" /\ Accepted(p)
  /\ tstate' = "OACK" /\ serverPort' = p.tid /\ blkSize' = p.blk
  /\ NetSendUDPPacket(TftpPacket("OACK", tryCount, p.tid, block), ether,
                      AfterTaking(p))
  /\ UNCHANGED <<loopVars, ctlVars, ether, block, lastBlock, wrapOffset, timeouts,
                 dataVars, srvVars>>

ReceiveError(p) ==
  /\ Receive(p) /\ p.op = "ERROR" /\ Accepted(p)
  /\ IF p.code = "notfound"
     THEN netState' = "FAIL" /\ UNCHANGED <<tryCount, ctlVars>>
     ELSE NetStartAgain
  /\ net' = AfterTaking(p)
  /\ UNCHANGED <<pc, result, filesize, arpVars, tftpVars, timeouts, dataVars,
                 srvVars>>

\* TFTP_DATA.  FirstBlock: state RRQ or OACK.
FirstBlock == tstate \in {"RRQ", "OACK"}

\* Mutant: the memory offset of the wrap is one block short.
WrappedMutant(p) ==
  IF p.num = 0 THEN wrapOffset + blkSize * (SeqSize - 1) ELSE wrapOffset

\* TftpBlockWrapOffset is increased before anything else is looked at.
Wrapped(p) == IF p.num = 0 THEN wrapOffset + blkSize * SeqSize ELSE wrapOffset

\* store_block
store_block(p, base) ==
  LET at == (p.num - 1) * blkSize + base
  IN /\ mem' = [u \in DOMAIN mem \cup at..(at + p.len - 1) |->
                  IF u \in at..(at + p.len - 1) THEN p.off + (u - at) ELSE mem[u]]
     /\ xferSize' = IF xferSize < at + p.len THEN at + p.len ELSE xferSize

\* The first packet is not block 1: start again.
ReceiveDataBadFirst(p) ==
  /\ Receive(p) /\ p.op = "DATA" /\ Accepted(p)
  /\ FirstBlock /\ p.num # 1
  /\ tstate' = "DATA" /\ serverPort' = p.tid /\ block' = p.num
  /\ lastBlock' = 0 /\ wrapOffset' = 0
  /\ NetStartAgain
  /\ net' = AfterTaking(p)
  /\ UNCHANGED <<pc, result, filesize, arpVars, blkSize, timeouts, dataVars, srvVars>>

\* "Same block again; ignore it."
ReceiveDataAgain(p) ==
  /\ Receive(p) /\ p.op = "DATA" /\ Accepted(p)
  /\ ~FirstBlock /\ p.num = lastBlock
  /\ block' = p.num /\ wrapOffset' = Wrapped(p)
  /\ net' = AfterTaking(p)
  /\ UNCHANGED <<loopVars, ctlVars, arpVars, tstate, serverPort, lastBlock, blkSize,
                 timeouts, dataVars, srvVars>>

\* Mutant: a full block also ends the transfer.
LastPacketMutant(p) == p.len <= blkSize

\* A block shorter than the block size ends the transfer.
LastPacket(p) == p.len < blkSize

ReceiveData(p) ==
  /\ Receive(p) /\ p.op = "DATA" /\ Accepted(p)
  /\ IF FirstBlock THEN p.num = 1 ELSE p.num # lastBlock
  /\ tstate' = "DATA" /\ serverPort' = p.tid
  /\ block' = p.num /\ lastBlock' = p.num
  /\ wrapOffset' = IF FirstBlock THEN 0 ELSE Wrapped(p)
  /\ timer' = "tftp"
  /\ store_block(p, wrapOffset')
  /\ NetSendUDPPacket(TftpPacket("DATA", tryCount, p.tid, p.num), ether,
                      AfterTaking(p))
  /\ netState' = IF LastPacket(p) THEN "SUCCESS" ELSE netState
  /\ UNCHANGED <<pc, result, filesize, tryCount, handler, ether, blkSize, timeouts,
                 srvVars>>

------------------------------------------------------------------------------
(* The network and the server (external).                                   *)

LosePacket(p) ==
  /\ ~Dup /\ lost < MaxLoss /\ p \in net
  /\ net' = net \ {p} /\ lost' = lost + 1
  /\ UNCHANGED <<loopVars, ctlVars, arpVars, tftpVars, timeouts, dataVars, srv>>

\* What the server sent last in transfer t.
Current(t) ==
  IF srv[t].cur = 0 THEN OACK(srv[t].port, t, srv[t].blk)
  ELSE DATA(srv[t].port, t, srv[t].cur, srv[t].blk)

clientVars == <<loopVars, ctlVars, arpVars, tftpVars, timeouts, dataVars>>

ServerArp ==
  /\ ArpReq \in net
  /\ net' = AfterTaking(ArpReq) \cup {ArpRep}
  /\ UNCHANGED <<clientVars, srvVars>>

NewTid == Cardinality(DOMAIN srv) + 1

\* A request opens a transfer, with the block size option or without it.
ServerRrq(p) ==
  /\ p \in net /\ p.op = "RRQ" /\ NewTid \in Tid
  /\ \/ \E start \in {[cur |-> 0, blk |-> BlkOpt], [cur |-> 1, blk |-> BlkDef]} :
          LET tr == [port |-> p.port, cur |-> start.cur, blk |-> start.blk]
          IN /\ srv' = [t \in DOMAIN srv \cup {NewTid} |->
                          IF t = NewTid THEN tr ELSE srv[t]]
             /\ net' = AfterTaking(p) \cup
                       {IF tr.cur = 0 THEN OACK(tr.port, NewTid, tr.blk)
                        ELSE DATA(tr.port, NewTid, 1, tr.blk)}
     \/ \E c \in ServerErrors :
          /\ net' = AfterTaking(p) \cup {ERROR(p.port, 0, c)}
          /\ UNCHANGED srv
  /\ UNCHANGED <<clientVars, lost>>

\* The acknowledgement of the current packet asks for the next block, the one of
\* the block before makes the server repeat the current one; any other, and one
\* of the last block, is dropped.
LastBlock(t) == srv[t].cur > 0 /\ srv[t].cur * srv[t].blk > FileLen

ServerAck(p) ==
  /\ p \in net /\ p.op = "ACK" /\ p.tid \in DOMAIN srv
  /\ IF p.num = Seq16(srv[p.tid].cur) /\ ~LastBlock(p.tid)
     THEN LET t == p.tid
              k == srv[t].cur + 1
          IN /\ srv' = [srv EXCEPT ![t].cur = k]
             /\ net' = AfterTaking(p) \cup {DATA(srv[t].port, t, k, srv[t].blk)}
     ELSE /\ ~Dup
          /\ net' = IF p.num = Seq16(srv[p.tid].cur - 1)
                    THEN AfterTaking(p) \cup {Current(p.tid)} ELSE AfterTaking(p)
          /\ UNCHANGED srv
  /\ UNCHANGED <<clientVars, lost>>

------------------------------------------------------------------------------
ReceivePacket ==
  \/ ReceiveArpReply
  \/ \E p \in net :
       \/ ReceiveIgnored(p) \/ ReceiveOack(p) \/ ReceiveError(p)
       \/ ReceiveDataBadFirst(p) \/ ReceiveDataAgain(p) \/ ReceiveData(p)

ClientStep ==
  \/ NetLoop \/ NetLoopNoLink \/ Restart \/ Succeed \/ Fail
  \/ ArpTimeoutCheck \/ TftpTimeout \/ startAgainTimeout

ServerStep == ServerArp \/ \E p \in net : ServerRrq(p) \/ ServerAck(p)

Next ==
  \/ ClientStep \/ Abort \/ ReceivePacket
  \/ ServerStep
  \/ \E p \in net : LosePacket(p)

Spec == Init /\ [][Next]_vars

\* The CPU runs, and neither the network nor the server holds a packet for ever.
FairSpec ==
  /\ Spec
  /\ WF_vars(ClientStep) /\ WF_vars(ReceivePacket) /\ WF_vars(ServerStep)

------------------------------------------------------------------------------
(* Properties.                                                              *)

\* When the tftp command reports success the memory holds the file, every unit
\* at its place, and filesize is its length.
ImageExact ==
  result = "ok" => /\ 0..(FileLen - 1) \subseteq DOMAIN mem
                   /\ \A u \in 0..(FileLen - 1) : mem[u] = u
                   /\ filesize = FileLen

\* An acknowledgement tells the server that everything up to its block is in
\* memory: TftpHandler stores a block before it acknowledges it, and never
\* acknowledges one it did not store.
AckMeansStored ==
  \A p \in net :
    p.op = "ACK" /\ p.tid \in DOMAIN srv
      => \A u \in 0..(p.num * srv[p.tid].blk - 1) :
           u < FileLen => u \in DOMAIN mem /\ mem[u] = u

\* Once a server transfer is chosen, the client uses that transfer's block size
\* and the transfer is one that was opened for the client's present port.
SameTransfer ==
  handler = "tftp" /\ tstate # "RRQ" /\ pc # "idle"
    => /\ serverPort \in DOMAIN srv
       /\ srv[serverPort].port = tryCount
       /\ srv[serverPort].blk = blkSize

\* A data packet that repeats the last block is ignored: it does not move the
\* place where the following blocks are stored.
SameBlockIgnored ==
  [][\A p \in net : ReceiveDataAgain(p) => wrapOffset' = wrapOffset]_vars

\* When nothing but single losses disturb it, the command ends with success.
Downloads == pc = "rx" ~> result = "ok"
==============================================================================
