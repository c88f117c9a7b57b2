--------------------------------- MODULE Nfs ---------------------------------
(***************************************************************************)
(* The "nfs" command: the NFS client of net/nfs.c inside NetLoop           *)
(* (net/net.c), with the start-again logic, against an external server.    *)
(*                                                                         *)
(* A path is a directory and a file name, the same name in every           *)
(* directory, so that a path is written as its directory; unit u of the    *)
(* file of directory d holds <<d, u>>.  The server keeps no state: a       *)
(* request is answered when it is sent, and all delay is in the delivery   *)
(* of the reply.  A lost request is a lost reply.  In a patient world a    *)
(* reply is delivered once or lost, at most MaxFaults times, and timers    *)
(* run out only when nothing is under way.  In any other world replies     *)
(* stay in the network for MaxAge more requests (they may be lost, late,   *)
(* out of order and repeated) and timers run out at any time.              *)
(***************************************************************************)
EXTENDS Integers

CONSTANTS
  Dir,            \* the paths
  kind,           \* what the server has at each path
  linkTo,         \* the path that the symbolic link at a path names
  target,         \* the path where the links that start at a path end
  FileLen,        \* length of the file at each path
  NfsReadSize,    \* NFS_READ_SIZE
  NfsRetryCount,  \* NFS_RETRY_COUNT
  NetRetry,       \* the value of netretry; "yes" is any larger number
  MaxLoads,       \* bound on the downloads
  MaxAge,         \* bound on the age of a reply, in requests sent after its own
  MaxFaults       \* bound on the packets lost in a patient world, and on the
                  \* NFS timeouts and aborts of the other

ASSUME NfsAssumption ==
  /\ kind \in [Dir -> {"file", "link", "missing", "refused"}]
  /\ linkTo \in [Dir -> Dir] /\ target \in [Dir -> Dir]
  /\ \A d \in Dir : target[d] = IF kind[d] = "link" THEN target[linkTo[d]] ELSE d
  /\ FileLen \in [Dir -> Nat] /\ NfsReadSize \in Nat \ {0}
  /\ NfsRetryCount \in Nat /\ NetRetry \in Nat /\ MaxLoads \in Nat
  /\ MaxAge \in Nat /\ MaxFaults \in Nat

VARIABLES
  pc,               \* "idle", or NetLoop: "rx" in eth_rx, "switch" after a timeout
  netState,         \* NetState
  result,           \* what NetLoop returned
  filesize,         \* environment variable filesize
  tryCount,         \* NetTryCount
  handler,          \* packetHandler, and timeHandler, which is set with it
  BootFile,         \* the path asked for
  NfsState,
  rpc_id,
  ports,            \* which of NfsSrvMountPort and NfsSrvNfsPort are known
  fs_mounted,
  nfs_path,         \* nfs_path and nfs_filename
  dirfh,
  filefh,
  nfs_offset,
  NfsDownloadState,
  NfsTimeoutCount,
  ram,              \* memory from load_addr on, as far as it was written
  xferSize,         \* NetBootFileXferSize
  net,              \* replies in the network
  faults,           \* packets lost, or timeouts and aborts, so far
  loads,            \* downloads so far
  patient

loopVars == <<pc, netState, result, filesize, tryCount, BootFile, loads>>
fhVars   == <<dirfh, filefh>>
dataVars == <<ram, xferSize>>
envVars  == <<faults, patient>>
nfsVars  == <<NfsState, ports, fs_mounted, nfs_path, fhVars, nfs_offset,
              NfsDownloadState>>
vars == <<loopVars, handler, nfsVars, NfsTimeoutCount, rpc_id, dataVars, net, envVars>>

NoFh == "none"

TypeOK ==
  /\ pc \in {"idle", "rx", "switch"}
  /\ netState \in {"CONTINUE", "RESTART", "SUCCESS", "FAIL"}
  /\ result \in {"none", "ok", "failed"}
  /\ filesize \in Nat /\ tryCount \in Nat /\ loads \in 0..MaxLoads
  /\ handler \in {"nfs", "again"} /\ BootFile \in Dir
  /\ NfsState \in {"MOUNTPORT", "NFSPORT", "MOUNT", "LOOKUP", "READ", "READLINK", "UMOUNT"}
  /\ rpc_id \in Nat /\ ports \subseteq {"MOUNTPORT", "NFSPORT"}
  /\ fs_mounted \in BOOLEAN /\ nfs_path \in Dir
  /\ dirfh \in Dir \cup {NoFh} /\ filefh \in Dir \cup {NoFh}
  /\ nfs_offset \in Nat /\ NfsDownloadState \in {"SUCCESS", "FAIL"}
  /\ NfsTimeoutCount \in 0..(NfsRetryCount + 1)
  /\ DOMAIN ram \subseteq Nat /\ xferSize \in Nat
  /\ \A r \in net : r.id \in 1..rpc_id
  /\ faults \in 0..MaxFaults /\ patient \in BOOLEAN

Init ==
  /\ pc = "idle" /\ netState = "CONTINUE" /\ result = "none" /\ filesize = 0
  /\ tryCount = 0 /\ handler = "again" /\ BootFile \in Dir /\ loads = 0
  /\ NfsState = "MOUNTPORT" /\ rpc_id = 0 /\ ports = {} /\ fs_mounted = FALSE
  /\ nfs_path = BootFile /\ dirfh = NoFh /\ filefh = NoFh /\ nfs_offset = 0
  /\ NfsDownloadState = "FAIL" /\ NfsTimeoutCount = 0
  /\ ram = << >> /\ xferSize = 0
  /\ net = {} /\ faults = 0 /\ patient \in BOOLEAN

------------------------------------------------------------------------------
(* The server (external).                                                   *)

Body(st, fh, len) == [status |-> st, fh |-> fh, len |-> len]
Ok(fh, len) == Body("ok", fh, len)
Error == Body("error", NoFh, 0)

\* NFS_READ of a file may return less than asked for, or fail.
ReadAnswers(fh, off) ==
  IF kind[fh] = "link" THEN {Body("inval", NoFh, 0)}
  ELSE (IF off = FileLen[fh] THEN {Ok(fh, 0)}
        ELSE {Ok(fh, n) : n \in {k \in 1..NfsReadSize : off + k <= FileLen[fh]}})
       \cup (IF patient THEN {} ELSE {Error})

\* A request to a port that is not known goes where nobody listens.
Listening(st, known) ==
  \/ st \in {"MOUNTPORT", "NFSPORT"}
  \/ st \in {"MOUNT", "UMOUNT"} /\ "MOUNTPORT" \in known
  \/ st \in {"LOOKUP", "READ", "READLINK"} /\ "NFSPORT" \in known

Refused(st, path, dfh) ==
  \/ st = "MOUNT" /\ kind[path] = "refused"
  \/ st = "LOOKUP" /\ kind[dfh] = "missing"

\* The handle, or the path of a link, in an answer.
Handle(st, path, dfh, ffh) ==
  IF st = "MOUNT" THEN path
  ELSE IF st = "LOOKUP" THEN dfh
  ELSE IF st = "READLINK" THEN linkTo[ffh] ELSE NoFh

\* What the server may answer to the request of state st.
Answers(st, known, path, dfh, ffh, off) ==
  IF ~Listening(st, known) THEN {}
  ELSE IF st = "READ" THEN ReadAnswers(ffh, off)
  ELSE {IF Refused(st, path, dfh) THEN Error ELSE Ok(Handle(st, path, dfh, ffh), 0)}

Reply(id, b, off) == [id |-> id, status |-> b.status, fh |-> b.fh, off |-> off, len |-> b.len]

------------------------------------------------------------------------------
(* Sending.                                                                 *)

\* rpc_req: a new id for every request, repeated ones too.
rpc_req(st, inNet) ==
  LET ans == Answers(st, ports', nfs_path', dirfh', filefh', nfs_offset')
      old == {r \in inNet : r.id + MaxAge > rpc_id}
  IN /\ rpc_id' = rpc_id + 1
     /\ IF ans = {} THEN net' = old
        ELSE \E b \in ans : net' = old \cup {Reply(rpc_id + 1, b, nfs_offset')}

\* NfsSend: the request of the state that the handler has just set.
\* nfs_umountall_req sends nothing when nothing is mounted.
NfsSend(inNet) ==
  IF NfsState' = "UMOUNT" /\ ~fs_mounted'
  THEN net' = inNet /\ UNCHANGED rpc_id
  ELSE rpc_req(NfsState', inNet)

\* Mutant: NfsDownloadState keeps the outcome of the download before.
NfsStartMutant ==
  /\ pc' = "rx" /\ netState' = "CONTINUE"
  /\ nfs_path' = BootFile' /\ handler' = "nfs"
  /\ NfsTimeoutCount' = 0 /\ NfsState' = "MOUNTPORT"
  /\ UNCHANGED <<ports, fs_mounted, fhVars, nfs_offset, NfsDownloadState>>
  /\ NfsSend(net)
  /\ xferSize' = 0

\* NfsStart, called by NetLoop, which resets NetBootFileXferSize after it.  The
\* ports, fs_mounted and the handles are those of the download before.
NfsStart ==
  /\ pc' = "rx" /\ netState' = "CONTINUE"
  /\ NfsDownloadState' = "FAIL"
  /\ nfs_path' = BootFile' /\ handler' = "nfs"
  /\ NfsTimeoutCount' = 0 /\ NfsState' = "MOUNTPORT"
  /\ UNCHANGED <<ports, fs_mounted, fhVars, nfs_offset>>
  /\ NfsSend(net)
  /\ xferSize' = 0

------------------------------------------------------------------------------
(* NetLoop.                                                                 *)

NetLoop(d) ==
  /\ pc = "idle" /\ loads < MaxLoads
  /\ BootFile' = d /\ loads' = loads + 1 /\ tryCount' = 1 /\ result' = "none"
  /\ NfsStart
  /\ UNCHANGED <<filesize, ram, envVars>>

Restart ==
  /\ pc = "switch" /\ netState = "RESTART"
  /\ UNCHANGED BootFile
  /\ NfsStart
  /\ UNCHANGED <<result, filesize, tryCount, loads, ram, envVars>>

\* The end of NetLoop, with filesize set when something was received.
Return(res, size) ==
  /\ pc' = "idle" /\ result' = res /\ filesize' = size
  /\ UNCHANGED <<netState, tryCount, BootFile, loads, handler, nfsVars, NfsTimeoutCount,
                 rpc_id, dataVars, net>>

Succeed ==
  /\ pc \in {"rx", "switch"} /\ netState = "SUCCESS"
  /\ Return("ok", IF xferSize > 0 THEN xferSize ELSE filesize)
  /\ UNCHANGED envVars

Fail ==
  /\ pc \in {"rx", "switch"} /\ netState = "FAIL"
  /\ Return("failed", filesize)
  /\ UNCHANGED envVars

\* Bound: what may happen at any time in a world that is not patient is counted.
Counted ==
  /\ ~patient => faults < MaxFaults
  /\ faults' = IF patient THEN faults ELSE faults + 1
  /\ UNCHANGED patient

\* ctrl-c
Abort ==
  /\ pc = "rx" /\ ~patient /\ Counted
  /\ Return("failed", filesize)

\* A timer may run out, also when eth_rx has just set NetState.
Elapsed == pc = "rx" /\ (patient => net = {} /\ netState = "CONTINUE")

AfterTimer == pc' = IF netState' = "CONTINUE" THEN "rx" ELSE "switch"

\* NetStartAgain: with one Ethernet device the loop waits with startAgainHandler
\* until startAgainTimeout.
NetStartAgain ==
  IF tryCount >= NetRetry
  THEN netState' = "FAIL" /\ UNCHANGED <<tryCount, handler>>
  ELSE tryCount' = tryCount + 1 /\ handler' = "again" /\ UNCHANGED netState

\* Mutant: the request is not repeated.
NfsTimeoutMutant ==
  /\ Elapsed /\ handler = "nfs" /\ Counted
  /\ NfsTimeoutCount' = NfsTimeoutCount + 1
  /\ IF NfsTimeoutCount + 1 > NfsRetryCount THEN NetStartAgain
     ELSE UNCHANGED <<netState, tryCount, handler>>
  /\ AfterTimer
  /\ UNCHANGED <<nfsVars, rpc_id, net, result, filesize, BootFile, loads, dataVars>>

\* Mutant: the count is compared before it is increased.
NfsTimeoutLate ==
  /\ Elapsed /\ handler = "nfs" /\ Counted
  /\ NfsTimeoutCount' = NfsTimeoutCount + 1
  /\ UNCHANGED nfsVars
  /\ IF NfsTimeoutCount > NfsRetryCount
     THEN NetStartAgain /\ UNCHANGED <<rpc_id, net>>
     ELSE NfsSend(net) /\ UNCHANGED <<netState, tryCount, handler>>
  /\ AfterTimer
  /\ UNCHANGED <<result, filesize, BootFile, loads, dataVars>>

NfsTimeout ==
  /\ Elapsed /\ handler = "nfs" /\ Counted
  /\ NfsTimeoutCount' = NfsTimeoutCount + 1
  /\ UNCHANGED nfsVars
  /\ IF NfsTimeoutCount + 1 > NfsRetryCount
     THEN NetStartAgain /\ UNCHANGED <<rpc_id, net>>
     ELSE NfsSend(net) /\ UNCHANGED <<netState, tryCount, handler>>
  /\ AfterTimer
  /\ UNCHANGED <<result, filesize, BootFile, loads, dataVars>>

\* Nothing is left to run out after it: NetState is looked at next.
startAgainTimeout ==
  /\ Elapsed /\ handler = "again"
  /\ netState' = "RESTART" /\ pc' = "switch"
  /\ UNCHANGED <<result, filesize, tryCount, BootFile, loads, handler, nfsVars,
                 NfsTimeoutCount, rpc_id, dataVars, net, envVars>>

------------------------------------------------------------------------------
(* eth_rx: NfsHandler.  It looks at its own state and at the id of the      *)
(* reply, not at what the reply answers.  startAgainHandler does nothing.   *)

AfterTaking(r) == IF patient THEN net \ {r} ELSE net

Receive(r, st) == pc = "rx" /\ handler = "nfs" /\ NfsState = st /\ r \in net

\* The id of the reply is that of the last request.
Expected(r) == r.id = rpc_id

\* What every case of the handler leaves alone.
HandlerFrame ==
  /\ UNCHANGED <<pc, result, filesize, tryCount, BootFile, loads, handler,
                 NfsTimeoutCount, envVars>>

\* rpc_lookup_reply: its result is not looked at.
PortReply(r, st, next) ==
  /\ Receive(r, st)
  /\ ports' = IF Expected(r) THEN ports \cup {st} ELSE ports
  /\ NfsState' = next
  /\ UNCHANGED <<fs_mounted, nfs_path, fhVars, nfs_offset, NfsDownloadState, netState,
                 dataVars>>
  /\ NfsSend(AfterTaking(r)) /\ HandlerFrame

nfs_mount_reply(r) ==
  /\ Receive(r, "MOUNT")
  /\ IF Expected(r) /\ r.status = "ok"
     THEN fs_mounted' = TRUE /\ dirfh' = r.fh /\ NfsState' = "LOOKUP"
     ELSE NfsState' = "UMOUNT" /\ UNCHANGED <<fs_mounted, dirfh>>
  /\ UNCHANGED <<ports, nfs_path, filefh, nfs_offset, NfsDownloadState, netState,
                 dataVars>>
  /\ NfsSend(AfterTaking(r)) /\ HandlerFrame

nfs_lookup_reply(r) ==
  /\ Receive(r, "LOOKUP")
  /\ IF Expected(r) /\ r.status = "ok"
     THEN filefh' = r.fh /\ NfsState' = "READ" /\ nfs_offset' = 0
     ELSE NfsState' = "UMOUNT" /\ UNCHANGED <<filefh, nfs_offset>>
  /\ UNCHANGED <<ports, fs_mounted, nfs_path, dirfh, NfsDownloadState, netState, dataVars>>
  /\ NfsSend(AfterTaking(r)) /\ HandlerFrame

\* The new path is mounted and looked up again, also when it is that of a link:
\* nothing counts the steps.
nfs_readlink_reply(r) ==
  /\ Receive(r, "READLINK")
  /\ IF Expected(r) /\ r.status = "ok"
     THEN nfs_path' = r.fh /\ NfsState' = "MOUNT"
     ELSE NfsState' = "UMOUNT" /\ UNCHANGED nfs_path
  /\ UNCHANGED <<ports, fs_mounted, fhVars, nfs_offset, NfsDownloadState, netState, dataVars>>
  /\ NfsSend(AfterTaking(r)) /\ HandlerFrame

\* store_block at nfs_offset; the units are those that the reply holds.
store_block(r) ==
  LET new == nfs_offset..(nfs_offset + r.len - 1)
  IN /\ ram' = [u \in DOMAIN ram \cup new |->
                  IF u \in new THEN <<r.fh, r.off + (u - nfs_offset)>> ELSE ram[u]]
     /\ xferSize' = IF xferSize < nfs_offset + r.len THEN nfs_offset + r.len ELSE xferSize

\* Mutant: the id is not compared.
ReadDataMutant(r) ==
  /\ Receive(r, "READ") /\ r.status = "ok" /\ r.len > 0
  /\ store_block(r)
  /\ nfs_offset' = nfs_offset + r.len
  /\ UNCHANGED <<NfsState, ports, fs_mounted, nfs_path, fhVars, NfsDownloadState, netState>>
  /\ NfsSend(AfterTaking(r)) /\ HandlerFrame

\* nfs_read_reply with data.
ReadData(r) ==
  /\ Receive(r, "READ") /\ Expected(r) /\ r.status = "ok" /\ r.len > 0
  /\ store_block(r)
  /\ nfs_offset' = nfs_offset + r.len
  /\ UNCHANGED <<NfsState, ports, fs_mounted, nfs_path, fhVars, NfsDownloadState, netState>>
  /\ NfsSend(AfterTaking(r)) /\ HandlerFrame

\* nfs_read_reply at the end of the file, for a link, with an error or with an
\* unexpected id.
ReadEnd(r) ==
  /\ Receive(r, "READ") /\ ~(Expected(r) /\ r.status = "ok" /\ r.len > 0)
  /\ NfsDownloadState' = IF Expected(r) /\ r.status = "ok" THEN "SUCCESS" ELSE NfsDownloadState
  /\ NfsState' = IF Expected(r) /\ r.status = "inval" THEN "READLINK" ELSE "UMOUNT"
  /\ UNCHANGED <<ports, fs_mounted, nfs_path, fhVars, nfs_offset, netState, dataVars>>
  /\ NfsSend(AfterTaking(r)) /\ HandlerFrame

\* The result of the download is reported when the file system is unmounted; a
\* reply that is not the expected one makes it a failure.
nfs_umountall_reply(r) ==
  /\ Receive(r, "UMOUNT")
  /\ IF Expected(r)
     THEN fs_mounted' = FALSE /\ dirfh' = NoFh /\ netState' = NfsDownloadState
     ELSE netState' = "FAIL" /\ UNCHANGED <<fs_mounted, dirfh>>
  /\ net' = AfterTaking(r)
  /\ UNCHANGED <<NfsState, ports, nfs_path, filefh, nfs_offset, NfsDownloadState, rpc_id,
                 dataVars>>
  /\ HandlerFrame

\* The network (external).
Lose(r) ==
  /\ patient /\ faults < MaxFaults /\ r \in net
  /\ net' = net \ {r} /\ faults' = faults + 1
  /\ UNCHANGED <<loopVars, handler, nfsVars, NfsTimeoutCount, rpc_id, dataVars, patient>>

------------------------------------------------------------------------------
NfsHandler(r) ==
  \/ PortReply(r, "MOUNTPORT", "NFSPORT") \/ PortReply(r, "NFSPORT", "MOUNT")
  \/ nfs_mount_reply(r) \/ nfs_lookup_reply(r) \/ nfs_readlink_reply(r)
  \/ ReadData(r) \/ ReadEnd(r) \/ nfs_umountall_reply(r)

LoopStep ==
  \/ Restart \/ Succeed \/ Fail \/ NfsTimeout \/ startAgainTimeout
  \/ \E r \in net : NfsHandler(r)

Next ==
  \/ \E d \in Dir : NetLoop(d)
  \/ LoopStep \/ Abort
  \/ \E r \in net : Lose(r)

Spec == Init /\ [][Next]_vars

\* NetLoop goes round, packets are delivered or lost, and timers run out.
FairSpec == Spec /\ WF_vars(LoopStep)

------------------------------------------------------------------------------
(* Properties.                                                              *)

Target == target[BootFile]

\* ram holds the first n units of the file asked for.
Holds(n) == \A u \in 0..(n - 1) : u \in DOMAIN ram /\ ram[u] = <<Target, u>>

\* While NfsHandler reads a file, what it has stored is the beginning of the file
\* asked for, whatever replies to earlier requests, tries and downloads it was
\* handed on the way.
PrefixExact ==
  pc # "idle" /\ handler = "nfs" /\ NfsState = "READ"
    => xferSize = nfs_offset /\ Holds(nfs_offset)

\* When the nfs command reports success, memory holds the file asked for, every
\* unit at its place, and filesize is its length; for an empty file NetLoop leaves
\* filesize as it was.
ImageExact ==
  result = "ok" => /\ kind[Target] = "file" /\ Holds(FileLen[Target])
                   /\ FileLen[Target] > 0 => filesize = FileLen[Target]

\* In a patient world, where a timer runs out only after a loss, a file that can be
\* had is loaded although packets get lost, through any chain of links that ends,
\* and the command fails, and comes to an end, for one that cannot.  Links that lead
\* to each other are followed for ever: NFS_MAXLINKDEPTH is not used.
Outcome ==
  patient /\ pc # "idle" /\ kind[Target] # "link"
    ~> pc = "idle" /\ result = IF kind[Target] = "file" THEN "ok" ELSE "failed"
==============================================================================
