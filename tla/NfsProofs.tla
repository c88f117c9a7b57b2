------------------------------ MODULE NfsProofs ------------------------------
(***************************************************************************)
(* Proofs about Nfs: whatever the server has, however long its files are   *)
(* and however many replies are lost, late, repeated or reordered, the     *)
(* memory holds the beginning of the file asked for while it is read, and  *)
(* all of it when success is reported.                                     *)
(*                                                                         *)
(* The argument: every request has an id of its own, so that a reply with  *)
(* the id of the last request answers that request (Answered).  What the   *)
(* handler knows in each of its states (Stage) follows from the answers    *)
(* it has accepted on the way.                                             *)
(***************************************************************************)
EXTENDS Nfs, TLAPS

Active == pc # "idle" /\ handler = "nfs"

\* A timer that may still run out has tries left.
Count == pc = "rx" /\ handler = "nfs" => NfsTimeoutCount <= NfsRetryCount

\* A reply that has the id of the last request is an answer to the request of
\* the present state.
Answered ==
  Active /\ NfsState # "UMOUNT" =>
    \A r \in net : r.id = rpc_id =>
      \E b \in Answers(NfsState, ports, nfs_path, dirfh, filefh, nfs_offset) :
        r = Reply(rpc_id, b, nfs_offset)

Loaded(p, n) == \A u \in 0..(n - 1) : u \in DOMAIN ram /\ ram[u] = <<p, u>>

Done == kind[Target] = "file" /\ xferSize = FileLen[Target] /\ Holds(FileLen[Target])

\* Links lead where those of the path asked for end.
PathInv == Active => target[nfs_path] = Target

\* What the handler knows in each of its states.
Stage ==
  Active =>
    /\ NfsState # "UMOUNT" => NfsDownloadState = "FAIL" /\ netState # "SUCCESS"
    /\ NfsState \notin {"READ", "UMOUNT"} => xferSize = 0
    /\ NfsState = "LOOKUP" => dirfh = nfs_path /\ kind[nfs_path] # "refused"
    /\ NfsState \in {"READ", "READLINK"} => filefh = nfs_path
    /\ NfsState = "READ" => /\ kind[nfs_path] \in {"file", "link"}
                            /\ kind[nfs_path] = "link" => nfs_offset = 0
                            /\ xferSize = nfs_offset
                            /\ Loaded(nfs_path, nfs_offset)
    /\ NfsState = "READLINK" => kind[nfs_path] = "link"
    /\ NfsState = "UMOUNT" /\ NfsDownloadState = "SUCCESS" => Done

Ended ==
  /\ pc # "idle" /\ netState = "SUCCESS" => Done
  /\ result = "ok" => pc = "idle" /\ ImageExact

IInv == TypeOK /\ Count /\ Answered /\ PathInv /\ Stage /\ Ended

------------------------------------------------------------------------------
(* The network: ids are fresh.                                              *)

Ids == rpc_id \in Nat /\ \A r \in net : r.id \in 1..rpc_id

\* NfsSend: the ids stay in range, and a reply that has the new id answers the
\* request of the new state.
LEMMA SendFresh ==
  ASSUME NEW inNet, inNet \subseteq net, Ids, NfsSend(inNet)
  PROVE  /\ Ids'
         /\ NfsState' # "UMOUNT" =>
              \A r \in net' : r.id = rpc_id' =>
                \E b \in Answers(NfsState', ports', nfs_path', dirfh', filefh', nfs_offset') :
                  r = Reply(rpc_id', b, nfs_offset')
<1>1. CASE NfsState' = "UMOUNT" /\ ~fs_mounted'
  BY <1>1 DEF NfsSend, Ids
<1>2. CASE ~(NfsState' = "UMOUNT" /\ ~fs_mounted')
  <2> DEFINE ans == Answers(NfsState', ports', nfs_path', dirfh', filefh', nfs_offset')
             old == {r \in inNet : r.id + MaxAge > rpc_id}
  <2>1. /\ rpc_id' = rpc_id + 1
        /\ IF ans = {} THEN net' = old
           ELSE \E b \in ans : net' = old \cup {Reply(rpc_id + 1, b, nfs_offset')}
    BY <1>2 DEF NfsSend, rpc_req
  <2> HIDE DEF ans
  <2>2. old \subseteq net
    OBVIOUS
  <2>3. \A r \in net' : r \in old \/ \E b \in ans : r = Reply(rpc_id', b, nfs_offset')
    BY <2>1
  <2>4. \A b : Reply(rpc_id', b, nfs_offset').id = rpc_id'
    BY DEF Reply
  <2>5. Ids'
    BY <2>1, <2>2, <2>3, <2>4 DEF Ids
  <2>6. \A r \in net' : r.id = rpc_id' => \E b \in ans : r = Reply(rpc_id', b, nfs_offset')
    BY <2>1, <2>2, <2>3 DEF Ids
  <2> QED BY <2>5, <2>6 DEF ans
<1> QED BY <1>1, <1>2

\* What an answer that has the id of the last request says, in each state.
LEMMA AnswerMeans ==
  ASSUME NEW st, NEW known, NEW path \in Dir, NEW dfh, NEW ffh, NEW off \in Nat,
         NEW b \in Answers(st, known, path, dfh, ffh, off)
  PROVE  /\ st = "MOUNT" /\ b.status = "ok" => b.fh = path /\ kind[path] # "refused"
         /\ st = "LOOKUP" /\ b.status = "ok" => b.fh = dfh /\ kind[dfh] # "missing"
         /\ st = "READ" /\ b.status = "ok" =>
              /\ b.fh = ffh /\ kind[ffh] # "link" /\ b.len \in Nat
              /\ off + b.len <= FileLen[ffh] /\ (b.len = 0 => off = FileLen[ffh])
         /\ st = "READ" /\ b.status = "inval" => kind[ffh] = "link"
         /\ st = "READLINK" => b.fh = linkTo[ffh]
<1> USE NfsAssumption DEF Body, Ok, Error
<1>1. CASE st = "MOUNT"
  BY <1>1 DEF Answers, Refused, Handle
<1>2. CASE st = "LOOKUP"
  BY <1>2 DEF Answers, Refused, Handle
<1>3. CASE st = "READ"
  <2>1. b \in ReadAnswers(ffh, off)
    BY <1>3 DEF Answers
  <2> QED BY <1>3, <2>1 DEF ReadAnswers
<1>4. CASE st = "READLINK"
  BY <1>4 DEF Answers, Refused, Handle
<1> QED BY <1>1, <1>2, <1>3, <1>4

\* What the handler may conclude from a reply with the expected id.
LEMMA ReplyMeans ==
  ASSUME IInv, NEW r \in net, pc = "rx", handler = "nfs", Expected(r)
  PROVE  /\ NfsState = "MOUNT" /\ r.status = "ok" =>
              r.fh = nfs_path /\ kind[nfs_path] # "refused"
         /\ NfsState = "LOOKUP" /\ r.status = "ok" =>
              r.fh = nfs_path /\ kind[nfs_path] \in {"file", "link"}
         /\ NfsState = "READ" /\ r.status = "ok" =>
              /\ r.fh = nfs_path /\ kind[nfs_path] = "file" /\ r.len \in Nat
              /\ r.off = nfs_offset /\ nfs_offset + r.len <= FileLen[nfs_path]
              /\ r.len = 0 => nfs_offset = FileLen[nfs_path]
         /\ NfsState = "READ" /\ r.status = "inval" => kind[nfs_path] = "link"
         /\ NfsState = "READLINK" => r.fh = linkTo[nfs_path]
<1>1. CASE NfsState = "UMOUNT"
  BY <1>1
<1>2. CASE NfsState # "UMOUNT"
  <2>1. PICK b \in Answers(NfsState, ports, nfs_path, dirfh, filefh, nfs_offset) :
          r = Reply(rpc_id, b, nfs_offset)
    BY <1>2 DEF IInv, Answered, Active, Expected
  <2>2. r.status = b.status /\ r.fh = b.fh /\ r.len = b.len /\ r.off = nfs_offset
    BY <2>1 DEF Reply
  <2>3. nfs_path \in Dir /\ nfs_offset \in Nat
    BY DEF IInv, TypeOK
  <2>4. /\ NfsState = "MOUNT" /\ b.status = "ok" => b.fh = nfs_path /\ kind[nfs_path] # "refused"
        /\ NfsState = "LOOKUP" /\ b.status = "ok" => b.fh = dirfh /\ kind[dirfh] # "missing"
        /\ NfsState = "READ" /\ b.status = "ok" =>
             /\ b.fh = filefh /\ kind[filefh] # "link" /\ b.len \in Nat
             /\ nfs_offset + b.len <= FileLen[filefh]
             /\ b.len = 0 => nfs_offset = FileLen[filefh]
        /\ NfsState = "READ" /\ b.status = "inval" => kind[filefh] = "link"
        /\ NfsState = "READLINK" => b.fh = linkTo[filefh]
    BY <2>1, <2>3, AnswerMeans
  <2>5. /\ NfsState = "LOOKUP" => dirfh = nfs_path /\ kind[nfs_path] # "refused"
        /\ NfsState = "READ" => kind[nfs_path] \in {"file", "link"}
        /\ NfsState \in {"READ", "READLINK"} => filefh = nfs_path
        /\ kind[nfs_path] \in {"file", "link", "missing", "refused"}
    BY <2>3, NfsAssumption DEF IInv, Stage, Active
  <2> QED BY <2>2, <2>4, <2>5
<1> QED BY <1>1, <1>2

\* A file that was read as nfs_path is the one asked for.
LEMMA PathIsTarget ==
  ASSUME IInv, Active, kind[nfs_path] = "file"
  PROVE  nfs_path = Target
BY NfsAssumption DEF IInv, TypeOK, PathInv

\* After NfsSend, the request of the new state is the one that is answered.
LEMMA Sends ==
  ASSUME IInv, NEW inNet, inNet \subseteq net, NfsSend(inNet), patient' = patient
  PROVE  Ids' /\ Answered'
<1>1. Ids
  BY DEF IInv, TypeOK, Ids
<1>2. /\ Ids'
      /\ NfsState' # "UMOUNT" =>
           \A q \in net' : q.id = rpc_id' =>
             \E b \in Answers(NfsState', ports', nfs_path', dirfh', filefh', nfs_offset') :
               q = Reply(rpc_id', b, nfs_offset')
  BY <1>1, SendFresh
<1> QED BY <1>2 DEF Answered, Answers, ReadAnswers, Listening, Refused, Handle

------------------------------------------------------------------------------
(* The handler.                                                             *)

\* What all cases of the handler that end with a request have in common.
LEMMA HandlerCommon ==
  ASSUME IInv, NEW r \in net, NfsSend(AfterTaking(r)), HandlerFrame,
         pc = "rx", handler = "nfs"
  PROVE  Ids' /\ Answered' /\ Count'
<1>1. AfterTaking(r) \subseteq net /\ patient' = patient
  BY DEF AfterTaking, HandlerFrame, envVars
<1> QED BY <1>1, Sends DEF HandlerFrame, IInv, Count

LEMMA PortStep ==
  ASSUME IInv, NEW r \in net,
         PortReply(r, "MOUNTPORT", "NFSPORT") \/ PortReply(r, "NFSPORT", "MOUNT")
  PROVE  IInv'
<1> USE DEF Receive, HandlerFrame, fhVars, dataVars, envVars
<1>1. Ids' /\ Answered' /\ Count'
  BY HandlerCommon DEF PortReply
<1>2. TypeOK'
  BY <1>1 DEF IInv, TypeOK, Ids, PortReply
<1>3. PathInv' /\ Ended'
  BY DEF IInv, PathInv, Ended, ImageExact, Active, PortReply, Done, Holds, Target
<1>4. Stage'
  BY DEF IInv, Stage, Active, PortReply
<1> QED BY <1>1, <1>2, <1>3, <1>4 DEF IInv

LEMMA MountStep ==
  ASSUME IInv, NEW r \in net, nfs_mount_reply(r)
  PROVE  IInv'
<1> USE DEF Receive, HandlerFrame, fhVars, dataVars, envVars
<1>1. Ids' /\ Answered' /\ Count'
  BY HandlerCommon DEF nfs_mount_reply
<1>2. Expected(r) /\ r.status = "ok" => r.fh = nfs_path /\ kind[nfs_path] # "refused"
  BY ReplyMeans DEF nfs_mount_reply
<1>3. TypeOK'
  BY <1>1, <1>2 DEF IInv, TypeOK, Ids, nfs_mount_reply
<1>4. PathInv' /\ Ended'
  BY DEF IInv, PathInv, Ended, ImageExact, Active, nfs_mount_reply, Done, Holds, Target
<1>5. Stage'
  BY <1>2 DEF IInv, Stage, Active, nfs_mount_reply
<1> QED BY <1>1, <1>3, <1>4, <1>5 DEF IInv

LEMMA LookupStep ==
  ASSUME IInv, NEW r \in net, nfs_lookup_reply(r)
  PROVE  IInv'
<1> USE DEF Receive, HandlerFrame, fhVars, dataVars, envVars
<1>1. Ids' /\ Answered' /\ Count'
  BY HandlerCommon DEF nfs_lookup_reply
<1>2. Expected(r) /\ r.status = "ok" => r.fh = nfs_path /\ kind[nfs_path] \in {"file", "link"}
  BY ReplyMeans DEF nfs_lookup_reply
<1>3. TypeOK'
  BY <1>1, <1>2, NfsAssumption DEF IInv, TypeOK, Ids, nfs_lookup_reply
<1>4. PathInv' /\ Ended'
  BY DEF IInv, PathInv, Ended, ImageExact, Active, nfs_lookup_reply, Done, Holds, Target
<1>5. Stage'
  BY <1>2 DEF IInv, Stage, Active, nfs_lookup_reply, Loaded
<1> QED BY <1>1, <1>3, <1>4, <1>5 DEF IInv

LEMMA ReadlinkStep ==
  ASSUME IInv, NEW r \in net, nfs_readlink_reply(r)
  PROVE  IInv'
<1> USE DEF Receive, HandlerFrame, fhVars, dataVars, envVars
<1>1. Ids' /\ Answered' /\ Count'
  BY HandlerCommon DEF nfs_readlink_reply
<1>2. Expected(r) => r.fh = linkTo[nfs_path]
  BY ReplyMeans DEF nfs_readlink_reply
<1>3. /\ nfs_path \in Dir /\ linkTo[nfs_path] \in Dir
      /\ target[nfs_path] = target[linkTo[nfs_path]]
  BY NfsAssumption DEF IInv, TypeOK, Stage, Active, nfs_readlink_reply
<1>4. TypeOK'
  BY <1>1, <1>2, <1>3 DEF IInv, TypeOK, Ids, nfs_readlink_reply
<1>5. PathInv' /\ Ended'
  BY <1>2, <1>3 DEF IInv, PathInv, Ended, ImageExact, Active, nfs_readlink_reply, Done, Holds, Target
<1>6. Stage'
  BY DEF IInv, Stage, Active, nfs_readlink_reply
<1> QED BY <1>1, <1>4, <1>5, <1>6 DEF IInv

\* store_block appends to the beginning of the file.
LEMMA ReadDataStep ==
  ASSUME IInv, NEW r \in net, ReadData(r)
  PROVE  IInv'
<1> USE DEF Receive, HandlerFrame, fhVars, envVars
<1>1. Ids' /\ Answered' /\ Count'
  BY HandlerCommon DEF ReadData
<1>2. /\ r.fh = nfs_path /\ kind[nfs_path] = "file" /\ r.len \in Nat /\ r.len > 0
      /\ r.off = nfs_offset
  BY ReplyMeans DEF ReadData
<1>3. /\ nfs_offset \in Nat /\ xferSize = nfs_offset
      /\ Loaded(nfs_path, nfs_offset) /\ DOMAIN ram \subseteq Nat
  BY NfsAssumption DEF IInv, TypeOK, Stage, Active, ReadData
<1> DEFINE new == nfs_offset..(nfs_offset + r.len - 1)
<1>4. /\ ram' = [u \in DOMAIN ram \cup new |->
                  IF u \in new THEN <<r.fh, r.off + (u - nfs_offset)>> ELSE ram[u]]
      /\ xferSize' = nfs_offset + r.len
      /\ nfs_offset' = nfs_offset + r.len
  BY <1>2, <1>3 DEF ReadData, store_block
<1>5. DOMAIN ram' = DOMAIN ram \cup new
  BY <1>4
<1>6. ASSUME NEW u \in 0..(nfs_offset' - 1)
      PROVE  u \in DOMAIN ram' /\ ram'[u] = <<nfs_path', u>>
  <2> nfs_path' = nfs_path /\ nfs_offset' = nfs_offset + r.len
    BY <1>4 DEF ReadData
  <2>1. CASE u < nfs_offset
    <3>1. u \in 0..(nfs_offset - 1)
      BY <1>2, <1>3, <2>1
    <3>2. u \in DOMAIN ram /\ ram[u] = <<nfs_path, u>>
      BY <1>3, <3>1 DEF Loaded
    <3>3. u \notin new
      BY <1>3, <2>1
    <3> QED BY <1>4, <3>2, <3>3
  <2>2. CASE u >= nfs_offset
    <3>1. u \in new /\ r.off + (u - nfs_offset) = u
      BY <1>2, <1>3, <2>2
    <3> QED BY <1>2, <1>4, <3>1
  <2> QED BY <1>3, <2>1, <2>2
<1>7. TypeOK'
  BY <1>1, <1>2, <1>3, <1>4, <1>5 DEF IInv, TypeOK, Ids, ReadData
<1>8. PathInv'
  BY DEF IInv, PathInv, Target, Active, ReadData
<1>9. Stage'
  <2>1. Loaded(nfs_path, nfs_offset)'
    BY <1>6 DEF Loaded
  <2> QED BY <1>2, <1>4, <2>1 DEF IInv, Stage, Active, ReadData
<1>10. Ended'
  BY DEF IInv, Stage, Ended, Active, ReadData
<1> QED BY <1>1, <1>7, <1>8, <1>9, <1>10 DEF IInv

\* The end of the file is reported only when all of it is in memory.
LEMMA ReadEndStep ==
  ASSUME IInv, NEW r \in net, ReadEnd(r)
  PROVE  IInv'
<1> USE DEF Receive, HandlerFrame, fhVars, dataVars, envVars
<1>1. Ids' /\ Answered' /\ Count'
  BY HandlerCommon DEF ReadEnd
<1>2. Expected(r) /\ r.status = "ok" => kind[nfs_path] = "file" /\ nfs_offset = FileLen[nfs_path]
  BY ReplyMeans DEF ReadEnd
<1>3. Expected(r) /\ r.status = "inval" => kind[nfs_path] = "link"
  BY ReplyMeans DEF ReadEnd
<1>4. TypeOK'
  BY <1>1 DEF IInv, TypeOK, Ids, ReadEnd
<1>5. PathInv' /\ Ended'
  BY DEF IInv, PathInv, Ended, ImageExact, Active, ReadEnd, Done, Holds, Target
<1>6. xferSize = nfs_offset /\ Loaded(nfs_path, nfs_offset) /\ filefh = nfs_path
  BY DEF IInv, Stage, Active, ReadEnd
<1>7. Expected(r) /\ r.status = "ok" => Done
  <2> HAVE Expected(r) /\ r.status = "ok"
  <2>1. nfs_path = Target
    BY <1>2, PathIsTarget DEF Active, ReadEnd
  <2> QED BY <1>2, <1>6, <2>1 DEF Done, Holds, Loaded
<1>8. Done => Done'
  BY DEF ReadEnd, Done, Holds, Target
<1>9. kind[nfs_path] = "link" => xferSize = 0
  BY <1>6 DEF IInv, Stage, Active, ReadEnd
<1>10. Stage'
  BY <1>3, <1>6, <1>7, <1>8, <1>9 DEF IInv, Stage, Active, ReadEnd
<1> QED BY <1>1, <1>4, <1>5, <1>10 DEF IInv

LEMMA UmountStep ==
  ASSUME IInv, NEW r \in net, nfs_umountall_reply(r)
  PROVE  IInv'
<1> USE DEF Receive, HandlerFrame, fhVars, dataVars, envVars
<1>1. net' \subseteq net
  BY DEF nfs_umountall_reply, AfterTaking
<1>2. TypeOK'
  BY <1>1 DEF IInv, TypeOK, nfs_umountall_reply
<1>3. Count' /\ Answered' /\ PathInv'
  BY DEF IInv, Count, Answered, PathInv, Target, Active, nfs_umountall_reply
<1>4. Done' <=> Done
  BY DEF nfs_umountall_reply, Done, Holds, Target
<1>5. Stage'
  BY <1>4 DEF IInv, Stage, Active, nfs_umountall_reply
<1>6. Ended'
  BY <1>4 DEF IInv, Stage, Ended, Active, nfs_umountall_reply
<1> QED BY <1>2, <1>3, <1>5, <1>6 DEF IInv

------------------------------------------------------------------------------
(* NetLoop.                                                                 *)

LEMMA StartStep ==
  ASSUME IInv, BootFile' \in Dir, NfsStart, result' # "ok", UNCHANGED <<ram, envVars>>,
         filesize' \in Nat, tryCount' \in Nat, loads' \in 0..MaxLoads,
         result' \in {"none", "failed"}
  PROVE  IInv'
<1> USE DEF fhVars, envVars
<1>1. Ids' /\ Answered'
  BY Sends DEF NfsStart
<1>2. TypeOK' /\ Count'
  BY <1>1, NfsAssumption DEF IInv, TypeOK, Count, Ids, NfsStart
<1>3. PathInv' /\ Stage' /\ Ended'
  BY DEF PathInv, Target, Stage, Ended, Active, NfsStart
<1> QED BY <1>1, <1>2, <1>3 DEF IInv

LEMMA LoopStart ==
  ASSUME IInv, (\E d \in Dir : NetLoop(d)) \/ Restart
  PROVE  IInv'
<1>1. ASSUME NEW d \in Dir, NetLoop(d) PROVE IInv'
  <2>1. /\ BootFile' \in Dir /\ NfsStart /\ UNCHANGED <<ram, envVars>>
        /\ filesize' \in Nat /\ tryCount' \in Nat /\ loads' \in 0..MaxLoads
        /\ result' = "none"
    BY <1>1, NfsAssumption DEF IInv, TypeOK, NetLoop
  <2> QED BY <2>1, StartStep
<1>2. CASE Restart
  <2>1. /\ BootFile' \in Dir /\ NfsStart /\ UNCHANGED <<ram, envVars>>
        /\ filesize' \in Nat /\ tryCount' \in Nat /\ loads' \in 0..MaxLoads
        /\ result' \in {"none", "failed"}
    BY <1>2 DEF IInv, TypeOK, Ended, Restart
  <2> QED BY <2>1, StartStep
<1> QED BY <1>1, <1>2

LEMMA ReturnStep ==
  ASSUME IInv, Succeed \/ Fail \/ Abort
  PROVE  IInv'
<1> USE DEF Return, Succeed, Fail, Abort, Counted, nfsVars, fhVars, dataVars, envVars
<1>1. TypeOK'
  <2>1. CASE Succeed
    BY <2>1 DEF IInv, TypeOK
  <2>2. CASE Fail
    BY <2>2 DEF IInv, TypeOK
  <2>3. CASE Abort
    <3>1. faults' \in 0..MaxFaults /\ patient' \in BOOLEAN
      BY <2>3, NfsAssumption DEF IInv, TypeOK
    <3> QED BY <2>3, <3>1 DEF IInv, TypeOK
  <2> QED BY <2>1, <2>2, <2>3
<1>2. Count' /\ Answered' /\ PathInv' /\ Stage'
  BY DEF Count, Answered, PathInv, Stage, Active
<1>3. Succeed => Done
  BY DEF IInv, Ended
<1>4. Ended'
  BY <1>3, NfsAssumption DEF IInv, TypeOK, Ended, ImageExact, Done, Holds, Target
<1> QED BY <1>1, <1>2, <1>4 DEF IInv

\* The timers change neither what was loaded nor what the handler knows.
LEMMA TimerStep ==
  ASSUME IInv, NfsTimeout \/ startAgainTimeout
  PROVE  IInv'
<1>1. CASE NfsTimeout
  <2> USE <1>1 DEF NfsTimeout, Elapsed, nfsVars, fhVars, dataVars
  <2>1. Done' <=> Done
    BY DEF Done, Holds, Target
  <2>2. patient' = patient /\ faults' \in 0..MaxFaults
    BY NfsAssumption DEF Counted, IInv, TypeOK
  <2>3. NfsTimeoutCount' \in 0..(NfsRetryCount + 1) /\ NfsRetryCount \in Nat
    BY NfsAssumption DEF IInv, TypeOK, Count
  <2>4. CASE NfsTimeoutCount + 1 > NfsRetryCount
    <3>1. NetStartAgain /\ UNCHANGED <<rpc_id, net>>
      BY <2>4
    <3>2. /\ pc' \in {"rx", "switch"} /\ tryCount' \in Nat /\ handler' \in {"nfs", "again"}
          /\ netState' \in {"CONTINUE", "RESTART", "SUCCESS", "FAIL"}
          /\ pc' = "rx" => handler' # "nfs"
      BY <3>1 DEF AfterTimer, NetStartAgain, IInv, TypeOK
    <3>3. TypeOK' /\ Count'
      BY <2>2, <2>3, <3>1, <3>2 DEF IInv, TypeOK, Count
    <3>4. Answered'
      BY <2>2, <3>1 DEF IInv, Answered, Active, Answers, ReadAnswers, Listening, Refused,
                        Handle, NetStartAgain
    <3>5. PathInv' /\ Ended' /\ Stage'
      <4>1. netState' = "SUCCESS" => netState = "SUCCESS"
        BY <3>1 DEF NetStartAgain
      <4>2. Active' => Active
        BY <3>1 DEF NetStartAgain, Active
      <4>3. PathInv' /\ Ended'
        BY <2>1, <3>2, <4>1, <4>2 DEF IInv, PathInv, Ended, ImageExact, Done, Holds, Target
      <4>4. Loaded(nfs_path, nfs_offset)' <=> Loaded(nfs_path, nfs_offset)
        BY DEF Loaded
      <4>5. Stage'
        BY <2>1, <4>1, <4>2, <4>4 DEF IInv, Stage
      <4> QED BY <4>3, <4>5
    <3> QED BY <3>3, <3>4, <3>5 DEF IInv
  <2>5. CASE ~(NfsTimeoutCount + 1 > NfsRetryCount)
    <3>1. NfsSend(net) /\ UNCHANGED <<netState, tryCount, handler>>
      BY <2>5
    <3>2. Ids' /\ Answered'
      BY <2>2, <3>1, Sends
    <3>3. pc' \in {"rx", "switch"}
      BY DEF AfterTimer
    <3>4. TypeOK' /\ Count'
      BY <2>2, <2>3, <2>5, <3>1, <3>2, <3>3 DEF IInv, TypeOK, Count, Ids
    <3>5. PathInv' /\ Ended'
      BY <2>1, <3>1, <3>3 DEF IInv, PathInv, Ended, ImageExact, Active, Done, Holds, Target
    <3>6. Loaded(nfs_path, nfs_offset)' <=> Loaded(nfs_path, nfs_offset)
      BY DEF Loaded
    <3>7. Stage'
      BY <2>1, <3>1, <3>6 DEF IInv, Stage, Active
    <3> QED BY <3>2, <3>4, <3>5, <3>7 DEF IInv
  <2> QED BY <2>4, <2>5
<1>2. CASE startAgainTimeout
  <2> USE <1>2 DEF startAgainTimeout, Elapsed, nfsVars, fhVars, dataVars, envVars
  <2>1. TypeOK'
    BY DEF IInv, TypeOK
  <2>2. Count' /\ Answered' /\ PathInv' /\ Stage'
    BY DEF Count, Answered, PathInv, Stage, Active
  <2>3. Ended'
    BY DEF IInv, Ended
  <2> QED BY <2>1, <2>2, <2>3 DEF IInv
<1> QED BY <1>1, <1>2

LEMMA LoseStep ==
  ASSUME IInv, NEW r \in net, Lose(r)
  PROVE  IInv'
<1> USE DEF Lose, loopVars, nfsVars, fhVars, dataVars
<1>1. net' \subseteq net
  OBVIOUS
<1>2. TypeOK' /\ Count'
  BY <1>1, NfsAssumption DEF IInv, TypeOK, Count
<1>3. Answered'
  BY <1>1 DEF IInv, Answered, Active, Answers, ReadAnswers, Listening, Refused, Handle
<1>4. PathInv' /\ Ended' /\ Stage'
  BY DEF IInv, PathInv, Ended, ImageExact, Stage, Active, Done, Holds, Target, Loaded
<1> QED BY <1>2, <1>3, <1>4 DEF IInv

------------------------------------------------------------------------------
(* The theorems.                                                            *)

LEMMA NfsInit == Init => IInv
<1> SUFFICES ASSUME Init PROVE IInv
  OBVIOUS
<1>1. DOMAIN ram = {}
  BY DEF Init
<1>2. patient \in BOOLEAN /\ fs_mounted \in BOOLEAN
  BY DEF Init
<1>3. 0 \in 0..MaxLoads /\ 0 \in 0..(NfsRetryCount + 1) /\ 0 \in 0..MaxFaults
  BY NfsAssumption
<1>4. TypeOK
  BY <1>1, <1>2, <1>3 DEF Init, TypeOK
<1>5. Count /\ Answered /\ PathInv /\ Stage /\ Ended
  BY DEF Init, Count, Answered, PathInv, Stage, Ended, Active
<1> QED BY <1>4, <1>5 DEF IInv

LEMMA NfsStutter ==
  ASSUME IInv, UNCHANGED vars
  PROVE  IInv'
<1> USE DEF vars, loopVars, nfsVars, fhVars, dataVars, envVars
<1>1. TypeOK' /\ Count'
  BY DEF IInv, TypeOK, Count
<1>2. Answered'
  BY DEF IInv, Answered, Active, Answers, ReadAnswers, Listening, Refused, Handle
<1>3. PathInv' /\ Ended' /\ Stage'
  BY DEF IInv, PathInv, Ended, ImageExact, Stage, Active, Done, Holds, Target, Loaded
<1> QED BY <1>1, <1>2, <1>3 DEF IInv

\* The invariant of NfsHandler and NetLoop: replies with the id of the last
\* request answer it, and what the handler knows in each state.
THEOREM NfsInductive == Spec => []IInv
<1>1. IInv /\ [Next]_vars => IInv'
  <2> SUFFICES ASSUME IInv, [Next]_vars PROVE IInv'
    OBVIOUS
  <2>1. CASE \E d \in Dir : NetLoop(d)
    BY <2>1, LoopStart
  <2>2. CASE Restart
    BY <2>2, LoopStart
  <2>3. CASE Succeed \/ Fail \/ Abort
    BY <2>3, ReturnStep
  <2>4. CASE NfsTimeout \/ startAgainTimeout
    BY <2>4, TimerStep
  <2>5. CASE \E r \in net : NfsHandler(r)
    <3>1. PICK r \in net : NfsHandler(r)
      BY <2>5
    <3> QED BY <3>1, PortStep, MountStep, LookupStep, ReadlinkStep, ReadDataStep,
               ReadEndStep, UmountStep DEF NfsHandler
  <2>6. CASE \E r \in net : Lose(r)
    BY <2>6, LoseStep
  <2>7. CASE UNCHANGED vars
    BY <2>7, NfsStutter
  <2> QED BY <2>1, <2>2, <2>3, <2>4, <2>5, <2>6, <2>7 DEF Next, LoopStep
<1> QED BY <1>1, NfsInit, PTL DEF Spec

\* Type correctness of the NFS client in NetLoop.
THEOREM NfsTyping == Spec => []TypeOK
<1>1. IInv => TypeOK
  BY DEF IInv
<1> QED BY <1>1, NfsInductive, PTL

\* While NfsHandler reads a file, what store_block has stored is the beginning of
\* the file asked for.
THEOREM NfsPrefixExact == Spec => []PrefixExact
<1>1. IInv => PrefixExact
  <2> SUFFICES ASSUME IInv, pc # "idle", handler = "nfs", NfsState = "READ"
               PROVE  xferSize = nfs_offset /\ Holds(nfs_offset)
    BY DEF PrefixExact
  <2>1. /\ xferSize = nfs_offset /\ Loaded(nfs_path, nfs_offset)
        /\ kind[nfs_path] = "file" \/ nfs_offset = 0
    BY DEF IInv, Stage, Active
  <2>2. CASE nfs_offset = 0
    BY <2>1, <2>2 DEF Holds
  <2>3. CASE kind[nfs_path] = "file"
    <3>1. nfs_path = Target
      BY <2>3, PathIsTarget DEF Active
    <3> QED BY <2>1, <3>1 DEF Holds, Loaded
  <2> QED BY <2>1, <2>2, <2>3
<1> QED BY <1>1, NfsInductive, PTL

\* When NetLoop returns with success from NfsStart, memory holds the file asked
\* for and filesize is its length.
THEOREM NfsImageExact == Spec => []ImageExact
<1>1. IInv => ImageExact
  BY DEF IInv, Ended, ImageExact
<1> QED BY <1>1, NfsInductive, PTL
==============================================================================
