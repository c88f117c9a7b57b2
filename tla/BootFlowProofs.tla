--------------------------- MODULE BootFlowProofs ---------------------------
(***************************************************************************)
(* Proofs about BootFlow, for every boot limit and every number of resets, *)
(* faults and update requests: the types, the bound on the attempts at the *)
(* normal kernel, and that an update request is carried out once.          *)
(***************************************************************************)
EXTENDS BootFlow, TLAPS

\* What the counter in RAM knows of the attempts.  Between main_loop and
\* Autoboot it is ahead of them; at any other time it is not behind.  While
\* "mss iapprog" runs the magic number may be lost, so there must be no attempt
\* left to remember.
CounterKnows ==
  /\ tries <= BootLimit
  /\ pc = "select" => magic /\ count = bootcount /\ tries < bootcount
  /\ pc # "select" => tries <= bootcount_load
  /\ pc = "iapprog" => tries = 0

Updating == pc \in {"iapauth", "rstbootcnt", "iapprog"}

\* A request is pending in the flag or being carried out, never both, and it
\* has not been counted as a programming yet.
RequestPending ==
  /\ Updating => ~flag
  /\ programs <= requests
  /\ flag \/ Updating => programs < requests

IInv == TypeOK /\ CounterKnows /\ RequestPending

------------------------------------------------------------------------------
\* main_loop, the scripts, the kernel and the supply keep every variable within
\* its type.
LEMMA TypeStep == TypeOK /\ [Next]_vars => TypeOK'
<1> SUFFICES ASSUME TypeOK, [Next]_vars PROVE TypeOK'
  OBVIOUS
<1> USE BootAssumption
<1>1. CASE main_loop
  <2>1. bootcount_load \in 0..(BootLimit + 1)
    BY DEF TypeOK, bootcount_load
  <2>2. bootcount' \in 0..(BootLimit + 1) /\ count' \in 0..(BootLimit + 1)
    BY <1>1, <2>1 DEF main_loop, bootcount_store
  <2>3. magic' \in BOOLEAN /\ args' \in BOOLEAN /\ flag' \in BOOLEAN
    BY <1>1, Zenon DEF main_loop, bootcount_store, TypeOK
  <2> QED
    BY <1>1, <2>2, <2>3 DEF TypeOK, main_loop, bootcount_store, ghostVars, faultVars
<1>2. CASE Autoboot
  BY <1>2 DEF TypeOK, Autoboot, cntVars, faultVars
<1>3. CASE fpgaupdate
  BY <1>3 DEF TypeOK, fpgaupdate, cntVars, ghostVars, faultVars
<1>4. CASE iapauth
  BY <1>4 DEF TypeOK, iapauth, cntVars, ghostVars, faultVars
<1>5. CASE rstbootcnt
  BY <1>5 DEF TypeOK, rstbootcnt, faultVars
<1>6. CASE iapprog
  <2>1. magic' \in BOOLEAN
    BY <1>6, Zenon DEF iapprog, TypeOK
  <2> QED
    BY <1>6, <2>1 DEF TypeOK, iapprog, faultVars
<1>7. CASE SelectPartition
  BY <1>7 DEF TypeOK, SelectPartition, Partition, cntVars, ghostVars, faultVars
<1>8. CASE flashboot
  <2>1. [from |-> part, image |-> flash[part]] \in Loaded /\ Garbage \in Loaded
    BY DEF TypeOK, Loaded
  <2> QED
    BY <1>8, <2>1 DEF TypeOK, flashboot, cntVars, ghostVars
<1>9. CASE getfpgainfo
  <2>1. args' \in BOOLEAN
    BY <1>9, Zenon DEF getfpgainfo, TypeOK
  <2> QED
    BY <1>9, <2>1 DEF TypeOK, getfpgainfo, cntVars, ghostVars
<1>10. CASE do_bootm
  BY <1>10 DEF TypeOK, do_bootm, AfterBootm, cntVars, ghostVars, faultVars
<1>11. CASE Abortboot \/ OperatorBoot \/ KernelPanics
  BY <1>11 DEF TypeOK, Abortboot, OperatorBoot, KernelPanics, cntVars, ghostVars,
     faultVars
<1>12. CASE KernelClearsCount
  BY <1>12 DEF TypeOK, KernelClearsCount, faultVars
<1>13. CASE KernelRequestsUpdate
  BY <1>13 DEF TypeOK, KernelRequestsUpdate, cntVars, faultVars
<1>14. CASE WarmReset
  BY <1>14 DEF TypeOK, WarmReset, cntVars, ghostVars
<1>15. CASE PowerCycle
  <2>1. magic' \in BOOLEAN /\ flag' \in BOOLEAN /\ args' \in BOOLEAN
    BY <1>15, Zenon DEF PowerCycle, TypeOK
  <2>2. ram' \in Loaded
    BY <1>15 DEF PowerCycle, Loaded
  <2> QED
    BY <1>15, <2>1, <2>2 DEF TypeOK, PowerCycle
<1>16. CASE UNCHANGED vars
  BY <1>16 DEF TypeOK, vars, cntVars, ghostVars, faultVars
<1> QED
  BY <1>1, <1>2, <1>3, <1>4, <1>5, <1>6, <1>7, <1>8, <1>9, <1>10, <1>11, <1>12,
     <1>13, <1>14, <1>15, <1>16 DEF Next, BootStep

\* No step lets the counter fall behind the attempts.
LEMMA CounterStep == TypeOK /\ CounterKnows /\ [Next]_vars => CounterKnows'
<1> SUFFICES ASSUME TypeOK, CounterKnows, [Next]_vars PROVE CounterKnows'
  OBVIOUS
<1> USE BootAssumption DEF CounterKnows, bootcount_load
<1>1. CASE main_loop
  BY <1>1 DEF TypeOK, main_loop, bootcount_store, ghostVars
<1>2. CASE Autoboot
  <2>1. CASE LimitExceeded
    BY <1>2, <2>1 DEF TypeOK, Autoboot, cntVars
  <2>2. CASE ~LimitExceeded
    BY <1>2, <2>2 DEF TypeOK, Autoboot, LimitExceeded, cntVars
  <2> QED
    BY <2>1, <2>2
<1>3. CASE fpgaupdate \/ iapauth
  BY <1>3 DEF TypeOK, fpgaupdate, iapauth, cntVars, ghostVars
<1>4. CASE rstbootcnt
  BY <1>4 DEF TypeOK, rstbootcnt
<1>5. CASE iapprog
  BY <1>5 DEF TypeOK, iapprog
<1>6. CASE SelectPartition \/ flashboot \/ getfpgainfo
  BY <1>6 DEF TypeOK, SelectPartition, flashboot, getfpgainfo, Partition, cntVars,
     ghostVars
<1>7. CASE do_bootm
  BY <1>7 DEF TypeOK, do_bootm, AfterBootm, cntVars, ghostVars
<1>8. CASE Abortboot \/ OperatorBoot \/ KernelPanics
  BY <1>8 DEF TypeOK, Abortboot, OperatorBoot, KernelPanics, cntVars, ghostVars
<1>9. CASE KernelClearsCount
  BY <1>9 DEF TypeOK, KernelClearsCount
<1>10. CASE KernelRequestsUpdate
  BY <1>10 DEF TypeOK, KernelRequestsUpdate, cntVars
<1>11. CASE WarmReset
  BY <1>11 DEF TypeOK, WarmReset, cntVars, ghostVars
<1>12. CASE PowerCycle
  BY <1>12 DEF TypeOK, PowerCycle
<1>13. CASE UNCHANGED vars
  BY <1>13 DEF vars, cntVars, ghostVars
<1> QED
  BY <1>1, <1>2, <1>3, <1>4, <1>5, <1>6, <1>7, <1>8, <1>9, <1>10, <1>11, <1>12,
     <1>13 DEF Next, BootStep

\* No step programs without a request that was pending.
LEMMA RequestStep == TypeOK /\ RequestPending /\ [Next]_vars => RequestPending'
<1> SUFFICES ASSUME TypeOK, RequestPending, [Next]_vars PROVE RequestPending'
  OBVIOUS
<1> USE BootAssumption DEF RequestPending, Updating
<1>1. CASE main_loop
  BY <1>1 DEF TypeOK, main_loop, bootcount_store, ghostVars
<1>2. CASE Autoboot
  BY <1>2 DEF TypeOK, Autoboot, cntVars
<1>3. CASE fpgaupdate
  BY <1>3 DEF TypeOK, fpgaupdate, ghostVars
<1>4. CASE iapauth
  BY <1>4 DEF TypeOK, iapauth, ghostVars
<1>5. CASE rstbootcnt
  BY <1>5 DEF TypeOK, rstbootcnt
<1>6. CASE iapprog
  BY <1>6 DEF TypeOK, iapprog
<1>7. CASE SelectPartition \/ flashboot \/ getfpgainfo
  BY <1>7 DEF TypeOK, SelectPartition, flashboot, getfpgainfo, Partition, ghostVars
<1>8. CASE do_bootm
  BY <1>8 DEF TypeOK, do_bootm, AfterBootm, ghostVars
<1>9. CASE Abortboot \/ OperatorBoot \/ KernelPanics
  BY <1>9 DEF TypeOK, Abortboot, OperatorBoot, KernelPanics, ghostVars
<1>10. CASE KernelClearsCount
  BY <1>10 DEF TypeOK, KernelClearsCount
<1>11. CASE KernelRequestsUpdate
  BY <1>11 DEF TypeOK, KernelRequestsUpdate
<1>12. CASE WarmReset
  BY <1>12 DEF TypeOK, WarmReset, ghostVars
<1>13. CASE PowerCycle
  BY <1>13 DEF TypeOK, PowerCycle
<1>14. CASE UNCHANGED vars
  BY <1>14 DEF vars, ghostVars
<1> QED
  BY <1>1, <1>2, <1>3, <1>4, <1>5, <1>6, <1>7, <1>8, <1>9, <1>10, <1>11, <1>12,
     <1>13, <1>14 DEF Next, BootStep

\* The inductive invariant holds from power on.
LEMMA Invariant == Spec => []IInv
<1>1. Init => IInv
  <2> SUFFICES ASSUME Init PROVE IInv
    OBVIOUS
  <2>1. TypeOK
    <3>1. magic \in BOOLEAN /\ flag \in BOOLEAN /\ args \in BOOLEAN
      BY Zenon DEF Init
    <3>2. ram \in Loaded
      BY DEF Init, Loaded
    <3> QED
      BY <3>1, <3>2, BootAssumption DEF Init, TypeOK, Partition
  <2>2. CounterKnows
    BY BootAssumption DEF Init, CounterKnows, bootcount_load
  <2>3. RequestPending
    BY DEF Init, RequestPending, Updating
  <2> QED
    BY <2>1, <2>2, <2>3 DEF IInv
<1>2. IInv /\ [Next]_vars => IInv'
  BY TypeStep, CounterStep, RequestStep DEF IInv
<1> QED
  BY <1>1, <1>2, PTL DEF Spec

\* Type correctness of the boot flow of main_loop and the default environment.
THEOREM BootTyping == Spec => []TypeOK
<1>1. IInv => TypeOK
  BY DEF IInv
<1> QED
  BY Invariant, <1>1, PTL

\* main_loop chooses the normal command at most bootlimit times before the counter
\* is cleared, for every limit and any number of resets, power cycles and updates.
THEOREM TriesBounded == Spec => []NormalTriesBounded
<1>1. IInv => NormalTriesBounded
  BY DEF IInv, CounterKnows, NormalTriesBounded
<1> QED
  BY Invariant, <1>1, PTL

\* The fpgaupdate script runs "mss iapprog" at most once per request, wherever
\* resets and failures fall.
THEOREM UpdatedOnce == Spec => []OneUpdatePerRequest
<1>1. IInv => OneUpdatePerRequest
  BY DEF IInv, RequestPending, OneUpdatePerRequest
<1> QED
  BY Invariant, <1>1, PTL
==============================================================================
