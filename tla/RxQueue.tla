------------------------------- MODULE RxQueue -------------------------------
(***************************************************************************)
(* What the receive side of an Ethernet driver promises to NetLoop: a      *)
(* queue of at most Capacity frames.  A frame that arrives is queued or    *)
(* lost, frames are handed to NetReceive in the order they arrived, each   *)
(* one once, and eth_halt or eth_init throws away what is queued.          *)
(***************************************************************************)
EXTENDS Naturals, Sequences

CONSTANTS Capacity, Frame

VARIABLES queue, got     \* frames waiting, frame handed over last

NoFrame == 0

Init == queue = << >> /\ got = NoFrame

Arrive == /\ Len(queue) < Capacity
          /\ \E f \in Frame : queue' = Append(queue, f)
          /\ UNCHANGED got

Take == /\ queue # << >>
        /\ got' = Head(queue) /\ queue' = Tail(queue)

Flush == queue' = << >> /\ UNCHANGED got

Next == Arrive \/ Take \/ Flush

Spec == Init /\ [][Next]_<<queue, got>>
==============================================================================
