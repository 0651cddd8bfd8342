---------------------------- MODULE BlockTransfer ----------------------------
(***************************************************************************)
(* What a file transfer promises, without saying how: the receiver's copy  *)
(* grows block by block and in order, the sender reports a block only once *)
(* the receiver has it, never runs more than one block behind, and calls   *)
(* the transfer a success only when the whole image is there.              *)
(***************************************************************************)
EXTENDS Naturals, Sequences

CONSTANT MaxBlocks      \* no image is longer than this many blocks

VARIABLES total,        \* the blocks of this image
          received,     \* the receiver's copy: the sequence of blocks it stored
          reported,     \* the blocks the sender has reported as transferred
          outcome       \* "running", "ok" or "failed"

vars == <<total, received, reported, outcome>>

Init ==
    /\ total \in 0..MaxBlocks
    /\ received = <<>>
    /\ reported = 0
    /\ outcome = "running"

\* The receiver stores the next block, also when the sender has given up already.
Deliver ==
    /\ outcome # "ok"
    /\ Len(received) = reported
    /\ reported < total
    /\ received' = Append(received, Len(received) + 1)
    /\ UNCHANGED <<total, reported, outcome>>

Report ==
    /\ outcome = "running"
    /\ reported < Len(received)
    /\ reported' = reported + 1
    /\ UNCHANGED <<total, received, outcome>>

Succeed ==
    /\ outcome = "running"
    /\ total > 0
    /\ reported = total
    /\ outcome' = "ok"
    /\ UNCHANGED <<total, received, reported>>

Fail ==
    /\ outcome = "running"
    /\ outcome' = "failed"
    /\ UNCHANGED <<total, received, reported>>

Next == Deliver \/ Report \/ Succeed \/ Fail

Spec == Init /\ [][Next]_vars
=============================================================================
