------------------------------- MODULE Xmodem -------------------------------
(***************************************************************************)
(* The XMODEM-CRC sender of crates/unbrk-core/src/xmodem.rs: `send_crc`    *)
(* and `finish_eot_handshake`, a UART that corrupts and loses, and the     *)
(* receiver at the other end (the board's BootROM, BL2 or U-Boot: not in   *)
(* the repository, modelled from what the sender accepts from it).         *)
(*                                                                         *)
(* A block is its 1-based position in the image: packet contents, padding, *)
(* CRC arithmetic and byte counts are abstracted.  The `?` of the code is  *)
(* the Fail of an action: the sender stops at its first error.             *)
(***************************************************************************)
EXTENDS Integers, Sequences

CONSTANTS
    MaxBlocks,        \* bound: no image has more blocks
    SeqSpace,         \* size of the block number's range, 256 in the code
    BlockRetryLimit,  \* XmodemConfig.block_retry_limit
    EotRetryLimit,    \* XmodemConfig.eot_retry_limit
    MaxUnsolicited    \* bound: bytes the receiver sends without being asked

ASSUME XmodemAssumption ==
    /\ MaxBlocks \in Nat
    /\ SeqSpace \in Nat /\ SeqSpace > 1
    /\ BlockRetryLimit \in Nat
    /\ EotRetryLimit \in Nat
    /\ MaxUnsolicited \in Nat

VARIABLES
    total,        \* blocks of the payload
    phase,        \* where send_crc is
    block,        \* the block being sent (block_index + 1)
    attempts,     \* writes of the current block, or of EOT
    blocksSent,   \* blocks_sent: what on_progress has reported
    error,        \* the XmodemError returned
    toBoard,      \* frames on the wire
    toHost,       \* bytes on the wire
    rcvd,         \* blocks the receiver has stored
    receiver,     \* what the receiver is doing
    unsolicited   \* bytes it has sent without being asked

senderVars == <<total, phase, block, attempts, blocksSent, error>>
receiverVars == <<rcvd, receiver, unsolicited>>
vars == <<total, phase, block, attempts, blocksSent, error,
          toBoard, toHost, rcvd, receiver, unsolicited>>

ACK == "ACK"
NAK == "NAK"
CAN == "CAN"
NOISE == "NOISE"     \* any other byte: a late C, console text, line noise
Answers == {ACK, NAK, CAN, NOISE}

Phases == {"start", "block_write", "block_wait", "eot_write", "eot_wait", "done", "failed"}

\* XmodemError; a Timeout is told apart by its operation, as the code does.
Errors == {"None", "Io", "EmptyPayload", "BlockTimeout", "EotTimeout", "RetryLimitExceeded",
           "EotRetryLimitExceeded", "ReceiverCancelled", "UnexpectedResponse"}

\* `normalized`: a limit of zero means one attempt.
Normalized(limit) == IF limit = 0 THEN 1 ELSE limit
BlockLimit == Normalized(BlockRetryLimit)
EotLimit == Normalized(EotRetryLimit)

BlockSequenceOneBit(k) == k % 2                              \* mutant: the number wraps too soon
BlockSequence(k) == k % SeqSpace
PacketOfNextChunk(k) ==                                      \* mutant: a retry sends the next chunk
    [seq |-> BlockSequence(k), block |-> IF attempts > 0 THEN (k % MaxBlocks) + 1 ELSE k]
Packet(k) == [seq |-> BlockSequence(k), block |-> k]
EOT == [seq |-> 0, block |-> 0]
Frames == {Packet(k) : k \in 1..MaxBlocks} \cup {EOT}

PermitsAnyTimeout(e) ==                                      \* mutant: the operation is not looked at
    e \in {"EotRetryLimitExceeded", "EotTimeout", "BlockTimeout"}
PermitsPromptCompletionRecovery(e) == e \in {"EotRetryLimitExceeded", "EotTimeout"}

Init ==
    /\ total \in 0..MaxBlocks
    /\ phase = "start"
    /\ block = 1
    /\ attempts = 0
    /\ blocksSent = 0
    /\ error = "None"
    /\ toBoard = <<>>
    /\ toHost = <<>>
    /\ rcvd = <<>>
    /\ receiver = "receiving"
    /\ unsolicited = 0

-----------------------------------------------------------------------------
(* The sender *)

Fail(e) ==
    /\ phase' = "failed"
    /\ error' = e
    /\ UNCHANGED <<total, block, attempts, blocksSent>>

RejectEmptyPayload ==
    /\ phase = "start"
    /\ total = 0
    /\ Fail("EmptyPayload")
    /\ UNCHANGED <<toBoard, toHost, receiverVars>>

\* set_timeout succeeds, or fails with an I/O error, and the first block is next.
Start ==
    /\ phase = "start"
    /\ total > 0
    /\ \/ phase' = "block_write" /\ UNCHANGED <<total, block, attempts, blocksSent, error>>
       \/ Fail("Io")
    /\ UNCHANGED <<toBoard, toHost, receiverVars>>

WriteFrameUncounted(frame, waiting) ==                       \* mutant: attempts is not counted
    /\ toBoard' = Append(toBoard, frame)
    /\ phase' = waiting
    /\ UNCHANGED <<total, block, attempts, blocksSent, error, toHost, receiverVars>>

\* write_frame: the write and the flush.
WriteFrame(frame, waiting) ==
    /\ toBoard' = Append(toBoard, frame)
    /\ attempts' = attempts + 1
    /\ phase' = waiting
    /\ UNCHANGED <<total, block, blocksSent, error, toHost, receiverVars>>

WriteBlock == phase = "block_write" /\ WriteFrame(Packet(block), "block_wait")
WriteEot == phase = "eot_write" /\ WriteFrame(EOT, "eot_wait")

\* A write that fails may have put the frame on the wire (the flush failed) or not.
WriteFails ==
    /\ phase \in {"block_write", "eot_write"}
    /\ Fail("Io")
    /\ \/ UNCHANGED toBoard
       \/ phase = "block_write" /\ toBoard' = Append(toBoard, Packet(block))
       \/ phase = "eot_write" /\ toBoard' = Append(toBoard, EOT)
    /\ UNCHANGED <<toHost, receiverVars>>

\* read_receiver_response returned a byte.
Answered(answer) ==
    /\ phase \in {"block_wait", "eot_wait"}
    /\ toHost # <<>>
    /\ Head(toHost) = answer
    /\ toHost' = Tail(toHost)
    /\ UNCHANGED <<toBoard, receiverVars>>

BlockAckedPastTheEnd ==                                      \* mutant: one block too many
    /\ phase = "block_wait"
    /\ Answered(ACK)
    /\ blocksSent' = blocksSent + 1
    /\ attempts' = 0
    /\ IF block <= total
       THEN block' = block + 1 /\ phase' = "block_write"
       ELSE phase' = "eot_write" /\ UNCHANGED block
    /\ UNCHANGED <<total, error>>

BlockAcked ==
    /\ phase = "block_wait"
    /\ Answered(ACK)
    /\ blocksSent' = blocksSent + 1
    /\ attempts' = 0
    /\ IF block < total
       THEN block' = block + 1 /\ phase' = "block_write"
       ELSE phase' = "eot_write" /\ UNCHANGED block
    /\ UNCHANGED <<total, error>>

BlockNakedSkips ==                                           \* mutant: a rejected block is not sent again
    /\ phase = "block_wait"
    /\ Answered(NAK)
    /\ blocksSent' = blocksSent + 1
    /\ attempts' = 0
    /\ IF block < total
       THEN block' = block + 1 /\ phase' = "block_write"
       ELSE phase' = "eot_write" /\ UNCHANGED block
    /\ UNCHANGED <<total, error>>

BlockNaked ==
    /\ phase = "block_wait"
    /\ Answered(NAK)
    /\ IF attempts < BlockLimit
       THEN phase' = "block_write" /\ UNCHANGED <<total, block, attempts, blocksSent, error>>
       ELSE Fail("RetryLimitExceeded")

EotAcked ==
    /\ phase = "eot_wait"
    /\ Answered(ACK)
    /\ phase' = "done"
    /\ UNCHANGED <<total, block, attempts, blocksSent, error>>

EotNaked ==
    /\ phase = "eot_wait"
    /\ Answered(NAK)
    /\ IF attempts < EotLimit
       THEN phase' = "eot_write" /\ UNCHANGED <<total, block, attempts, blocksSent, error>>
       ELSE Fail("EotRetryLimitExceeded")

Cancelled == Answered(CAN) /\ Fail("ReceiverCancelled")
Unexpected == Answered(NOISE) /\ Fail("UnexpectedResponse")

ReadTimesOutRetries ==                                       \* mutant: a timeout sends the block again
    /\ \/ /\ phase = "block_wait" /\ attempts < BlockLimit
          /\ phase' = "block_write"
          /\ UNCHANGED <<total, block, attempts, blocksSent, error>>
       \/ phase = "eot_wait" /\ Fail("EotTimeout")
    /\ UNCHANGED <<toBoard, toHost, receiverVars>>

\* The read gives up; the answer, or the frame, may still be on its way.
ReadTimesOut ==
    /\ \/ phase = "block_wait" /\ Fail("BlockTimeout")
       \/ phase = "eot_wait" /\ Fail("EotTimeout")
    /\ UNCHANGED <<toBoard, toHost, receiverVars>>

ReadFails ==
    /\ phase \in {"block_wait", "eot_wait"}
    /\ Fail("Io")
    /\ UNCHANGED <<toBoard, toHost, receiverVars>>

Sender == \/ RejectEmptyPayload \/ Start \/ WriteBlock \/ WriteEot \/ WriteFails
          \/ BlockAcked \/ BlockNaked \/ EotAcked \/ EotNaked
          \/ Cancelled \/ Unexpected \/ ReadTimesOut \/ ReadFails

-----------------------------------------------------------------------------
(* The receiver and the wire *)

\* The receiver takes the next frame and answers it with one byte.
Answer(byte) ==
    /\ toBoard' = Tail(toBoard)
    /\ toHost' = Append(toHost, byte)
    /\ UNCHANGED <<senderVars, unsolicited>>

\* The expected block is stored and acknowledged, the one before it only acknowledged
\* (its acknowledgement did not get through), any other ends the transfer.
ReceiveBlock ==
    /\ toBoard # <<>> /\ Head(toBoard) # EOT
    /\ receiver = "receiving"
    /\ LET frame == Head(toBoard)
       IN  \/ /\ frame.seq = BlockSequence(Len(rcvd) + 1)
              /\ rcvd' = Append(rcvd, frame.block)
              /\ UNCHANGED receiver
              /\ Answer(ACK)
           \/ /\ frame.seq = BlockSequence(Len(rcvd))
              /\ UNCHANGED <<rcvd, receiver>>
              /\ Answer(ACK)
           \/ /\ frame.seq \notin {BlockSequence(Len(rcvd)), BlockSequence(Len(rcvd) + 1)}
              /\ receiver' = "aborted"
              /\ UNCHANGED rcvd
              /\ Answer(CAN)

\* EOT is acknowledged, or rejected once more.
ReceiveEot ==
    /\ toBoard # <<>> /\ Head(toBoard) = EOT
    /\ receiver = "receiving"
    /\ UNCHANGED rcvd
    /\ \/ receiver' = "complete" /\ Answer(ACK)
       \/ UNCHANGED receiver /\ Answer(NAK)

\* The frame arrives damaged and is rejected, or the receiver gives up on it.
RejectFrame ==
    /\ toBoard # <<>>
    /\ receiver = "receiving"
    /\ UNCHANGED rcvd
    /\ \/ UNCHANGED receiver /\ Answer(NAK)
       \/ receiver' = "aborted" /\ Answer(CAN)

\* The frame is lost, or nobody listens any more.
LoseFrame ==
    /\ toBoard # <<>>
    /\ toBoard' = Tail(toBoard)
    /\ UNCHANGED <<senderVars, toHost, receiverVars>>

\* Having the image, the board runs it and writes to the console.
BoardProceeds ==
    /\ receiver = "complete"
    /\ receiver' = "booted"
    /\ toHost' = Append(toHost, NOISE)
    /\ UNCHANGED <<senderVars, toBoard, rcvd, unsolicited>>

\* The receiver's own timer fires: C before the first block, NAK after it.
ReceiverTimer ==
    /\ receiver = "receiving"
    /\ unsolicited < MaxUnsolicited
    /\ unsolicited' = unsolicited + 1
    /\ toHost' = Append(toHost, IF rcvd = <<>> THEN NOISE ELSE NAK)
    /\ UNCHANGED <<senderVars, toBoard, rcvd, receiver>>

\* An answer is lost, or damaged; damage never makes an ACK of another byte.
LoseAnswer ==
    /\ toHost # <<>>
    /\ toHost' = Tail(toHost)
    /\ UNCHANGED <<senderVars, toBoard, receiverVars>>

DamageAnswer ==
    /\ toHost # <<>> /\ Head(toHost) # NOISE
    /\ \E byte \in {NAK, NOISE} : toHost' = [toHost EXCEPT ![1] = byte]
    /\ UNCHANGED <<senderVars, toBoard, receiverVars>>

Environment == \/ ReceiveBlock \/ ReceiveEot \/ RejectFrame \/ LoseFrame
               \/ BoardProceeds \/ ReceiverTimer \/ LoseAnswer \/ DamageAnswer

Next == Sender \/ Environment

Spec == Init /\ [][Next]_vars

\* A read returns within packet_timeout, so the sender never stays where it is.
\* Nothing is assumed of the receiver or of the wire.
FairSpec == Spec /\ WF_vars(Sender)

-----------------------------------------------------------------------------
(* Properties *)

\* The type invariant of send_crc, the wire and the receiver.
TypeOK ==
    /\ total \in 0..MaxBlocks
    /\ phase \in Phases
    /\ block \in Nat /\ attempts \in Nat /\ blocksSent \in Nat
    /\ error \in Errors
    /\ toBoard \in Seq(Frames)
    /\ toHost \in Seq(Answers)
    /\ rcvd \in Seq(1..MaxBlocks)
    /\ receiver \in {"receiving", "complete", "booted", "aborted"}
    /\ unsolicited \in 0..MaxUnsolicited

WholeImage == [k \in 1..total |-> k]

\* `Ok(XmodemTransferReport)` means that the receiver holds every block, in order.
SuccessMeansDelivered == phase = "done" => total > 0 /\ rcvd = WholeImage

\* An error that lets recovery and flash look for the next prompt instead of failing
\* (`permits_prompt_completion_recovery`) means that only the end of the transfer is in doubt.
RecoverableMeansDelivered == PermitsPromptCompletionRecovery(error) => rcvd = WholeImage

\* Progress is never reported for a block that the receiver has not stored
\* (xmodem.rs, XmodemProgress: "after each acknowledged XMODEM data block").
ProgressIsStored == blocksSent <= Len(rcvd)

\* The receiver's copy is a prefix of the image: retransmissions neither repeat, skip nor swap.
StoredInOrder == Len(rcvd) <= total /\ \A k \in 1..Len(rcvd) : rcvd[k] = k

\* The inductive invariant behind them, for a receiver that speaks only when spoken to.
\* Until the last block is acknowledged at most one frame or answer is on its way, it is
\* about the block being sent, and an ACK among them says that this block is stored.
OneInFlight ==
    blocksSent < total =>
        /\ receiver \in {"receiving", "aborted"}
        /\ Len(toBoard) + Len(toHost) <= (IF phase \in {"block_wait", "failed"} THEN 1 ELSE 0)

FramesAreCurrent ==
    \A i \in 1..Len(toBoard) :
        IF blocksSent < total THEN toBoard[i] = Packet(blocksSent + 1) ELSE toBoard[i] = EOT

AcksAreCurrent ==
    blocksSent < total =>
        \A i \in 1..Len(toHost) : toHost[i] = ACK => Len(rcvd) = blocksSent + 1

PhaseMatchesProgress ==
    /\ blocksSent <= total
    /\ phase = "start" => blocksSent = 0
    /\ phase \in {"block_write", "block_wait"} => blocksSent < total /\ block = blocksSent + 1
    /\ phase \in {"eot_write", "eot_wait", "done"} => blocksSent = total /\ total > 0
    /\ phase # "failed" => error = "None"
    /\ PermitsPromptCompletionRecovery(error) => blocksSent = total

\* send_crc is stop-and-wait: it and the receiver are never more than one block apart.
StopAndWait ==
    /\ OneInFlight
    /\ FramesAreCurrent
    /\ AcksAreCurrent
    /\ PhaseMatchesProgress
    /\ StoredInOrder
    /\ blocksSent <= Len(rcvd)
    /\ Len(rcvd) <= blocksSent + 1

\* Each byte the receiver sends unasked lets the sender run ahead of it by at most one block.
LeadIsBounded == blocksSent <= Len(rcvd) + unsolicited

\* Every transfer ends, whatever the receiver and the wire do.
Termination == <>(phase \in {"done", "failed"})

Outcome ==
    CASE phase = "done" -> "ok"
      [] phase = "failed" -> "failed"
      [] phase \notin {"done", "failed"} -> "running"

Abstract == INSTANCE BlockTransfer WITH received <- rcvd, reported <- blocksSent, outcome <- Outcome
\* With a receiver that speaks only when spoken to, send_crc keeps the promise of BlockTransfer.
ImplementsBlockTransfer == Abstract!Spec
=============================================================================
