---------------------------- MODULE XmodemProofs ----------------------------
(***************************************************************************)
(* Proofs about the sender of Xmodem.tla for every image size, block       *)
(* number range and retry limit.  The argument is stop-and-wait: as long   *)
(* as the receiver speaks only when spoken to, at most one frame or answer *)
(* is under way, so an ACK can only be about the block being sent.         *)
(***************************************************************************)
EXTENDS Xmodem, TLAPS

\* Neighbouring block numbers differ, so a retransmission is never taken for the next block.
LEMMA NeighboursDiffer ==
    ASSUME NEW k \in Nat
    PROVE  BlockSequence(k) # BlockSequence(k + 1)
<1> USE XmodemAssumption DEF XmodemAssumption
<1> DEFINE a == k \div SeqSpace
           b == (k + 1) \div SeqSpace
<1>1. a \in Int /\ b \in Int /\ k = SeqSpace * a + (k % SeqSpace)
  OBVIOUS
<1>2. k + 1 = SeqSpace * b + ((k + 1) % SeqSpace)
  OBVIOUS
<1>3. SUFFICES ASSUME k % SeqSpace = (k + 1) % SeqSpace PROVE FALSE
  BY DEF BlockSequence
<1>4. SeqSpace * (b - a) = 1
  BY <1>1, <1>2, <1>3
<1>5. QED
  <2> DEFINE c == b - a
  <2>1. c \in Int /\ SeqSpace * c = 1
    BY <1>1, <1>4
  <2> HIDE DEF c
  <2>2. c < 1 \/ c >= 1
    BY <2>1
  <2>3. QED
    BY <2>1, <2>2

\* What Append, Head and Tail do to a queue.
LEMMA AppendFacts ==
    ASSUME NEW S, NEW s \in Seq(S), NEW e \in S
    PROVE  /\ Append(s, e) \in Seq(S)
           /\ Len(Append(s, e)) = Len(s) + 1
           /\ \A i \in 1..Len(s) : Append(s, e)[i] = s[i]
           /\ Append(s, e)[Len(s) + 1] = e
  OBVIOUS

LEMMA TailFacts ==
    ASSUME NEW S, NEW s \in Seq(S), s # <<>>
    PROVE  /\ Head(s) = s[1] /\ Head(s) \in S
           /\ Tail(s) \in Seq(S)
           /\ Len(s) \in Nat /\ Len(s) > 0 /\ Len(Tail(s)) = Len(s) - 1
           /\ \A i \in 1..Len(s) - 1 : Tail(s)[i] = s[i + 1]
  OBVIOUS

LEMMA EmptyFacts ==
    ASSUME NEW S, NEW s \in Seq(S), Len(s) = 0
    PROVE  s = <<>>
  OBVIOUS

\* What is on the wire to the board is EOT or a packet that carries one block of the image.
LEMMA FrameTypes ==
    /\ EOT \in Frames
    /\ \A k \in 1..MaxBlocks : Packet(k) \in Frames /\ Packet(k) # EOT
    /\ \A frame \in Frames : frame # EOT => frame.block \in 1..MaxBlocks
  BY XmodemAssumption DEF XmodemAssumption, Packet, EOT, Frames

LEMMA AnswerTypes == ACK \in Answers /\ NAK \in Answers /\ CAN \in Answers /\ NOISE \in Answers
  BY DEF Answers

\* Answering a frame keeps both directions of the wire well-typed.
LEMMA AnswerKeepsTypes ==
    ASSUME TypeOK, toBoard # <<>>, NEW byte \in Answers, Answer(byte)
    PROVE  toBoard' \in Seq(Frames) /\ toHost' \in Seq(Answers)
<1>1. toBoard' \in Seq(Frames)
  BY TailFacts DEF Answer, TypeOK
<1>2. toHost' \in Seq(Answers)
  BY AppendFacts DEF Answer, TypeOK
<1>3. QED
  BY <1>1, <1>2

\* Every variable keeps its type; the sender's block stays within the image.
TypeInv ==
    /\ TypeOK
    /\ phase = "start" => block = 1
    /\ block \in 1..total + 1
    /\ phase \in {"block_write", "block_wait"} => block <= total

LEMMA TypeInit == Init => TypeInv
  BY XmodemAssumption DEF XmodemAssumption, Init, TypeInv, TypeOK, Phases, Errors

LEMMA TypeStep == TypeInv /\ [Next]_vars => TypeInv'
<1> USE XmodemAssumption DEF XmodemAssumption, TypeInv, TypeOK, Phases, Errors
<1> SUFFICES ASSUME TypeInv, [Next]_vars PROVE TypeInv'
  OBVIOUS
<1>1. CASE RejectEmptyPayload
  BY <1>1 DEF RejectEmptyPayload, Fail, receiverVars
<1>2. CASE Start
  BY <1>2 DEF Start, Fail, receiverVars
<1>3. CASE WriteBlock
  BY <1>3, FrameTypes DEF WriteBlock, WriteFrame, receiverVars
<1>4. CASE WriteEot
  BY <1>4, FrameTypes DEF WriteEot, WriteFrame, receiverVars
<1>5. CASE WriteFails
  <2>1. toBoard' \in Seq(Frames)
    <3>1. phase = "block_write" => Packet(block) \in Frames
      BY FrameTypes
    <3>2. \A frame \in Frames : Append(toBoard, frame) \in Seq(Frames)
      BY AppendFacts
    <3>3. QED
      BY <1>5, <3>1, <3>2, FrameTypes DEF WriteFails
  <2>2. QED
    BY <1>5, <2>1 DEF WriteFails, Fail, receiverVars
<1>6. CASE BlockAcked
  BY <1>6 DEF BlockAcked, Answered, receiverVars
<1>7. CASE BlockNaked
  BY <1>7 DEF BlockNaked, Answered, Fail, receiverVars
<1>8. CASE EotAcked
  BY <1>8 DEF EotAcked, Answered, receiverVars
<1>9. CASE EotNaked
  BY <1>9 DEF EotNaked, Answered, Fail, receiverVars
<1>10. CASE Cancelled \/ Unexpected
  BY <1>10, TailFacts DEF Cancelled, Unexpected, Answered, Fail, receiverVars
<1>11. CASE ReadTimesOut \/ ReadFails
  BY <1>11 DEF ReadTimesOut, ReadFails, Fail, receiverVars
<1>12. CASE ReceiveBlock
  <2>1. toBoard' \in Seq(Frames) /\ toHost' \in Seq(Answers)
    BY <1>12, AnswerTypes, AnswerKeepsTypes DEF ReceiveBlock
  <2>2. rcvd' \in Seq(1..MaxBlocks)
    <3>1. Head(toBoard).block \in 1..MaxBlocks
      BY <1>12, FrameTypes, TailFacts DEF ReceiveBlock
    <3>2. QED
      BY <1>12, <3>1, AppendFacts DEF ReceiveBlock
  <2>3. QED
    BY <1>12, <2>1, <2>2 DEF ReceiveBlock, Answer, senderVars
<1>13. CASE ReceiveEot
  <2>1. toBoard' \in Seq(Frames) /\ toHost' \in Seq(Answers)
    BY <1>13, AnswerTypes, AnswerKeepsTypes DEF ReceiveEot
  <2>2. QED
    BY <1>13, <2>1 DEF ReceiveEot, Answer, senderVars
<1>14. CASE RejectFrame
  <2>1. toBoard' \in Seq(Frames) /\ toHost' \in Seq(Answers)
    BY <1>14, AnswerTypes, AnswerKeepsTypes DEF RejectFrame
  <2>2. QED
    BY <1>14, <2>1 DEF RejectFrame, Answer, senderVars
<1>15. CASE LoseFrame
  BY <1>15 DEF LoseFrame, senderVars, receiverVars
<1>16. CASE BoardProceeds
  BY <1>16, AnswerTypes, AppendFacts DEF BoardProceeds, senderVars
<1>17. CASE ReceiverTimer
  BY <1>17, AnswerTypes, AppendFacts DEF ReceiverTimer, senderVars
<1>18. CASE LoseAnswer \/ DamageAnswer
  <2>1. toHost' \in Seq(Answers)
    <3>1. ASSUME NEW byte \in Answers PROVE [toHost EXCEPT ![1] = byte] \in Seq(Answers)
      <4>1. toHost \in [1..Len(toHost) -> Answers] /\ Len(toHost) \in Nat
        OBVIOUS
      <4>2. [toHost EXCEPT ![1] = byte] \in [1..Len(toHost) -> Answers]
        BY <4>1
      <4>3. QED
        BY <4>1, <4>2
    <3>2. CASE LoseAnswer
      BY <3>2, TailFacts DEF LoseAnswer
    <3>3. CASE DamageAnswer
      BY <3>1, <3>3, AnswerTypes DEF DamageAnswer
    <3>4. QED
      BY <1>18, <3>2, <3>3
  <2>2. QED
    BY <1>18, <2>1 DEF LoseAnswer, DamageAnswer, senderVars, receiverVars
<1>19. CASE UNCHANGED vars
  BY <1>19 DEF vars
<1>20. QED
  BY <1>1, <1>2, <1>3, <1>4, <1>5, <1>6, <1>7, <1>8, <1>9, <1>10, <1>11, <1>12, <1>13,
     <1>14, <1>15, <1>16, <1>17, <1>18, <1>19 DEF Next, Sender, Environment

-----------------------------------------------------------------------------
(* Stop-and-wait *)

\* The receiver speaks only when spoken to.
Silent == MaxUnsolicited = 0

IInv == TypeInv /\ StopAndWait

LEMMA StopAndWaitInit == Init => StopAndWait
  BY DEF Init, StopAndWait, OneInFlight, FramesAreCurrent, AcksAreCurrent, PhaseMatchesProgress,
         StoredInOrder, PermitsPromptCompletionRecovery

LEMMA OneOfTwo ==
    ASSUME NEW m \in Nat, NEW n \in Nat, m > 0, m + n <= 1
    PROVE  m = 1 /\ n = 0
  OBVIOUS

\* Until the last block is acknowledged, the frame on the wire is the only thing on it.
LEMMA LoneFrame ==
    ASSUME IInv, blocksSent < total, toBoard # <<>>
    PROVE  /\ Len(toBoard) = 1 /\ Head(toBoard) = Packet(blocksSent + 1) /\ Tail(toBoard) = <<>>
           /\ toHost = <<>> /\ phase \in {"block_wait", "failed"}
<1> USE DEF IInv, TypeInv, TypeOK, StopAndWait
<1>1. Len(toBoard) > 0 /\ Len(toBoard) \in Nat /\ Len(toHost) \in Nat
  BY TailFacts
<1>a. Len(toBoard) + Len(toHost) <= 1 /\ phase \in {"block_wait", "failed"}
  <2>1. Len(toBoard) + Len(toHost) <= (IF phase \in {"block_wait", "failed"} THEN 1 ELSE 0)
    BY DEF OneInFlight
  <2>2. QED
    BY <1>1, <2>1
<1>2. Len(toBoard) = 1 /\ Len(toHost) = 0 /\ phase \in {"block_wait", "failed"}
  BY <1>1, <1>a, OneOfTwo
<1>3. Head(toBoard) = Packet(blocksSent + 1)
  BY <1>2, TailFacts DEF FramesAreCurrent
<1>4. Tail(toBoard) = <<>> /\ toHost = <<>>
  <2>1. Tail(toBoard) \in Seq(Frames) /\ Len(Tail(toBoard)) = 0
    BY <1>2, TailFacts
  <2>2. QED
    BY <1>2, <2>1, EmptyFacts
<1>5. QED
  BY <1>2, <1>3, <1>4

LEMMA LoneAnswer ==
    ASSUME IInv, blocksSent < total, toHost # <<>>
    PROVE  /\ Len(toHost) = 1 /\ Tail(toHost) = <<>>
           /\ toBoard = <<>> /\ phase \in {"block_wait", "failed"}
           /\ Head(toHost) = ACK => Len(rcvd) = blocksSent + 1
<1> USE DEF IInv, TypeInv, TypeOK, StopAndWait
<1>1. Len(toHost) > 0 /\ Len(toBoard) \in Nat /\ Len(toHost) \in Nat
  BY TailFacts
<1>a. Len(toHost) + Len(toBoard) <= 1 /\ phase \in {"block_wait", "failed"}
  <2>1. Len(toBoard) + Len(toHost) <= (IF phase \in {"block_wait", "failed"} THEN 1 ELSE 0)
    BY DEF OneInFlight
  <2>2. QED
    BY <1>1, <2>1
<1>2. Len(toBoard) = 0 /\ Len(toHost) = 1 /\ phase \in {"block_wait", "failed"}
  BY <1>1, <1>a, OneOfTwo
<1>3. Tail(toHost) = <<>> /\ toBoard = <<>>
  <2>1. Tail(toHost) \in Seq(Answers) /\ Len(Tail(toHost)) = 0
    BY <1>2, TailFacts
  <2>2. QED
    BY <1>2, <2>1, EmptyFacts
<1>4. Head(toHost) = ACK => Len(rcvd) = blocksSent + 1
  BY <1>2, TailFacts DEF AcksAreCurrent
<1>5. QED
  BY <1>2, <1>3, <1>4

\* After the last acknowledgement only EOT is on the wire to the board.
LEMMA EotsRemain ==
    ASSUME IInv, blocksSent = total, toBoard # <<>>
    PROVE  \A i \in 1..Len(Tail(toBoard)) : Tail(toBoard)[i] = EOT
<1> USE DEF IInv, TypeInv, TypeOK, StopAndWait
<1>1. \A i \in 1..Len(toBoard) : toBoard[i] = EOT
  BY DEF FramesAreCurrent
<1>2. /\ Len(toBoard) \in Nat /\ Len(Tail(toBoard)) = Len(toBoard) - 1
      /\ \A i \in 1..Len(toBoard) - 1 : Tail(toBoard)[i] = toBoard[i + 1]
  BY TailFacts
<1>3. QED
  BY <1>1, <1>2

LEMMA StopAndWaitStep ==
    ASSUME Silent
    PROVE  IInv /\ [Next]_vars => StopAndWait'
<1> USE XmodemAssumption DEF XmodemAssumption, StopAndWait, PermitsPromptCompletionRecovery
<1> SUFFICES ASSUME IInv, [Next]_vars PROVE StopAndWait'
  OBVIOUS
<1> TypeInv /\ TypeOK /\ StopAndWait
  BY DEF IInv, TypeInv
<1>a. /\ total \in Nat /\ blocksSent \in Nat /\ Len(rcvd) \in Nat
      /\ Len(toBoard) \in Nat /\ Len(toHost) \in Nat
  BY DEF TypeOK
<1> USE <1>a
<1> USE DEF OneInFlight, FramesAreCurrent, AcksAreCurrent, PhaseMatchesProgress, StoredInOrder
<1>1. CASE RejectEmptyPayload \/ Start
  BY <1>1 DEF RejectEmptyPayload, Start, Fail, receiverVars, TypeInv
<1>2. CASE WriteBlock
  <2>1. Len(toBoard) = 0 /\ Len(toHost) = 0 /\ block = blocksSent + 1 /\ block \in 1..MaxBlocks
    BY <1>2 DEF WriteBlock, TypeOK
  <2>2. Len(toBoard') = 1 /\ toBoard'[1] = Packet(blocksSent + 1)
    BY <1>2, <2>1, AppendFacts, FrameTypes DEF WriteBlock, WriteFrame, TypeOK
  <2>3. QED
    BY <1>2, <2>1, <2>2 DEF WriteBlock, WriteFrame, receiverVars
<1>3. CASE WriteEot
  <2>1. Len(toBoard') = Len(toBoard) + 1 /\ toBoard'[Len(toBoard) + 1] = EOT
        /\ \A i \in 1..Len(toBoard) : toBoard'[i] = toBoard[i]
    BY <1>3, AppendFacts, FrameTypes DEF WriteEot, WriteFrame, TypeOK
  <2>2. QED
    BY <1>3, <2>1 DEF WriteEot, WriteFrame, receiverVars
<1>4. CASE WriteFails
  <2>1. CASE phase = "block_write"
    <3>1. Len(toBoard) = 0 /\ Len(toHost) = 0 /\ block = blocksSent + 1 /\ block \in 1..MaxBlocks
      BY <2>1 DEF TypeOK
    <3>2. \/ toBoard' = toBoard
          \/ Len(toBoard') = 1 /\ toBoard'[1] = Packet(blocksSent + 1)
      <4>1. toBoard' \in {toBoard, Append(toBoard, Packet(block))}
        BY <1>4, <2>1 DEF WriteFails
      <4>2. toBoard \in Seq(Frames) /\ Packet(block) \in Frames
        BY <3>1, FrameTypes DEF TypeOK
      <4>3. QED
        BY <3>1, <4>1, <4>2, AppendFacts
    <3>3. CASE toBoard' = toBoard
      BY <1>4, <2>1, <3>1, <3>3 DEF WriteFails, Fail, receiverVars
    <3>4. CASE Len(toBoard') = 1 /\ toBoard'[1] = Packet(blocksSent + 1)
      BY <1>4, <2>1, <3>1, <3>4 DEF WriteFails, Fail, receiverVars
    <3>5. QED
      BY <3>2, <3>3, <3>4
  <2>2. CASE phase = "eot_write"
    <3>1. \/ toBoard' = toBoard
          \/ /\ Len(toBoard') = Len(toBoard) + 1 /\ toBoard'[Len(toBoard) + 1] = EOT
             /\ \A i \in 1..Len(toBoard) : toBoard'[i] = toBoard[i]
      <4>1. toBoard' \in {toBoard, Append(toBoard, EOT)}
        BY <1>4, <2>2 DEF WriteFails
      <4>2. toBoard \in Seq(Frames) /\ EOT \in Frames
        BY FrameTypes DEF TypeOK
      <4>3. QED
        BY <4>1, <4>2, AppendFacts
    <3>2. CASE toBoard' = toBoard
      BY <1>4, <2>2, <3>2 DEF WriteFails, Fail, receiverVars
    <3>3. CASE /\ Len(toBoard') = Len(toBoard) + 1 /\ toBoard'[Len(toBoard) + 1] = EOT
               /\ \A i \in 1..Len(toBoard) : toBoard'[i] = toBoard[i]
      BY <1>4, <2>2, <3>3 DEF WriteFails, Fail, receiverVars
    <3>4. QED
      BY <3>1, <3>2, <3>3
  <2>3. QED
    BY <1>4, <2>1, <2>2 DEF WriteFails
<1>5. CASE BlockAcked
  <2>1. Tail(toHost) = <<>> /\ toBoard = <<>> /\ Len(rcvd) = blocksSent + 1
    BY <1>5, LoneAnswer DEF BlockAcked, Answered
  <2>2. QED
    BY <1>5, <2>1 DEF BlockAcked, Answered, receiverVars
<1>6. CASE BlockNaked
  <2>1. Tail(toHost) = <<>> /\ toBoard = <<>>
    BY <1>6, LoneAnswer DEF BlockNaked, Answered
  <2>2. QED
    BY <1>6, <2>1 DEF BlockNaked, Answered, Fail, receiverVars
<1>7. CASE EotAcked \/ EotNaked
  BY <1>7 DEF EotAcked, EotNaked, Answered, Fail, receiverVars
<1>8. CASE Cancelled \/ Unexpected
  <2>1. blocksSent < total => Tail(toHost) = <<>> /\ toBoard = <<>>
    BY <1>8, LoneAnswer DEF Cancelled, Unexpected, Answered
  <2>2. QED
    BY <1>8, <2>1 DEF Cancelled, Unexpected, Answered, Fail, receiverVars
<1>9. CASE ReadTimesOut \/ ReadFails
  BY <1>9 DEF ReadTimesOut, ReadFails, Fail, receiverVars
<1>10. CASE ReceiveBlock
  <2>1. blocksSent < total
    BY <1>10, TailFacts DEF ReceiveBlock, TypeOK
  <2>2. /\ Head(toBoard) = Packet(blocksSent + 1) /\ Tail(toBoard) = <<>> /\ toHost = <<>>
        /\ phase \in {"block_wait", "failed"}
    BY <1>10, <2>1, LoneFrame DEF ReceiveBlock
  <2>3. /\ toBoard' = <<>> /\ Len(toHost') = 1
        /\ UNCHANGED <<total, phase, block, blocksSent, error>>
    BY <1>10, <2>2 DEF ReceiveBlock, Answer, senderVars
  <2>4. CASE Packet(blocksSent + 1).seq = BlockSequence(Len(rcvd) + 1)
    <3>0. BlockSequence(Len(rcvd)) # BlockSequence(Len(rcvd) + 1)
      BY NeighboursDiffer
    <3>1. Len(rcvd) = blocksSent
      BY <2>4, <3>0 DEF Packet
    <3>2. /\ rcvd' = Append(rcvd, blocksSent + 1) /\ UNCHANGED receiver
      BY <1>10, <2>2, <2>4, <3>0, <3>1 DEF ReceiveBlock, Packet
    <3>3. /\ Len(rcvd') = Len(rcvd) + 1 /\ rcvd'[Len(rcvd) + 1] = blocksSent + 1
          /\ \A k \in 1..Len(rcvd) : rcvd'[k] = rcvd[k]
      BY <2>1, <3>2, AppendFacts DEF TypeOK
    <3>4. QED
      BY <2>1, <2>2, <2>3, <3>1, <3>2, <3>3
  <2>5. CASE Packet(blocksSent + 1).seq # BlockSequence(Len(rcvd) + 1)
    <3>1. Len(rcvd) = blocksSent + 1
      BY <2>5 DEF Packet
    <3>2. UNCHANGED <<rcvd, receiver>>
      BY <1>10, <2>2, <2>5, <3>1 DEF ReceiveBlock, Packet
    <3>3. QED
      BY <2>1, <2>2, <2>3, <3>1, <3>2
  <2>6. QED
    BY <2>4, <2>5
<1>11. CASE ReceiveEot
  <2>1. blocksSent = total
    BY <1>11, LoneFrame, FrameTypes DEF ReceiveEot, TypeOK
  <2>2. \A i \in 1..Len(toBoard') : toBoard'[i] = EOT
    BY <1>11, <2>1, EotsRemain DEF ReceiveEot, Answer
  <2>3. QED
    BY <1>11, <2>1, <2>2 DEF ReceiveEot, Answer, senderVars
<1>12. CASE RejectFrame
  <2>1. CASE blocksSent < total
    <3>1. toBoard' = <<>> /\ Len(toHost') = 1 /\ toHost'[1] # ACK /\ phase \in {"block_wait", "failed"}
      BY <1>12, <2>1, LoneFrame DEF RejectFrame, Answer, ACK, NAK, CAN
    <3>2. QED
      BY <1>12, <2>1, <3>1 DEF RejectFrame, Answer, senderVars
  <2>2. CASE blocksSent = total
    <3>1. \A i \in 1..Len(toBoard') : toBoard'[i] = EOT
      BY <1>12, <2>2, EotsRemain DEF RejectFrame, Answer
    <3>2. QED
      BY <1>12, <2>2, <3>1 DEF RejectFrame, Answer, senderVars
  <2>3. QED
    BY <2>1, <2>2
<1>13. CASE LoseFrame
  <2>1. /\ Len(toBoard') = Len(toBoard) - 1
        /\ \A i \in 1..Len(toBoard') : toBoard'[i] = toBoard[i + 1] /\ i + 1 \in 1..Len(toBoard)
    BY <1>13, TailFacts DEF LoseFrame, TypeOK
  <2>2. QED
    BY <1>13, <2>1 DEF LoseFrame, senderVars, receiverVars
<1>14. CASE BoardProceeds
  BY <1>14 DEF BoardProceeds, senderVars
<1>15. CASE ReceiverTimer
  BY <1>15 DEF ReceiverTimer, Silent, TypeOK
<1>16. CASE LoseAnswer
  <2>1. blocksSent < total => Tail(toHost) = <<>> /\ toBoard = <<>> /\ phase \in {"block_wait", "failed"}
    BY <1>16, LoneAnswer DEF LoseAnswer
  <2>2. QED
    BY <1>16, <2>1 DEF LoseAnswer, senderVars, receiverVars
<1>17. CASE DamageAnswer
  <2>1. Len(toHost') = Len(toHost) /\ (blocksSent < total => Len(toHost) = 1 /\ toHost'[1] # ACK)
    BY <1>17, LoneAnswer DEF DamageAnswer, ACK, NAK, NOISE, TypeOK
  <2>2. QED
    BY <1>17, <2>1 DEF DamageAnswer, senderVars, receiverVars
<1>18. CASE UNCHANGED vars
  BY <1>18 DEF vars
<1>19. QED
  BY <1>1, <1>2, <1>3, <1>4, <1>5, <1>6, <1>7, <1>8, <1>9, <1>10, <1>11, <1>12, <1>13,
     <1>14, <1>15, <1>16, <1>17, <1>18 DEF Next, Sender, Environment

-----------------------------------------------------------------------------
(* A receiver that also speaks on its own *)

\* The block number's range is wider than the lead such a receiver can cause.
LeadFitsRange == MaxUnsolicited + 1 < SeqSpace

\* The place of a frame in what the sender has to say: the blocks, and EOT after the last.
Place(frame) == IF frame = EOT THEN total + 1 ELSE frame.block

\* The frames on the wire repeat or follow each other, none is older than the last block stored,
\* and the newest is the one the sender waits for, if it waits.
FramesFollow ==
    /\ \A i \in 1..Len(toBoard) :
          /\ Len(rcvd) <= Place(toBoard[i]) /\ Place(toBoard[i]) <= blocksSent + 1
          /\ toBoard[i] # EOT => Place(toBoard[i]) <= total
    /\ \A i, j \in 1..Len(toBoard) : i <= j =>
          /\ Place(toBoard[i]) <= Place(toBoard[j])
          /\ Place(toBoard[j]) <= Place(toBoard[i]) + j - i
    /\ toBoard # <<>> =>
          /\ Place(toBoard[Len(toBoard)]) >= blocksSent
          /\ phase \in {"block_wait", "eot_wait"} => Place(toBoard[Len(toBoard)]) = blocksSent + 1

\* Until the last block is acknowledged, each frame or answer under way goes back to the frame the
\* sender waits for or to a byte sent unasked.
OneEach ==
    blocksSent < total =>
        /\ receiver \in {"receiving", "aborted"}
        /\ Len(toBoard) + Len(toHost) <= unsolicited + (IF phase \in {"block_wait", "failed"} THEN 1 ELSE 0)
        /\ toBoard # <<>> =>
              Len(toBoard) + Len(toHost) + blocksSent <= unsolicited + Place(toBoard[Len(toBoard)])

\* If everything before an ACK were an ACK too, the lead would still be within the limit.
AcksAreEarned ==
    blocksSent < total =>
        \A i \in 1..Len(toHost) : toHost[i] = ACK => blocksSent + i <= Len(rcvd) + unsolicited

Chatty ==
    /\ PhaseMatchesProgress
    /\ StoredInOrder
    /\ Len(rcvd) <= blocksSent + 1
    /\ LeadIsBounded
    /\ FramesFollow
    /\ OneEach
    /\ AcksAreEarned

LEMMA ChattyInit == Init => Chatty
  BY DEF Init, Chatty, PhaseMatchesProgress, StoredInOrder, LeadIsBounded, FramesFollow, OneEach,
         AcksAreEarned, PermitsPromptCompletionRecovery

\* A frame is EOT, at its place after the last block, or carries the block of its place.
LEMMA Places ==
    ASSUME TypeOK
    PROVE  /\ Place(EOT) = total + 1
           /\ \A k \in 1..MaxBlocks : Place(Packet(k)) = k
           /\ \A frame \in Frames :
                 /\ Place(frame) \in Nat
                 /\ frame # EOT => frame = Packet(Place(frame)) /\ Place(frame) \in 1..MaxBlocks
  BY XmodemAssumption DEF XmodemAssumption, Packet, EOT, Frames, Place, TypeOK

\* Block numbers nearer to each other than the range is wide differ.
LEMMA NearNumbersDiffer ==
    ASSUME NEW j \in Nat, NEW k \in Nat, j < k, k < j + SeqSpace
    PROVE  BlockSequence(j) # BlockSequence(k)
<1> USE XmodemAssumption DEF XmodemAssumption
<1> DEFINE a == j \div SeqSpace
           b == k \div SeqSpace
<1>1. a \in Int /\ b \in Int /\ j = SeqSpace * a + (j % SeqSpace)
  OBVIOUS
<1>2. k = SeqSpace * b + (k % SeqSpace)
  OBVIOUS
<1>3. SUFFICES ASSUME j % SeqSpace = k % SeqSpace PROVE FALSE
  BY DEF BlockSequence
<1>4. SeqSpace * (b - a) = k - j
  BY <1>1, <1>2, <1>3
<1>5. QED
  <2> DEFINE c == b - a
  <2>1. c \in Int /\ SeqSpace * c = k - j /\ 0 < k - j /\ k - j < SeqSpace
    BY <1>1, <1>4
  <2> HIDE DEF c
  <2>2. c <= 0 \/ c >= 1
    BY <2>1
  <2>3. CASE c <= 0
    BY <2>1, <2>3
  <2>4. CASE c >= 1
    BY <2>1, <2>4
  <2>5. QED
    BY <2>2, <2>3, <2>4

\* The frame that is written is the next one to follow.
LEMMA FramesFollowWrite ==
    ASSUME TypeOK, FramesFollow, Len(rcvd) <= blocksSent + 1,
           NEW frame \in Frames, Place(frame) = blocksSent + 1, frame = EOT \/ blocksSent < total,
           toBoard' = Append(toBoard, frame), UNCHANGED <<total, blocksSent, rcvd>>
    PROVE  /\ FramesFollow'
           /\ Len(toBoard') = Len(toBoard) + 1
           /\ Place(toBoard'[Len(toBoard')]) = blocksSent + 1
<1> DEFINE n == Len(toBoard)
<1>1. n \in Nat /\ Len(rcvd) \in Nat /\ blocksSent \in Nat /\ total \in Nat
  BY DEF TypeOK
<1>2. /\ toBoard' \in Seq(Frames) /\ Len(toBoard') = n + 1 /\ toBoard'[n + 1] = frame
      /\ \A i \in 1..n : toBoard'[i] = toBoard[i]
  BY AppendFacts DEF TypeOK
<1>3. \A i \in 1..n : toBoard[i] \in Frames /\ Place(toBoard[i]) \in Nat
  BY Places DEF TypeOK
<1> DEFINE P(i) == Place(toBoard[i])
           Q(i) == Place(toBoard'[i])
<1>4. /\ \A i \in 1..n : Q(i) = P(i) /\ P(i) \in Nat
      /\ Q(n + 1) = blocksSent + 1
  BY <1>2, <1>3
<1>5. /\ \A i \in 1..n : Len(rcvd) <= P(i) /\ P(i) <= blocksSent + 1
      /\ \A i, j \in 1..n : i <= j => P(i) <= P(j) /\ P(j) <= P(i) + j - i
      /\ n > 0 => P(n) >= blocksSent
  BY <1>1 DEF FramesFollow, TypeOK
<1>e. ASSUME NEW i \in 1..n + 1, toBoard'[i] # EOT PROVE Q(i) <= total
  <2>1. CASE i \in 1..n
    BY <1>2, <1>4, <1>e, <2>1 DEF FramesFollow
  <2>2. CASE i = n + 1
    BY <1>1, <1>2, <1>4, <1>e, <2>2
  <2> QED
    BY <1>1, <2>1, <2>2
<1> SUFFICES /\ \A i \in 1..n + 1 : Len(rcvd) <= Q(i) /\ Q(i) <= blocksSent + 1
             /\ \A i, j \in 1..n + 1 : i <= j => Q(i) <= Q(j) /\ Q(j) <= Q(i) + j - i
  <2>1. \A i \in 1..n + 1 : Place(toBoard[i])' = Q(i)
    BY DEF Place
  <2>2. Place(toBoard[Len(toBoard)])' = blocksSent + 1
    BY <1>1, <1>2, <1>4 DEF Place
  <2> QED
    BY <1>1, <1>2, <1>4, <1>e, <2>1, <2>2 DEF FramesFollow
<1> HIDE DEF P, Q
<1>6. ASSUME NEW i \in 1..n + 1 PROVE Len(rcvd) <= Q(i) /\ Q(i) <= blocksSent + 1
  <2>1. CASE i \in 1..n
    BY <2>1, <1>4, <1>5
  <2>2. CASE i = n + 1
    BY <2>2, <1>1, <1>4
  <2> QED
    BY <1>1, <2>1, <2>2
<1>7. ASSUME NEW i \in 1..n + 1, NEW j \in 1..n + 1, i <= j
      PROVE  Q(i) <= Q(j) /\ Q(j) <= Q(i) + j - i
  <2>1. CASE j <= n
    <3>1. i \in 1..n /\ j \in 1..n
      BY <1>1, <1>7, <2>1
    <3>2. Q(i) = P(i) /\ Q(j) = P(j)
      BY <1>4, <3>1
    <3>3. P(i) <= P(j) /\ P(j) <= P(i) + j - i
      BY <1>5, <1>7, <3>1
    <3> QED
      BY <3>2, <3>3
  <2>2. CASE i = n + 1 /\ j = n + 1
    BY <1>1, <1>4, <2>2
  <2>3. CASE i <= n /\ j = n + 1
    <3>1. i \in 1..n /\ n \in 1..n /\ P(i) \in Nat /\ P(n) \in Nat
      BY <1>1, <1>4, <1>7, <2>3
    <3>2. blocksSent <= P(n) /\ P(n) <= P(i) + n - i /\ P(i) <= blocksSent + 1
      BY <1>1, <1>5, <2>3, <3>1
    <3>3. Q(i) = P(i) /\ Q(j) = blocksSent + 1
      BY <1>4, <2>3, <3>1
    <3> QED
      BY <1>1, <2>3, <3>1, <3>2, <3>3
  <2> QED
    BY <1>1, <1>7, <2>1, <2>2, <2>3
<1> QED
  BY <1>6, <1>7

\* The first frame leaves the wire; the receiver may have stored its block.
LEMMA FramesFollowTake ==
    ASSUME TypeOK, FramesFollow, toBoard # <<>>,
           toBoard' = Tail(toBoard), UNCHANGED <<total, blocksSent, phase>>,
           Len(rcvd') \in {Len(rcvd), Place(Head(toBoard))}
    PROVE  /\ FramesFollow'
           /\ Len(toBoard') = Len(toBoard) - 1
           /\ toBoard' # <<>> => Place(toBoard'[Len(toBoard')]) = Place(toBoard[Len(toBoard)])
<1> DEFINE n == Len(toBoard)
           P(i) == Place(toBoard[i])
           Q(i) == Place(toBoard'[i])
<1>1. n \in Nat /\ n > 0 /\ Len(rcvd) \in Nat /\ blocksSent \in Nat
  BY TailFacts DEF TypeOK
<1>2. /\ toBoard' \in Seq(Frames) /\ Len(toBoard') = n - 1 /\ Head(toBoard) = toBoard[1]
      /\ \A i \in 1..n - 1 : toBoard'[i] = toBoard[i + 1]
  BY TailFacts DEF TypeOK
<1>3. \A i \in 1..n : P(i) \in Nat
  BY Places DEF TypeOK
<1>4. \A i \in 1..n - 1 : Q(i) = P(i + 1)
  BY <1>2
<1>5. /\ \A i \in 1..n : Len(rcvd) <= P(i) /\ P(i) <= blocksSent + 1
      /\ \A i, j \in 1..n : i <= j => P(i) <= P(j) /\ P(j) <= P(i) + j - i
      /\ P(n) >= blocksSent
      /\ phase \in {"block_wait", "eot_wait"} => P(n) = blocksSent + 1
  BY <1>1 DEF FramesFollow, TypeOK
<1>6. Len(rcvd') \in {Len(rcvd), P(1)}
  BY <1>2
<1>e. ASSUME NEW i \in 1..n - 1, toBoard'[i] # EOT PROVE Q(i) <= total
  <2>1. i + 1 \in 1..n /\ toBoard'[i] = toBoard[i + 1]
    BY <1>1, <1>2
  <2> QED
    BY <1>4, <1>e, <2>1 DEF FramesFollow
<1> SUFFICES /\ \A i \in 1..n - 1 : Len(rcvd') <= Q(i) /\ Q(i) <= blocksSent + 1
             /\ \A i, j \in 1..n - 1 : i <= j => Q(i) <= Q(j) /\ Q(j) <= Q(i) + j - i
             /\ n > 1 => Q(n - 1) = P(n)
  <2>1. toBoard' # <<>> => n > 1
    BY <1>1, <1>2, EmptyFacts
  <2> QED
    BY <1>1, <1>2, <1>5, <1>e, <2>1 DEF FramesFollow, Place
<1> HIDE DEF P, Q
<1>7. ASSUME NEW i \in 1..n - 1 PROVE Len(rcvd') <= Q(i) /\ Q(i) <= blocksSent + 1
  <2>1. i + 1 \in 1..n /\ 1 \in 1..n /\ 1 <= i + 1
    BY <1>1
  <2>2. Len(rcvd) <= P(i + 1) /\ P(1) <= P(i + 1) /\ P(i + 1) <= blocksSent + 1
    BY <1>5, <2>1
  <2> QED
    BY <1>4, <1>6, <2>2
<1>8. ASSUME NEW i \in 1..n - 1, NEW j \in 1..n - 1, i <= j
      PROVE  Q(i) <= Q(j) /\ Q(j) <= Q(i) + j - i
  <2>1. i + 1 \in 1..n /\ j + 1 \in 1..n /\ i + 1 <= j + 1 /\ P(i + 1) \in Nat
    BY <1>1, <1>3, <1>8
  <2>2. P(i + 1) <= P(j + 1) /\ P(j + 1) <= P(i + 1) + (j + 1) - (i + 1)
    BY <1>5, <2>1
  <2>3. Q(i) = P(i + 1) /\ Q(j) = P(j + 1) /\ P(j + 1) \in Nat
    BY <1>3, <1>4, <2>1
  <2> QED
    BY <1>1, <2>1, <2>2, <2>3
<1> QED
  BY <1>1, <1>4, <1>7, <1>8

\* What is under way while the last block is not acknowledged yet, if a frame is at the receiver.
LEMMA FrameAtReceiver ==
    ASSUME TypeInv, Chatty, toBoard # <<>>
    PROVE  LET frame == Head(toBoard)
               newest == Place(toBoard[Len(toBoard)])
           IN  /\ frame \in Frames /\ newest \in Nat
               /\ Len(rcvd) <= Place(frame) /\ Place(frame) <= blocksSent + 1
               /\ frame # EOT => Place(frame) <= total
               /\ newest <= Place(frame) + Len(toBoard) - 1
<1> DEFINE n == Len(toBoard)
<1>1. n \in Nat /\ n > 0 /\ 1 \in 1..n /\ n \in 1..n /\ 1 <= n /\ Head(toBoard) = toBoard[1]
  BY TailFacts DEF TypeInv, TypeOK
<1>2. toBoard[1] \in Frames /\ toBoard[n] \in Frames
  BY <1>1 DEF TypeInv, TypeOK
<1>3. Place(toBoard[n]) \in Nat /\ Place(toBoard[1]) \in Nat
  BY <1>2, Places DEF TypeInv
<1>4. /\ Len(rcvd) <= Place(toBoard[1]) /\ Place(toBoard[1]) <= blocksSent + 1
      /\ toBoard[1] # EOT => Place(toBoard[1]) <= total
      /\ Place(toBoard[n]) <= Place(toBoard[1]) + n - 1
  BY <1>1 DEF Chatty, FramesFollow
<1> QED
  BY <1>1, <1>2, <1>3, <1>4

\* Answering a frame, the receiver takes the place of the frame: no more is under way than before,
\* and an ACK is earned by a block that was stored or by a frame too many.
LEMMA AnswerKeeps ==
    ASSUME TypeInv, Chatty, toBoard # <<>>, NEW byte \in Answers, Answer(byte),
           receiver' \in {"receiving", "aborted"} \/ blocksSent = total,
           Len(rcvd') = Len(rcvd) \/ (Len(rcvd') = Len(rcvd) + 1 /\ Place(Head(toBoard)) = Len(rcvd) + 1),
           blocksSent < total /\ byte = ACK => Len(rcvd') = Place(Head(toBoard))
    PROVE  FramesFollow' /\ OneEach' /\ AcksAreEarned' /\ LeadIsBounded' /\ Len(rcvd') <= blocksSent' + 1
<1> USE DEF Answer, senderVars
<1>1. /\ Len(toBoard) \in Nat /\ Len(toHost) \in Nat /\ Len(rcvd) \in Nat /\ blocksSent \in Nat
      /\ total \in Nat /\ unsolicited \in Nat /\ Len(rcvd') \in Nat
  BY XmodemAssumption DEF XmodemAssumption, TypeInv, TypeOK
<1>2. Len(rcvd') \in {Len(rcvd), Place(Head(toBoard))}
  OBVIOUS
<1>3. /\ FramesFollow'
      /\ Len(toBoard') = Len(toBoard) - 1
      /\ toBoard' # <<>> => Place(toBoard'[Len(toBoard')]) = Place(toBoard[Len(toBoard)])
  BY <1>2, FramesFollowTake DEF Chatty, TypeInv
<1>4. /\ Len(toHost') = Len(toHost) + 1 /\ toHost'[Len(toHost) + 1] = byte
      /\ \A i \in 1..Len(toHost) : toHost'[i] = toHost[i]
  BY AppendFacts DEF TypeInv, TypeOK
<1> DEFINE place == Place(Head(toBoard))
           newest == Place(toBoard[Len(toBoard)])
<1>5. /\ place \in Nat /\ newest \in Nat
      /\ Len(rcvd) <= place /\ place <= blocksSent + 1 /\ newest <= place + Len(toBoard) - 1
  BY FrameAtReceiver, Places DEF TypeInv
<1>6. OneEach'
  <2> SUFFICES ASSUME blocksSent < total PROVE OneEach'
    BY DEF OneEach
  <2>1. /\ receiver' \in {"receiving", "aborted"}
        /\ Len(toBoard) + Len(toHost) <= unsolicited + (IF phase \in {"block_wait", "failed"} THEN 1 ELSE 0)
        /\ Len(toBoard) + Len(toHost) + blocksSent <= unsolicited + newest
    BY <1>1 DEF Chatty, OneEach
  <2>2. Len(toBoard') + Len(toHost') = Len(toBoard) + Len(toHost)
    BY <1>1, <1>3, <1>4
  <2>3. toBoard' # <<>> => Place(toBoard[Len(toBoard)])' = newest
    BY <1>3 DEF Place
  <2> HIDE DEF newest
  <2> QED
    BY <1>1, <1>5, <2>1, <2>2, <2>3 DEF OneEach
<1>7. AcksAreEarned'
  <2> SUFFICES ASSUME blocksSent < total, NEW i \in 1..Len(toHost) + 1, toHost'[i] = ACK
               PROVE  blocksSent + i <= Len(rcvd') + unsolicited
    BY <1>4 DEF AcksAreEarned
  <2>1. CASE i \in 1..Len(toHost)
    <3>1. blocksSent + i <= Len(rcvd) + unsolicited
      BY <1>4, <2>1 DEF Chatty, AcksAreEarned
    <3> QED
      BY <1>1, <2>1, <3>1
  <2>2. CASE i = Len(toHost) + 1
    <3>1. Len(rcvd') = place
      BY <1>4, <2>2
    <3>2. Len(toBoard) + Len(toHost) + blocksSent <= unsolicited + newest
      BY DEF Chatty, OneEach
    <3> HIDE DEF place, newest
    <3> QED
      BY <1>1, <1>5, <2>2, <3>1, <3>2
  <2> QED
    BY <1>1, <2>1, <2>2
<1>8. LeadIsBounded' /\ Len(rcvd') <= blocksSent' + 1
  BY <1>1, <1>5 DEF Chatty, LeadIsBounded
<1> QED
  BY <1>3, <1>6, <1>7, <1>8

\* A frame is written when nothing is under way but what the receiver said unasked.
LEMMA WriteKeeps ==
    ASSUME TypeInv, Chatty, phase \in {"block_write", "eot_write"},
           NEW frame \in Frames, Place(frame) = blocksSent + 1, frame = EOT \/ blocksSent < total,
           toBoard' = Append(toBoard, frame), UNCHANGED <<total, blocksSent, toHost, receiverVars>>,
           phase' \in {"block_wait", "eot_wait", "failed"},
           phase = "block_write" => phase' \in {"block_wait", "failed"}
    PROVE  FramesFollow' /\ OneEach' /\ AcksAreEarned' /\ LeadIsBounded' /\ StoredInOrder'
           /\ Len(rcvd') <= blocksSent' + 1
<1> USE DEF receiverVars
<1>1. /\ Len(toBoard) \in Nat /\ Len(toHost) \in Nat /\ Len(rcvd) \in Nat /\ blocksSent \in Nat
      /\ total \in Nat /\ unsolicited \in Nat
  BY XmodemAssumption DEF XmodemAssumption, TypeInv, TypeOK
<1>2. /\ FramesFollow' /\ Len(toBoard') = Len(toBoard) + 1
      /\ Place(toBoard'[Len(toBoard')]) = blocksSent + 1
  BY FramesFollowWrite DEF Chatty, TypeInv
<1>3. OneEach'
  <2> SUFFICES ASSUME blocksSent < total PROVE OneEach'
    BY DEF OneEach
  <2>1. phase = "block_write"
    BY <1>1 DEF Chatty, PhaseMatchesProgress
  <2>2. receiver \in {"receiving", "aborted"} /\ Len(toBoard) + Len(toHost) <= unsolicited
    BY <1>1, <2>1 DEF Chatty, OneEach
  <2>3. Place(toBoard[Len(toBoard)])' = blocksSent + 1
    BY <1>2 DEF Place
  <2> QED
    BY <1>1, <1>2, <2>1, <2>2, <2>3 DEF OneEach
<1> QED
  BY <1>2, <1>3 DEF Chatty, AcksAreEarned, LeadIsBounded, StoredInOrder

\* Taking an answer, the sender is no longer waiting; it moves on only at an ACK.
LEMMA AnsweredKeeps ==
    ASSUME TypeInv, Chatty, NEW byte, Answered(byte), UNCHANGED total,
           phase' \notin {"block_wait", "eot_wait"},
           blocksSent' = blocksSent \/ (phase = "block_wait" /\ byte = ACK /\ blocksSent' = blocksSent + 1)
    PROVE  FramesFollow' /\ OneEach' /\ AcksAreEarned' /\ LeadIsBounded' /\ StoredInOrder'
           /\ Len(rcvd') <= blocksSent' + 1
<1> USE DEF Answered, receiverVars
<1>1. /\ Len(toBoard) \in Nat /\ Len(toHost) \in Nat /\ Len(rcvd) \in Nat /\ blocksSent \in Nat
      /\ total \in Nat /\ unsolicited \in Nat
  BY XmodemAssumption DEF XmodemAssumption, TypeInv, TypeOK
<1>2. /\ Len(toHost) > 0 /\ Len(toHost') = Len(toHost) - 1 /\ toHost[1] = byte
      /\ \A i \in 1..Len(toHost) - 1 : toHost'[i] = toHost[i + 1]
  BY TailFacts DEF TypeInv, TypeOK
<1>3. \A i \in 1..Len(toBoard) : Place(toBoard[i]) \in Nat
  BY Places DEF TypeInv, TypeOK
<1>4. toBoard # <<>> => Len(toBoard) \in 1..Len(toBoard)
  BY <1>1, EmptyFacts DEF TypeInv, TypeOK
<1>5. FramesFollow'
  <2>1. ASSUME NEW i \in 1..Len(toBoard)
        PROVE  Len(rcvd) <= Place(toBoard[i]) /\ Place(toBoard[i]) <= blocksSent' + 1
    BY <1>1, <1>3 DEF Chatty, FramesFollow
  <2>2. toBoard # <<>> => Place(toBoard[Len(toBoard)]) >= blocksSent'
    BY <1>1, <1>3, <1>4 DEF Chatty, FramesFollow
  <2> QED
    BY <2>1, <2>2 DEF Chatty, FramesFollow, Place
<1>6. blocksSent' <= Len(rcvd) + unsolicited
  <2>1. CASE blocksSent' = blocksSent
    BY <2>1 DEF Chatty, LeadIsBounded
  <2>2. CASE phase = "block_wait" /\ byte = ACK /\ blocksSent' = blocksSent + 1
    <3>1. blocksSent < total
      BY <2>2 DEF Chatty, PhaseMatchesProgress
    <3>2. 1 \in 1..Len(toHost) /\ toHost[1] = ACK
      BY <1>1, <1>2, <2>2
    <3> QED
      BY <2>2, <3>1, <3>2 DEF Chatty, AcksAreEarned
  <2> QED
    BY <2>1, <2>2
<1>7. OneEach'
  <2> SUFFICES ASSUME blocksSent' < total PROVE OneEach'
    BY DEF OneEach
  <2> DEFINE newest == Place(toBoard[Len(toBoard)])
  <2>1. /\ receiver \in {"receiving", "aborted"}
        /\ Len(toBoard) + Len(toHost) <= unsolicited + 1
        /\ toBoard # <<>> => Len(toBoard) + Len(toHost) + blocksSent <= unsolicited + newest
    BY <1>1 DEF Chatty, OneEach
  <2>2. newest' = newest
    BY DEF Place
  <2>3. toBoard # <<>> => newest \in Nat
    BY <1>3, <1>4
  <2> HIDE DEF newest
  <2>4. Len(toBoard) + Len(toHost') <= unsolicited
    BY <1>1, <1>2, <2>1
  <2>5. toBoard # <<>> => Len(toBoard) + Len(toHost') + blocksSent' <= unsolicited + newest
    BY <1>1, <1>2, <2>1, <2>3
  <2>6. toBoard # <<>> => Len(toBoard') + Len(toHost') + blocksSent' <= unsolicited' + newest'
    BY <2>2, <2>5
  <2>7. Len(toBoard') + Len(toHost') <= unsolicited' + (IF phase' \in {"block_wait", "failed"} THEN 1 ELSE 0)
    BY <1>1, <1>2, <2>4
  <2> QED
    BY <2>1, <2>6, <2>7 DEF OneEach, newest
<1>8. AcksAreEarned'
  <2> SUFFICES ASSUME blocksSent' < total, NEW i \in 1..Len(toHost) - 1, toHost'[i] = ACK
               PROVE  blocksSent' + i <= Len(rcvd) + unsolicited
    BY <1>2 DEF AcksAreEarned
  <2>1. i + 1 \in 1..Len(toHost) /\ toHost[i + 1] = ACK
    BY <1>1, <1>2
  <2>2. blocksSent + (i + 1) <= Len(rcvd) + unsolicited
    BY <1>1, <2>1 DEF Chatty, AcksAreEarned
  <2> QED
    BY <1>1, <2>2
<1> QED
  BY <1>1, <1>5, <1>6, <1>7, <1>8 DEF Chatty, LeadIsBounded, StoredInOrder

\* The sender's own steps on the wire, one at a time.
LEMMA PhaseKeeps == TypeInv /\ Chatty /\ [Next]_vars => PhaseMatchesProgress'
<1> SUFFICES ASSUME TypeInv, PhaseMatchesProgress, [Next]_vars PROVE PhaseMatchesProgress'
  BY DEF Chatty
<1> USE DEF PhaseMatchesProgress, PermitsPromptCompletionRecovery
<1> total \in Nat /\ blocksSent \in Nat /\ phase \in Phases
  BY XmodemAssumption DEF XmodemAssumption, TypeInv, TypeOK
<1>1. CASE RejectEmptyPayload \/ Start \/ WriteFails \/ ReadTimesOut \/ ReadFails
  BY <1>1 DEF RejectEmptyPayload, Start, WriteFails, ReadTimesOut, ReadFails, Fail, TypeInv
<1>2. CASE WriteBlock \/ WriteEot
  BY <1>2 DEF WriteBlock, WriteEot, WriteFrame
<1>3. CASE BlockAcked \/ BlockNaked \/ EotAcked \/ EotNaked \/ Cancelled \/ Unexpected
  BY <1>3 DEF BlockAcked, BlockNaked, EotAcked, EotNaked, Cancelled, Unexpected, Answered, Fail
<1>4. CASE Environment
  BY <1>4 DEF Environment, ReceiveBlock, ReceiveEot, RejectFrame, Answer, LoseFrame, BoardProceeds,
     ReceiverTimer, LoseAnswer, DamageAnswer, senderVars
<1>5. CASE UNCHANGED vars
  BY <1>5 DEF vars
<1> QED
  BY <1>1, <1>2, <1>3, <1>4, <1>5 DEF Next, Sender

\* A receiver that takes a block stores the next one, acknowledges the last one again, or gives up.
LEMMA ReceiveBlockKeeps ==
    ASSUME LeadFitsRange, TypeInv, Chatty, ReceiveBlock
    PROVE  FramesFollow' /\ OneEach' /\ AcksAreEarned' /\ LeadIsBounded' /\ StoredInOrder'
           /\ Len(rcvd') <= blocksSent' + 1
<1> DEFINE place == Place(Head(toBoard))
<1>1. /\ Len(rcvd) \in Nat /\ blocksSent \in Nat /\ total \in Nat /\ unsolicited \in 0..MaxUnsolicited
      /\ MaxUnsolicited \in Nat /\ SeqSpace \in Nat
  BY XmodemAssumption DEF XmodemAssumption, TypeInv, TypeOK
<1>2. toBoard # <<>> /\ Head(toBoard) # EOT /\ receiver = "receiving"
  BY DEF ReceiveBlock
<1>3. /\ place \in 1..MaxBlocks /\ Head(toBoard) = Packet(place)
      /\ Len(rcvd) <= place /\ place <= blocksSent + 1 /\ place <= total
  BY <1>2, FrameAtReceiver, Places DEF TypeInv
<1>4. place <= Len(rcvd) + MaxUnsolicited + 1
  BY <1>1, <1>3 DEF Chatty, LeadIsBounded
<1>5. Head(toBoard).seq = BlockSequence(place) /\ Head(toBoard).block = place
  BY <1>3 DEF Packet
<1>6. UNCHANGED <<senderVars, unsolicited>>
  BY DEF ReceiveBlock, Answer
<1> HIDE DEF place
<1>7. /\ BlockSequence(place) = BlockSequence(Len(rcvd) + 1) => place = Len(rcvd) + 1
      /\ BlockSequence(place) = BlockSequence(Len(rcvd)) => place = Len(rcvd)
  <2>1. CASE place = Len(rcvd)
    BY <1>1, <2>1, NeighboursDiffer
  <2>2. CASE place = Len(rcvd) + 1
    BY <1>1, <2>2, NeighboursDiffer
  <2>3. CASE place > Len(rcvd) + 1
    <3>1. place < Len(rcvd) + SeqSpace
      BY <1>1, <1>3, <1>4, <2>3 DEF LeadFitsRange
    <3>2. BlockSequence(place) # BlockSequence(Len(rcvd) + 1)
      BY <1>1, <1>3, <2>3, <3>1, NearNumbersDiffer
    <3>3. BlockSequence(place) # BlockSequence(Len(rcvd))
      BY <1>1, <1>3, <2>3, <3>1, NearNumbersDiffer
    <3> QED
      BY <3>2, <3>3
  <2> QED
    BY <1>1, <1>3, <2>1, <2>2, <2>3
<1>8. CASE place = Len(rcvd) + 1 /\ rcvd' = Append(rcvd, place) /\ UNCHANGED receiver /\ Answer(ACK)
  <2>1. /\ Len(rcvd') = Len(rcvd) + 1 /\ rcvd'[Len(rcvd) + 1] = Len(rcvd) + 1
        /\ \A k \in 1..Len(rcvd) : rcvd'[k] = rcvd[k]
    BY <1>3, <1>8, AppendFacts DEF TypeInv, TypeOK
  <2>2. FramesFollow' /\ OneEach' /\ AcksAreEarned' /\ LeadIsBounded' /\ Len(rcvd') <= blocksSent' + 1
    BY <1>2, <1>8, <2>1, AnswerTypes, AnswerKeeps DEF place
  <2>3. StoredInOrder'
    BY <1>1, <1>3, <1>6, <1>8, <2>1 DEF Chatty, StoredInOrder, senderVars
  <2> QED
    BY <2>2, <2>3
<1>9. CASE place = Len(rcvd) /\ UNCHANGED <<rcvd, receiver>> /\ Answer(ACK)
  <2>1. FramesFollow' /\ OneEach' /\ AcksAreEarned' /\ LeadIsBounded' /\ Len(rcvd') <= blocksSent' + 1
    <3>1. Len(rcvd') = Len(rcvd) /\ Len(rcvd') = Place(Head(toBoard)) /\ receiver' = "receiving"
      BY <1>2, <1>9 DEF place
    <3> QED
      BY <1>2, <1>9, <3>1, AnswerTypes, AnswerKeeps
  <2> QED
    BY <1>6, <1>9, <2>1 DEF Chatty, StoredInOrder, senderVars
<1>10. CASE receiver' = "aborted" /\ UNCHANGED rcvd /\ Answer(CAN)
  <2>1. FramesFollow' /\ OneEach' /\ AcksAreEarned' /\ LeadIsBounded' /\ Len(rcvd') <= blocksSent' + 1
    <3>1. Len(rcvd') = Len(rcvd) /\ CAN # ACK
      BY <1>10 DEF ACK, CAN
    <3> QED
      BY <1>2, <1>10, <3>1, AnswerTypes, AnswerKeeps
  <2> QED
    BY <1>6, <1>10, <2>1 DEF Chatty, StoredInOrder, senderVars
<1> QED
  BY <1>5, <1>7, <1>8, <1>9, <1>10 DEF ReceiveBlock

\* EOT is answered only when it has been written, which is after the last block is acknowledged.
LEMMA ReceiveEotKeeps ==
    ASSUME TypeInv, Chatty, ReceiveEot \/ RejectFrame
    PROVE  FramesFollow' /\ OneEach' /\ AcksAreEarned' /\ LeadIsBounded' /\ StoredInOrder'
           /\ Len(rcvd') <= blocksSent' + 1
<1>1. blocksSent \in Nat /\ total \in Nat /\ blocksSent <= total
  BY DEF Chatty, PhaseMatchesProgress, TypeInv, TypeOK
<1>2. CASE ReceiveEot
  <2>1. blocksSent = total
    BY <1>1, <1>2, FrameAtReceiver, Places DEF ReceiveEot, TypeInv
  <2>2. PICK byte \in {ACK, NAK} : Answer(byte)
    BY <1>2 DEF ReceiveEot
  <2>3. toBoard # <<>> /\ UNCHANGED rcvd
    BY <1>2 DEF ReceiveEot
  <2>4. FramesFollow' /\ OneEach' /\ AcksAreEarned' /\ LeadIsBounded' /\ Len(rcvd') <= blocksSent' + 1
    <3>1. Len(rcvd') = Len(rcvd) /\ byte \in Answers
      BY <2>2, <2>3, AnswerTypes
    <3> QED
      BY <1>1, <2>1, <2>2, <2>3, <3>1, AnswerKeeps
  <2> QED
    BY <2>2, <2>3, <2>4 DEF Chatty, StoredInOrder, Answer, senderVars
<1>3. CASE RejectFrame
  <2>1. PICK byte \in {NAK, CAN} : Answer(byte) /\ receiver' \in {"receiving", "aborted"}
    BY <1>3 DEF RejectFrame
  <2>2. toBoard # <<>> /\ UNCHANGED rcvd
    BY <1>3 DEF RejectFrame
  <2>3. FramesFollow' /\ OneEach' /\ AcksAreEarned' /\ LeadIsBounded' /\ Len(rcvd') <= blocksSent' + 1
    <3>1. Len(rcvd') = Len(rcvd) /\ byte \in Answers /\ byte # ACK
      BY <2>1, <2>2, AnswerTypes DEF ACK, NAK, CAN
    <3> QED
      BY <2>1, <2>2, <3>1, AnswerKeeps
  <2> QED
    BY <2>1, <2>2, <2>3 DEF Chatty, StoredInOrder, Answer, senderVars
<1> QED
  BY <1>2, <1>3

\* Loss and damage take frames and answers away, or make an answer one that says less.
LEMMA LineKeeps ==
    ASSUME TypeInv, Chatty, LoseFrame \/ LoseAnswer \/ DamageAnswer
    PROVE  FramesFollow' /\ OneEach' /\ AcksAreEarned' /\ LeadIsBounded' /\ StoredInOrder'
           /\ Len(rcvd') <= blocksSent' + 1
<1> USE DEF senderVars, receiverVars
<1>1. /\ Len(toBoard) \in Nat /\ Len(toHost) \in Nat /\ Len(rcvd) \in Nat /\ blocksSent \in Nat
      /\ total \in Nat /\ unsolicited \in Nat
  BY XmodemAssumption DEF XmodemAssumption, TypeInv, TypeOK
<1>2. CASE LoseFrame
  <2>1. /\ FramesFollow'
        /\ Len(toBoard') = Len(toBoard) - 1
        /\ toBoard' # <<>> => Place(toBoard'[Len(toBoard')]) = Place(toBoard[Len(toBoard)])
    BY <1>2, FramesFollowTake DEF LoseFrame, Chatty, TypeInv
  <2>2. toBoard # <<>> => Place(toBoard[Len(toBoard)]) \in Nat
    BY <1>2, FrameAtReceiver
  <2>3. Place(toBoard[Len(toBoard)])' = Place(toBoard'[Len(toBoard')])
    BY <1>2 DEF LoseFrame, Place
  <2>4. OneEach'
    BY <1>1, <1>2, <2>1, <2>2, <2>3 DEF LoseFrame, Chatty, OneEach
  <2> QED
    BY <1>2, <2>1, <2>4 DEF LoseFrame, Chatty, AcksAreEarned, LeadIsBounded, StoredInOrder
<1>3. CASE LoseAnswer
  <2>1. /\ Len(toHost') = Len(toHost) - 1
        /\ \A i \in 1..Len(toHost) - 1 : toHost'[i] = toHost[i + 1]
    BY <1>3, TailFacts DEF LoseAnswer, TypeInv, TypeOK
  <2>2. UNCHANGED <<toBoard, senderVars, receiverVars>>
    BY <1>3 DEF LoseAnswer
  <2>3. AcksAreEarned'
    <3> SUFFICES ASSUME blocksSent < total, NEW i \in 1..Len(toHost) - 1, toHost'[i] = ACK
                 PROVE  blocksSent + i <= Len(rcvd) + unsolicited
      BY <2>1, <2>2 DEF AcksAreEarned
    <3>1. i + 1 \in 1..Len(toHost) /\ toHost[i + 1] = ACK
      BY <1>1, <2>1
    <3>2. blocksSent + (i + 1) <= Len(rcvd) + unsolicited
      BY <3>1 DEF Chatty, AcksAreEarned
    <3> QED
      BY <1>1, <3>2
  <2>4. toBoard # <<>> => Place(toBoard[Len(toBoard)]) \in Nat
    BY FrameAtReceiver
  <2>5. OneEach'
    BY <1>1, <2>1, <2>2, <2>4 DEF Chatty, OneEach, Place
  <2> QED
    BY <2>2, <2>3, <2>5 DEF Chatty, FramesFollow, Place, LeadIsBounded, StoredInOrder
<1>4. CASE DamageAnswer
  <2>1. /\ Len(toHost') = Len(toHost)
        /\ \A i \in 1..Len(toHost) : toHost'[i] = ACK => toHost[i] = ACK
    BY <1>4 DEF DamageAnswer, ACK, NAK, NOISE, TypeInv, TypeOK
  <2>2. UNCHANGED <<toBoard, senderVars, receiverVars>>
    BY <1>4 DEF DamageAnswer
  <2> QED
    BY <2>1, <2>2 DEF Chatty, OneEach, AcksAreEarned, FramesFollow, Place, LeadIsBounded, StoredInOrder
<1> QED
  BY <1>2, <1>3, <1>4

\* What the board says unasked adds one answer, and one to the lead it may cause.
LEMMA SpeaksKeeps ==
    ASSUME TypeInv, Chatty, BoardProceeds \/ ReceiverTimer
    PROVE  FramesFollow' /\ OneEach' /\ AcksAreEarned' /\ LeadIsBounded' /\ StoredInOrder'
           /\ Len(rcvd') <= blocksSent' + 1
<1> USE DEF senderVars, receiverVars
<1>1. /\ Len(toBoard) \in Nat /\ Len(toHost) \in Nat /\ Len(rcvd) \in Nat /\ blocksSent \in Nat
      /\ total \in Nat /\ unsolicited \in Nat
  BY XmodemAssumption DEF XmodemAssumption, TypeInv, TypeOK
<1>2. \E byte \in {NAK, NOISE} : toHost' = Append(toHost, byte)
  BY DEF BoardProceeds, ReceiverTimer
<1>3. /\ Len(toHost') = Len(toHost) + 1 /\ toHost'[Len(toHost) + 1] # ACK
      /\ \A i \in 1..Len(toHost) : toHost'[i] = toHost[i]
  BY <1>2, AppendFacts, AnswerTypes DEF ACK, NAK, NOISE, TypeInv, TypeOK
<1>4. UNCHANGED <<toBoard, rcvd, total, blocksSent, phase>> /\ unsolicited' >= unsolicited
  BY <1>1 DEF BoardProceeds, ReceiverTimer
<1>5. OneEach'
  <2> SUFFICES ASSUME blocksSent < total PROVE OneEach'
    BY <1>4 DEF OneEach
  <2>1. ReceiverTimer
    BY DEF BoardProceeds, Chatty, OneEach
  <2>2. unsolicited' = unsolicited + 1 /\ UNCHANGED receiver
    BY <2>1 DEF ReceiverTimer
  <2>3. toBoard # <<>> => Place(toBoard[Len(toBoard)]) \in Nat
    BY FrameAtReceiver
  <2> QED
    BY <1>1, <1>3, <1>4, <2>2, <2>3 DEF Chatty, OneEach, Place
<1>6. AcksAreEarned'
  <2> SUFFICES ASSUME blocksSent < total, NEW i \in 1..Len(toHost), toHost[i] = ACK
               PROVE  blocksSent + i <= Len(rcvd) + unsolicited'
    BY <1>1, <1>3, <1>4 DEF AcksAreEarned
  <2>1. blocksSent + i <= Len(rcvd) + unsolicited
    BY DEF Chatty, AcksAreEarned
  <2>2. unsolicited' \in Nat
    BY <1>1 DEF BoardProceeds, ReceiverTimer
  <2> QED
    BY <1>1, <1>4, <2>1, <2>2
<1>7. LeadIsBounded'
  <2>1. unsolicited' \in Nat
    BY <1>1 DEF BoardProceeds, ReceiverTimer
  <2> QED
    BY <1>1, <1>4, <2>1 DEF Chatty, LeadIsBounded
<1> QED
  BY <1>4, <1>5, <1>6, <1>7 DEF Chatty, FramesFollow, Place, StoredInOrder

\* A step that leaves the wire and the counts alone, and does not go on to wait.
LEMMA StandsStill ==
    ASSUME TypeInv, Chatty, UNCHANGED <<total, blocksSent, toBoard, toHost, receiverVars>>,
           phase' = phase \/ phase' = "failed" \/ (phase = "start" /\ phase' = "block_write")
    PROVE  FramesFollow' /\ OneEach' /\ AcksAreEarned' /\ LeadIsBounded' /\ StoredInOrder'
           /\ Len(rcvd') <= blocksSent' + 1
<1> USE DEF receiverVars
<1>1. FramesFollow'
  BY DEF Chatty, FramesFollow, Place
<1>2. OneEach'
  <2>1. Len(toBoard) \in Nat /\ Len(toHost) \in Nat /\ unsolicited \in Nat
    BY XmodemAssumption DEF XmodemAssumption, TypeInv, TypeOK
  <2> QED
    BY <2>1 DEF Chatty, OneEach, Place
<1> QED
  BY <1>1, <1>2 DEF Chatty, AcksAreEarned, LeadIsBounded, StoredInOrder

LEMMA ChattyStep ==
    ASSUME LeadFitsRange
    PROVE  TypeInv /\ Chatty /\ [Next]_vars => Chatty'
<1> SUFFICES ASSUME TypeInv, Chatty, [Next]_vars
             PROVE  FramesFollow' /\ OneEach' /\ AcksAreEarned' /\ LeadIsBounded' /\ StoredInOrder'
                    /\ Len(rcvd') <= blocksSent' + 1
  BY PhaseKeeps DEF Chatty
<1>1. CASE RejectEmptyPayload \/ Start \/ ReadTimesOut \/ ReadFails \/ UNCHANGED vars
  BY <1>1, StandsStill
     DEF RejectEmptyPayload, Start, ReadTimesOut, ReadFails, Fail, receiverVars, vars
<1>2. CASE WriteBlock
  <2>1. block = blocksSent + 1 /\ block \in 1..MaxBlocks /\ blocksSent < total
    BY <1>2, XmodemAssumption DEF XmodemAssumption, WriteBlock, Chatty, PhaseMatchesProgress, TypeInv, TypeOK
  <2>2. Packet(block) \in Frames /\ Place(Packet(block)) = blocksSent + 1
    BY <2>1, FrameTypes, Places DEF TypeInv
  <2> QED
    BY <1>2, <2>1, <2>2, WriteKeeps DEF WriteBlock, WriteFrame
<1>3. CASE WriteEot
  <2>1. EOT \in Frames /\ Place(EOT) = blocksSent + 1
    BY <1>3, FrameTypes, Places DEF WriteEot, Chatty, PhaseMatchesProgress, TypeInv
  <2> QED
    BY <1>3, <2>1, WriteKeeps DEF WriteEot, WriteFrame
<1>4. CASE WriteFails
  <2>1. /\ phase \in {"block_write", "eot_write"} /\ phase' = "failed"
        /\ UNCHANGED <<total, blocksSent, toHost, receiverVars>>
    BY <1>4 DEF WriteFails, Fail
  <2>2. CASE UNCHANGED toBoard
    BY <2>1, <2>2, StandsStill
  <2>3. CASE phase = "block_write" /\ toBoard' = Append(toBoard, Packet(block))
    <3>1. block = blocksSent + 1 /\ block \in 1..MaxBlocks /\ blocksSent < total
      BY <2>3, XmodemAssumption DEF XmodemAssumption, Chatty, PhaseMatchesProgress, TypeInv, TypeOK
    <3>2. Packet(block) \in Frames /\ Place(Packet(block)) = blocksSent + 1
      BY <3>1, FrameTypes, Places DEF TypeInv
    <3> QED
      BY <2>1, <2>3, <3>1, <3>2, WriteKeeps
  <2>4. CASE phase = "eot_write" /\ toBoard' = Append(toBoard, EOT)
    <3>1. EOT \in Frames /\ Place(EOT) = blocksSent + 1
      BY <2>4, FrameTypes, Places DEF Chatty, PhaseMatchesProgress, TypeInv
    <3> QED
      BY <2>1, <2>4, <3>1, WriteKeeps
  <2> QED
    BY <1>4, <2>2, <2>3, <2>4 DEF WriteFails
<1>5. CASE BlockAcked
  BY <1>5, AnsweredKeeps DEF BlockAcked
<1>6. CASE BlockNaked \/ EotAcked \/ EotNaked \/ Cancelled \/ Unexpected
  BY <1>6, AnsweredKeeps DEF BlockNaked, EotAcked, EotNaked, Cancelled, Unexpected, Fail
<1>7. CASE Environment
  BY <1>7, ReceiveBlockKeeps, ReceiveEotKeeps, LineKeeps, SpeaksKeeps DEF Environment
<1> QED
  BY <1>1, <1>2, <1>3, <1>4, <1>5, <1>6, <1>7 DEF Next, Sender

LEMMA ChattyHolds ==
    ASSUME LeadFitsRange
    PROVE  Spec => [](TypeInv /\ Chatty)
<1>1. Init => TypeInv /\ Chatty
  BY TypeInit, ChattyInit
<1>2. TypeInv /\ Chatty /\ [Next]_vars => (TypeInv /\ Chatty)'
  BY TypeStep, ChattyStep
<1>3. QED
  BY <1>1, <1>2, PTL DEF Spec

-----------------------------------------------------------------------------
(* Theorems *)

\* Every variable of sender, wire and receiver keeps its type, for any receiver.
THEOREM TypeCorrect == Spec => []TypeOK
<1>1. Init => TypeInv
  BY TypeInit
<1>2. TypeInv /\ [Next]_vars => TypeInv'
  BY TypeStep
<1>3. TypeInv => TypeOK
  BY DEF TypeInv
<1>4. QED
  BY <1>1, <1>2, <1>3, PTL DEF Spec

\* What holds in every state, for a receiver that does not speak unasked.
LEMMA InductiveInvariant ==
    ASSUME Silent
    PROVE  Spec => []IInv
<1>1. Init => IInv
  BY TypeInit, StopAndWaitInit DEF IInv
<1>2. IInv /\ [Next]_vars => IInv'
  BY TypeStep, StopAndWaitStep DEF IInv
<1>3. QED
  BY <1>1, <1>2, PTL DEF Spec

\* The invariant behind the transfer's guarantees: sender and receiver are never more than one
\* block apart, and what is on the wire is about that block (send_crc is stop-and-wait).
THEOREM StopAndWaitHolds ==
    ASSUME Silent
    PROVE  Spec => []StopAndWait
<1>1. IInv => StopAndWait
  BY DEF IInv
<1>2. QED
  BY <1>1, InductiveInvariant, PTL

\* In an inductive state the receiver's copy is what success and recoverability claim.
LEMMA InvariantImplies ==
    ASSUME IInv
    PROVE  SuccessMeansDelivered /\ RecoverableMeansDelivered /\ ProgressIsStored
<1> USE DEF IInv, TypeInv, TypeOK, StopAndWait, PhaseMatchesProgress, StoredInOrder
<1>1. blocksSent = total => rcvd = WholeImage
  <2> SUFFICES ASSUME blocksSent = total PROVE rcvd = WholeImage
    OBVIOUS
  <2>1. Len(rcvd) = total
    OBVIOUS
  <2>2. rcvd = [k \in 1..Len(rcvd) |-> rcvd[k]]
    OBVIOUS
  <2>3. QED
    BY <2>1, <2>2 DEF WholeImage
<1>2. QED
  BY <1>1 DEF SuccessMeansDelivered, RecoverableMeansDelivered, ProgressIsStored

\* A transfer that succeeds has delivered the whole image, in order (send_crc returns Ok).
THEOREM SuccessIsDelivery ==
    ASSUME Silent
    PROVE  Spec => []SuccessMeansDelivered
  BY InductiveInvariant, InvariantImplies, PTL

\* When an EOT failure is excused, the whole image has been delivered.
THEOREM RecoverableIsDelivery ==
    ASSUME Silent
    PROVE  Spec => []RecoverableMeansDelivered
  BY InductiveInvariant, InvariantImplies, PTL

\* No progress is reported for a block that the receiver does not hold.
THEOREM ProgressIsDelivery ==
    ASSUME Silent
    PROVE  Spec => []ProgressIsStored
  BY InductiveInvariant, InvariantImplies, PTL

\* Also with a receiver that repeats its NAK or C on a timer, the copy it stores is a prefix of the
\* image: retransmissions neither repeat, skip nor swap blocks (send_crc, up to SeqSpace - 2
\* bytes sent unasked in a transfer; 254 in the code).
THEOREM BlocksAreStoredInOrder ==
    ASSUME LeadFitsRange
    PROVE  Spec => []StoredInOrder
<1>1. Chatty => StoredInOrder
  BY DEF Chatty
<1>2. QED
  BY <1>1, ChattyHolds, PTL

\* ... and progress runs ahead of it by at most one block for each of these bytes.
THEOREM LeadStaysBounded ==
    ASSUME LeadFitsRange
    PROVE  Spec => []LeadIsBounded
<1>1. Chatty => LeadIsBounded
  BY DEF Chatty
<1>2. QED
  BY <1>1, ChattyHolds, PTL

-----------------------------------------------------------------------------
(* Refinement *)

LEMMA AbstractInit == Init => Abstract!Init
  BY DEF Init, Abstract!Init, Outcome

\* A step that keeps these is a stuttering step of BlockTransfer.
LEMMA AbstractStutter ==
    ASSUME UNCHANGED <<total, rcvd, blocksSent>>,
           Outcome' = Outcome
    PROVE  UNCHANGED Abstract!vars
  BY DEF Abstract!vars

LEMMA AbstractFail ==
    ASSUME IInv, UNCHANGED <<total, rcvd, blocksSent>>,
           phase \notin {"done", "failed"}, phase' = "failed"
    PROVE  Abstract!Fail
  BY DEF Abstract!Fail, Outcome

LEMMA AbstractStep ==
    ASSUME Silent, IInv, [Next]_vars
    PROVE  [Abstract!Next]_(Abstract!vars)
<1> USE DEF senderVars, receiverVars
<1>1. CASE RejectEmptyPayload \/ ReadTimesOut \/ ReadFails \/ WriteFails \/ Cancelled \/ Unexpected
  BY <1>1, AbstractFail DEF RejectEmptyPayload, ReadTimesOut, ReadFails, WriteFails, Cancelled,
     Unexpected, Answered, Fail, Abstract!Next
<1>2. CASE Start \/ BlockNaked \/ EotNaked
  <2>1. CASE phase' = "failed"
    BY <1>2, <2>1, AbstractFail DEF Start, BlockNaked, EotNaked, Answered, Fail, Abstract!Next
  <2>2. CASE phase' # "failed"
    BY <1>2, <2>2, AbstractStutter DEF Start, BlockNaked, EotNaked, Answered, Fail, Outcome
  <2>3. QED
    BY <2>1, <2>2
<1>3. CASE WriteBlock \/ WriteEot
  BY <1>3, AbstractStutter DEF WriteBlock, WriteEot, WriteFrame, Outcome
<1>4. CASE BlockAcked
  <2>1. blocksSent < Len(rcvd)
    <3>1. blocksSent < total /\ toHost # <<>> /\ Head(toHost) = ACK
      BY <1>4 DEF BlockAcked, Answered, IInv, StopAndWait, PhaseMatchesProgress
    <3>2. Len(rcvd) = blocksSent + 1
      BY <3>1, LoneAnswer
    <3>3. QED
      BY <3>2 DEF IInv, TypeInv, TypeOK
  <2>2. Outcome = "running" /\ Outcome' = "running"
    BY <1>4 DEF BlockAcked, Outcome
  <2>3. Abstract!Report
    BY <1>4, <2>1, <2>2 DEF BlockAcked, Answered, Abstract!Report
  <2>4. QED
    BY <2>3 DEF Abstract!Next
<1>5. CASE EotAcked
  <2>1. total > 0 /\ blocksSent = total
    BY <1>5 DEF EotAcked, IInv, StopAndWait, PhaseMatchesProgress
  <2>2. Abstract!Succeed
    BY <1>5, <2>1 DEF EotAcked, Answered, Outcome, Abstract!Succeed
  <2>3. QED
    BY <2>2 DEF Abstract!Next
<1>6. CASE ReceiveBlock
  <2>1. toBoard # <<>> /\ Head(toBoard) # EOT
    BY <1>6 DEF ReceiveBlock
  <2>2. blocksSent < total
    BY <2>1, TailFacts DEF IInv, TypeInv, TypeOK, StopAndWait, FramesAreCurrent, PhaseMatchesProgress
  <2>3. Head(toBoard) = Packet(blocksSent + 1) /\ phase \in {"block_wait", "failed"}
    BY <2>1, <2>2, LoneFrame
  <2>4. Outcome' = Outcome /\ Outcome # "ok" /\ UNCHANGED <<total, blocksSent>>
    BY <1>6, <2>3 DEF ReceiveBlock, Answer, Outcome
  <2>5. CASE rcvd' = rcvd
    BY <2>4, <2>5, AbstractStutter
  <2>6. CASE rcvd' # rcvd
    <3>1. /\ BlockSequence(blocksSent + 1) = BlockSequence(Len(rcvd) + 1)
          /\ rcvd' = Append(rcvd, blocksSent + 1)
      BY <1>6, <2>3, <2>6 DEF ReceiveBlock, Packet
    <3>2. Len(rcvd) = blocksSent
      <4>1. blocksSent \in Nat /\ Len(rcvd) \in {blocksSent, blocksSent + 1}
        BY DEF IInv, TypeInv, TypeOK, StopAndWait
      <4>2. BlockSequence(blocksSent + 1) # BlockSequence((blocksSent + 1) + 1)
        BY <4>1, NeighboursDiffer
      <4>3. QED
        BY <3>1, <4>1, <4>2
    <3>3. Abstract!Deliver
      BY <2>2, <2>4, <3>1, <3>2 DEF Abstract!Deliver
    <3>4. QED
      BY <3>3 DEF Abstract!Next
  <2>7. QED
    BY <2>5, <2>6
<1>7. CASE ReceiveEot \/ RejectFrame
  BY <1>7, AbstractStutter DEF ReceiveEot, RejectFrame, Answer, Outcome
<1>8. CASE LoseFrame \/ BoardProceeds \/ ReceiverTimer \/ LoseAnswer \/ DamageAnswer
  BY <1>8, AbstractStutter DEF LoseFrame, BoardProceeds, ReceiverTimer, LoseAnswer, DamageAnswer, Outcome
<1>9. CASE UNCHANGED vars
  BY <1>9, AbstractStutter DEF vars, Outcome
<1>10. QED
  BY <1>1, <1>2, <1>3, <1>4, <1>5, <1>6, <1>7, <1>8, <1>9 DEF Next, Sender, Environment

\* With a receiver that does not speak unasked, the sender implements BlockTransfer: in-order
\* delivery, progress only for what has arrived, and success only for the whole image.
THEOREM XmodemRefines ==
    ASSUME Silent
    PROVE  Spec => ImplementsBlockTransfer
<1>1. Init => Abstract!Init
  BY AbstractInit
<1>2. IInv /\ [Next]_vars => [Abstract!Next]_(Abstract!vars)
  BY AbstractStep
<1>3. QED
  BY <1>1, <1>2, InductiveInvariant, PTL DEF Spec, Abstract!Spec, ImplementsBlockTransfer
=============================================================================
