--------------------------- MODULE RecoveryProofs ---------------------------
(***************************************************************************)
(* What Recovery.tla keeps for images of any length, every timeout, retry  *)
(* limit and number of readiness bytes: its types, the order of its        *)
(* events, the error it reports, and, for a board that is off or runs old  *)
(* firmware when the program starts, that images reach the stage they are  *)
(* meant for, that success means the new U-Boot, that the line of progress *)
(* is about what is awaited, and that no wait gives up on what it has been *)
(* sent.                                                                   *)
(*                                                                         *)
(* The console is one sequence that three programs of the board and the    *)
(* firmware before them have written to, and the waits see of it whatever  *)
(* follows the cursor.  The proof is about the order of what was printed   *)
(* (Order), about what lies behind the cursor (Consumed) and about the     *)
(* step of the protocol that program and board are at (InStep).  What lies *)
(* ahead of the cursor, read or still on its way, holds in one piece what  *)
(* is awaited (Coming).                                                    *)
(***************************************************************************)
EXTENDS Recovery, PromptProofs

-----------------------------------------------------------------------------
(* Reading the console *)

LEMMA Concatenation ==
    ASSUME NEW S, NEW a \in Seq(S), NEW b \in Seq(S), NEW c \in Seq(S)
    PROVE  b \o c \in Seq(S) /\ a \o b \o c = a \o (b \o c)
  OBVIOUS

\* What one read appends: the answers of XMODEM are control bytes to the scanners.
Heard(n) == [i \in 1..n |-> IF toHost[i] \in Answers THEN CTL ELSE toHost[i]]

\* A token of the console after a read was there before, or stands for one of the first n tokens
\* of the wire, in order; at most the first of those is lost, to the text before it.
Extends(after, before, wire, n) ==
    /\ Len(before) <= Len(after)
    /\ \A i \in 1..Len(before) : after[i] = before[i]
    /\ \E skipped \in {0, 1} : \A i \in Len(before) + 1..Len(after) :
          LET k == i - Len(before) + skipped
          IN  k \in 1..n /\ (after[i] = wire[k] \/ after[i] = CTL)

LEMMA ReadExtends ==
    ASSUME console \in Seq(Tokens), toHost \in Seq(Tokens \cup Answers), NEW n \in 1..Len(toHost),
           console' = Joined(console, Heard(n))
    PROVE  console' \in Seq(Tokens) /\ Extends(console', console, toHost, n)
<1> DEFINE more == Heard(n)
<1>1. more \in Seq(Tokens) /\ Len(more) = n /\ n \in Nat /\ n >= 1 /\ n <= Len(toHost) /\ more # <<>>
  BY DEF Heard, Tokens
<1>2. \A k \in 1..n : more[k] = toHost[k] \/ more[k] = CTL
  BY DEF Heard
<1> HIDE DEF more
<1>3. CASE console' = console \o more
  <2>1. \A i \in Len(console) + 1..Len(console') :
           LET k == i - Len(console) + 0
           IN  k \in 1..n /\ (console'[i] = toHost[k] \/ console'[i] = CTL)
    BY <1>1, <1>2, <1>3
  <2>2. Len(console) <= Len(console') /\ \A i \in 1..Len(console) : console'[i] = console[i]
    BY <1>1, <1>3
  <2> QED
    BY <1>1, <1>3, <2>1, <2>2 DEF Extends
<1>4. CASE console' = console \o Tail(more)
  <2>1. Tail(more) \in Seq(Tokens) /\ Len(Tail(more)) = n - 1
        /\ \A k \in 1..n - 1 : Tail(more)[k] = more[k + 1]
    BY <1>1
  <2>2. \A i \in Len(console) + 1..Len(console') :
           LET k == i - Len(console) + 1
           IN  k \in 1..n /\ (console'[i] = toHost[k] \/ console'[i] = CTL)
    BY <1>1, <1>2, <1>4, <2>1
  <2>3. Len(console) <= Len(console') /\ \A i \in 1..Len(console) : console'[i] = console[i]
    BY <1>1, <1>4, <2>1
  <2> QED
    BY <1>4, <2>1, <2>2, <2>3 DEF Extends
<1> QED
  BY <1>3, <1>4 DEF Joined, more

-----------------------------------------------------------------------------
(* Type correctness *)

\* What TypeOK needs to be inductive: send_transfer runs in the states of a transfer only, and its
\* counters are below their limits where they are advanced.
Counts ==
    /\ step = "idle" <=> state \notin Sends
    /\ step = "data" => sent < Blocks /\ attempts = 0
    /\ step = "eot_write" => attempts < EotRetryLimit

\* Every event the runner emits is one of event.rs.
LEMMA RunnerEventsAreEvents ==
    ASSUME state \in States
    PROVE  /\ PromptEvent \in EventPayload
           /\ <<"InputSent", Stage>> \in EventPayload
           /\ <<"CrcReady", Transfer>> \in EventPayload /\ <<"XmodemStarted", Transfer>> \in EventPayload
           /\ \A n \in Nat : <<"XmodemProgress", Transfer, n>> \in EventPayload
           /\ \A recovered \in BOOLEAN : <<"XmodemCompleted", Transfer, recovered>> \in EventPayload
<1>1. Stage \in RecoveryStage /\ Transfer \in TransferStage
  BY DEF Stage, Transfer, RecoveryStage, TransferStage
<1>2. <<"UBootPromptSeen">> \in {<<kind>> : kind \in {"SessionStarted", "PortOpened", "UBootPromptSeen", "ResetSeen"}}
  OBVIOUS
<1>3. <<"PromptSeen", Stage>> \in {"PromptSeen", "InputSent"} \X RecoveryStage
      /\ <<"InputSent", Stage>> \in {"PromptSeen", "InputSent"} \X RecoveryStage
  BY <1>1
<1>4. <<"CrcReady", Transfer>> \in {"CrcReady", "XmodemStarted"} \X TransferStage
      /\ <<"XmodemStarted", Transfer>> \in {"CrcReady", "XmodemStarted"} \X TransferStage
  BY <1>1
<1>5. \A n \in Nat : <<"XmodemProgress", Transfer, n>> \in {"XmodemProgress"} \X TransferStage \X Nat
  BY <1>1
<1>6. \A recovered \in BOOLEAN :
         <<"XmodemCompleted", Transfer, recovered>> \in {"XmodemCompleted"} \X TransferStage \X BOOLEAN
  BY <1>1
<1>7. PromptEvent \in EventPayload
  BY <1>2, <1>3 DEF PromptEvent, EventPayload
<1>8. <<"InputSent", Stage>> \in EventPayload
  BY <1>3 DEF EventPayload
<1>9. <<"CrcReady", Transfer>> \in EventPayload /\ <<"XmodemStarted", Transfer>> \in EventPayload
  BY <1>4 DEF EventPayload
<1>10. \A n \in Nat : <<"XmodemProgress", Transfer, n>> \in EventPayload
  BY <1>5 DEF EventPayload
<1>11. \A recovered \in BOOLEAN : <<"XmodemCompleted", Transfer, recovered>> \in EventPayload
  BY <1>6 DEF EventPayload
<1> QED
  BY <1>7, <1>8, <1>9, <1>10, <1>11

\* What the waits find lies in the console, after the cursor.
LEMMA MatchIsAhead ==
    ASSUME TypeOK
    PROVE  Match = NoMatch \/ Match \in cursor + 1..Len(console)
<1>1. InitialRecovery \in Seq(Tokens) /\ InitialRecovery # <<>>
      /\ SecondStage \in Seq(Tokens) /\ SecondStage # <<>>
      /\ UBootShell \in Seq(Tokens) /\ UBootShell # <<>>
  BY DEF InitialRecovery, SecondStage, UBootShell, Tokens
<1>2. console \in Seq(Tokens) /\ cursor \in Nat
  BY DEF TypeOK
<1> QED
  BY <1>1, <1>2, FindPromptFinds, FindCrcReadyFinds DEF Match

\* A banner is a sequence of tokens.
LEMMA BannersAreTokens ==
    \A program \in {"shell", "bootrom", "bl2", "uboot"} : Banner[program] \subseteq Seq(Tokens)
<1>1. /\ Banner["shell"] = {<<UBOOT, SPACE>>}
      /\ Banner["bootrom"] = {<<PRESS, CTL>>, <<TEXT, PRESS, CTL>>}
      /\ Banner["bl2"] = {<<PRESS, LOAD, CTL>>, <<TEXT, CTL, PRESS, LOAD, CTL>>}
      /\ Banner["uboot"] = {<<TEXT, CTL, UBOOT, SPACE>>}
  BY DEF Banner
<1>2. /\ <<UBOOT, SPACE>> \in Seq(Tokens)
      /\ <<PRESS, CTL>> \in Seq(Tokens) /\ <<TEXT, PRESS, CTL>> \in Seq(Tokens)
      /\ <<PRESS, LOAD, CTL>> \in Seq(Tokens) /\ <<TEXT, CTL, PRESS, LOAD, CTL>> \in Seq(Tokens)
      /\ <<TEXT, CTL, UBOOT, SPACE>> \in Seq(Tokens)
  BY DEF Tokens
<1> QED
  BY <1>1, <1>2

\* Only the boot ROM and BL2 take images, and no other program has a prompt for x.
Programs ==
    /\ mode \in {"ready", "receive"} => stage \in {"bootrom", "bl2"}
    /\ mode = "silent" <=> stage = "off"
    /\ mode = "shell" <=> stage = "uboot"

LEMMA TypesStart == Init => TypeOK /\ Counts /\ Programs
<1> SUFFICES ASSUME Init PROVE TypeOK /\ Counts /\ Programs
  OBVIOUS
<1>1. stage \in {"off", "shell", "bl2"}
  BY RecoveryAssumption DEF Init
<1>2. output \in Seq(Tokens \cup Answers)
  <2>1. output \in Seq(Tokens)
    <3>1. CASE stage = "off"
      BY <3>1 DEF Init
    <3>2. CASE stage # "off"
      <4>1. output \in Banner[stage] /\ stage \in {"shell", "bl2"}
        BY <1>1, <3>2 DEF Init
      <4> QED
        BY <4>1, BannersAreTokens
    <3> QED
      BY <3>1, <3>2
  <2> QED
    BY <2>1
<1>3. TypeOK
  <2>1. /\ sent \in 0..Blocks /\ attempts \in 0..EotRetryLimit
        /\ waited \in 0..PromptTimeout /\ extra \in 0..MaxExtraC
    BY RecoveryAssumption DEF Init
  <2>5. state \in States /\ step = "idle" /\ excused \in BOOLEAN /\ result \in Results /\ stored = {}
    BY DEF Init, States, Results
  <2>2. console \in Seq(Tokens) /\ cursor \in 0..Len(console) /\ events \in Seq(EventPayload)
    BY DEF Init
  <2>3. toHost \in Seq(Tokens \cup Answers) /\ toBoard \in Seq({"x", "EOT"})
    BY DEF Init
  <2>4. mode \in {"silent", "prompt"} /\ stage \in BoardStages
    BY <1>1 DEF Init, BoardStages
  <2> QED
    BY <1>2, <2>1, <2>2, <2>3, <2>4, <2>5 DEF TypeOK
<1> QED
  BY <1>1, <1>3 DEF Init, Counts, Programs, Sends

LEMMA TypesStep == TypeOK /\ Counts /\ Programs /\ [Next]_vars => (TypeOK /\ Counts /\ Programs)'
<1> SUFFICES ASSUME TypeOK, Counts, Programs, [Next]_vars PROVE (TypeOK /\ Counts /\ Programs)'
  OBVIOUS
<1> USE RecoveryAssumption
<1>0. /\ cursor \in Nat /\ Len(console) \in Nat /\ console \in Seq(Tokens)
      /\ state \in States /\ (After[state] \in States \/ state = "Complete")
  BY DEF TypeOK, States, After
<1>1. CASE PromptFound
  <2>1. cursor' \in 0..Len(console)
    BY <1>0, <1>1, MatchIsAhead DEF PromptFound, AdvancedTo, NoMatch
  <2>2. events' \in Seq(EventPayload)
    <3>1. PromptEvent \in EventPayload /\ <<"XmodemCompleted", Transfer, TRUE>> \in EventPayload
      BY RunnerEventsAreEvents DEF TypeOK
    <3>2. events \in Seq(EventPayload) /\ Append(events, <<"XmodemCompleted", Transfer, TRUE>>) \in Seq(EventPayload)
      BY <3>1 DEF TypeOK
    <3> QED
      BY <1>1, <3>1, <3>2 DEF PromptFound, Emit
  <2>3. state' \in States /\ state' \notin Sends /\ result' \in Results /\ state \notin Sends
    BY <1>1 DEF PromptFound, PromptWaits, States, After, Sends, Results, TypeOK
  <2> QED
    BY <1>1, <2>1, <2>2, <2>3 DEF PromptFound, TypeOK, Counts, Programs, boardVars
<1>2. CASE SendX
  <2>1. events' \in Seq(EventPayload) /\ toBoard' \in Seq({"x", "EOT"})
    BY <1>2, RunnerEventsAreEvents DEF SendX, Emit, TypeOK
  <2>2. state' \in States /\ state' \notin Sends /\ state \notin Sends
    BY <1>2 DEF SendX, States, After, Sends
  <2> QED
    BY <1>2, <2>1, <2>2 DEF SendX, TypeOK, Counts, Programs, boardVars
<1>3. CASE CrcFound
  <2>1. cursor' \in 0..Len(console)
    BY <1>0, <1>3, MatchIsAhead DEF CrcFound, AdvancedTo, NoMatch
  <2>2. events' \in Seq(EventPayload)
    BY <1>3, RunnerEventsAreEvents DEF CrcFound, TypeOK
  <2>3. state' \in States /\ state' \in Sends
    BY <1>3 DEF CrcFound, CrcWaits, States, After, Sends
  <2> QED
    BY <1>3, <2>1, <2>2, <2>3 DEF CrcFound, TypeOK, Counts, Programs, boardVars
<1>4. CASE ReadData
  <2>1. PICK n \in 1..Len(toHost) :
           /\ console' = Joined(console, Heard(n))
           /\ toHost' = SubSeq(toHost, n + 1, Len(toHost))
    BY <1>4 DEF ReadData, Heard
  <2>2. console' \in Seq(Tokens) /\ Len(console) <= Len(console')
    BY <2>1, ReadExtends DEF TypeOK, Extends
  <2>3. toHost' \in Seq(Tokens \cup Answers)
    BY <2>1 DEF TypeOK
  <2>4. cursor' \in 0..Len(console')
    BY <1>0, <1>4, <2>2 DEF ReadData, TypeOK
  <2> QED
    BY <1>4, <2>2, <2>3, <2>4 DEF ReadData, TypeOK, Counts, Programs, boardVars
<1>5. CASE ReadNothing
  BY <1>5 DEF ReadNothing, Fail, TypeOK, Counts, Programs, Results, boardVars
<1>6. CASE SerialFails
  BY <1>6 DEF SerialFails, Fail, TypeOK, Counts, Programs, Results, boardVars
<1>7. CASE BlockSent
  <2>1. events' \in Seq(EventPayload)
    BY <1>7, RunnerEventsAreEvents DEF BlockSent, Emit, TypeOK
  <2>2. Image \in {"preloader", "fip"}
    BY DEF Image
  <2>3. stored' \subseteq {"preloader", "fip"} \X BoardStages
    BY <1>7, <2>2 DEF BlockSent, TypeOK
  <2>4. sent' \in 0..Blocks /\ attempts = attempts'
    BY <1>7 DEF BlockSent, TypeOK, Counts, Programs
  <2> QED
    BY <1>7, <2>1, <2>3, <2>4 DEF BlockSent, TypeOK, Counts, Programs
<1>8. CASE BlockFails
  BY <1>8 DEF BlockFails, Fail, TypeOK, Counts, Programs, Results, boardVars
<1>9. CASE WriteEot
  BY <1>9 DEF WriteEot, TypeOK, Counts, Programs, boardVars
<1>10. CASE EotAcked
  <2>1. events' \in Seq(EventPayload)
    <3>1. <<"XmodemCompleted", Transfer, FALSE>> \in EventPayload
      BY RunnerEventsAreEvents DEF TypeOK
    <3> QED
      BY <1>10, <3>1 DEF EotAcked, Emit, TypeOK
  <2>2. state \in Sends /\ state' \in States /\ state' \notin Sends
    BY <1>10 DEF EotAcked, Counts, States, After, Sends
  <2> QED
    BY <1>10, <2>1, <2>2 DEF EotAcked, TypeOK, Counts, Programs, boardVars
<1>11. CASE EotNaked
  <2>1. state \in Sends /\ After[state] \in States /\ After[state] \notin Sends
    BY <1>11 DEF EotNaked, Counts, States, After, Sends
  <2>2. toHost' \in Seq(Tokens \cup Answers)
    BY <1>11 DEF EotNaked, TypeOK
  <2>3. CASE attempts < EotRetryLimit
    BY <1>11, <2>1, <2>2, <2>3 DEF EotNaked, TypeOK, Counts, Programs, boardVars
  <2>4. CASE ~(attempts < EotRetryLimit)
    BY <1>11, <2>1, <2>2, <2>4 DEF EotNaked, ExcuseEot, TypeOK, Counts, Programs, boardVars
  <2> QED
    BY <2>3, <2>4
<1>12. CASE EotTimesOut
  <2>1. state \in Sends /\ After[state] \in States /\ After[state] \notin Sends
    BY <1>12 DEF EotTimesOut, Counts, States, After, Sends
  <2> QED
    BY <1>12, <2>1 DEF EotTimesOut, ExcuseEot, TypeOK, Counts, Programs, boardVars
<1>13. CASE EotRejected
  BY <1>13 DEF EotRejected, Fail, TypeOK, Counts, Programs, Results, boardVars
<1>14. CASE PowerOn
  BY <1>14, BannersAreTokens DEF PowerOn, Boot, TypeOK, Counts, Programs, runnerVars, BoardStages
<1>15. CASE Transmit
  BY <1>15 DEF Transmit, TypeOK, Counts, Programs, runnerVars
<1>16. CASE LogOn
  BY <1>16 DEF LogOn, TypeOK, Counts, Programs, runnerVars, boardVars, Tokens
<1>17. CASE TakeX
  <2>1. toBoard' \in Seq({"x", "EOT"})
    BY <1>17 DEF TakeX, TypeOK
  <2>2. <<TEXT, CRC, CRC, CRC>> \in Seq(Tokens \cup Answers)
    BY DEF Tokens
  <2>3. output \in Seq(Tokens \cup Answers) /\ output \o <<TEXT, CRC, CRC, CRC>> \in Seq(Tokens \cup Answers)
    BY <2>2 DEF TypeOK
  <2>4. mode' \in {"silent", "prompt", "ready", "receive", "shell"} /\ output' \in Seq(Tokens \cup Answers)
    BY <1>17, <2>3 DEF TakeX, TypeOK
  <2> QED
    BY <1>17, <2>1, <2>4 DEF TakeX, TypeOK, Counts, Programs, runnerVars
<1>18. CASE RepeatC
  BY <1>18 DEF RepeatC, TypeOK, Counts, Programs, runnerVars, Tokens
<1>19. CASE TakeEot
  <2>1. toBoard' \in Seq({"x", "EOT"})
    BY <1>19 DEF TakeEot, TypeOK
  <2>2. CASE /\ mode = "receive" /\ Boot(NextStage[stage])
             /\ \E banner \in Banner[NextStage[stage]] :
                   \/ output' = output \o <<ACK>> \o banner
                   \/ output' = output \o banner
    <3>1. stage \in {"bootrom", "bl2"}
      BY <2>2 DEF Programs
    <3>2. stage' \in {"bl2", "uboot"} /\ NextStage[stage] = stage'
      BY <2>2, <3>1 DEF Boot, NextStage
    <3>3. PICK banner \in Banner[NextStage[stage]] :
             output' = output \o <<ACK>> \o banner \/ output' = output \o banner
      BY <2>2
    <3>4. banner \in Seq(Tokens \cup Answers) /\ <<ACK>> \in Seq(Tokens \cup Answers)
      BY <3>2, <3>3, BannersAreTokens DEF Answers
    <3>5. output' \in Seq(Tokens \cup Answers)
      <4>1. output \in Seq(Tokens \cup Answers)
        BY DEF TypeOK
      <4>2. output \o <<ACK>> \in Seq(Tokens \cup Answers) /\ output \o banner \in Seq(Tokens \cup Answers)
        BY <3>4, <4>1
      <4>3. output \o <<ACK>> \o banner \in Seq(Tokens \cup Answers)
        BY <3>4, <4>2
      <4> QED
        BY <3>3, <4>2, <4>3
    <3> QED
      BY <1>19, <2>1, <2>2, <3>2, <3>5 DEF TakeEot, Boot, TypeOK, Counts, Programs, runnerVars, BoardStages
  <2>4. CASE output' = Append(output, NAK) /\ UNCHANGED <<stage, mode, extra, stored>>
    BY <1>19, <2>1, <2>4 DEF TakeEot, TypeOK, Counts, Programs, runnerVars, Answers
  <2>3. CASE UNCHANGED boardVars
    BY <1>19, <2>1, <2>3 DEF TakeEot, TypeOK, Counts, Programs, runnerVars, boardVars
  <2> QED
    BY <1>19, <2>2, <2>3, <2>4 DEF TakeEot
<1>20. CASE UNCHANGED vars
  BY <1>20 DEF vars, TypeOK, Counts, Programs
<1> QED
  BY <1>1, <1>2, <1>3, <1>4, <1>5, <1>6, <1>7, <1>8, <1>9, <1>10, <1>11, <1>12, <1>13, <1>14, <1>15,
     <1>16, <1>17, <1>18, <1>19, <1>20 DEF Next, Runner, Board

\* Every variable keeps its type, for images of any length and every limit and timeout.
THEOREM TypeCorrect == Spec => []TypeOK
<1>1. TypeOK /\ Counts /\ Programs => TypeOK
  OBVIOUS
<1> QED
  BY <1>1, TypesStart, TypesStep, PTL DEF Spec

-----------------------------------------------------------------------------
(* The order of what is printed *)

\* A token is found in a sequence, and one after another.
Has(seq, token) == \E i \in 1..Len(seq) : seq[i] = token
InOrder(seq, first, second) == \E i, j \in 1..Len(seq) : i < j /\ seq[i] = first /\ seq[j] = second

\* The same of all that the board has printed: what the program has read, what is on the wire and
\* what the board has still to send.
Printed(token) == Has(console, token) \/ Has(toHost, token) \/ Has(output, token)
Follows(first, second) ==
    \/ InOrder(console, first, second) \/ InOrder(toHost, first, second) \/ InOrder(output, first, second)
    \/ Has(console, first) /\ (Has(toHost, second) \/ Has(output, second))
    \/ Has(toHost, first) /\ Has(output, second)

\* The tokens that tell the programs of the board apart.
Marks == {PRESS, LOAD, UBOOT, CRC}

NothingNew ==
    \A first, second \in Marks :
        /\ Printed(second)' => Printed(second)
        /\ Follows(first, second)' => Follows(first, second)

LEMMA OrderInTail ==
    ASSUME NEW S, NEW seq \in Seq(S), seq # <<>>, NEW first, NEW second
    PROVE  /\ Has(Tail(seq), second) => Has(seq, second)
           /\ InOrder(Tail(seq), first, second) => InOrder(seq, first, second)
           /\ Head(seq) = first /\ Has(Tail(seq), second) => InOrder(seq, first, second)
           /\ Has(seq, Head(seq))
<1>1. /\ Len(Tail(seq)) = Len(seq) - 1 /\ Len(seq) \in Nat /\ Len(seq) >= 1 /\ Head(seq) = seq[1]
      /\ \A i \in 1..Len(seq) - 1 : Tail(seq)[i] = seq[i + 1]
  OBVIOUS
<1>2. \A i \in 1..Len(seq) - 1 : i + 1 \in 1..Len(seq) /\ 1 < i + 1
  BY <1>1
<1> QED
  BY <1>1, <1>2 DEF Has, InOrder

LEMMA OrderInConcatenation ==
    ASSUME NEW S, NEW seq \in Seq(S), NEW more \in Seq(S), NEW first, NEW second
    PROVE  /\ Has(seq \o more, second) => Has(seq, second) \/ Has(more, second)
           /\ InOrder(seq \o more, first, second) =>
                 \/ InOrder(seq, first, second) \/ InOrder(more, first, second)
                 \/ Has(seq, first) /\ Has(more, second)
<1>1. Len(seq \o more) = Len(seq) + Len(more) /\ Len(seq) \in Nat /\ Len(more) \in Nat
  OBVIOUS
<1>2. \A i \in 1..Len(seq \o more) :
         \/ i \in 1..Len(seq) /\ (seq \o more)[i] = seq[i]
         \/ i > Len(seq) /\ i - Len(seq) \in 1..Len(more) /\ (seq \o more)[i] = more[i - Len(seq)]
  OBVIOUS
<1> DEFINE both == seq \o more
<1> HIDE DEF both
<1>3. Has(both, second) => Has(seq, second) \/ Has(more, second)
  BY <1>2 DEF Has, both
<1>4. InOrder(both, first, second) =>
         InOrder(seq, first, second) \/ InOrder(more, first, second) \/ (Has(seq, first) /\ Has(more, second))
  <2> SUFFICES ASSUME NEW i \in 1..Len(both), NEW j \in 1..Len(both), i < j, both[i] = first, both[j] = second
               PROVE  InOrder(seq, first, second) \/ InOrder(more, first, second) \/ (Has(seq, first) /\ Has(more, second))
    BY DEF InOrder
  <2>1. CASE i > Len(seq)
    <3> DEFINE k == i - Len(seq)
    <3> DEFINE l == j - Len(seq)
    <3>1. i \in Nat /\ j \in Nat /\ Len(both) \in Nat /\ j > Len(seq)
      BY <1>1, <2>1 DEF both
    <3>2. k \in 1..Len(more) /\ l \in 1..Len(more) /\ k < l
      BY <1>1, <1>2, <2>1, <3>1 DEF both
    <3>3. more[k] = first /\ more[l] = second
      BY <1>1, <1>2, <2>1, <3>1 DEF both
    <3> HIDE DEF k, l
    <3> QED
      BY <3>2, <3>3 DEF InOrder
  <2>2. CASE i <= Len(seq) /\ j > Len(seq)
    BY <1>1, <1>2, <2>2 DEF Has, both
  <2>3. CASE i <= Len(seq) /\ j <= Len(seq)
    <3>1. i \in 1..Len(seq) /\ j \in 1..Len(seq) /\ seq[i] = first /\ seq[j] = second
      BY <1>1, <1>2, <2>3 DEF both
    <3> QED
      BY <3>1 DEF InOrder
  <2> QED
    BY <1>1, <2>1, <2>2, <2>3 DEF both
<1> QED
  BY <1>3, <1>4 DEF both

\* Sending what is printed, and reading it, prints nothing.
LEMMA TransmitPrintsNothing ==
    ASSUME TypeOK, Transmit
    PROVE  NothingNew
<1> SUFFICES ASSUME NEW first \in Marks, NEW second \in Marks
             PROVE  (Printed(second)' => Printed(second)) /\ (Follows(first, second)' => Follows(first, second))
  BY DEF NothingNew
<1> DEFINE S == Tokens \cup Answers
<1>1. toHost \in Seq(S) /\ output \in Seq(S) /\ output # <<>> /\ <<Head(output)>> \in Seq(S)
  BY DEF TypeOK, Transmit
<1>2. toHost' = toHost \o <<Head(output)>> /\ output' = Tail(output) /\ console' = console
  BY <1>1 DEF Transmit, runnerVars
<1>3. \A t : Has(<<Head(output)>>, t) => t = Head(output)
  BY DEF Has
<1>4. ~InOrder(<<Head(output)>>, first, second)
  BY DEF InOrder
<1> HIDE DEF S
<1>5. \A t : Has(toHost', t) => Has(toHost, t) \/ t = Head(output)
  BY <1>1, <1>2, <1>3, OrderInConcatenation
<1>6. InOrder(toHost', first, second) => InOrder(toHost, first, second) \/ (Has(toHost, first) /\ second = Head(output))
  <2>1. InOrder(toHost \o <<Head(output)>>, first, second) =>
           \/ InOrder(toHost, first, second) \/ InOrder(<<Head(output)>>, first, second)
           \/ Has(toHost, first) /\ Has(<<Head(output)>>, second)
    BY <1>1, OrderInConcatenation
  <2> QED
    BY <1>2, <1>3, <1>4, <2>1
<1>7. /\ Has(output', second) => Has(output, second)
      /\ InOrder(output', first, second) => InOrder(output, first, second)
      /\ Head(output) = first /\ Has(output', second) => InOrder(output, first, second)
      /\ Has(output, Head(output))
  BY <1>1, <1>2, OrderInTail
<1> QED
  BY <1>2, <1>5, <1>6, <1>7 DEF Printed, Follows

LEMMA ReadPrintsNothing ==
    ASSUME TypeOK, ReadData
    PROVE  NothingNew
<1> SUFFICES ASSUME NEW first \in Marks, NEW second \in Marks
             PROVE  (Printed(second)' => Printed(second)) /\ (Follows(first, second)' => Follows(first, second))
  BY DEF NothingNew
<1>1. first # CTL /\ second # CTL
  BY DEF Marks, PRESS, LOAD, UBOOT, CRC, CTL
<1>2. PICK n \in 1..Len(toHost) :
         /\ console' = Joined(console, Heard(n))
         /\ toHost' = SubSeq(toHost, n + 1, Len(toHost))
  BY DEF ReadData, Heard
<1>3. Extends(console', console, toHost, n) /\ output' = output /\ console' \in Seq(Tokens)
  BY <1>2, ReadExtends DEF TypeOK, ReadData, boardVars
<1>4. /\ Len(toHost) \in Nat /\ Len(console) \in Nat /\ Len(console') \in Nat /\ n \in Nat
      /\ Len(toHost') = Len(toHost) - n
      /\ \A i \in 1..Len(toHost') : i + n \in 1..Len(toHost) /\ i + n > n /\ toHost'[i] = toHost[i + n]
  <2>1. toHost \in Seq(Tokens \cup Answers) /\ Len(toHost) \in Nat /\ n \in Nat /\ n <= Len(toHost) /\ n >= 1
    BY DEF TypeOK
  <2>2. Len(console) \in Nat /\ Len(console') \in Nat
    BY <1>3 DEF TypeOK
  <2>3. Len(toHost') = Len(toHost) - n
    BY <1>2, <2>1
  <2>4. \A i \in 1..Len(toHost) - n : toHost'[i] = toHost[i + n]
    BY <1>2, <2>1
  <2> QED
    BY <2>1, <2>2, <2>3, <2>4
<1>5. PICK skipped \in {0, 1} : \A i \in Len(console) + 1..Len(console') :
         LET k == i - Len(console) + skipped
         IN  k \in 1..n /\ (console'[i] = toHost[k] \/ console'[i] = CTL)
  BY <1>3 DEF Extends
<1>6. \A i \in 1..Len(console') :
         \/ i \in 1..Len(console) /\ console'[i] = console[i]
         \/ i > Len(console) /\ i - Len(console) + skipped \in 1..n
            /\ (console'[i] = toHost[i - Len(console) + skipped] \/ console'[i] = CTL)
  BY <1>3, <1>4, <1>5 DEF Extends
<1>7. \A t \in Marks : Has(console', t) => Has(console, t) \/ \E k \in 1..n : toHost[k] = t
  BY <1>6 DEF Has, Marks, PRESS, LOAD, UBOOT, CRC, CTL
<1>8. InOrder(console', first, second) =>
         InOrder(console, first, second) \/ (Has(console, first) /\ Has(toHost, second)) \/ InOrder(toHost, first, second)
  <2> SUFFICES ASSUME NEW i \in 1..Len(console'), NEW j \in 1..Len(console'), i < j,
                      console'[i] = first, console'[j] = second
               PROVE  InOrder(console, first, second) \/ (Has(console, first) /\ Has(toHost, second))
                      \/ InOrder(toHost, first, second)
    BY DEF InOrder
  <2>1. CASE i > Len(console)
    <3> DEFINE k == i - Len(console) + skipped
    <3> DEFINE l == j - Len(console) + skipped
    <3>1. j > Len(console) /\ k < l
      BY <1>4, <2>1
    <3>2. k \in 1..n /\ toHost[k] = first /\ l \in 1..n /\ toHost[l] = second
      BY <1>1, <1>4, <1>6, <2>1, <3>1
    <3> HIDE DEF k, l
    <3>3. k \in 1..Len(toHost) /\ l \in 1..Len(toHost)
      BY <1>4, <3>2
    <3> QED
      BY <3>1, <3>2, <3>3 DEF InOrder
  <2>2. CASE i <= Len(console) /\ j > Len(console)
    <3>1. i \in 1..Len(console) /\ console[i] = first
      <4>1. i \in Nat /\ ~(i > Len(console))
        BY <1>4, <2>2
      <4> QED
        BY <1>6, <4>1
    <3> DEFINE l == j - Len(console) + skipped
    <3>2. l \in 1..n /\ toHost[l] = second
      BY <1>1, <1>4, <1>6, <2>2
    <3>3. l \in 1..Len(toHost)
      BY <1>4, <3>2
    <3> HIDE DEF l
    <3> QED
      BY <3>1, <3>2, <3>3 DEF Has
  <2>3. CASE i <= Len(console) /\ j <= Len(console)
    <3>1. i \in 1..Len(console) /\ console[i] = first /\ j \in 1..Len(console) /\ console[j] = second
      BY <1>4, <1>6, <2>3
    <3> QED
      BY <3>1 DEF InOrder
  <2> QED
    BY <1>4, <2>1, <2>2, <2>3
<1>9. /\ Has(toHost', second) => \E k \in 1..Len(toHost) : k > n /\ toHost[k] = second
      /\ Has(toHost', first) => Has(toHost, first)
      /\ InOrder(toHost', first, second) => InOrder(toHost, first, second)
  <2>1. \A i, j \in 1..Len(toHost') : i < j => i + n < j + n
    BY <1>4
  <2> QED
    BY <1>4, <2>1 DEF Has, InOrder
<1>10. 1..n \subseteq 1..Len(toHost)
  BY <1>4
<1>11. Printed(second)' => Printed(second)
  BY <1>3, <1>7, <1>9, <1>10 DEF Printed, Has
<1>12. Has(console', first) /\ Has(toHost', second) => Follows(first, second)
  BY <1>4, <1>7, <1>9, <1>10 DEF Follows, Has, InOrder
<1>13. Has(console', first) /\ Has(output', second) => Follows(first, second)
  BY <1>3, <1>7, <1>10 DEF Follows, Has
<1> QED
  BY <1>3, <1>8, <1>9, <1>11, <1>12, <1>13 DEF Follows

\* The runner takes an answer off the wire.
LEMMA TakingPrintsNothing ==
    ASSUME TypeOK, UNCHANGED <<console, output>>, toHost' = toHost \/ (toHost # <<>> /\ toHost' = Tail(toHost))
    PROVE  NothingNew
<1>1. CASE toHost' = toHost
  BY <1>1 DEF NothingNew, Printed, Follows
<1>2. CASE toHost # <<>> /\ toHost' = Tail(toHost)
  <2>1. \A first, second : /\ Has(toHost', second) => Has(toHost, second)
                           /\ InOrder(toHost', first, second) => InOrder(toHost, first, second)
    BY <1>2, OrderInTail DEF TypeOK
  <2> QED
    BY <2>1 DEF NothingNew, Printed, Follows
<1> QED
  BY <1>1, <1>2

\* What the board prints follows all that was printed before.
LEMMA BoardPrints ==
    ASSUME TypeOK, NEW more \in Seq(Tokens \cup Answers), UNCHANGED <<console, toHost>>,
           output' = more \/ output' = output \o more, NEW first, NEW second
    PROVE  /\ Printed(second)' => Printed(second) \/ Has(more, second)
           /\ Follows(first, second)' =>
                 Follows(first, second) \/ InOrder(more, first, second) \/ (Printed(first) /\ Has(more, second))
<1>1. output \in Seq(Tokens \cup Answers)
  BY DEF TypeOK
<1>2. /\ Has(output', second) => Has(output, second) \/ Has(more, second)
      /\ InOrder(output', first, second) =>
            InOrder(output, first, second) \/ InOrder(more, first, second) \/ (Has(output, first) /\ Has(more, second))
  <2>1. /\ Has(output \o more, second) => Has(output, second) \/ Has(more, second)
        /\ InOrder(output \o more, first, second) =>
              InOrder(output, first, second) \/ InOrder(more, first, second) \/ (Has(output, first) /\ Has(more, second))
    BY <1>1, OrderInConcatenation
  <2> QED
    BY <2>1
<1>3. console' = console /\ toHost' = toHost
  OBVIOUS
<1> QED
  BY <1>2, <1>3 DEF Printed, Follows

\* Each program of the board prints its own marks, after those of the programs before it: x prompts
\* come from the boot ROM on, the continuation of the stage 2 prompt from BL2 on, a C only from a
\* program that has taken its x, and what firmware printed before the reset is never after a
\* prompt for x.
Order ==
    /\ Printed(PRESS) => stage \in {"bootrom", "bl2", "uboot"}
    /\ Printed(LOAD) => stage \in {"bl2", "uboot"}
    /\ Printed(CRC) => stage \in {"bl2", "uboot"} \/ (stage = "bootrom" /\ mode # "prompt")
    /\ Follows(LOAD, CRC) => stage = "uboot" \/ (stage = "bl2" /\ mode # "prompt")
    /\ Follows(PRESS, UBOOT) => stage = "uboot"

\* The board is off or runs its old firmware when the program starts: it is at no prompt for x.
Reset == InitialBoards \subseteq {"off", "shell"}

LEMMA MarksDiffer ==
    /\ PRESS \in Marks /\ LOAD \in Marks /\ UBOOT \in Marks /\ CRC \in Marks
    /\ PRESS # LOAD /\ PRESS # UBOOT /\ PRESS # CRC /\ LOAD # UBOOT /\ LOAD # CRC /\ UBOOT # CRC
    /\ \A mark \in Marks : mark \notin {CTL, TEXT, SPACE, ACK, NAK, CAN}
  BY DEF Marks, PRESS, LOAD, UBOOT, CRC, CTL, TEXT, SPACE, ACK, NAK, CAN

\* What follows a token was printed, and so was the token.
LEMMA FollowersArePrinted ==
    ASSUME NEW first, NEW second, Follows(first, second)
    PROVE  Printed(first) /\ Printed(second)
  BY DEF Follows, Printed, InOrder, Has

\* What a short sequence holds.
LEMMA ShortSequences ==
    /\ \A a, t : Has(<<a>>, t) => t = a
    /\ \A a, b, t : Has(<<a, b>>, t) => t \in {a, b}
    /\ \A a, b, c, t : Has(<<a, b, c>>, t) => t \in {a, b, c}
    /\ \A a, b, c, d, t : Has(<<a, b, c, d>>, t) => t \in {a, b, c, d}
    /\ \A a, b, c, d, e, t : Has(<<a, b, c, d, e>>, t) => t \in {a, b, c, d, e}
<1>1. /\ 1..1 = {1} /\ 1..2 = {1, 2} /\ 1..3 = {1, 2, 3} /\ 1..4 = {1, 2, 3, 4} /\ 1..5 = {1, 2, 3, 4, 5}
  OBVIOUS
<1>2. \A a, t : Has(<<a>>, t) => t = a
  BY <1>1 DEF Has
<1>3. \A a, b, t : Has(<<a, b>>, t) => t \in {a, b}
  BY <1>1 DEF Has
<1>4. \A a, b, c, t : Has(<<a, b, c>>, t) => t \in {a, b, c}
  BY <1>1 DEF Has
<1>5. \A a, b, c, d, t : Has(<<a, b, c, d>>, t) => t \in {a, b, c, d}
  BY <1>1 DEF Has
<1>6. \A a, b, c, d, e, t : Has(<<a, b, c, d, e>>, t) => t \in {a, b, c, d, e}
  BY <1>1 DEF Has
<1> QED
  BY <1>2, <1>3, <1>4, <1>5, <1>6

LEMMA OrderStart == Init /\ Reset => Order
<1> SUFFICES ASSUME Init, Reset PROVE Order
  OBVIOUS
<1>1. console = <<>> /\ toHost = <<>> /\ stage \in {"off", "shell"}
  BY DEF Init, Reset
<1>2. output = <<>> \/ output = <<UBOOT, SPACE>>
  BY <1>1 DEF Init, Banner
<1>3. ~Printed(PRESS) /\ ~Printed(LOAD) /\ ~Printed(CRC)
  <2>1. \A t : Has(output, t) => t = UBOOT \/ t = SPACE
    <3>1. CASE output = <<>>
      BY <3>1 DEF Has
    <3>2. CASE output = <<UBOOT, SPACE>>
      BY <3>2, ShortSequences
    <3> QED
      BY <1>2, <3>1, <3>2
  <2>2. \A t : ~Has(console, t) /\ ~Has(toHost, t)
    BY <1>1 DEF Has
  <2> QED
    BY <2>1, <2>2, MarksDiffer DEF Printed
<1>4. ~Follows(LOAD, CRC) /\ ~Follows(PRESS, UBOOT)
  BY <1>3, FollowersArePrinted
<1> QED
  BY <1>3, <1>4 DEF Order

LEMMA OrderKept ==
    ASSUME Order, NothingNew, stage' = stage, mode' = mode \/ mode' # "prompt"
    PROVE  Order'
  BY MarksDiffer DEF Order, NothingNew

\* The marks of what the board prints in answer to the program, and when it is reset.
LEMMA BannerMarks ==
    /\ \A banner \in Banner["bootrom"] :
          /\ banner \in Seq(Tokens) /\ ~Has(banner, LOAD) /\ ~Has(banner, CRC) /\ ~Has(banner, UBOOT)
    /\ \A banner \in Banner["bl2"] :
          /\ banner \in Seq(Tokens) /\ ~Has(banner, CRC) /\ ~Has(banner, UBOOT)
<1>1. Banner["bootrom"] \subseteq Seq(Tokens) /\ Banner["bl2"] \subseteq Seq(Tokens)
  BY BannersAreTokens
<1>2. /\ Banner["bootrom"] = {<<PRESS, CTL>>, <<TEXT, PRESS, CTL>>}
      /\ Banner["bl2"] = {<<PRESS, LOAD, CTL>>, <<TEXT, CTL, PRESS, LOAD, CTL>>}
  BY DEF Banner
<1>3. \A t \in {LOAD, CRC, UBOOT} : ~Has(<<PRESS, CTL>>, t) /\ ~Has(<<TEXT, PRESS, CTL>>, t)
  BY ShortSequences, MarksDiffer
<1>4. \A t \in {CRC, UBOOT} : ~Has(<<PRESS, LOAD, CTL>>, t) /\ ~Has(<<TEXT, CTL, PRESS, LOAD, CTL>>, t)
  BY ShortSequences, MarksDiffer
<1> QED
  BY <1>1, <1>2, <1>3, <1>4

LEMMA OrderStep == TypeOK /\ Counts /\ Programs /\ Order /\ [Next]_vars => Order'
<1> SUFFICES ASSUME TypeOK, Counts, Programs, Order, [Next]_vars PROVE Order'
  OBVIOUS
<1>1. CASE PromptFound \/ SendX \/ CrcFound \/ ReadNothing \/ SerialFails \/ BlockSent \/ BlockFails
           \/ WriteEot \/ EotAcked \/ EotNaked \/ EotTimesOut \/ EotRejected \/ UNCHANGED vars
  <2>1. UNCHANGED <<console, output, stage>> /\ (mode' = mode \/ mode' = "receive")
    BY <1>1 DEF PromptFound, SendX, CrcFound, ReadNothing, SerialFails, BlockSent, BlockFails, WriteEot,
                EotAcked, EotNaked, EotTimesOut, EotRejected, ExcuseEot, Fail, boardVars, vars
  <2>2. toHost' = toHost \/ (toHost # <<>> /\ toHost' = Tail(toHost))
    BY <1>1 DEF PromptFound, SendX, CrcFound, ReadNothing, SerialFails, BlockSent, BlockFails, WriteEot,
                EotAcked, EotNaked, EotTimesOut, EotRejected, ExcuseEot, Fail, vars
  <2> QED
    BY <2>1, <2>2, TakingPrintsNothing, OrderKept
<1>2. CASE ReadData
  BY <1>2, ReadPrintsNothing, OrderKept DEF ReadData, boardVars
<1>3. CASE Transmit
  BY <1>3, TransmitPrintsNothing, OrderKept DEF Transmit
<1>4. CASE PowerOn
  <2>1. PICK banner \in Banner["bootrom"] : output' = banner
    BY <1>4 DEF PowerOn
  <2>2. banner \in Seq(Tokens \cup Answers)
    BY BannerMarks
  <2>3. UNCHANGED <<console, toHost>> /\ stage' = "bootrom" /\ stage \in {"off", "shell"}
    BY <1>4 DEF PowerOn, Boot, runnerVars
  <2>4. ~Printed(PRESS) /\ ~Printed(LOAD) /\ ~Printed(CRC)
    BY <2>3 DEF Order
  <2>5. ~Printed(LOAD)' /\ ~Printed(CRC)'
    BY <2>1, <2>2, <2>3, <2>4, BoardPrints, BannerMarks
  <2>6. ~Follows(PRESS, UBOOT)'
    <3>1. ~InOrder(banner, PRESS, UBOOT)
      BY <2>1, BannerMarks DEF InOrder, Has
    <3>2. ~Follows(PRESS, UBOOT)
      BY <2>4, FollowersArePrinted
    <3> QED
      BY <2>1, <2>2, <2>3, <2>4, <3>1, <3>2, BoardPrints
  <2>7. ~Follows(LOAD, CRC)'
    <3>1. ~InOrder(banner, LOAD, CRC)
      BY <2>1, BannerMarks DEF InOrder, Has
    <3>2. ~Follows(LOAD, CRC)
      BY <2>4, FollowersArePrinted
    <3> QED
      BY <2>1, <2>2, <2>3, <2>4, <3>1, <3>2, BoardPrints
  <2> QED
    BY <2>3, <2>5, <2>6, <2>7 DEF Order
<1>5. CASE LogOn
  <2>1. toHost = <<>> /\ toHost' = <<TEXT>> /\ UNCHANGED <<console, output, stage, mode>>
    BY <1>5 DEF LogOn, runnerVars, boardVars
  <2>2. \A first, second \in Marks : ~Has(toHost', second) /\ ~InOrder(toHost', first, second)
    BY <2>1, MarksDiffer DEF Has, InOrder
  <2>3. NothingNew
    BY <2>1, <2>2 DEF NothingNew, Printed, Follows
  <2> QED
    BY <2>1, <2>3, OrderKept
<1>6. CASE TakeX
  <2>1. CASE UNCHANGED <<mode, output>>
    <3>1. NothingNew /\ stage' = stage
      BY <1>6, <2>1 DEF TakeX, runnerVars, NothingNew, Printed, Follows
    <3> QED
      BY <2>1, <3>1, OrderKept
  <2>2. CASE mode = "prompt" /\ stage \in {"bootrom", "bl2"}
    <3> DEFINE more == <<TEXT, CRC, CRC, CRC>>
    <3>1. /\ output' = output \o more /\ mode' = "ready" /\ UNCHANGED <<console, toHost, stage>>
      BY <1>6, <2>2 DEF TakeX, runnerVars
    <3>2. more \in Seq(Tokens \cup Answers)
      BY DEF Tokens
    <3>3. \A t \in {PRESS, LOAD, UBOOT} : ~Has(more, t)
      BY ShortSequences, MarksDiffer
    <3>4. ~InOrder(more, LOAD, CRC) /\ ~InOrder(more, PRESS, UBOOT)
      BY <3>3 DEF InOrder, Has
    <3> HIDE DEF more
    <3>5. (Printed(PRESS)' => Printed(PRESS)) /\ (Printed(LOAD)' => Printed(LOAD))
      BY <3>1, <3>2, <3>3, BoardPrints
    <3>6. Follows(LOAD, CRC)' => Printed(LOAD)
      BY <3>1, <3>2, <3>4, BoardPrints, FollowersArePrinted
    <3>7. Follows(PRESS, UBOOT)' => Follows(PRESS, UBOOT)
      BY <3>1, <3>2, <3>3, <3>4, BoardPrints
    <3> QED
      BY <2>2, <3>1, <3>5, <3>6, <3>7 DEF Order
  <2> QED
    BY <1>6, <2>1, <2>2 DEF TakeX
<1>7. CASE RepeatC
  <2>1. output' = <<CRC>> /\ mode = "ready" /\ UNCHANGED <<console, toHost, stage, mode>>
        /\ stage \in {"bootrom", "bl2"}
    BY <1>7 DEF RepeatC, runnerVars, Programs
  <2>2. <<CRC>> \in Seq(Tokens \cup Answers)
    BY DEF Tokens
  <2>3. \A t \in {PRESS, LOAD, UBOOT} : ~Has(<<CRC>>, t)
    BY ShortSequences, MarksDiffer
  <2>4. ~InOrder(<<CRC>>, LOAD, CRC) /\ ~InOrder(<<CRC>>, PRESS, UBOOT)
    BY DEF InOrder
  <2>5. (Printed(PRESS)' => Printed(PRESS)) /\ (Printed(LOAD)' => Printed(LOAD))
    BY <2>1, <2>2, <2>3, BoardPrints
  <2>6. Follows(LOAD, CRC)' => Printed(LOAD)
    BY <2>1, <2>2, <2>4, BoardPrints, FollowersArePrinted
  <2>7. Follows(PRESS, UBOOT)' => Follows(PRESS, UBOOT)
    BY <2>1, <2>2, <2>3, <2>4, BoardPrints
  <2> QED
    BY <2>1, <2>5, <2>6, <2>7 DEF Order
<1>8. CASE TakeEot
  <2>0. UNCHANGED <<console, toHost>>
    BY <1>8 DEF TakeEot, runnerVars
  <2>1. CASE UNCHANGED boardVars
    <3>1. NothingNew
      BY <2>0, <2>1 DEF boardVars, NothingNew, Printed, Follows
    <3> QED
      BY <2>1, <3>1, OrderKept DEF boardVars
  <2>2. CASE output' = Append(output, NAK) /\ UNCHANGED <<stage, mode, extra, stored>>
    <3>1. output' = output \o <<NAK>> /\ <<NAK>> \in Seq(Tokens \cup Answers)
      BY <2>2 DEF TypeOK, Answers
    <3>2. \A first, second \in Marks : ~Has(<<NAK>>, second) /\ ~InOrder(<<NAK>>, first, second)
      BY MarksDiffer DEF Has, InOrder
    <3>3. NothingNew
      BY <2>0, <3>1, <3>2, BoardPrints DEF NothingNew
    <3> QED
      BY <2>2, <3>3, OrderKept
  <2>3. CASE /\ mode = "receive" /\ Boot(NextStage[stage])
             /\ \E banner \in Banner[NextStage[stage]] :
                   \/ output' = output \o <<ACK>> \o banner
                   \/ output' = output \o banner
    <3>1. CASE stage = "bl2"
      BY <2>3, <3>1 DEF Boot, NextStage, Order
    <3>2. CASE stage = "bootrom"
      <4>1. stage' = "bl2" /\ NextStage[stage] = "bl2"
        BY <2>3, <3>2 DEF Boot, NextStage
      <4>2. PICK banner \in Banner["bl2"] :
               output' = output \o <<ACK>> \o banner \/ output' = output \o banner
        BY <2>3, <4>1
      <4>3. banner \in Seq(Tokens \cup Answers) /\ ~Has(banner, CRC) /\ ~Has(banner, UBOOT)
        BY <4>2, BannerMarks
      <4>4. PICK more \in Seq(Tokens \cup Answers) :
               output' = output \o more /\ ~Has(more, CRC) /\ ~Has(more, UBOOT)
        <5>1. /\ <<ACK>> \in Seq(Tokens \cup Answers)
              /\ ~Has(<<ACK>>, CRC) /\ ~Has(<<ACK>>, UBOOT)
          BY DEF Has, Answers, ACK, CRC, UBOOT
        <5>2. <<ACK>> \o banner \in Seq(Tokens \cup Answers)
              /\ output \o <<ACK>> \o banner = output \o (<<ACK>> \o banner)
          <6>1. output \in Seq(Tokens \cup Answers) /\ banner \in Seq(Tokens \cup Answers)
            BY <4>3 DEF TypeOK
          <6> QED
            BY <5>1, <6>1, Concatenation
        <5>3. ~Has(<<ACK>> \o banner, CRC) /\ ~Has(<<ACK>> \o banner, UBOOT)
          BY <4>3, <5>1, OrderInConcatenation
        <5> QED
          BY <4>2, <4>3, <5>2, <5>3
      <4>5. ~Printed(LOAD)
        BY <3>2 DEF Order
      <4>6. ~InOrder(more, LOAD, CRC) /\ ~InOrder(more, PRESS, UBOOT)
        BY <4>4 DEF InOrder, Has
      <4>7. ~Follows(LOAD, CRC)'
        BY <2>0, <4>4, <4>5, <4>6, BoardPrints, FollowersArePrinted
      <4>8. Follows(PRESS, UBOOT)' => Follows(PRESS, UBOOT)
        BY <2>0, <4>4, <4>6, BoardPrints
      <4>9. ~Follows(PRESS, UBOOT)
        BY <3>2 DEF Order
      <4> QED
        BY <4>1, <4>7, <4>8, <4>9 DEF Order
    <3> QED
      BY <2>3, <3>1, <3>2 DEF Programs
  <2> QED
    BY <1>8, <2>1, <2>2, <2>3 DEF TakeEot
<1> QED
  BY <1>1, <1>2, <1>3, <1>4, <1>5, <1>6, <1>7, <1>8 DEF Next, Runner, Board

-----------------------------------------------------------------------------
(* The rounds *)

SecondRound == {"SendXForFip", "WaitForXmodemCrcFip", "SendFip", "WaitForUbootPrompt", "Complete"}

\* Behind the cursor lie the prompts that have been answered.
Consumed ==
    /\ state # "WaitForInitialPrompt" => \E i \in 1..cursor : console[i] = PRESS
    /\ state \in SecondRound => \E i \in 1..cursor : console[i] = LOAD

\* The program of the board that the round is about.
Target == IF state \in SecondRound THEN "bl2" ELSE "bootrom"

\* Once an EOT is written, it is on the line, or it was rejected, or the board has started the
\* image; it is answered at most once.
Ended ==
    \/ /\ stage = Target /\ mode = "receive" /\ toBoard = <<"EOT">>
       /\ step = "eot_wait" => toHost = <<>> /\ output = <<>>
    \/ /\ stage = Target /\ mode = "receive" /\ toBoard = <<>>
       /\ step = "eot_wait" => \/ toHost = <<NAK>> /\ output = <<>>
                               \/ toHost = <<>> /\ output = <<NAK>>
    \/ /\ stage = NextStage[Target] /\ mode \in {"prompt", "shell"} /\ toBoard = <<>>
       /\ step = "eot_wait" => ~Has(toHost, NAK) /\ ~Has(output, NAK)

\* Program and board keep in step.
InStep ==
    /\ state = "WaitForInitialPrompt" =>
          toBoard = <<>> /\ stage \in {"off", "shell", "bootrom"} /\ mode \in {"silent", "prompt"}
    /\ state \in {"SendXForPreloader", "SendXForFip"} =>
          toBoard = <<>> /\ stage = Target /\ mode = "prompt"
    /\ state \in CrcWaits =>
          stage = Target /\ ((toBoard = <<"x">> /\ mode = "prompt") \/ (toBoard = <<>> /\ mode = "ready"))
    /\ step = "data" =>
          stage = Target /\ toBoard = <<>> /\ mode \in {"ready", "receive"}
    /\ step = "eot_write" =>
          stage = Target /\ toBoard = <<>> /\ mode = "receive" /\ toHost = <<>> /\ output = <<>>
    /\ step = "eot_wait" \/ state \in {"WaitForFipPrompt", "WaitForUbootPrompt"} => Ended
    /\ state = "Complete" => stage = "uboot" /\ toBoard = <<>>

\* The images the board runs, and the one it has received a part of, are the right ones.
Delivered ==
    /\ stored \subseteq Images
    /\ stage \in {"bl2", "uboot"} \/ (stage = "bootrom" /\ mode = "receive") =>
          <<"preloader", "bootrom">> \in stored
    /\ stage = "uboot" \/ (stage = "bl2" /\ mode = "receive") => <<"fip", "bl2">> \in stored
    /\ result = "ok" => state = "Complete"

Inv == TypeOK /\ Counts /\ Programs /\ Order /\ Consumed /\ InStep /\ Delivered

\* What a wait finds, by what it waits for.
LEMMA MatchTells ==
    ASSUME TypeOK, Match # NoMatch
    PROVE  /\ Match \in cursor + 1..Len(console)
           /\ state = "WaitForInitialPrompt" => console[Match] = PRESS
           /\ state = "WaitForFipPrompt" => console[Match] = LOAD
           /\ state = "WaitForUbootPrompt" => console[Match] = UBOOT
           /\ state \in CrcWaits => \E i \in cursor + 1..Match : console[i] = CRC
<1>1. console \in Seq(Tokens) /\ cursor \in Nat
  BY DEF TypeOK
<1>2. CASE state = "WaitForInitialPrompt"
  <2>1. InitialRecovery \in Seq(Tokens) /\ InitialRecovery # <<>>
        /\ InitialRecovery[Len(InitialRecovery)] = PRESS
    BY DEF InitialRecovery, Tokens
  <2>2. Match = FindPrompt(console, cursor, InitialRecovery, FALSE)
    BY <1>2 DEF Match
  <2> QED
    BY <1>1, <1>2, <2>1, <2>2, FindPromptFinds DEF CrcWaits
<1>3. CASE state = "WaitForFipPrompt"
  <2>1. SecondStage \in Seq(Tokens) /\ SecondStage # <<>> /\ SecondStage[Len(SecondStage)] = LOAD
    BY DEF SecondStage, Tokens
  <2>2. Match = FindPrompt(console, cursor, SecondStage, FALSE)
    BY <1>3 DEF Match
  <2> QED
    BY <1>1, <1>3, <2>1, <2>2, FindPromptFinds DEF CrcWaits
<1>4. CASE state = "WaitForUbootPrompt"
  <2>1. UBootShell \in Seq(Tokens) /\ UBootShell # <<>> /\ UBootShell[Len(UBootShell)] = UBOOT
    BY DEF UBootShell, Tokens
  <2>2. Match = FindPrompt(console, cursor, UBootShell, TRUE)
    BY <1>4 DEF Match
  <2> QED
    BY <1>1, <1>4, <2>1, <2>2, FindPromptFinds DEF CrcWaits
<1>5. CASE state \notin PromptWaits
  <2>1. Match = FindCrcReady(console, cursor)
    BY <1>5 DEF Match, PromptWaits
  <2> QED
    BY <1>1, <1>5, <2>1, FindCrcReadyFinds DEF PromptWaits
<1> QED
  BY <1>2, <1>3, <1>4, <1>5 DEF PromptWaits

LEMMA InvStart == Init /\ Reset => Inv
<1> SUFFICES ASSUME Init, Reset PROVE Inv
  OBVIOUS
<1>1. TypeOK /\ Counts /\ Programs /\ Order
  BY TypesStart, OrderStart
<1>2. /\ state = "WaitForInitialPrompt" /\ step = "idle" /\ toBoard = <<>> /\ stored = {} /\ result = "running"
      /\ stage \in {"off", "shell"} /\ mode \in {"silent", "prompt"}
  BY DEF Init, Reset
<1>3. Consumed /\ InStep
  BY <1>2 DEF Consumed, InStep, SecondRound, CrcWaits
<1>4. Delivered
  BY <1>2 DEF Delivered
<1> QED
  BY <1>1, <1>3, <1>4 DEF Inv

\* The console grows at its end, the cursor moves forward, and a wait that ends has its prompt
\* behind the cursor.
LEMMA ConsumedStep == Inv /\ [Next]_vars => Consumed'
<1> SUFFICES ASSUME Inv, [Next]_vars PROVE Consumed'
  OBVIOUS
<1>0. TypeOK /\ Counts /\ Consumed /\ cursor \in Nat /\ Len(console) \in Nat /\ cursor <= Len(console)
  BY DEF Inv, TypeOK
<1>1. CASE PromptFound
  <2>1. Match \in cursor + 1..Len(console) /\ cursor' = Match /\ console' = console /\ state' = After[state]
    BY <1>0, <1>1, MatchTells DEF PromptFound, AdvancedTo
  <2>2. \A t : (\E i \in 1..cursor : console[i] = t) => \E i \in 1..cursor' : console'[i] = t
    BY <1>0, <2>1
  <2>3. \E i \in 1..cursor' : console'[i] = console[Match]
    BY <1>0, <2>1
  <2>4. CASE state = "WaitForInitialPrompt"
    BY <1>0, <1>1, <2>1, <2>3, <2>4, MatchTells DEF PromptFound, Consumed, After, SecondRound
  <2>5. CASE state = "WaitForFipPrompt"
    BY <1>0, <1>1, <2>1, <2>2, <2>3, <2>5, MatchTells DEF PromptFound, Consumed
  <2>6. CASE state = "WaitForUbootPrompt"
    BY <1>0, <2>2, <2>6 DEF Consumed, SecondRound
  <2> QED
    BY <1>1, <2>4, <2>5, <2>6 DEF PromptFound, PromptWaits
<1>2. CASE CrcFound
  <2>1. Match \in cursor + 1..Len(console) /\ cursor' = Match /\ console' = console /\ state' = After[state]
    BY <1>0, <1>2, MatchTells DEF CrcFound, AdvancedTo
  <2>2. \A t : (\E i \in 1..cursor : console[i] = t) => \E i \in 1..cursor' : console'[i] = t
    BY <1>0, <2>1
  <2>3. state # "WaitForInitialPrompt" /\ (state' \in SecondRound => state \in SecondRound)
    BY <1>2, <2>1 DEF CrcFound, CrcWaits, SecondRound, After
  <2> QED
    BY <1>0, <2>2, <2>3 DEF Consumed
<1>3. CASE ReadData
  <2>1. PICK n \in 1..Len(toHost) : console' = Joined(console, Heard(n))
    BY <1>3 DEF ReadData, Heard
  <2>2. \A i \in 1..Len(console) : console'[i] = console[i]
    BY <1>0, <2>1, ReadExtends DEF Extends, TypeOK
  <2>3. \A i \in 1..cursor : console'[i] = console[i]
    BY <1>0, <2>2
  <2> QED
    BY <1>0, <1>3, <2>3 DEF ReadData, Consumed
<1>4. CASE SendX
  BY <1>0, <1>4 DEF SendX, Consumed, After, SecondRound
<1>5. CASE EotAcked \/ EotNaked \/ EotTimesOut
  <2>1. state \in Sends
    BY <1>0, <1>5 DEF EotAcked, EotNaked, EotTimesOut, Counts
  <2>2. UNCHANGED <<console, cursor>> /\ (state' = state \/ state' = After[state])
    BY <1>5 DEF EotAcked, EotNaked, EotTimesOut, ExcuseEot
  <2> QED
    BY <1>0, <2>1, <2>2 DEF Consumed, After, SecondRound, Sends
<1>6. CASE ReadNothing \/ SerialFails \/ BlockSent \/ BlockFails \/ WriteEot \/ EotRejected \/ Board \/ UNCHANGED vars
  <2>1. UNCHANGED <<state, console, cursor>>
    BY <1>6 DEF ReadNothing, SerialFails, BlockSent, BlockFails, WriteEot, EotRejected, Fail, Board, PowerOn,
                Transmit, LogOn, TakeX, RepeatC, TakeEot, runnerVars, vars
  <2> QED
    BY <1>0, <2>1 DEF Consumed
<1> QED
  BY <1>1, <1>2, <1>3, <1>4, <1>5, <1>6 DEF Next, Runner

\* Who may have put what on the line to the board.
LEMMA LineToBoard ==
    ASSUME TypeOK, Counts, InStep, toBoard # <<>>
    PROVE  \/ state \in CrcWaits /\ toBoard = <<"x">> /\ mode = "prompt" /\ stage = Target
           \/ /\ step = "eot_wait" \/ state \in {"WaitForFipPrompt", "WaitForUbootPrompt"}
              /\ toBoard = <<"EOT">> /\ mode = "receive" /\ stage = Target
              /\ step = "eot_wait" => toHost = <<>> /\ output = <<>>
<1>1. state \in Sends => step \in {"data", "eot_write", "eot_wait"}
  BY DEF TypeOK, Counts
<1> QED
  BY <1>1 DEF TypeOK, InStep, Ended, States, CrcWaits, Sends

LEMMA InStepStep == Inv /\ [Next]_vars => InStep'
<1> SUFFICES ASSUME Inv, [Next]_vars PROVE InStep'
  OBVIOUS
<1>0. TypeOK /\ Counts /\ Programs /\ Order /\ Consumed /\ InStep
  BY DEF Inv
<1>t. /\ cursor \in Nat /\ Len(console) \in Nat /\ cursor <= Len(console)
      /\ toHost \in Seq(Tokens \cup Answers) /\ output \in Seq(Tokens \cup Answers)
      /\ Target \in {"bootrom", "bl2"}
  BY <1>0 DEF TypeOK, Target
<1>1. CASE PromptFound
  <2>1. Match \in 1..Len(console) /\ Match > cursor /\ step = "idle" /\ step' = "idle" /\ state' = After[state]
        /\ UNCHANGED <<toBoard, stage, mode, toHost, output>>
    BY <1>0, <1>t, <1>1, MatchTells DEF PromptFound, Counts, PromptWaits, Sends, boardVars
  <2>2. CASE state = "WaitForInitialPrompt"
    <3>1. Printed(PRESS)
      BY <1>0, <1>1, <2>1, <2>2, MatchTells DEF PromptFound, Printed, Has
    <3>2. toBoard = <<>> /\ stage = "bootrom" /\ mode = "prompt"
      BY <1>0, <2>2, <3>1 DEF Order, InStep, Programs
    <3> QED
      BY <2>1, <2>2, <3>2 DEF InStep, After, Target, SecondRound, CrcWaits
  <2>3. CASE state = "WaitForFipPrompt"
    <3>1. Printed(LOAD)
      BY <1>0, <1>1, <2>1, <2>3, MatchTells DEF PromptFound, Printed, Has
    <3>2. Target = "bootrom" /\ NextStage[Target] = "bl2"
      BY <2>3 DEF Target, SecondRound, NextStage
    <3>3. toBoard = <<>> /\ stage = "bl2" /\ mode = "prompt"
      BY <1>0, <2>3, <3>1, <3>2 DEF Order, InStep, Ended, Programs
    <3> QED
      BY <2>1, <2>3, <3>3 DEF InStep, After, Target, SecondRound, CrcWaits
  <2>4. CASE state = "WaitForUbootPrompt"
    <3>1. PICK i \in 1..cursor : console[i] = PRESS
      BY <1>0, <2>4 DEF Consumed
    <3>2. i \in 1..Len(console) /\ i < Match /\ console[Match] = UBOOT
      BY <1>0, <1>t, <1>1, <2>1, <2>4, MatchTells DEF PromptFound
    <3>3. Follows(PRESS, UBOOT)
      BY <2>1, <3>1, <3>2 DEF Follows, InOrder
    <3>4. Target = "bl2"
      BY <2>4 DEF Target, SecondRound
    <3>5. toBoard = <<>> /\ stage = "uboot"
      BY <1>0, <2>4, <3>3, <3>4 DEF Order, InStep, Ended
    <3> QED
      BY <2>1, <2>4, <3>5 DEF InStep, After, CrcWaits
  <2> QED
    BY <1>1, <2>2, <2>3, <2>4 DEF PromptFound, PromptWaits
<1>2. CASE SendX
  <2>1. state \in {"SendXForPreloader", "SendXForFip"} /\ toBoard = <<>> /\ stage = Target /\ mode = "prompt"
    BY <1>0, <1>2 DEF SendX, InStep
  <2>2. toBoard' = <<"x">> /\ state' = After[state] /\ step = "idle" /\ step' = "idle"
        /\ UNCHANGED <<stage, mode>>
    BY <1>0, <1>2, <2>1 DEF SendX, Counts, Sends, boardVars
  <2>3. state' \in CrcWaits /\ Target' = Target
    BY <2>1, <2>2 DEF After, CrcWaits, Target, SecondRound
  <2> QED
    BY <2>1, <2>2, <2>3 DEF InStep, CrcWaits
<1>3. CASE CrcFound
  <2>1. /\ state \in CrcWaits /\ step' = "data" /\ state' = After[state]
        /\ UNCHANGED <<toBoard, stage, mode, toHost, output>>
    BY <1>3 DEF CrcFound, boardVars
  <2>2. PICK i \in cursor + 1..Match : console[i] = CRC
    BY <1>0, <1>3, MatchTells DEF CrcFound
  <2>3. i \in 1..Len(console) /\ i > cursor
    BY <1>0, <1>t, <1>3, MatchTells DEF CrcFound
  <2>4. stage = Target /\ mode # "prompt"
    <3>1. CASE state = "WaitForXmodemCrcPreloader"
      <4>1. Printed(CRC) /\ Target = "bootrom"
        BY <2>2, <2>3, <3>1 DEF Printed, Has, Target, SecondRound
      <4> QED
        BY <1>0, <2>1, <4>1 DEF Order, InStep
    <3>2. CASE state = "WaitForXmodemCrcFip"
      <4>1. PICK l \in 1..cursor : console[l] = LOAD
        BY <1>0, <3>2 DEF Consumed, SecondRound
      <4>2. l \in 1..Len(console) /\ l < i
        BY <1>t, <2>3
      <4>3. Follows(LOAD, CRC) /\ Target = "bl2"
        BY <2>2, <2>3, <3>2, <4>1, <4>2 DEF Follows, InOrder, Target, SecondRound
      <4> QED
        BY <1>0, <2>1, <4>3 DEF Order, InStep
    <3> QED
      BY <2>1, <3>1, <3>2 DEF CrcWaits
  <2>5. toBoard = <<>> /\ mode = "ready"
    BY <1>0, <2>1, <2>4 DEF InStep
  <2>6. state' \in Sends /\ Target' = Target
    BY <2>1 DEF CrcWaits, After, Sends, Target, SecondRound
  <2> QED
    BY <2>1, <2>4, <2>5, <2>6 DEF InStep, Sends, CrcWaits
<1>4. CASE ReadData
  <2>1. step = "idle" /\ UNCHANGED <<state, step, toBoard, stage, mode>>
    BY <1>0, <1>4 DEF ReadData, Waiting, Counts, PromptWaits, CrcWaits, Sends, boardVars
  <2> QED
    BY <1>0, <2>1 DEF InStep, Ended, Target
<1>5. CASE ReadNothing \/ SerialFails \/ UNCHANGED vars
  <2>1. UNCHANGED <<state, step, toBoard, stage, mode, toHost, output>>
    BY <1>5 DEF ReadNothing, SerialFails, Fail, boardVars, vars
  <2> QED
    BY <1>0, <2>1 DEF InStep, Ended, Target
<1>6. CASE BlockSent
  <2>1. /\ step = "data" /\ state \in Sends /\ toHost = <<>> /\ output = <<>> /\ mode' = "receive"
        /\ step' \in {"data", "eot_write"} /\ UNCHANGED <<state, toHost, toBoard, stage, output>>
    BY <1>0, <1>6 DEF BlockSent, Counts
  <2> QED
    BY <1>0, <2>1 DEF InStep, Sends, CrcWaits, Target
<1>7. CASE BlockFails
  <2>1. step = "data" /\ state \in Sends /\ UNCHANGED <<state, step, toBoard, stage, mode>>
    BY <1>0, <1>7 DEF BlockFails, Fail, Counts, boardVars
  <2> QED
    BY <1>0, <2>1 DEF InStep, Sends, CrcWaits, Target
<1>8. CASE WriteEot
  <2>1. step = "eot_write" /\ state \in Sends /\ step' = "eot_wait" /\ toBoard' = Append(toBoard, "EOT")
        /\ UNCHANGED <<state, stage, mode, toHost, output>>
    BY <1>0, <1>8 DEF WriteEot, Counts, boardVars
  <2>2. toBoard' = <<"EOT">> /\ stage = Target /\ mode = "receive" /\ toHost = <<>> /\ output = <<>>
    BY <1>0, <2>1 DEF InStep
  <2>3. Ended'
    BY <2>1, <2>2 DEF Ended, Target
  <2> QED
    BY <2>1, <2>3 DEF InStep, Sends, CrcWaits
<1>9. CASE EotAcked
  <2>1. /\ step = "eot_wait" /\ state \in Sends /\ step' = "idle" /\ state' = After[state]
        /\ toHost # <<>> /\ Head(toHost) = ACK /\ UNCHANGED <<toBoard, stage, mode>>
    BY <1>0, <1>9 DEF EotAcked, Counts, boardVars
  <2>2. stage = NextStage[Target] /\ mode \in {"prompt", "shell"} /\ toBoard = <<>>
    BY <1>0, <2>1 DEF InStep, Ended, ACK, NAK
  <2>3. Target' = Target /\ state' \in {"WaitForFipPrompt", "WaitForUbootPrompt"}
    BY <2>1 DEF Target, After, Sends, SecondRound
  <2> QED
    BY <2>1, <2>2, <2>3 DEF InStep, Ended, CrcWaits
<1>10. CASE EotNaked
  <2>1. /\ step = "eot_wait" /\ state \in Sends /\ toHost # <<>> /\ Head(toHost) = NAK /\ toHost' = Tail(toHost)
        /\ UNCHANGED <<toBoard, stage, mode, output>>
    BY <1>0, <1>10 DEF EotNaked, ExcuseEot, Counts, boardVars
  <2>2. Has(toHost, NAK)
    BY <1>t, <2>1 DEF Has
  <2>3. /\ stage = Target /\ mode = "receive" /\ toBoard = <<>> /\ toHost = <<NAK>> /\ output = <<>>
    BY <1>0, <2>1, <2>2 DEF InStep, Ended
  <2>4. toHost' = <<>>
    BY <2>1, <2>3
  <2>5. CASE step' = "eot_write" /\ state' = state
    BY <2>1, <2>3, <2>4, <2>5 DEF InStep, Sends, CrcWaits, Target
  <2>6. CASE step' = "idle" /\ state' = After[state]
    <3>1. Target' = Target /\ state' \in {"WaitForFipPrompt", "WaitForUbootPrompt"}
      BY <2>1, <2>6 DEF Target, After, Sends, SecondRound
    <3> QED
      BY <2>1, <2>3, <2>6, <3>1 DEF InStep, Ended, CrcWaits
  <2> QED
    BY <1>10, <2>5, <2>6 DEF EotNaked, ExcuseEot
<1>11. CASE EotTimesOut
  <2>1. /\ step = "eot_wait" /\ state \in Sends /\ step' = "idle" /\ state' = After[state]
        /\ UNCHANGED <<toBoard, stage, mode>>
    BY <1>0, <1>11 DEF EotTimesOut, ExcuseEot, Counts, boardVars
  <2>2. Target' = Target /\ state' \in {"WaitForFipPrompt", "WaitForUbootPrompt"}
    BY <2>1 DEF Target, After, Sends, SecondRound
  <2> QED
    BY <1>0, <2>1, <2>2 DEF InStep, Ended, CrcWaits
<1>12. CASE EotRejected
  <2>1. /\ step = "eot_wait" /\ state \in Sends /\ toHost # <<>> /\ Head(toHost) # NAK /\ toHost' = Tail(toHost)
        /\ UNCHANGED <<state, step, toBoard, stage, mode, output>>
    BY <1>0, <1>12 DEF EotRejected, Fail, Counts, boardVars
  <2>2. /\ stage = NextStage[Target] /\ mode \in {"prompt", "shell"} /\ toBoard = <<>>
        /\ ~Has(toHost, NAK) /\ ~Has(output, NAK)
    BY <1>0, <2>1 DEF InStep, Ended
  <2>3. ~Has(toHost', NAK)
    BY <1>t, <2>1, <2>2, OrderInTail
  <2>4. Ended'
    BY <2>1, <2>2, <2>3 DEF Ended, Target
  <2> QED
    BY <2>1, <2>4 DEF InStep, Sends, CrcWaits
<1>13. CASE PowerOn
  <2>1. state = "WaitForInitialPrompt" /\ stage' = "bootrom" /\ mode' = "prompt" /\ UNCHANGED <<state, step, toBoard>>
        /\ step = "idle"
    BY <1>0, <1>13 DEF PowerOn, Boot, runnerVars, Counts, Sends
  <2> QED
    BY <1>0, <2>1 DEF InStep, CrcWaits
<1>14. CASE Transmit
  <2>1. /\ output # <<>> /\ toHost' = Append(toHost, Head(output)) /\ output' = Tail(output)
        /\ UNCHANGED <<state, step, toBoard, stage, mode>>
    BY <1>14 DEF Transmit, runnerVars
  <2>2. step # "eot_write"
    BY <1>0, <2>1 DEF InStep
  <2>3. Target' = Target
    BY <2>1 DEF Target
  <2>4. ASSUME step = "eot_wait" PROVE Ended'
    <3>1. CASE toHost = <<>> /\ output = <<NAK>>
      <4>1. toHost' = <<NAK>> /\ output' = <<>>
        BY <2>1, <3>1
      <4>2. stage = Target /\ mode = "receive" /\ toBoard = <<>>
        BY <1>0, <2>1, <2>4, <3>1, ShortSequences DEF InStep, Ended, Has
      <4> QED
        BY <2>1, <2>3, <4>1, <4>2 DEF Ended
    <3>2. CASE stage = NextStage[Target] /\ mode \in {"prompt", "shell"} /\ toBoard = <<>>
               /\ ~Has(toHost, NAK) /\ ~Has(output, NAK)
      <4>1. Head(output) # NAK /\ ~Has(output', NAK)
        BY <1>t, <2>1, <3>2, OrderInTail
      <4>2. <<Head(output)>> \in Seq(Tokens \cup Answers) /\ toHost' = toHost \o <<Head(output)>>
        BY <1>t, <2>1
      <4>3. ~Has(toHost', NAK)
        BY <1>t, <3>2, <4>1, <4>2, OrderInConcatenation, ShortSequences
      <4> QED
        BY <2>1, <2>3, <3>2, <4>1, <4>3 DEF Ended
    <3> QED
      BY <1>0, <2>1, <2>4, <3>1, <3>2 DEF InStep, Ended
  <2> QED
    BY <1>0, <2>1, <2>2, <2>3, <2>4 DEF InStep, Ended
<1>15. CASE LogOn
  <2>1. /\ stage \in {"shell", "uboot"} /\ toHost' = <<TEXT>> /\ output = <<>>
        /\ UNCHANGED <<state, step, toBoard, stage, mode, output>>
    BY <1>15 DEF LogOn, runnerVars, boardVars
  <2>2. ~Has(toHost', NAK)
    BY <2>1, ShortSequences DEF TEXT, NAK
  <2>3. Target' = Target /\ step # "eot_write"
    BY <1>0, <1>t, <2>1 DEF Target, InStep
  <2> QED
    BY <1>0, <1>t, <2>1, <2>2, <2>3 DEF InStep, Ended
<1>16. CASE TakeX
  <2>1. toBoard # <<>> /\ Head(toBoard) = "x" /\ toBoard' = Tail(toBoard) /\ UNCHANGED <<state, step, stage>>
    BY <1>16 DEF TakeX, runnerVars
  <2>2. state \in CrcWaits /\ toBoard = <<"x">> /\ mode = "prompt" /\ stage = Target
    BY <1>0, <2>1, LineToBoard
  <2>3. toBoard' = <<>> /\ mode' = "ready" /\ step = "idle" /\ Target' = Target
    BY <1>0, <1>t, <1>16, <2>1, <2>2 DEF TakeX, Counts, CrcWaits, Sends, Target
  <2> QED
    BY <2>1, <2>2, <2>3 DEF InStep, CrcWaits
<1>17. CASE RepeatC
  <2>1. mode = "ready" /\ UNCHANGED <<state, step, toBoard, stage, mode, toHost>>
    BY <1>17 DEF RepeatC, runnerVars
  <2>2. step \notin {"eot_write", "eot_wait"}
    BY <1>0, <2>1 DEF InStep, Ended
  <2> QED
    BY <1>0, <2>1, <2>2 DEF InStep, Ended, Target
<1>18. CASE TakeEot
  <2>1. toBoard # <<>> /\ Head(toBoard) = "EOT" /\ toBoard' = Tail(toBoard) /\ UNCHANGED <<state, step, toHost>>
    BY <1>18 DEF TakeEot, runnerVars
  <2>2. /\ step = "eot_wait" \/ state \in {"WaitForFipPrompt", "WaitForUbootPrompt"}
        /\ toBoard = <<"EOT">> /\ mode = "receive" /\ stage = Target
        /\ step = "eot_wait" => toHost = <<>> /\ output = <<>>
    BY <1>0, <2>1, LineToBoard
  <2>3. toBoard' = <<>> /\ Target' = Target /\ step \notin {"data", "eot_write"}
    BY <1>0, <2>1, <2>2 DEF Target, Counts, Sends
  <2>4. CASE output' = Append(output, NAK) /\ UNCHANGED <<stage, mode, extra, stored>>
    <3>1. step = "eot_wait" => output' = <<NAK>>
      BY <2>2, <2>4
    <3>2. Ended'
      BY <2>1, <2>2, <2>3, <2>4, <3>1 DEF Ended
    <3> QED
      BY <1>0, <2>1, <2>2, <2>3, <3>2 DEF InStep, Counts, CrcWaits, Sends
  <2>5. CASE /\ mode = "receive" /\ Boot(NextStage[stage])
             /\ \E banner \in Banner[NextStage[stage]] :
                   \/ output' = output \o <<ACK>> \o banner
                   \/ output' = output \o banner
    <3>1. stage' = NextStage[Target] /\ mode' \in {"prompt", "shell"} /\ NextStage[Target] \in {"bl2", "uboot"}
      BY <1>t, <2>2, <2>5 DEF Boot, NextStage
    <3>2. PICK banner \in Banner[NextStage[Target]] :
             output' = output \o <<ACK>> \o banner \/ output' = output \o banner
      BY <2>2, <2>5
    <3>3. banner \in Seq(Tokens) /\ ~Has(banner, NAK)
      <4>1. banner \in Seq(Tokens)
        BY <3>1, <3>2, BannersAreTokens
      <4>2. NAK \notin Tokens
        BY DEF NAK, Tokens, PRESS, LOAD, UBOOT, CRC, SPACE, TEXT, CTL
      <4> QED
        BY <4>1, <4>2 DEF Has
    <3>4. ASSUME step = "eot_wait" PROVE ~Has(output', NAK)
      <4>1. output = <<>>
        BY <2>2, <3>4
      <4>2. output' = <<ACK>> \o banner \/ output' = banner
        BY <3>2, <3>3, <4>1
      <4>3. <<ACK>> \in Seq(Tokens \cup Answers) /\ banner \in Seq(Tokens \cup Answers) /\ ~Has(<<ACK>>, NAK)
        BY <3>3, ShortSequences DEF Answers, ACK, NAK
      <4>4. ~Has(<<ACK>> \o banner, NAK)
        BY <3>3, <4>3, OrderInConcatenation
      <4> QED
        BY <3>3, <4>2, <4>4
    <3>5. step = "eot_wait" => ~Has(toHost', NAK)
      BY <2>1, <2>2 DEF Has
    <3>6. Ended'
      BY <2>1, <2>3, <3>1, <3>4, <3>5 DEF Ended
    <3> QED
      BY <1>0, <2>1, <2>2, <2>3, <3>6 DEF InStep, Counts, CrcWaits, Sends
  <2> QED
    BY <1>18, <2>2, <2>4, <2>5 DEF TakeEot
<1> QED
  BY <1>1, <1>2, <1>3, <1>4, <1>5, <1>6, <1>7, <1>8, <1>9, <1>10, <1>11, <1>12, <1>13, <1>14, <1>15,
     <1>16, <1>17, <1>18 DEF Next, Runner, Board

LEMMA DeliveredStep == Inv /\ [Next]_vars => Delivered'
<1> SUFFICES ASSUME Inv, [Next]_vars PROVE Delivered'
  OBVIOUS
<1>0. TypeOK /\ Counts /\ Programs /\ InStep /\ Delivered
  BY DEF Inv
<1>1. CASE PromptFound
  BY <1>0, <1>1 DEF PromptFound, Running, PromptWaits, After, Delivered, boardVars
<1>2. CASE ReadNothing \/ SerialFails \/ BlockFails \/ EotRejected
  <2>1. result' # "ok" /\ UNCHANGED <<stage, mode, stored>>
    <3>1. UNCHANGED <<stage, mode, stored>>
      BY <1>2 DEF ReadNothing, SerialFails, BlockFails, EotRejected, boardVars
    <3>2. CASE ReadNothing
      <4>1. Running /\ (Fail("Timeout") \/ result' = result)
        BY <3>2 DEF ReadNothing, Waiting
      <4> QED
        BY <3>1, <4>1 DEF Running, Fail
    <3>3. CASE SerialFails
      <4>1. Fail("XmodemIo") \/ Fail("Serial")
        BY <3>3 DEF SerialFails
      <4> QED
        BY <3>1, <4>1 DEF Fail
    <3>4. CASE BlockFails \/ EotRejected
      <4>1. Fail("Xmodem")
        BY <3>4 DEF BlockFails, EotRejected
      <4> QED
        BY <3>1, <4>1 DEF Fail
    <3> QED
      BY <1>2, <3>1, <3>2, <3>3, <3>4
  <2> QED
    BY <1>0, <2>1 DEF Delivered
<1>3. CASE SendX \/ CrcFound \/ ReadData \/ WriteEot \/ EotAcked \/ EotNaked \/ EotTimesOut
  <2>1. result' # "ok" /\ UNCHANGED <<stage, mode, stored>>
    BY <1>3 DEF SendX, CrcFound, ReadData, WriteEot, EotAcked, EotNaked, EotTimesOut, ExcuseEot, Running,
                Waiting, boardVars
  <2> QED
    BY <1>0, <2>1 DEF Delivered
<1>4. CASE BlockSent
  <2>1. /\ step = "data" /\ state \in Sends /\ stored' = stored \cup {<<Image, stage>>} /\ mode' = "receive"
        /\ result' # "ok" /\ stage' = stage
    BY <1>0, <1>4 DEF BlockSent, Counts, Running
  <2>2. stage = Target
    BY <1>0, <2>1 DEF InStep
  <2>3. CASE state = "SendPreloader"
    <3>1. stage = "bootrom" /\ Image = "preloader"
      BY <2>2, <2>3 DEF Target, SecondRound, Image
    <3> QED
      BY <1>0, <2>1, <3>1 DEF Delivered, Images
  <2>4. CASE state = "SendFip"
    <3>1. stage = "bl2" /\ Image = "fip"
      BY <2>2, <2>4 DEF Target, SecondRound, Image
    <3> QED
      BY <1>0, <2>1, <3>1 DEF Delivered, Images
  <2> QED
    BY <2>1, <2>3, <2>4 DEF Sends
<1>5. CASE PowerOn
  BY <1>0, <1>5 DEF PowerOn, Boot, Delivered, runnerVars
<1>6. CASE Transmit \/ LogOn \/ RepeatC \/ UNCHANGED vars
  <2>1. UNCHANGED <<state, result, stage, mode, stored>>
    BY <1>6 DEF Transmit, LogOn, RepeatC, runnerVars, boardVars, vars
  <2> QED
    BY <1>0, <2>1 DEF Delivered
<1>7. CASE TakeX
  <2>1. UNCHANGED <<state, result, stage, stored>> /\ (mode' = mode \/ mode' = "ready")
    BY <1>7 DEF TakeX, runnerVars
  <2> QED
    BY <1>0, <2>1 DEF Delivered
<1>8. CASE TakeEot
  <2>1. UNCHANGED <<state, result>>
    BY <1>8 DEF TakeEot, runnerVars
  <2>2. CASE UNCHANGED <<stage, mode, stored>>
    BY <1>0, <2>1, <2>2 DEF Delivered
  <2>3. CASE mode = "receive" /\ Boot(NextStage[stage])
    <3>1. stage \in {"bootrom", "bl2"} /\ stored' = stored /\ stage' = NextStage[stage] /\ mode' # "receive"
      BY <1>0, <2>3 DEF Programs, Boot
    <3>2. stage = "bootrom" => stage' = "bl2"
      BY <3>1 DEF NextStage
    <3> QED
      BY <1>0, <2>1, <2>3, <3>1, <3>2 DEF Delivered, Boot
  <2> QED
    BY <1>8, <2>2, <2>3 DEF TakeEot, boardVars
<1> QED
  BY <1>1, <1>2, <1>3, <1>4, <1>5, <1>6, <1>7, <1>8 DEF Next, Runner, Board

\* The inductive invariant, for a board that is off or runs its old firmware at the start.
LEMMA InvHolds == Reset => (Spec => []Inv)
<1>1. Init /\ Reset => Inv
  BY InvStart
<1>2. Inv /\ [Next]_vars => Inv'
  BY TypesStep, OrderStep, ConsumedStep, InStepStep, DeliveredStep DEF Inv
<1> QED
  BY <1>1, <1>2, PTL DEF Spec, Reset

\* Each image goes to the boot stage it is meant for, whatever the console held before, however
\* reads are cut and whichever answers to EOT are skipped (recover_to_uboot).
THEOREM ImagesGoToTheirStage == Reset => (Spec => []ImagesReachTheirStage)
<1>1. Inv => ImagesReachTheirStage
  BY DEF Inv, Delivered, ImagesReachTheirStage
<1> QED
  BY <1>1, InvHolds, PTL

\* No transfer is started by readiness left over from the stage before: one cursor for all waits
\* suffices.
THEOREM TransfersAreAskedFor == Reset => (Spec => []TransferFollowsReadiness)
<1>1. Inv => TransferFollowsReadiness
  BY DEF Inv, InStep, Target, SecondRound, TransferFollowsReadiness
<1> QED
  BY <1>1, InvHolds, PTL

\* A recovery that succeeds has sent both images, and the prompt it saw is that of the U-Boot it
\* started, not one the old firmware left in the console.
THEOREM SuccessIsTheNewUBoot == Reset => (Spec => []SuccessMeansUBoot)
<1>1. Inv => SuccessMeansUBoot
  BY DEF Inv, InStep, Delivered, Images, SuccessMeansUBoot
<1> QED
  BY <1>1, InvHolds, PTL

-----------------------------------------------------------------------------
(* The order of the events *)

\* The events of one round, and of both with the U-Boot prompt after them.
Lap == Blocks + 5
Whole == 2 * Lap + 1

\* A sequence of events is another one with a third behind it.
Chain(chained, front, back) ==
    /\ chained \in Seq(EventPayload) /\ Len(chained) = Len(front) + Len(back)
    /\ \A i \in 1..Len(front) : chained[i] = front[i]
    /\ \A i \in 1..Len(back) : chained[Len(front) + i] = back[i]

LEMMA Chained ==
    ASSUME NEW front \in Seq(EventPayload), NEW back \in Seq(EventPayload)
    PROVE  Chain(front \o back, front, back)
<1>1. front \o back \in Seq(EventPayload) /\ Len(front \o back) = Len(front) + Len(back)
  OBVIOUS
<1>2. \A i \in 1..Len(front) : (front \o back)[i] = front[i]
  OBVIOUS
<1>3. \A i \in 1..Len(back) : (front \o back)[Len(front) + i] = back[i]
  OBVIOUS
<1> QED
  BY <1>1, <1>2, <1>3 DEF Chain

\* What a round consists of, place by place.
LEMMA RoundIs ==
    ASSUME NEW prompt \in RecoveryStage, NEW transfer \in TransferStage, NEW recovered \in BOOLEAN
    PROVE  LET round == Round(prompt, transfer, recovered)
           IN  /\ round \in Seq(EventPayload) /\ Len(round) = Lap
               /\ round[1] = <<"PromptSeen", prompt>> /\ round[2] = <<"InputSent", prompt>>
               /\ round[3] = <<"CrcReady", transfer>> /\ round[4] = <<"XmodemStarted", transfer>>
               /\ \A n \in 1..Blocks : round[4 + n] = <<"XmodemProgress", transfer, n>>
               /\ round[Lap] = <<"XmodemCompleted", transfer, recovered>>
<1> DEFINE start == <<<<"PromptSeen", prompt>>, <<"InputSent", prompt>>, <<"CrcReady", transfer>>,
                      <<"XmodemStarted", transfer>>>>
           data == [n \in 1..Blocks |-> <<"XmodemProgress", transfer, n>>]
           end == <<<<"XmodemCompleted", transfer, recovered>>>>
<1>0. Blocks \in Nat
  BY RecoveryAssumption
<1>1. start \in Seq(EventPayload) /\ Len(start) = 4
      /\ start[1] = <<"PromptSeen", prompt>> /\ start[2] = <<"InputSent", prompt>>
      /\ start[3] = <<"CrcReady", transfer>> /\ start[4] = <<"XmodemStarted", transfer>>
  <2>1. <<"PromptSeen", prompt>> \in EventPayload /\ <<"InputSent", prompt>> \in EventPayload
        /\ <<"CrcReady", transfer>> \in EventPayload /\ <<"XmodemStarted", transfer>> \in EventPayload
    BY DEF EventPayload
  <2> QED
    BY <2>1
<1>2. data \in Seq(EventPayload) /\ Len(data) = Blocks
      /\ \A n \in 1..Blocks : data[n] = <<"XmodemProgress", transfer, n>>
  <2>1. \A n \in 1..Blocks : <<"XmodemProgress", transfer, n>> \in EventPayload
    BY <1>0 DEF EventPayload
  <2> QED
    BY <1>0, <2>1
<1>3. end \in Seq(EventPayload) /\ Len(end) = 1 /\ end[1] = <<"XmodemCompleted", transfer, recovered>>
  <2>1. <<"XmodemCompleted", transfer, recovered>> \in EventPayload
    BY DEF EventPayload
  <2> QED
    BY <2>1
<1>4. Round(prompt, transfer, recovered) = (start \o data) \o end
  BY DEF Round
<1> HIDE DEF start, data, end
<1> DEFINE front == start \o data
           round == Round(prompt, transfer, recovered)
<1>5. Chain(front, start, data)
  BY <1>1, <1>2, Chained
<1>6. front \in Seq(EventPayload)
  BY <1>5 DEF Chain
<1>7. Chain(round, front, end)
  BY <1>3, <1>4, <1>6, Chained
<1> HIDE DEF front
<1> HIDE DEF round
<1>8. Len(front) = 4 + Blocks /\ Len(round) = Blocks + 5 /\ round \in Seq(EventPayload)
  BY <1>0, <1>1, <1>2, <1>3, <1>5, <1>7 DEF Chain
<1>9. \A i \in 1..4 : round[i] = start[i]
  BY <1>0, <1>1, <1>5, <1>7, <1>8 DEF Chain
<1>10. \A n \in 1..Blocks : round[4 + n] = data[n]
  <2> SUFFICES ASSUME NEW n \in 1..Blocks PROVE round[4 + n] = data[n]
    OBVIOUS
  <2>1. front[4 + n] = data[n]
    BY <1>1, <1>2, <1>5 DEF Chain
  <2>2. 4 + n \in 1..Len(front)
    BY <1>0, <1>8
  <2> QED
    BY <1>7, <2>1, <2>2 DEF Chain
<1>11. round[Lap] = end[1]
  <2>1. Len(front) + 1 = Lap /\ 1 \in 1..Len(end)
    BY <1>0, <1>3, <1>8 DEF Lap
  <2> QED
    BY <1>7, <2>1 DEF Chain
<1>12. 1 \in 1..4 /\ 2 \in 1..4 /\ 3 \in 1..4 /\ 4 \in 1..4
  OBVIOUS
<1> QED
  BY <1>1, <1>2, <1>3, <1>8, <1>9, <1>10, <1>11, <1>12 DEF Lap, round

\* The flow is two rounds and the U-Boot prompt.
LEMMA FlowIs ==
    ASSUME NEW first \in BOOLEAN, NEW second \in BOOLEAN
    PROVE  LET flow == Flow(first, second)
           IN  /\ flow \in Seq(EventPayload) /\ Len(flow) = Whole
               /\ \A i \in 1..Lap : flow[i] = Round("PreloaderPrompt", "Preloader", first)[i]
               /\ \A i \in 1..Lap : flow[Lap + i] = Round("FipPrompt", "Fip", second)[i]
               /\ flow[Whole] = <<"UBootPromptSeen">>
<1> DEFINE one == Round("PreloaderPrompt", "Preloader", first)
           two == Round("FipPrompt", "Fip", second)
           end == <<<<"UBootPromptSeen">>>>
<1>0. Lap \in Nat
  BY RecoveryAssumption DEF Lap
<1>1. one \in Seq(EventPayload) /\ Len(one) = Lap
  BY RoundIs DEF RecoveryStage, TransferStage
<1>2. two \in Seq(EventPayload) /\ Len(two) = Lap
  BY RoundIs DEF RecoveryStage, TransferStage
<1>3. end \in Seq(EventPayload) /\ Len(end) = 1 /\ end[1] = <<"UBootPromptSeen">>
  <2>1. <<"UBootPromptSeen">> \in EventPayload
    BY DEF EventPayload
  <2> QED
    BY <2>1
<1>4. Flow(first, second) = (one \o two) \o end
  BY DEF Flow
<1> HIDE DEF one, two, end
<1> DEFINE both == one \o two
           flow == Flow(first, second)
<1>5. Chain(both, one, two)
  BY <1>1, <1>2, Chained
<1>6. both \in Seq(EventPayload)
  BY <1>5 DEF Chain
<1>7. Chain(flow, both, end)
  BY <1>3, <1>4, <1>6, Chained
<1> HIDE DEF both, flow
<1>8. Len(both) = 2 * Lap /\ Len(flow) = Whole /\ flow \in Seq(EventPayload)
  BY <1>0, <1>1, <1>2, <1>3, <1>5, <1>7 DEF Chain, Whole
<1>9. \A i \in 1..Lap : flow[i] = one[i]
  BY <1>0, <1>1, <1>5, <1>7, <1>8 DEF Chain
<1>10. \A i \in 1..Lap : flow[Lap + i] = two[i]
  <2> SUFFICES ASSUME NEW i \in 1..Lap PROVE flow[Lap + i] = two[i]
    OBVIOUS
  <2>1. both[Lap + i] = two[i]
    BY <1>1, <1>2, <1>5 DEF Chain
  <2>2. Lap + i \in 1..Len(both)
    BY <1>0, <1>8
  <2> QED
    BY <1>7, <2>1, <2>2 DEF Chain
<1>11. flow[Whole] = <<"UBootPromptSeen">>
  <2>1. Len(both) + 1 = Whole /\ 1 \in 1..Len(end)
    BY <1>0, <1>3, <1>8 DEF Whole
  <2> QED
    BY <1>3, <1>7, <2>1 DEF Chain
<1> QED
  BY <1>8, <1>9, <1>10, <1>11 DEF flow, one, two

\* The flow at each place, for either way through the EOT handshakes.
FlowAt(flow, first, second) ==
    /\ flow \in Seq(EventPayload) /\ Len(flow) = Whole
    /\ flow[1] = <<"PromptSeen", "PreloaderPrompt">> /\ flow[2] = <<"InputSent", "PreloaderPrompt">>
    /\ flow[3] = <<"CrcReady", "Preloader">> /\ flow[4] = <<"XmodemStarted", "Preloader">>
    /\ \A n \in 1..Blocks : flow[4 + n] = <<"XmodemProgress", "Preloader", n>>
    /\ flow[Lap] = <<"XmodemCompleted", "Preloader", first>>
    /\ flow[Lap + 1] = <<"PromptSeen", "FipPrompt">> /\ flow[Lap + 2] = <<"InputSent", "FipPrompt">>
    /\ flow[Lap + 3] = <<"CrcReady", "Fip">> /\ flow[Lap + 4] = <<"XmodemStarted", "Fip">>
    /\ \A n \in 1..Blocks : flow[Lap + 4 + n] = <<"XmodemProgress", "Fip", n>>
    /\ flow[2 * Lap] = <<"XmodemCompleted", "Fip", second>>
    /\ flow[Whole] = <<"UBootPromptSeen">>

LEMMA FlowIsAt ==
    ASSUME NEW first \in BOOLEAN, NEW second \in BOOLEAN
    PROVE  FlowAt(Flow(first, second), first, second)
<1> DEFINE one == Round("PreloaderPrompt", "Preloader", first)
           two == Round("FipPrompt", "Fip", second)
           flow == Flow(first, second)
<1>0. Blocks \in Nat /\ Lap \in Nat /\ Lap = Blocks + 5
  BY RecoveryAssumption DEF Lap
<1>1. /\ one[1] = <<"PromptSeen", "PreloaderPrompt">> /\ one[2] = <<"InputSent", "PreloaderPrompt">>
      /\ one[3] = <<"CrcReady", "Preloader">> /\ one[4] = <<"XmodemStarted", "Preloader">>
      /\ \A n \in 1..Blocks : one[4 + n] = <<"XmodemProgress", "Preloader", n>>
      /\ one[Lap] = <<"XmodemCompleted", "Preloader", first>>
  BY RoundIs DEF RecoveryStage, TransferStage
<1>2. /\ two[1] = <<"PromptSeen", "FipPrompt">> /\ two[2] = <<"InputSent", "FipPrompt">>
      /\ two[3] = <<"CrcReady", "Fip">> /\ two[4] = <<"XmodemStarted", "Fip">>
      /\ \A n \in 1..Blocks : two[4 + n] = <<"XmodemProgress", "Fip", n>>
      /\ two[Lap] = <<"XmodemCompleted", "Fip", second>>
  BY RoundIs DEF RecoveryStage, TransferStage
<1>3. /\ flow \in Seq(EventPayload) /\ Len(flow) = Whole
      /\ \A i \in 1..Lap : flow[i] = one[i]
      /\ \A i \in 1..Lap : flow[Lap + i] = two[i]
      /\ flow[Whole] = <<"UBootPromptSeen">>
  BY FlowIs
<1> HIDE DEF one, two, flow
<1>4. /\ 1 \in 1..Lap /\ 2 \in 1..Lap /\ 3 \in 1..Lap /\ 4 \in 1..Lap /\ Lap \in 1..Lap
      /\ \A n \in 1..Blocks : 4 + n \in 1..Lap /\ Lap + 4 + n = Lap + (4 + n)
      /\ 2 * Lap = Lap + Lap
  BY <1>0
<1>5. /\ flow[1] = one[1] /\ flow[2] = one[2] /\ flow[3] = one[3] /\ flow[4] = one[4] /\ flow[Lap] = one[Lap]
      /\ flow[Lap + 1] = two[1] /\ flow[Lap + 2] = two[2] /\ flow[Lap + 3] = two[3] /\ flow[Lap + 4] = two[4]
      /\ flow[2 * Lap] = two[Lap]
  BY <1>3, <1>4
<1>6. \A n \in 1..Blocks : flow[4 + n] = one[4 + n] /\ flow[Lap + 4 + n] = two[4 + n]
  BY <1>3, <1>4
<1>7. FlowAt(flow, first, second)
  BY <1>1, <1>2, <1>3, <1>5, <1>6 DEF FlowAt
<1> QED
  BY <1>7 DEF flow

\* How many events the runner has emitted where it is; an excused transfer is completed late.
Milestones == [WaitForInitialPrompt |-> 0, SendXForPreloader |-> 1, WaitForXmodemCrcPreloader |-> 2,
               SendPreloader |-> 4, WaitForFipPrompt |-> Lap,
               SendXForFip |-> Lap + 1, WaitForXmodemCrcFip |-> Lap + 2, SendFip |-> Lap + 4,
               WaitForUbootPrompt |-> 2 * Lap, Complete |-> Whole]
Emitted == Milestones[state] + (IF state \in Sends THEN sent ELSE 0) - (IF excused THEN 1 ELSE 0)

\* Events are those of a flow, as far as they go.
Along(told, first, second) == \A i \in 1..Len(told) : told[i] = Flow(first, second)[i]
OnFlow(told) == \E first, second \in BOOLEAN : Along(told, first, second)

\* The invariant behind EventsFollowFlow.
Reported ==
    /\ Len(events) = Emitted
    /\ excused => state \in {"WaitForFipPrompt", "WaitForUbootPrompt"}
    /\ step \in {"eot_write", "eot_wait"} => sent = Blocks
    /\ result = "ok" <=> state = "Complete"
    /\ OnFlow(events)

\* The next event of the flow.
LEMMA OneMore ==
    ASSUME NEW told \in Seq(EventPayload), NEW event \in EventPayload, NEW first \in BOOLEAN, NEW second \in BOOLEAN,
           Along(told, first, second), event = Flow(first, second)[Len(told) + 1]
    PROVE  Along(Append(told, event), first, second)
<1> DEFINE flow == Flow(first, second)
           more == Append(told, event)
<1>1. Len(told) \in Nat /\ Len(more) = Len(told) + 1 /\ more[Len(told) + 1] = event
      /\ \A i \in 1..Len(told) : more[i] = told[i]
  OBVIOUS
<1>2. \A i \in 1..Len(told) : told[i] = flow[i]
  BY DEF Along
<1>3. event = flow[Len(told) + 1]
  OBVIOUS
<1> HIDE DEF flow, more
<1>4. \A i \in 1..Len(more) : more[i] = flow[i]
  <2> SUFFICES ASSUME NEW i \in 1..Len(more) PROVE more[i] = flow[i]
    OBVIOUS
  <2>1. i \in 1..Len(told) \/ i = Len(told) + 1
    BY <1>1
  <2> QED
    BY <1>1, <1>2, <1>3, <2>1
<1> QED
  BY <1>4 DEF Along, flow, more

\* How a transfer ends is open until it is reported.
LEMMA OtherWay ==
    ASSUME NEW told \in Seq(EventPayload), NEW first \in BOOLEAN, NEW second \in BOOLEAN, NEW other \in BOOLEAN,
           Along(told, first, second)
    PROVE  /\ Len(told) < Lap => Along(told, other, second)
           /\ Len(told) < 2 * Lap => Along(told, first, other)
<1> DEFINE flow == Flow(first, second)
           early == Flow(other, second)
           late == Flow(first, other)
<1>0. Blocks \in Nat /\ Lap = Blocks + 5 /\ Len(told) \in Nat
  BY RecoveryAssumption DEF Lap
<1>1. FlowAt(flow, first, second) /\ FlowAt(early, other, second) /\ FlowAt(late, first, other)
  BY FlowIsAt
<1>2. \A i \in 1..Len(told) : told[i] = flow[i]
  BY DEF Along
<1> HIDE DEF flow, early, late
<1>3. \A i \in 1..Lap - 1 : i \in {1, 2, 3, 4} \/ \E n \in 1..Blocks : i = 4 + n
  <2> SUFFICES ASSUME NEW i \in 1..Lap - 1 PROVE i \in {1, 2, 3, 4} \/ \E n \in 1..Blocks : i = 4 + n
    OBVIOUS
  <2>1. CASE i <= 4
    BY <2>1
  <2>2. CASE i > 4
    <3>1. i - 4 \in 1..Blocks /\ i = 4 + (i - 4)
      BY <1>0, <2>2
    <3> QED
      BY <3>1
  <2> QED
    BY <1>0, <2>1, <2>2
<1>4. \A i \in 1..Lap - 1 : early[i] = flow[i] /\ late[i] = flow[i]
  BY <1>1, <1>3 DEF FlowAt
<1>5. \A i \in 1..Lap - 1 : late[Lap + i] = flow[Lap + i]
  <2> SUFFICES ASSUME NEW i \in 1..Lap - 1 PROVE late[Lap + i] = flow[Lap + i]
    OBVIOUS
  <2>1. CASE i \in {1, 2, 3, 4}
    BY <1>1, <2>1 DEF FlowAt
  <2>2. CASE \E n \in 1..Blocks : i = 4 + n
    <3>1. PICK n \in 1..Blocks : i = 4 + n
      BY <2>2
    <3>2. Lap + i = Lap + 4 + n
      BY <1>0, <3>1
    <3> QED
      BY <1>1, <3>2 DEF FlowAt
  <2> QED
    BY <1>3, <2>1, <2>2
<1>6. late[Lap] = flow[Lap]
  BY <1>1 DEF FlowAt
<1>7. Len(told) < Lap => \A i \in 1..Len(told) : told[i] = early[i]
  <2>1. Len(told) < Lap => \A i \in 1..Len(told) : i \in 1..Lap - 1
    BY <1>0
  <2> QED
    BY <1>2, <1>4, <2>1
<1>8. Len(told) < 2 * Lap => \A i \in 1..Len(told) : told[i] = late[i]
  <2> SUFFICES ASSUME Len(told) < 2 * Lap, NEW i \in 1..Len(told) PROVE told[i] = late[i]
    OBVIOUS
  <2>1. CASE i < Lap
    <3>1. i \in 1..Lap - 1
      BY <1>0, <2>1
    <3> QED
      BY <1>2, <1>4, <3>1
  <2>2. CASE i = Lap
    BY <1>2, <1>6, <2>2
  <2>3. CASE i > Lap
    <3>1. i - Lap \in 1..Lap - 1 /\ Lap + (i - Lap) = i
      BY <1>0, <2>3
    <3> QED
      BY <1>2, <1>5, <3>1
  <2> QED
    BY <1>0, <2>1, <2>2, <2>3
<1> QED
  BY <1>7, <1>8 DEF Along, early, late

LEMMA OnFlowGoesOn ==
    ASSUME TypeOK, NEW first \in BOOLEAN, NEW second \in BOOLEAN, Along(events, first, second),
           NEW event, event = Flow(first, second)[Len(events) + 1], Len(events) < Whole
    PROVE  /\ Along(Append(events, event), first, second) /\ OnFlow(Append(events, event))
           /\ Len(Append(events, event)) = Len(events) + 1 /\ Append(events, event) \in Seq(EventPayload)
<1>1. events \in Seq(EventPayload) /\ Len(events) \in Nat
  BY DEF TypeOK
<1>2. event \in EventPayload
  <2>1. Flow(first, second) \in Seq(EventPayload) /\ Len(Flow(first, second)) = Whole
    BY FlowIsAt DEF FlowAt
  <2>2. Whole \in Nat
    BY RecoveryAssumption DEF Whole, Lap
  <2>3. Len(events) + 1 \in 1..Len(Flow(first, second))
    BY <1>1, <2>1, <2>2
  <2> QED
    BY <2>1, <2>3
<1>3. Along(Append(events, event), first, second)
  BY <1>1, <1>2, OneMore
<1> QED
  BY <1>1, <1>2, <1>3 DEF OnFlow

\* A prompt that completes an excused transfer is reported after the transfer.
LEMMA LateCompletion ==
    ASSUME TypeOK, Reported, excused, state \in {"WaitForFipPrompt", "WaitForUbootPrompt"},
           events' = Emit(Emit(events, <<"XmodemCompleted", Transfer, TRUE>>), PromptEvent)
    PROVE  OnFlow(events') /\ Len(events') = Len(events) + 2
<1> DEFINE completed == <<"XmodemCompleted", Transfer, TRUE>>
           told == Append(events, completed)
<1>0. Blocks \in Nat /\ Lap \in Nat /\ Lap = Blocks + 5 /\ Whole = 2 * Lap + 1 /\ Len(events) \in Nat
      /\ events \in Seq(EventPayload)
  BY RecoveryAssumption DEF Lap, Whole, TypeOK
<1>1. PICK first \in BOOLEAN, second \in BOOLEAN : Along(events, first, second)
  BY DEF Reported, OnFlow
<1>2. PICK recovered \in BOOLEAN : recovered = TRUE
  OBVIOUS
<1>3. completed \in EventPayload /\ PromptEvent \in EventPayload
  BY RunnerEventsAreEvents DEF TypeOK
<1>4. told \in Seq(EventPayload) /\ Len(told) = Len(events) + 1
  BY <1>0, <1>3
<1>5. events' = Append(told, PromptEvent)
  BY DEF Emit
<1>6. CASE state = "WaitForFipPrompt"
  <2>1. Len(events) = Lap - 1
    BY <1>0, <1>6 DEF Reported, Emitted, Milestones, Sends
  <2>2. Along(events, recovered, second)
    BY <1>0, <1>1, <2>1, OtherWay
  <2>3. FlowAt(Flow(recovered, second), recovered, second)
    BY FlowIsAt
  <2>4. completed = Flow(recovered, second)[Len(events) + 1]
    <3>1. completed = <<"XmodemCompleted", "Preloader", TRUE>>
      BY <1>6 DEF Transfer
    <3>2. Len(events) + 1 = Lap
      BY <1>0, <2>1
    <3> QED
      BY <1>2, <2>3, <3>1, <3>2 DEF FlowAt
  <2>5. PromptEvent = Flow(recovered, second)[Len(told) + 1]
    <3>1. PromptEvent = <<"PromptSeen", "FipPrompt">>
      BY <1>6 DEF PromptEvent, Stage
    <3>2. Len(told) + 1 = Lap + 1
      BY <1>0, <1>4, <2>1
    <3> QED
      BY <2>3, <3>1, <3>2 DEF FlowAt
  <2>6. Along(told, recovered, second)
    BY <1>0, <1>3, <2>2, <2>4, OneMore
  <2> HIDE DEF told
  <2>7. Along(Append(told, PromptEvent), recovered, second)
    BY <1>3, <1>4, <2>5, <2>6, OneMore
  <2> QED
    <3>1. Len(events') = Len(events) + 2
      BY <1>0, <1>3, <1>4, <1>5
    <3> QED
      BY <1>5, <2>7, <3>1 DEF OnFlow
<1>7. CASE state = "WaitForUbootPrompt"
  <2>1. Len(events) = 2 * Lap - 1
    BY <1>0, <1>7 DEF Reported, Emitted, Milestones, Sends
  <2>2. Along(events, first, recovered)
    BY <1>0, <1>1, <2>1, OtherWay
  <2>3. FlowAt(Flow(first, recovered), first, recovered)
    BY FlowIsAt
  <2>4. completed = Flow(first, recovered)[Len(events) + 1]
    <3>1. completed = <<"XmodemCompleted", "Fip", TRUE>>
      BY <1>7 DEF Transfer
    <3>2. Len(events) + 1 = 2 * Lap
      BY <1>0, <2>1
    <3> QED
      BY <1>2, <2>3, <3>1, <3>2 DEF FlowAt
  <2>5. PromptEvent = Flow(first, recovered)[Len(told) + 1]
    <3>1. PromptEvent = <<"UBootPromptSeen">>
      BY <1>7 DEF PromptEvent, Stage
    <3>2. Len(told) + 1 = Whole
      BY <1>0, <1>4, <2>1
    <3> QED
      BY <2>3, <3>1, <3>2 DEF FlowAt
  <2>6. Along(told, first, recovered)
    BY <1>0, <1>3, <2>2, <2>4, OneMore
  <2> HIDE DEF told
  <2>7. Along(Append(told, PromptEvent), first, recovered)
    BY <1>3, <1>4, <2>5, <2>6, OneMore
  <2> QED
    <3>1. Len(events') = Len(events) + 2
      BY <1>0, <1>3, <1>4, <1>5
    <3> QED
      BY <1>5, <2>7, <3>1 DEF OnFlow
<1> QED
  BY <1>6, <1>7

\* The next event of the flow, by what the runner is doing.
LEMMA NextOnFlow ==
    ASSUME TypeOK, Counts, Reported, NEW first \in BOOLEAN, NEW second \in BOOLEAN
    PROVE  LET next == Flow(first, second)[Len(events) + 1]
           IN  /\ state \in PromptWaits /\ ~excused => next = PromptEvent
               /\ state \in {"SendXForPreloader", "SendXForFip"} => next = <<"InputSent", Stage>>
               /\ state \in CrcWaits =>
                     /\ next = <<"CrcReady", Transfer>>
                     /\ Flow(first, second)[Len(events) + 2] = <<"XmodemStarted", Transfer>>
               /\ step = "data" => next = <<"XmodemProgress", Transfer, sent + 1>>
               /\ step = "eot_wait" =>
                     next = <<"XmodemCompleted", Transfer, IF state = "SendPreloader" THEN first ELSE second>>
               /\ state # "Complete" => Len(events) < Whole
               /\ state \in CrcWaits => Len(events) + 1 < Whole
<1> DEFINE flow == Flow(first, second)
<1>0. /\ Blocks \in Nat /\ Lap \in Nat /\ Lap = Blocks + 5 /\ Whole = 2 * Lap + 1 /\ sent \in 0..Blocks
      /\ state \in States /\ excused \in BOOLEAN
  BY RecoveryAssumption DEF Lap, Whole, TypeOK
<1>1. FlowAt(flow, first, second)
  BY FlowIsAt
<1>2. Len(events) = Emitted /\ (excused => state \in {"WaitForFipPrompt", "WaitForUbootPrompt"})
  BY DEF Reported
<1> HIDE DEF flow
<1>3. CASE state = "WaitForInitialPrompt"
  <2>1. Len(events) = 0
    BY <1>0, <1>2, <1>3 DEF Emitted, Milestones, Sends
  <2> QED
    BY <1>0, <1>1, <1>3, <2>1 DEF FlowAt, PromptEvent, Stage, CrcWaits, Counts, Sends, flow
<1>4. CASE state = "SendXForPreloader"
  <2>1. Len(events) = 1
    BY <1>0, <1>2, <1>4 DEF Emitted, Milestones, Sends
  <2> QED
    BY <1>0, <1>1, <1>4, <2>1 DEF FlowAt, Stage, CrcWaits, PromptWaits, Counts, Sends, flow
<1>5. CASE state = "WaitForXmodemCrcPreloader"
  <2>1. Len(events) = 2
    BY <1>0, <1>2, <1>5 DEF Emitted, Milestones, Sends
  <2> QED
    BY <1>0, <1>1, <1>5, <2>1 DEF FlowAt, Transfer, PromptWaits, Counts, Sends, flow
<1>6. CASE state = "SendPreloader"
  <2>1. Len(events) = 4 + sent
    BY <1>0, <1>2, <1>6 DEF Emitted, Milestones, Sends
  <2>2. step = "data" => flow[Len(events) + 1] = <<"XmodemProgress", Transfer, sent + 1>>
    <3>1. step = "data" => sent + 1 \in 1..Blocks /\ Len(events) + 1 = 4 + (sent + 1)
      BY <1>0, <2>1 DEF Counts
    <3>2. Transfer = "Preloader"
      BY <1>6 DEF Transfer
    <3> QED
      BY <1>1, <3>1, <3>2 DEF FlowAt
  <2>3. step = "eot_wait" => flow[Len(events) + 1] = <<"XmodemCompleted", Transfer, first>>
    <3>1. step = "eot_wait" => Len(events) + 1 = Lap
      BY <1>0, <2>1 DEF Reported
    <3>2. Transfer = "Preloader"
      BY <1>6 DEF Transfer
    <3> QED
      BY <1>1, <3>1, <3>2 DEF FlowAt
  <2>4. Len(events) < Whole
    BY <1>0, <2>1
  <2> QED
    BY <1>6, <2>2, <2>3, <2>4 DEF CrcWaits, PromptWaits, flow
<1>7. CASE state = "WaitForFipPrompt"
  <2>1. Len(events) = Lap \/ (excused /\ Len(events) = Lap - 1)
    BY <1>0, <1>2, <1>7 DEF Emitted, Milestones, Sends
  <2>2. PromptEvent = <<"PromptSeen", "FipPrompt">>
    BY <1>7 DEF PromptEvent, Stage
  <2>3. ~excused => Len(events) + 1 = Lap + 1
    BY <2>1, <1>0, <1>2, <1>7 DEF Emitted, Milestones, Sends
  <2>4. ~excused => flow[Len(events) + 1] = PromptEvent
    BY <1>1, <2>2, <2>3 DEF FlowAt
  <2>5. Len(events) < Whole /\ step = "idle"
    BY <1>0, <1>7, <2>1 DEF Counts, Sends
  <2> QED
    BY <1>7, <2>4, <2>5 DEF CrcWaits, flow
<1>8. CASE state = "SendXForFip"
  <2>1. Len(events) = Lap + 1 /\ Len(events) + 1 = Lap + 2
    BY <1>0, <1>2, <1>8 DEF Emitted, Milestones, Sends
  <2>2. Stage = "FipPrompt"
    BY <1>8 DEF Stage
  <2>3. flow[Len(events) + 1] = <<"InputSent", Stage>>
    BY <1>1, <2>1, <2>2 DEF FlowAt
  <2>4. Len(events) < Whole /\ step = "idle"
    BY <1>0, <1>8, <2>1 DEF Counts, Sends
  <2> QED
    BY <1>8, <2>3, <2>4 DEF CrcWaits, PromptWaits, flow
<1>9. CASE state = "WaitForXmodemCrcFip"
  <2>1. Len(events) = Lap + 2 /\ Len(events) + 1 = Lap + 3 /\ Len(events) + 2 = Lap + 4
    BY <1>0, <1>2, <1>9 DEF Emitted, Milestones, Sends
  <2>2. Transfer = "Fip"
    BY <1>9 DEF Transfer
  <2>3. /\ flow[Len(events) + 1] = <<"CrcReady", Transfer>>
        /\ flow[Len(events) + 2] = <<"XmodemStarted", Transfer>>
    BY <1>1, <2>1, <2>2 DEF FlowAt
  <2>4. Len(events) + 1 < Whole /\ Len(events) < Whole /\ step = "idle"
    BY <1>0, <1>9, <2>1 DEF Counts, Sends
  <2> QED
    BY <1>9, <2>3, <2>4 DEF PromptWaits, flow
<1>10. CASE state = "SendFip"
  <2>1. Len(events) = Lap + 4 + sent
    BY <1>0, <1>2, <1>10 DEF Emitted, Milestones, Sends
  <2>2. step = "data" => flow[Len(events) + 1] = <<"XmodemProgress", Transfer, sent + 1>>
    <3>1. step = "data" => sent + 1 \in 1..Blocks /\ Len(events) + 1 = Lap + 4 + (sent + 1)
      BY <1>0, <2>1 DEF Counts
    <3>2. Transfer = "Fip"
      BY <1>10 DEF Transfer
    <3> QED
      BY <1>1, <3>1, <3>2 DEF FlowAt
  <2>3. step = "eot_wait" => flow[Len(events) + 1] = <<"XmodemCompleted", Transfer, second>>
    <3>1. step = "eot_wait" => Len(events) + 1 = 2 * Lap
      BY <1>0, <2>1 DEF Reported
    <3>2. Transfer = "Fip"
      BY <1>10 DEF Transfer
    <3> QED
      BY <1>1, <3>1, <3>2 DEF FlowAt
  <2>4. Len(events) < Whole
    BY <1>0, <2>1
  <2> QED
    BY <1>10, <2>2, <2>3, <2>4 DEF CrcWaits, PromptWaits, flow
<1>11. CASE state = "WaitForUbootPrompt"
  <2>1. (~excused /\ Len(events) = 2 * Lap) \/ (excused /\ Len(events) = 2 * Lap - 1)
    BY <1>0, <1>2, <1>11 DEF Emitted, Milestones, Sends
  <2>2. ~excused => Len(events) + 1 = Whole
    BY <1>0, <2>1
  <2>3. PromptEvent = <<"UBootPromptSeen">>
    BY <1>11 DEF PromptEvent, Stage
  <2>4. ~excused => flow[Len(events) + 1] = PromptEvent
    BY <1>1, <2>2, <2>3 DEF FlowAt
  <2>5. Len(events) < Whole /\ step = "idle"
    BY <1>0, <1>11, <2>1 DEF Counts, Sends
  <2> QED
    BY <1>11, <2>4, <2>5 DEF CrcWaits, flow
<1>12. CASE state = "Complete"
  BY <1>12 DEF PromptWaits, CrcWaits, Counts, Sends
<1> QED
  BY <1>0, <1>3, <1>4, <1>5, <1>6, <1>7, <1>8, <1>9, <1>10, <1>11, <1>12 DEF States

\* A step that tells nothing and stays where it is.
LEMMA ReportedKept ==
    ASSUME Reported, UNCHANGED <<events, state, sent, excused>>,
           step' \in {"eot_write", "eot_wait"} => step \in {"eot_write", "eot_wait"},
           result' = result \/ (Running /\ result' # "ok")
    PROVE  Reported'
<1>1. Emitted' = Emitted /\ OnFlow(events')
  BY DEF Reported, Emitted
<1> QED
  BY <1>1 DEF Reported, Running

LEMMA ReportedStart == Init => Reported
<1> SUFFICES ASSUME Init PROVE Reported
  OBVIOUS
<1>1. Emitted = 0 /\ Len(events) = 0
  BY DEF Init, Emitted, Milestones, Sends
<1>2. Along(events, TRUE, TRUE)
  BY <1>1 DEF Along
<1>3. OnFlow(events)
  <2>1. PICK way \in BOOLEAN : way = TRUE
    OBVIOUS
  <2> QED
    BY <1>2, <2>1 DEF OnFlow
<1> QED
  BY <1>1, <1>3 DEF Init, Reported

\* An error of the runner ends the run where it is.
LEMMA FailingReports ==
    ASSUME TypeOK, Reported, Running, NEW error \in {"Timeout", "Serial", "Xmodem", "XmodemIo"}, Fail(error)
    PROVE  Reported'
<1>1. result' # "ok" /\ UNCHANGED <<events, state, sent, excused, step>>
  BY DEF Fail
<1> QED
  BY <1>1, ReportedKept

LEMMA ReportedStep == TypeOK /\ Counts /\ Reported /\ [Next]_vars => Reported'
<1> SUFFICES ASSUME TypeOK, Counts, Reported, [Next]_vars PROVE Reported'
  OBVIOUS
<1>0. /\ Blocks \in Nat /\ Lap \in Nat /\ Lap = Blocks + 5 /\ Whole = 2 * Lap + 1 /\ sent \in 0..Blocks
      /\ state \in States /\ excused \in BOOLEAN /\ Len(events) \in Nat /\ Len(events) = Emitted
  BY RecoveryAssumption DEF Lap, Whole, TypeOK, Reported
<1>1. PICK first \in BOOLEAN, second \in BOOLEAN : Along(events, first, second)
  BY DEF Reported, OnFlow
<1>2. CASE PromptFound
  <2>1. /\ state \in PromptWaits /\ state' = After[state] /\ excused' = FALSE /\ Running
        /\ UNCHANGED <<sent, step>>
        /\ result' = IF state = "WaitForUbootPrompt" THEN "ok" ELSE result
    BY <1>2 DEF PromptFound
  <2>2. OnFlow(events') /\ Len(events') = Len(events) + (IF excused THEN 2 ELSE 1)
    <3>1. CASE excused
      <4>1. events' = Emit(Emit(events, <<"XmodemCompleted", Transfer, TRUE>>), PromptEvent)
        BY <1>2, <3>1 DEF PromptFound
      <4>2. state \in {"WaitForFipPrompt", "WaitForUbootPrompt"}
        BY <3>1 DEF Reported
      <4> QED
        BY <3>1, <4>1, <4>2, LateCompletion
    <3>2. CASE ~excused
      <4>1. events' = Append(events, PromptEvent)
        BY <1>2, <3>2 DEF PromptFound, Emit
      <4>2. PromptEvent = Flow(first, second)[Len(events) + 1] /\ Len(events) < Whole
        BY <1>0, <2>1, <3>2, NextOnFlow DEF PromptWaits
      <4> QED
        BY <1>1, <3>2, <4>1, <4>2, OnFlowGoesOn
    <3> QED
      BY <3>1, <3>2
  <2>3. Len(events') = Emitted'
    BY <1>0, <2>1, <2>2 DEF Reported, Emitted, Milestones, PromptWaits, After, Sends
  <2>4. step' \notin {"eot_write", "eot_wait"}
    BY <2>1 DEF Counts, PromptWaits, Sends
  <2>5. result' = "ok" <=> state' = "Complete"
    BY <2>1 DEF PromptWaits, After, Running
  <2> QED
    BY <2>1, <2>2, <2>3, <2>4, <2>5 DEF Reported
<1>3. CASE SendX
  <2>1. /\ state \in {"SendXForPreloader", "SendXForFip"} /\ state' = After[state] /\ Running
        /\ UNCHANGED <<sent, step, excused, result>> /\ events' = Append(events, <<"InputSent", Stage>>)
    BY <1>3 DEF SendX, Emit
  <2>2. OnFlow(events') /\ Len(events') = Len(events) + 1
    <3>1. <<"InputSent", Stage>> = Flow(first, second)[Len(events) + 1] /\ Len(events) < Whole
      BY <2>1, NextOnFlow
    <3> QED
      BY <1>1, <2>1, <3>1, OnFlowGoesOn
  <2>3. ~excused /\ step \notin {"eot_write", "eot_wait"}
    BY <2>1 DEF Reported, Counts, Sends
  <2>4. Len(events') = Emitted'
    BY <1>0, <2>1, <2>2, <2>3 DEF Emitted, Milestones, After, Sends
  <2> QED
    BY <2>1, <2>2, <2>3, <2>4 DEF Reported, After, Running
<1>4. CASE CrcFound
  <2> DEFINE ready == <<"CrcReady", Transfer>>
             started == <<"XmodemStarted", Transfer>>
             told == Append(events, ready)
  <2>1. /\ state \in CrcWaits /\ state' = After[state] /\ Running /\ step' = "data" /\ sent' = 0
        /\ UNCHANGED <<excused, result>> /\ events' = events \o <<ready, started>>
    BY <1>4 DEF CrcFound
  <2>2. ready = Flow(first, second)[Len(events) + 1] /\ started = Flow(first, second)[Len(events) + 2]
        /\ Len(events) < Whole /\ Len(events) + 1 < Whole
    BY <2>1, NextOnFlow DEF CrcWaits
  <2>3. ready \in EventPayload /\ started \in EventPayload /\ events \in Seq(EventPayload)
    BY RunnerEventsAreEvents DEF TypeOK
  <2> HIDE DEF ready, started
  <2>4. events' = Append(told, started)
    BY <2>1, <2>3
  <2>5. Along(told, first, second) /\ Len(told) = Len(events) + 1 /\ told \in Seq(EventPayload)
    BY <1>1, <2>2, OnFlowGoesOn
  <2> HIDE DEF told
  <2>6. started = Flow(first, second)[Len(told) + 1]
    BY <1>0, <2>2, <2>5
  <2>7. Along(Append(told, started), first, second)
    BY <2>3, <2>5, <2>6, OneMore
  <2>8. OnFlow(events') /\ Len(events') = Len(events) + 2
    BY <1>0, <2>3, <2>4, <2>5, <2>7 DEF OnFlow
  <2>9. ~excused
    BY <2>1 DEF Reported, CrcWaits
  <2>10. Len(events') = Emitted'
    BY <1>0, <2>1, <2>8, <2>9 DEF Emitted, Milestones, After, Sends, CrcWaits
  <2> QED
    BY <2>1, <2>8, <2>9, <2>10 DEF Reported, After, Running, CrcWaits
<1>5. CASE BlockSent
  <2>1. /\ step = "data" /\ Running /\ sent' = sent + 1 /\ UNCHANGED <<state, excused, result>>
        /\ events' = Append(events, <<"XmodemProgress", Transfer, sent + 1>>)
        /\ step' = IF sent + 1 = Blocks THEN "eot_write" ELSE step
    BY <1>5 DEF BlockSent, Emit
  <2>2. state \in Sends /\ state # "Complete"
    BY <2>1 DEF Counts, Sends
  <2>3. OnFlow(events') /\ Len(events') = Len(events) + 1
    <3>1. <<"XmodemProgress", Transfer, sent + 1>> = Flow(first, second)[Len(events) + 1] /\ Len(events) < Whole
      BY <2>1, <2>2, NextOnFlow
    <3> QED
      BY <1>1, <2>1, <3>1, OnFlowGoesOn
  <2>4. ~excused
    BY <2>2 DEF Reported, Sends
  <2>5. Len(events') = Emitted'
    <3>1. CASE state = "SendPreloader"
      BY <1>0, <2>1, <2>3, <2>4, <3>1 DEF Emitted, Milestones, Sends
    <3>2. CASE state = "SendFip"
      BY <1>0, <2>1, <2>3, <2>4, <3>2 DEF Emitted, Milestones, Sends
    <3> QED
      BY <2>2, <3>1, <3>2 DEF Sends
  <2> QED
    BY <2>1, <2>2, <2>3, <2>4, <2>5 DEF Reported, Running
<1>6. CASE EotAcked
  <2>1. /\ step = "eot_wait" /\ step' = "idle" /\ Running /\ state' = After[state]
        /\ UNCHANGED <<sent, excused, result>> /\ events' = Append(events, <<"XmodemCompleted", Transfer, FALSE>>)
    BY <1>6 DEF EotAcked, Emit
  <2>2. state \in Sends /\ state # "Complete" /\ sent = Blocks
    BY <2>1 DEF Counts, Sends, Reported
  <2>3. ~excused
    BY <2>2 DEF Reported, Sends
  <2>4. PICK recovered \in BOOLEAN : recovered = FALSE
    OBVIOUS
  <2>5. OnFlow(events') /\ Len(events') = Len(events) + 1
    <3>1. CASE state = "SendPreloader"
      <4>1. Len(events) < Lap
        BY <1>0, <2>2, <2>3, <3>1 DEF Emitted, Milestones, Sends
      <4>2. Along(events, recovered, second)
        BY <1>1, <4>1, OtherWay DEF TypeOK
      <4>3. <<"XmodemCompleted", Transfer, recovered>> = Flow(recovered, second)[Len(events) + 1]
            /\ Len(events) < Whole
        BY <2>1, <2>2, <3>1, NextOnFlow
      <4> QED
        BY <2>1, <2>4, <4>2, <4>3, OnFlowGoesOn
    <3>2. CASE state = "SendFip"
      <4>1. Len(events) < 2 * Lap
        BY <1>0, <2>2, <2>3, <3>2 DEF Emitted, Milestones, Sends
      <4>2. Along(events, first, recovered)
        BY <1>1, <4>1, OtherWay DEF TypeOK
      <4>3. <<"XmodemCompleted", Transfer, recovered>> = Flow(first, recovered)[Len(events) + 1]
            /\ Len(events) < Whole
        BY <2>1, <2>2, <3>2, NextOnFlow
      <4> QED
        BY <2>1, <2>4, <4>2, <4>3, OnFlowGoesOn
    <3> QED
      BY <2>2, <3>1, <3>2 DEF Sends
  <2>6. Len(events') = Emitted'
    <3>1. CASE state = "SendPreloader"
      BY <1>0, <2>1, <2>2, <2>3, <2>5, <3>1 DEF Emitted, Milestones, After, Sends
    <3>2. CASE state = "SendFip"
      BY <1>0, <2>1, <2>2, <2>3, <2>5, <3>2 DEF Emitted, Milestones, After, Sends
    <3> QED
      BY <2>2, <3>1, <3>2 DEF Sends
  <2> QED
    BY <2>1, <2>2, <2>3, <2>5, <2>6 DEF Reported, After, Running, Sends
<1>7. CASE (EotNaked \/ EotTimesOut) /\ ExcuseEot
  <2>1. /\ step = "eot_wait" /\ step' = "idle" /\ Running /\ state' = After[state] /\ excused' = TRUE
        /\ UNCHANGED <<sent, events, result>>
    BY <1>7 DEF EotNaked, EotTimesOut, ExcuseEot
  <2>2. state \in Sends /\ sent = Blocks
    BY <2>1 DEF Counts, Sends, Reported
  <2>3. ~excused
    BY <2>2 DEF Reported, Sends
  <2>4. Len(events') = Emitted'
    <3>1. CASE state = "SendPreloader"
      BY <1>0, <2>1, <2>2, <2>3, <3>1 DEF Emitted, Milestones, After, Sends
    <3>2. CASE state = "SendFip"
      BY <1>0, <2>1, <2>2, <2>3, <3>2 DEF Emitted, Milestones, After, Sends
    <3> QED
      BY <2>2, <3>1, <3>2 DEF Sends
  <2>5. OnFlow(events')
    BY <2>1 DEF Reported
  <2>6. state' \in {"WaitForFipPrompt", "WaitForUbootPrompt"} /\ result' # "ok" /\ state' # "Complete"
    BY <2>1, <2>2 DEF After, Sends, Running
  <2> QED
    BY <2>1, <2>4, <2>5, <2>6 DEF Reported
<1>8. CASE (EotNaked /\ ~ExcuseEot) \/ WriteEot \/ ReadData \/ Board \/ UNCHANGED vars
  <2>1. UNCHANGED <<events, state, sent, excused, result>>
    BY <1>8 DEF EotNaked, WriteEot, ReadData, Board, PowerOn, Transmit, LogOn, TakeX, RepeatC, TakeEot, runnerVars, vars
  <2>2. step' \in {"eot_write", "eot_wait"} => step \in {"eot_write", "eot_wait"}
    BY <1>8 DEF EotNaked, WriteEot, ReadData, Board, PowerOn, Transmit, LogOn, TakeX, RepeatC, TakeEot, runnerVars, vars
  <2> QED
    BY <2>1, <2>2, ReportedKept
<1>9. CASE ReadNothing
  <2>1. CASE waited + 1 >= PromptTimeout
    BY <1>9, <2>1, FailingReports DEF ReadNothing, Waiting
  <2>2. CASE ~(waited + 1 >= PromptTimeout)
    BY <1>9, <2>2, ReportedKept DEF ReadNothing
  <2> QED
    BY <2>1, <2>2
<1>10. CASE SerialFails
  <2>1. PICK error \in {"Serial", "XmodemIo"} : Fail(error)
    BY <1>10 DEF SerialFails
  <2> QED
    BY <1>10, <2>1, FailingReports DEF SerialFails
<1>11. CASE BlockFails \/ EotRejected
  BY <1>11, FailingReports DEF BlockFails, EotRejected
<1> QED
  BY <1>2, <1>3, <1>4, <1>5, <1>6, <1>7, <1>8, <1>9, <1>10, <1>11 DEF Next, Runner, EotTimesOut

\* Both ways through the EOT handshakes tell the same events in the same order, each once, and a
\* run succeeds exactly when it has told them all (recover_to_uboot and EventRecorder::emit).
THEOREM EventsKeepTheFlow == Spec => []EventsFollowFlow
<1>1. TypeOK /\ Counts /\ Reported => EventsFollowFlow
  <2> SUFFICES ASSUME TypeOK, Counts, Reported PROVE EventsFollowFlow
    OBVIOUS
  <2>0. /\ Blocks \in Nat /\ Lap \in Nat /\ Lap = Blocks + 5 /\ Whole = 2 * Lap + 1 /\ sent \in 0..Blocks
        /\ state \in States /\ excused \in BOOLEAN /\ Len(events) \in Nat /\ Len(events) = Emitted
        /\ events \in Seq(EventPayload)
    BY RecoveryAssumption DEF Lap, Whole, TypeOK, Reported
  <2>1. PICK first \in BOOLEAN, second \in BOOLEAN : Along(events, first, second)
    BY DEF Reported, OnFlow
  <2> DEFINE flow == Flow(first, second)
  <2>2. flow \in Seq(EventPayload) /\ Len(flow) = Whole
    BY FlowIsAt DEF FlowAt
  <2>3. \A i \in 1..Len(events) : events[i] = flow[i]
    BY <2>1 DEF Along
  <2> HIDE DEF flow
  <2>4. state # "Complete" => Len(events) < Whole
    BY <2>0, NextOnFlow
  <2>5. state = "Complete" => Len(events) = Whole
    BY <2>0 DEF Emitted, Milestones, Sends, Reported
  <2>6. Len(events) <= Len(flow) /\ ((result = "ok") = (Len(events) = Len(flow)))
    BY <2>0, <2>2, <2>4, <2>5 DEF Reported
  <2>7. events = SubSeq(flow, 1, Len(events))
    <3> DEFINE shown == SubSeq(flow, 1, Len(events))
    <3>1. shown \in Seq(EventPayload) /\ Len(shown) = Len(events)
      BY <2>0, <2>2, <2>6
    <3>2. \A i \in 1..Len(events) : shown[i] = flow[i]
      BY <2>0, <2>2, <2>6
    <3> HIDE DEF shown
    <3>3. events = shown
      BY <2>0, <2>3, <3>1, <3>2
    <3> QED
      BY <3>3 DEF shown
  <2> QED
    BY <2>6, <2>7 DEF EventsFollowFlow, flow
<1>2. TypeOK /\ Counts /\ Programs /\ Reported /\ [Next]_vars => (TypeOK /\ Counts /\ Programs /\ Reported)'
  BY TypesStep, ReportedStep
<1>3. Init => TypeOK /\ Counts /\ Programs /\ Reported
  BY TypesStart, ReportedStart
<1> QED
  BY <1>1, <1>2, <1>3, PTL DEF Spec

-----------------------------------------------------------------------------
(* The error of a transfer *)

\* What an event makes of the transfer that is under way.
LEMMA UnderWayAppended ==
    ASSUME NEW S, NEW told \in Seq(S), NEW event \in S
    PROVE  /\ Append(told, event) \in Seq(S)
           /\ Kind(event) = "XmodemStarted" => TransferUnderWay(Append(told, event))
           /\ Kind(event) = "XmodemCompleted" => ~TransferUnderWay(Append(told, event))
           /\ Kind(event) \notin {"XmodemStarted", "XmodemCompleted"} =>
                  (TransferUnderWay(Append(told, event)) <=> TransferUnderWay(told))
<1> DEFINE more == Append(told, event)
<1>1. /\ more \in Seq(S) /\ Len(told) \in Nat /\ Len(more) = Len(told) + 1 /\ more[Len(more)] = event
      /\ \A i \in 1..Len(told) : more[i] = told[i]
  OBVIOUS
<1> HIDE DEF more
<1>2. ASSUME Kind(event) = "XmodemStarted"
      PROVE  TransferUnderWay(more)
  <2>1. Len(more) \in 1..Len(more) /\ Len(more) + 1..Len(more) = {}
    BY <1>1
  <2> QED
    BY <1>1, <1>2, <2>1 DEF TransferUnderWay
<1>3. ASSUME Kind(event) = "XmodemCompleted"
      PROVE  ~TransferUnderWay(more)
  <2>1. SUFFICES ASSUME NEW i \in 1..Len(more), Kind(more[i]) = "XmodemStarted",
                        \A j \in i + 1..Len(more) : Kind(more[j]) # "XmodemCompleted"
                 PROVE  FALSE
    BY DEF TransferUnderWay
  <2>2. i # Len(more)
    BY <1>1, <1>3, <2>1
  <2>3. Len(more) \in i + 1..Len(more)
    BY <1>1, <2>2
  <2> QED
    BY <1>1, <1>3, <2>1, <2>3
<1>4. ASSUME Kind(event) \notin {"XmodemStarted", "XmodemCompleted"}
      PROVE  TransferUnderWay(more) <=> TransferUnderWay(told)
  <2>1. ASSUME NEW i \in 1..Len(more)
        PROVE  /\ i \in 1..Len(told) => more[i] = told[i]
               /\ i \notin 1..Len(told) => more[i] = event
    BY <1>1
  <2>2. ASSUME TransferUnderWay(more)
        PROVE  TransferUnderWay(told)
    <3>1. PICK i \in 1..Len(more) : /\ Kind(more[i]) = "XmodemStarted"
                                    /\ \A j \in i + 1..Len(more) : Kind(more[j]) # "XmodemCompleted"
      BY <2>2 DEF TransferUnderWay
    <3>2. i \in 1..Len(told)
      BY <1>4, <2>1, <3>1
    <3>3. \A j \in i + 1..Len(told) : j \in i + 1..Len(more) /\ more[j] = told[j]
      BY <1>1, <3>2
    <3> QED
      BY <2>1, <3>1, <3>2, <3>3 DEF TransferUnderWay
  <2>3. ASSUME TransferUnderWay(told)
        PROVE  TransferUnderWay(more)
    <3>1. PICK i \in 1..Len(told) : /\ Kind(told[i]) = "XmodemStarted"
                                    /\ \A j \in i + 1..Len(told) : Kind(told[j]) # "XmodemCompleted"
      BY <2>3 DEF TransferUnderWay
    <3>2. i \in 1..Len(more) /\ more[i] = told[i]
      BY <1>1
    <3>3. ASSUME NEW j \in i + 1..Len(more)
          PROVE  Kind(more[j]) # "XmodemCompleted"
      <4>1. CASE j \in i + 1..Len(told)
        BY <1>1, <3>1, <4>1
      <4>2. CASE j \notin i + 1..Len(told)
        <5>1. j = Len(more)
          BY <1>1, <4>2
        <5> QED
          BY <1>1, <1>4, <5>1
      <4> QED
        BY <4>1, <4>2
    <3> QED
      BY <3>1, <3>2, <3>3 DEF TransferUnderWay
  <2> QED
    BY <2>2, <2>3
<1> QED
  BY <1>1, <1>2, <1>3, <1>4 DEF more

\* While the run goes on a transfer is under way from its first block until it is reported
\* complete, whether the handshake completed it or the wait that excuses it is still on.
Kept ==
    /\ Running => (TransferUnderWay(events) <=> step # "idle" \/ excused)
    /\ TransferErrorIsKept

LEMMA KeptUnchanged ==
    ASSUME Kept, UNCHANGED <<events, result, excused>>, step' # "idle" <=> step # "idle"
    PROVE  Kept'
  BY DEF Kept, Running, TransferErrorIsKept

\* An error during a transfer is the transfer's.
LEMMA KeptFailing ==
    ASSUME Kept, Running, NEW error \in {"Timeout", "Serial", "Xmodem", "XmodemIo"}, Fail(error), excused \in BOOLEAN,
           error \in {"Xmodem", "XmodemIo"} <=> step # "idle"
    PROVE  Kept'
<1>1. events' = events /\ result' \notin {"running", "ok"}
  BY DEF Fail
<1>2. result' \in {"Xmodem", "XmodemIo"} <=> step # "idle" \/ excused
  BY DEF Fail
<1> QED
  BY <1>1, <1>2 DEF Kept, Running, TransferErrorIsKept

LEMMA KeptStep == TypeOK /\ Counts /\ Reported /\ Kept /\ [Next]_vars => Kept'
<1> SUFFICES ASSUME TypeOK, Counts, Reported, Kept, [Next]_vars PROVE Kept'
  OBVIOUS
<1>0. events \in Seq(EventPayload) /\ state \in States /\ excused \in BOOLEAN
  BY DEF TypeOK
<1>1. CASE PromptFound
  <2> DEFINE completed == <<"XmodemCompleted", Transfer, TRUE>>
             told == Append(events, completed)
  <2>1. /\ Running /\ state \in PromptWaits /\ excused' = FALSE /\ step' = step
        /\ result' \in {"ok", "running"}
        /\ events' = Append(IF excused THEN told ELSE events, PromptEvent)
    BY <1>1 DEF PromptFound, Emit, Running
  <2>2. /\ PromptEvent \in EventPayload /\ completed \in EventPayload
        /\ Kind(PromptEvent) \notin {"XmodemStarted", "XmodemCompleted"} /\ Kind(completed) = "XmodemCompleted"
    BY RunnerEventsAreEvents, <1>0 DEF Kind, PromptEvent
  <2>3. step = "idle"
    BY <2>1 DEF Counts, PromptWaits, Sends
  <2> HIDE DEF completed
  <2>4. told \in Seq(EventPayload) /\ ~TransferUnderWay(told)
    BY <1>0, <2>2, UnderWayAppended
  <2> HIDE DEF told
  <2>5. ~TransferUnderWay(events')
    <3>1. CASE excused
      BY <2>1, <2>2, <2>4, <3>1, UnderWayAppended
    <3>2. CASE ~excused
      BY <1>0, <2>1, <2>2, <2>3, <3>2, UnderWayAppended DEF Kept
    <3> QED
      BY <3>1, <3>2
  <2> QED
    BY <2>1, <2>3, <2>5 DEF Kept, Running, TransferErrorIsKept
<1>2. CASE SendX
  <2> DEFINE sending == <<"InputSent", Stage>>
  <2>1. /\ Running /\ UNCHANGED <<step, excused, result>> /\ events' = Append(events, sending)
    BY <1>2 DEF SendX, Emit
  <2>2. sending \in EventPayload /\ Kind(sending) \notin {"XmodemStarted", "XmodemCompleted"}
    BY RunnerEventsAreEvents, <1>0 DEF Kind
  <2> HIDE DEF sending
  <2>3. TransferUnderWay(events') <=> TransferUnderWay(events)
    BY <1>0, <2>1, <2>2, UnderWayAppended
  <2> QED
    BY <2>1, <2>3 DEF Kept, Running, TransferErrorIsKept
<1>3. CASE CrcFound
  <2> DEFINE ready == <<"CrcReady", Transfer>>
             started == <<"XmodemStarted", Transfer>>
             told == Append(events, ready)
  <2>1. Running /\ step' = "data" /\ UNCHANGED <<excused, result>> /\ events' = events \o <<ready, started>>
    BY <1>3 DEF CrcFound
  <2>2. ready \in EventPayload /\ started \in EventPayload /\ Kind(started) = "XmodemStarted"
    BY RunnerEventsAreEvents, <1>0 DEF Kind
  <2> HIDE DEF ready, started
  <2>3. events' = Append(told, started)
    BY <1>0, <2>1, <2>2
  <2>4. told \in Seq(EventPayload)
    BY <1>0, <2>2
  <2> HIDE DEF told
  <2>5. TransferUnderWay(events')
    BY <2>2, <2>3, <2>4, UnderWayAppended
  <2> QED
    BY <2>1, <2>5 DEF Kept, Running, TransferErrorIsKept
<1>4. CASE BlockSent
  <2> DEFINE sending == <<"XmodemProgress", Transfer, sent + 1>>
  <2>1. Running /\ step = "data" /\ step' \in {"data", "eot_write"} /\ UNCHANGED <<excused, result>>
        /\ events' = Append(events, sending)
    BY <1>4 DEF BlockSent, Emit
  <2>2. sending \in EventPayload /\ Kind(sending) \notin {"XmodemStarted", "XmodemCompleted"}
    BY RunnerEventsAreEvents, <1>0, RecoveryAssumption DEF Kind, TypeOK
  <2> HIDE DEF sending
  <2>3. TransferUnderWay(events') <=> TransferUnderWay(events)
    BY <1>0, <2>1, <2>2, UnderWayAppended
  <2> QED
    BY <2>1, <2>3 DEF Kept, Running, TransferErrorIsKept
<1>5. CASE EotAcked
  <2> DEFINE completed == <<"XmodemCompleted", Transfer, FALSE>>
  <2>1. Running /\ step = "eot_wait" /\ step' = "idle" /\ UNCHANGED <<excused, result>>
        /\ events' = Append(events, completed)
    BY <1>5 DEF EotAcked, Emit
  <2>2. completed \in EventPayload /\ Kind(completed) = "XmodemCompleted"
    BY RunnerEventsAreEvents, <1>0 DEF Kind
  <2>3. ~excused
    BY <2>1 DEF Reported, Counts, Sends
  <2> HIDE DEF completed
  <2>4. ~TransferUnderWay(events')
    BY <1>0, <2>1, <2>2, UnderWayAppended
  <2> QED
    BY <2>1, <2>3, <2>4 DEF Kept, Running, TransferErrorIsKept
<1>6. CASE (EotNaked \/ EotTimesOut) /\ ExcuseEot
  <2>1. Running /\ step = "eot_wait" /\ excused' = TRUE /\ UNCHANGED <<events, result>>
    BY <1>6 DEF EotNaked, EotTimesOut, ExcuseEot
  <2> QED
    BY <2>1 DEF Kept, Running, TransferErrorIsKept
<1>7. CASE (EotNaked /\ ~ExcuseEot) \/ WriteEot \/ ReadData \/ Board \/ UNCHANGED vars
  <2>1. UNCHANGED <<events, excused, result>>
    BY <1>7 DEF EotNaked, WriteEot, ReadData, Board, PowerOn, Transmit, LogOn, TakeX, RepeatC, TakeEot, runnerVars, vars
  <2>2. step' # "idle" <=> step # "idle"
    BY <1>7 DEF EotNaked, WriteEot, ReadData, Board, PowerOn, Transmit, LogOn, TakeX, RepeatC, TakeEot, runnerVars, vars
  <2> QED
    BY <2>1, <2>2, KeptUnchanged
<1>8. CASE ReadNothing
  <2>1. Running /\ step = "idle"
    BY <1>8 DEF ReadNothing, Waiting, Counts, PromptWaits, CrcWaits, Sends
  <2>2. CASE waited + 1 >= PromptTimeout
    BY <1>0, <1>8, <2>1, <2>2, KeptFailing DEF ReadNothing
  <2>3. CASE ~(waited + 1 >= PromptTimeout)
    BY <1>8, <2>3, KeptUnchanged DEF ReadNothing
  <2> QED
    BY <2>2, <2>3
<1>9. CASE SerialFails
  <2>1. CASE state \in Sends
    <3>1. Running /\ Fail("XmodemIo") /\ step # "idle"
      BY <1>9, <2>1 DEF SerialFails, Counts
    <3> QED
      BY <1>0, <3>1, KeptFailing
  <2>2. CASE state \notin Sends
    <3>1. Running /\ Fail("Serial") /\ step = "idle"
      BY <1>9, <2>2 DEF SerialFails, Counts
    <3> QED
      BY <1>0, <3>1, KeptFailing
  <2> QED
    BY <2>1, <2>2
<1>10. CASE BlockFails \/ EotRejected
  <2>1. Running /\ Fail("Xmodem") /\ step # "idle"
    BY <1>10 DEF BlockFails, EotRejected
  <2> QED
    BY <1>0, <2>1, KeptFailing
<1> QED
  BY <1>1, <1>2, <1>3, <1>4, <1>5, <1>6, <1>7, <1>8, <1>9, <1>10 DEF Next, Runner, EotTimesOut

\* A run that fails between a transfer's first block and the event that completes it reports the
\* transfer's error, whatever came of the wait that was to excuse it, and no other run does
\* (send_transfer and xmodem_failure).
THEOREM TransferErrorsAreKept == Spec => []TransferErrorIsKept
<1>1. Kept => TransferErrorIsKept
  BY DEF Kept
<1>2. Init => TypeOK /\ Counts /\ Programs /\ Reported /\ Kept
  <2>1. Init => Kept
    BY DEF Init, Kept, Running, TransferErrorIsKept, TransferUnderWay
  <2> QED
    BY <2>1, TypesStart, ReportedStart
<1>3. TypeOK /\ Counts /\ Programs /\ Reported /\ Kept /\ [Next]_vars =>
          (TypeOK /\ Counts /\ Programs /\ Reported /\ Kept)'
  BY TypesStep, ReportedStep, KeptStep
<1> QED
  BY <1>1, <1>2, <1>3, PTL DEF Spec

-----------------------------------------------------------------------------
(* The line of progress *)

\* The line shows the last event, if that one has a message.
LEMMA LineIsLast ==
    ASSUME NEW told \in Seq(EventPayload), told # <<>>, Message(told[Len(told)], FALSE) # Unchanged
    PROVE  Line(told, FALSE, FALSE) = Message(told[Len(told)], FALSE)
<1> DEFINE last == Len(told)
           passing == {i \in 1..last : Message(told[i], FALSE) # Unchanged}
<1>1. last \in Nat /\ last >= 1
  OBVIOUS
<1>2. last \in passing /\ \A j \in passing : j <= last /\ j \in Nat
  <2>1. last \in 1..last /\ \A j \in 1..last : j <= last /\ j \in Nat
    BY <1>1
  <2>2. Message(told[last], FALSE) # Unchanged
    OBVIOUS
  <2> HIDE DEF last
  <2> QED
    BY <2>1, <2>2
<1>3. (CHOOSE i \in passing : \A j \in passing : j <= i) = last
  <2> HIDE DEF passing, last
  <2>1. \E i \in passing : \A j \in passing : j <= i
    BY <1>2
  <2> DEFINE chosen == CHOOSE i \in passing : \A j \in passing : j <= i
  <2>2. chosen \in passing /\ \A j \in passing : j <= chosen
    BY <2>1
  <2> HIDE DEF chosen
  <2>3. chosen <= last /\ last <= chosen /\ chosen \in Nat
    BY <1>2, <2>2
  <2>4. chosen = last
    BY <1>1, <2>3
  <2> QED
    BY <2>4 DEF chosen
<1>4. passing # {}
  BY <1>2
<1>5. told[last] # <<"none">>
  <2>1. told[last] \in EventPayload
    BY <1>1
  <2>2. <<"none">> \notin EventPayload
    BY DEF EventPayload
  <2> QED
    BY <2>1, <2>2
<1>6. Line(told, FALSE, FALSE) =
         IF (IF passing = {} THEN <<"none">> ELSE told[CHOOSE i \in passing : \A j \in passing : j <= i]) = <<"none">>
         THEN FirstMessage(FALSE)
         ELSE Message(IF passing = {} THEN <<"none">> ELSE told[CHOOSE i \in passing : \A j \in passing : j <= i], FALSE)
  BY DEF Line, Latest
<1> HIDE DEF passing, last
<1>7. Line(told, FALSE, FALSE) = Message(told[last], FALSE)
  BY <1>3, <1>4, <1>5, <1>6
<1> QED
  BY <1>7 DEF last

LEMMA FirstLine == Line(<<>>, FALSE, FALSE) = PowerCycle
  BY DEF Line, Latest, FirstMessage

\* The messages of the events that a recovery emits.
LEMMA Messages ==
    /\ Message(<<"PromptSeen", "PreloaderPrompt">>, FALSE) = "Sending x for preloader"
    /\ Message(<<"PromptSeen", "FipPrompt">>, FALSE) = "Sending x for FIP"
    /\ Message(<<"InputSent", "PreloaderPrompt">>, FALSE) = "Waiting for preloader XMODEM"
    /\ Message(<<"InputSent", "FipPrompt">>, FALSE) = "Waiting for FIP XMODEM"
    /\ Message(<<"XmodemStarted", "Preloader">>, FALSE) = "Uploading preloader"
    /\ Message(<<"XmodemStarted", "Fip">>, FALSE) = "Uploading FIP"
    /\ \A n \in Nat : /\ Message(<<"XmodemProgress", "Preloader", n>>, FALSE) = "Uploading preloader"
                      /\ Message(<<"XmodemProgress", "Fip", n>>, FALSE) = "Uploading FIP"
    /\ \A recovered \in BOOLEAN :
          /\ Message(<<"XmodemCompleted", "Preloader", recovered>>, FALSE) = "Waiting for stage 2 prompt"
          /\ Message(<<"XmodemCompleted", "Fip", recovered>>, FALSE) = "Waiting for live U-Boot prompt"
    /\ Message(<<"UBootPromptSeen">>, FALSE) = Finished
    /\ \A stage_ \in RecoveryStage, n \in Nat :
          Message(<<"PromptWaiting", stage_, n>>, FALSE) = HeartbeatMessage(stage_, n)
<1>1. /\ Message(<<"PromptSeen", "PreloaderPrompt">>, FALSE) = "Sending x for preloader"
      /\ Message(<<"PromptSeen", "FipPrompt">>, FALSE) = "Sending x for FIP"
  BY DEF Message, Kind, PromptSeenMessage
<1>2. /\ Message(<<"InputSent", "PreloaderPrompt">>, FALSE) = "Waiting for preloader XMODEM"
      /\ Message(<<"InputSent", "FipPrompt">>, FALSE) = "Waiting for FIP XMODEM"
  BY DEF Message, Kind, InputSentMessage
<1>3. /\ Message(<<"XmodemStarted", "Preloader">>, FALSE) = "Uploading preloader"
      /\ Message(<<"XmodemStarted", "Fip">>, FALSE) = "Uploading FIP"
  BY DEF Message, Kind, UploadMessage
<1>4. \A n \in Nat : /\ Message(<<"XmodemProgress", "Preloader", n>>, FALSE) = "Uploading preloader"
                     /\ Message(<<"XmodemProgress", "Fip", n>>, FALSE) = "Uploading FIP"
  BY DEF Message, Kind, UploadMessage
<1>5. \A recovered \in BOOLEAN :
         /\ Message(<<"XmodemCompleted", "Preloader", recovered>>, FALSE) = "Waiting for stage 2 prompt"
         /\ Message(<<"XmodemCompleted", "Fip", recovered>>, FALSE) = "Waiting for live U-Boot prompt"
  BY DEF Message, Kind, CompletedMessage
<1>6. Message(<<"UBootPromptSeen">>, FALSE) = Finished
  BY DEF Message, Kind
<1>7. \A stage_ \in RecoveryStage, n \in Nat :
         Message(<<"PromptWaiting", stage_, n>>, FALSE) = HeartbeatMessage(stage_, n)
  BY DEF Message, Kind
<1> QED
  BY <1>1, <1>2, <1>3, <1>4, <1>5, <1>6, <1>7

\* The event told last, by what the runner is doing.
LEMMA LastTold ==
    ASSUME TypeOK, Counts, Reported
    PROVE  LET last == events[Len(events)]
           IN  /\ state = "WaitForInitialPrompt" <=> events = <<>>
               /\ state = "SendXForPreloader" => last = <<"PromptSeen", "PreloaderPrompt">>
               /\ state = "WaitForXmodemCrcPreloader" => last = <<"InputSent", "PreloaderPrompt">>
               /\ state = "SendPreloader" =>
                     last = <<"XmodemStarted", "Preloader">> \/ \E n \in Nat : last = <<"XmodemProgress", "Preloader", n>>
               /\ state = "WaitForFipPrompt" =>
                     \/ \E recovered \in BOOLEAN : last = <<"XmodemCompleted", "Preloader", recovered>>
                     \/ \E n \in Nat : last = <<"XmodemProgress", "Preloader", n>>
               /\ state = "SendXForFip" => last = <<"PromptSeen", "FipPrompt">>
               /\ state = "WaitForXmodemCrcFip" => last = <<"InputSent", "FipPrompt">>
               /\ state = "SendFip" =>
                     last = <<"XmodemStarted", "Fip">> \/ \E n \in Nat : last = <<"XmodemProgress", "Fip", n>>
               /\ state = "WaitForUbootPrompt" =>
                     \/ \E recovered \in BOOLEAN : last = <<"XmodemCompleted", "Fip", recovered>>
                     \/ \E n \in Nat : last = <<"XmodemProgress", "Fip", n>>
               /\ state = "Complete" => last = <<"UBootPromptSeen">>
<1>0. /\ Blocks \in Nat /\ Blocks >= 1 /\ Lap \in Nat /\ Lap = Blocks + 5 /\ Whole = 2 * Lap + 1 /\ sent \in 0..Blocks
      /\ state \in States /\ excused \in BOOLEAN /\ events \in Seq(EventPayload) /\ Len(events) \in Nat
  BY RecoveryAssumption DEF Lap, Whole, TypeOK
<1>1. PICK first \in BOOLEAN, second \in BOOLEAN : Along(events, first, second)
  BY DEF Reported, OnFlow
<1> DEFINE flow == Flow(first, second)
           last == events[Len(events)]
<1>2. FlowAt(flow, first, second)
  BY FlowIsAt
<1>3. Len(events) >= 1 => last = flow[Len(events)]
  <2>1. Len(events) >= 1 => Len(events) \in 1..Len(events)
    BY <1>0
  <2> QED
    BY <1>1, <2>1 DEF Along
<1>4. Len(events) = Emitted /\ (excused => state \in {"WaitForFipPrompt", "WaitForUbootPrompt"})
  BY DEF Reported
<1>5. events = <<>> <=> Len(events) = 0
  BY <1>0
<1> HIDE DEF flow, last
<1>6. CASE state = "WaitForInitialPrompt"
  <2>1. Len(events) = 0
    BY <1>0, <1>4, <1>6 DEF Emitted, Milestones, Sends
  <2> QED
    BY <1>5, <1>6, <2>1
<1>7. CASE state = "SendXForPreloader"
  <2>1. Len(events) = 1
    BY <1>0, <1>4, <1>7 DEF Emitted, Milestones, Sends
  <2> QED
    BY <1>2, <1>3, <1>5, <1>7, <2>1 DEF FlowAt, last
<1>8. CASE state = "WaitForXmodemCrcPreloader"
  <2>1. Len(events) = 2
    BY <1>0, <1>4, <1>8 DEF Emitted, Milestones, Sends
  <2> QED
    BY <1>2, <1>3, <1>5, <1>8, <2>1 DEF FlowAt, last
<1>9. CASE state = "SendPreloader"
  <2>1. Len(events) = 4 + sent
    BY <1>0, <1>4, <1>9 DEF Emitted, Milestones, Sends
  <2>2. CASE sent = 0
    <3>1. Len(events) = 4
      BY <2>1, <2>2
    <3> QED
      BY <1>2, <1>3, <1>5, <1>9, <3>1 DEF FlowAt, last
  <2>3. CASE sent # 0
    <3>1. sent \in 1..Blocks /\ sent \in Nat /\ Len(events) >= 1
      BY <1>0, <2>1, <2>3
    <3>2. last = <<"XmodemProgress", "Preloader", sent>>
      BY <1>2, <1>3, <2>1, <3>1 DEF FlowAt
    <3>3. \E n \in Nat : last = <<"XmodemProgress", "Preloader", n>>
      BY <3>1, <3>2
    <3> QED
      BY <1>0, <1>5, <1>9, <3>1, <3>3 DEF last
  <2> QED
    BY <2>2, <2>3
<1>10. CASE state = "WaitForFipPrompt"
  <2>1. CASE ~excused
    <3>1. Len(events) = Lap /\ Lap >= 1
      BY <1>0, <1>4, <1>10, <2>1 DEF Emitted, Milestones, Sends
    <3>2. last = <<"XmodemCompleted", "Preloader", first>>
      BY <1>2, <1>3, <3>1 DEF FlowAt
    <3>3. \E recovered \in BOOLEAN : last = <<"XmodemCompleted", "Preloader", recovered>>
      BY <1>1, <3>2
    <3>4. Len(events) # 0
      BY <1>0, <3>1
    <3> QED
      BY <1>5, <1>10, <3>3, <3>4 DEF last
  <2>2. CASE excused
    <3>1. Len(events) = 4 + Blocks /\ Len(events) >= 1 /\ Len(events) # 0 /\ Blocks \in 1..Blocks
      BY <1>0, <1>4, <1>10, <2>2 DEF Emitted, Milestones, Sends
    <3>2. last = <<"XmodemProgress", "Preloader", Blocks>>
      BY <1>2, <1>3, <3>1 DEF FlowAt
    <3>3. \E n \in Nat : last = <<"XmodemProgress", "Preloader", n>>
      BY <1>0, <3>2
    <3> QED
      BY <1>5, <1>10, <3>1, <3>3 DEF last
  <2> QED
    BY <1>0, <2>1, <2>2
<1>11. CASE state = "SendXForFip"
  <2>1. Len(events) = Lap + 1 /\ Len(events) >= 1 /\ Len(events) # 0
    BY <1>0, <1>4, <1>11 DEF Emitted, Milestones, Sends
  <2>2. last = <<"PromptSeen", "FipPrompt">>
    BY <1>2, <1>3, <2>1 DEF FlowAt
  <2> QED
    BY <1>5, <1>11, <2>1, <2>2 DEF last
<1>12. CASE state = "WaitForXmodemCrcFip"
  <2>1. Len(events) = Lap + 2 /\ Len(events) >= 1 /\ Len(events) # 0
    BY <1>0, <1>4, <1>12 DEF Emitted, Milestones, Sends
  <2>2. last = <<"InputSent", "FipPrompt">>
    BY <1>2, <1>3, <2>1 DEF FlowAt
  <2> QED
    BY <1>5, <1>12, <2>1, <2>2 DEF last
<1>13. CASE state = "SendFip"
  <2>1. Len(events) = Lap + 4 + sent /\ Len(events) >= 1 /\ Len(events) # 0
    BY <1>0, <1>4, <1>13 DEF Emitted, Milestones, Sends
  <2>2. CASE sent = 0
    <3>1. Len(events) = Lap + 4
      BY <1>0, <2>1, <2>2
    <3>2. last = <<"XmodemStarted", "Fip">>
      BY <1>2, <1>3, <2>1, <3>1 DEF FlowAt
    <3> QED
      BY <1>5, <1>13, <2>1, <3>2 DEF last
  <2>3. CASE sent # 0
    <3>1. sent \in 1..Blocks /\ sent \in Nat
      BY <1>0, <2>3
    <3>2. last = <<"XmodemProgress", "Fip", sent>>
      BY <1>2, <1>3, <2>1, <3>1 DEF FlowAt
    <3>3. \E n \in Nat : last = <<"XmodemProgress", "Fip", n>>
      BY <3>1, <3>2
    <3> QED
      BY <1>5, <1>13, <2>1, <3>3 DEF last
  <2> QED
    BY <2>2, <2>3
<1>14. CASE state = "WaitForUbootPrompt"
  <2>1. CASE ~excused
    <3>1. Len(events) = 2 * Lap /\ Len(events) >= 1 /\ Len(events) # 0
      BY <1>0, <1>4, <1>14, <2>1 DEF Emitted, Milestones, Sends
    <3>2. last = <<"XmodemCompleted", "Fip", second>>
      BY <1>2, <1>3, <3>1 DEF FlowAt
    <3>3. \E recovered \in BOOLEAN : last = <<"XmodemCompleted", "Fip", recovered>>
      BY <1>1, <3>2
    <3> QED
      BY <1>5, <1>14, <3>1, <3>3 DEF last
  <2>2. CASE excused
    <3>1. Len(events) = Lap + 4 + Blocks /\ Len(events) >= 1 /\ Len(events) # 0 /\ Blocks \in 1..Blocks
      BY <1>0, <1>4, <1>14, <2>2 DEF Emitted, Milestones, Sends
    <3>2. last = <<"XmodemProgress", "Fip", Blocks>>
      BY <1>2, <1>3, <3>1 DEF FlowAt
    <3>3. \E n \in Nat : last = <<"XmodemProgress", "Fip", n>>
      BY <1>0, <3>2
    <3> QED
      BY <1>5, <1>14, <3>1, <3>3 DEF last
  <2> QED
    BY <1>0, <2>1, <2>2
<1>15. CASE state = "Complete"
  <2>1. Len(events) = Whole /\ Len(events) >= 1 /\ Len(events) # 0
    BY <1>0, <1>4, <1>15 DEF Emitted, Milestones, Sends
  <2>2. last = <<"UBootPromptSeen">>
    BY <1>2, <1>3, <2>1 DEF FlowAt
  <2> QED
    BY <1>5, <1>15, <2>1, <2>2 DEF last
<1> QED
  BY <1>0, <1>6, <1>7, <1>8, <1>9, <1>10, <1>11, <1>12, <1>13, <1>14, <1>15 DEF States

\* What a heartbeat shows is none of the other messages.
LEMMA Heartbeats ==
    ASSUME NEW waiting \in RecoveryStage, NEW elapsed \in Nat
    PROVE  LET beat == HeartbeatMessage(waiting, elapsed)
           IN  /\ beat = PowerCycle \/ beat = WaitingFor[waiting]
               /\ waiting \notin {"Bootrom", "PreloaderPrompt"} => beat = WaitingFor[waiting]
               /\ beat \notin {Unchanged, "Waiting for stage 2 prompt", "Waiting for live U-Boot prompt"}
<1>1. /\ HeartbeatMessage(waiting, elapsed) = PowerCycle \/ HeartbeatMessage(waiting, elapsed) = WaitingFor[waiting]
      /\ waiting \notin {"Bootrom", "PreloaderPrompt"} => HeartbeatMessage(waiting, elapsed) = WaitingFor[waiting]
  BY DEF HeartbeatMessage
<1>2. PowerCycle \notin {Unchanged, "Waiting for stage 2 prompt", "Waiting for live U-Boot prompt"}
  BY DEF PowerCycle, Unchanged
<1>3. WaitingFor[waiting] \notin {Unchanged, "Waiting for stage 2 prompt", "Waiting for live U-Boot prompt"}
  <2>1. WaitingFor[waiting] \in
           {"Waiting for the bootrom prompt", "Waiting for the recovery prompt", "Waiting for the FIP prompt",
            "Waiting for the U-Boot prompt", "Waiting for the flash plan prompt"}
    <3>1. CASE waiting = "Bootrom"
      BY <3>1 DEF WaitingFor
    <3>2. CASE waiting = "PreloaderPrompt"
      BY <3>2 DEF WaitingFor
    <3>3. CASE waiting = "FipPrompt"
      BY <3>3 DEF WaitingFor
    <3>4. CASE waiting = "UBoot"
      BY <3>4 DEF WaitingFor
    <3>5. CASE waiting = "FlashPlan"
      BY <3>5 DEF WaitingFor
    <3> QED
      BY <3>1, <3>2, <3>3, <3>4, <3>5 DEF RecoveryStage
  <2> DEFINE label == WaitingFor[waiting]
  <2> HIDE DEF label
  <2>2. label \in {"Waiting for the bootrom prompt", "Waiting for the recovery prompt", "Waiting for the FIP prompt",
                   "Waiting for the U-Boot prompt", "Waiting for the flash plan prompt"}
    BY <2>1 DEF label
  <2>3. label \notin {"unchanged", "Waiting for stage 2 prompt", "Waiting for live U-Boot prompt"}
    BY <2>2
  <2> QED
    BY <2>3 DEF label, Unchanged
<1> QED
  BY <1>1, <1>2, <1>3

\* What the line says, with a heartbeat and without one.
LEMMA BarIs ==
    ASSUME TypeOK
    PROVE  LET last == events[Len(events)]
           IN  /\ Waiting /\ waited > 0 => Bar = HeartbeatMessage(Stage, waited * HeartbeatSeconds)
               /\ ~(Waiting /\ waited > 0) /\ events = <<>> => Bar = PowerCycle
               /\ ~(Waiting /\ waited > 0) /\ events # <<>> /\ Message(last, FALSE) # Unchanged =>
                     Bar = Message(last, FALSE)
<1>0. events \in Seq(EventPayload) /\ Len(events) \in Nat /\ waited \in Nat
  BY RecoveryAssumption DEF TypeOK
<1>1. ASSUME Waiting, waited > 0 PROVE Bar = HeartbeatMessage(Stage, waited * HeartbeatSeconds)
  <2> DEFINE seconds == waited * HeartbeatSeconds
             beat == <<"PromptWaiting", Stage, seconds>>
             told == Append(events, beat)
  <2>1. Stage \in RecoveryStage /\ seconds \in Nat
    BY <1>0 DEF Stage, RecoveryStage, HeartbeatSeconds
  <2> HIDE DEF seconds
  <2>2. beat \in EventPayload
    BY <2>1 DEF EventPayload
  <2>3. Message(beat, FALSE) = HeartbeatMessage(Stage, seconds)
    BY <2>1, Messages
  <2>4. HeartbeatMessage(Stage, seconds) # Unchanged
    BY <2>1, Heartbeats
  <2>5. Told = told
    BY <1>1 DEF Told, Emit, seconds
  <2> HIDE DEF beat
  <2>6. told \in Seq(EventPayload) /\ told # <<>> /\ told[Len(told)] = beat
    BY <1>0, <2>2
  <2> HIDE DEF told
  <2>7. Line(told, FALSE, FALSE) = Message(told[Len(told)], FALSE)
    BY <2>3, <2>4, <2>6, LineIsLast
  <2> QED
    BY <2>3, <2>5, <2>6, <2>7 DEF Bar, seconds
<1>2. ASSUME ~(Waiting /\ waited > 0) PROVE Bar = Line(events, FALSE, FALSE)
  BY <1>2 DEF Bar, Told
<1>3. ASSUME ~(Waiting /\ waited > 0), events = <<>> PROVE Bar = PowerCycle
  BY <1>2, <1>3, FirstLine
<1>4. ASSUME ~(Waiting /\ waited > 0), events # <<>>, Message(events[Len(events)], FALSE) # Unchanged
      PROVE  Bar = Message(events[Len(events)], FALSE)
  BY <1>0, <1>2, <1>4, LineIsLast
<1> QED
  BY <1>1, <1>3, <1>4

\* A heartbeat of a wait accompanies that wait.
LEMMA HeartbeatAccompanies ==
    ASSUME TypeOK, Waiting, waited > 0
    PROVE  /\ HeartbeatMessage(Stage, waited * HeartbeatSeconds) \in Accompanies[state]
           /\ HeartbeatMessage(Stage, waited * HeartbeatSeconds) \notin
                 {"Waiting for stage 2 prompt", "Waiting for live U-Boot prompt"}
<1> DEFINE elapsed == waited * HeartbeatSeconds
           beat == HeartbeatMessage(Stage, elapsed)
<1>1. elapsed \in Nat
  BY RecoveryAssumption DEF TypeOK, HeartbeatSeconds
<1>2. Stage \in {"PreloaderPrompt", "FipPrompt", "UBoot"} /\ Stage \in RecoveryStage
  BY DEF Stage, RecoveryStage
<1> HIDE DEF elapsed
<1>3. /\ beat = PowerCycle \/ beat = WaitingFor[Stage]
      /\ Stage # "PreloaderPrompt" => beat = WaitingFor[Stage]
      /\ beat \notin {"Waiting for stage 2 prompt", "Waiting for live U-Boot prompt"}
  BY <1>1, <1>2, Heartbeats
<1>4. state \in PromptWaits \cup CrcWaits
  BY DEF Waiting
<1> HIDE DEF beat
<1>5. beat \in Accompanies[state]
  <2>1. CASE state = "WaitForInitialPrompt"
    <3>1. Stage = "PreloaderPrompt" /\ Accompanies[state] = {PowerCycle, WaitingFor["PreloaderPrompt"]}
      BY <2>1 DEF Stage, Accompanies, States
    <3> QED
      BY <1>3, <3>1
  <2>2. CASE state = "WaitForXmodemCrcPreloader"
    <3>1. /\ Stage = "PreloaderPrompt"
          /\ Accompanies[state] = {"Waiting for preloader XMODEM", WaitingFor["PreloaderPrompt"], PowerCycle}
      BY <2>2 DEF Stage, Accompanies, States
    <3> QED
      BY <1>3, <3>1
  <2>3. CASE state = "WaitForFipPrompt"
    <3>1. /\ Stage = "FipPrompt"
          /\ Accompanies[state] = {"Uploading preloader", "Waiting for stage 2 prompt", WaitingFor["FipPrompt"]}
      BY <2>3 DEF Stage, Accompanies, States
    <3> QED
      BY <1>3, <3>1
  <2>4. CASE state = "WaitForXmodemCrcFip"
    <3>1. /\ Stage = "FipPrompt"
          /\ Accompanies[state] = {"Waiting for FIP XMODEM", WaitingFor["FipPrompt"]}
      BY <2>4 DEF Stage, Accompanies, States
    <3> QED
      BY <1>3, <3>1
  <2>5. CASE state = "WaitForUbootPrompt"
    <3>1. /\ Stage = "UBoot"
          /\ Accompanies[state] = {"Uploading FIP", "Waiting for live U-Boot prompt", WaitingFor["UBoot"]}
      BY <2>5 DEF Stage, Accompanies, States
    <3> QED
      BY <1>3, <3>1
  <2> QED
    BY <1>4, <2>1, <2>2, <2>3, <2>4, <2>5 DEF PromptWaits, CrcWaits
<1> QED
  BY <1>3, <1>5 DEF beat, elapsed

\* So does the message of the event told last.
LEMMA LastAccompanies ==
    ASSUME TypeOK, Counts, Reported, events # <<>>
    PROVE  LET message == Message(events[Len(events)], FALSE)
           IN  /\ message \in Accompanies[state] /\ message # Unchanged
               /\ message = "Waiting for stage 2 prompt" => state = "WaitForFipPrompt"
               /\ message = "Waiting for live U-Boot prompt" => state = "WaitForUbootPrompt"
<1> DEFINE last == events[Len(events)]
           message == Message(last, FALSE)
<1>0. state \in States
  BY DEF TypeOK
<1>1. state # "WaitForInitialPrompt"
  BY LastTold
<1>2. CASE state = "SendXForPreloader"
  <2>1. message = "Sending x for preloader"
    BY <1>2, LastTold, Messages
  <2> QED
    BY <1>2, <2>1 DEF Accompanies, States, Unchanged
<1>3. CASE state = "WaitForXmodemCrcPreloader"
  <2>1. message = "Waiting for preloader XMODEM"
    BY <1>3, LastTold, Messages
  <2> QED
    BY <1>3, <2>1 DEF Accompanies, States, Unchanged
<1>4. CASE state = "SendPreloader"
  <2>1. message = "Uploading preloader"
    BY <1>4, LastTold, Messages
  <2> QED
    BY <1>4, <2>1 DEF Accompanies, States, Unchanged
<1>5. CASE state = "WaitForFipPrompt"
  <2>1. message = "Uploading preloader" \/ message = "Waiting for stage 2 prompt"
    BY <1>5, LastTold, Messages
  <2> QED
    BY <1>5, <2>1 DEF Accompanies, States, Unchanged
<1>6. CASE state = "SendXForFip"
  <2>1. message = "Sending x for FIP"
    BY <1>6, LastTold, Messages
  <2> QED
    BY <1>6, <2>1 DEF Accompanies, States, Unchanged
<1>7. CASE state = "WaitForXmodemCrcFip"
  <2>1. message = "Waiting for FIP XMODEM"
    BY <1>7, LastTold, Messages
  <2> QED
    BY <1>7, <2>1 DEF Accompanies, States, Unchanged
<1>8. CASE state = "SendFip"
  <2>1. message = "Uploading FIP"
    BY <1>8, LastTold, Messages
  <2> QED
    BY <1>8, <2>1 DEF Accompanies, States, Unchanged
<1>9. CASE state = "WaitForUbootPrompt"
  <2>1. message = "Uploading FIP" \/ message = "Waiting for live U-Boot prompt"
    BY <1>9, LastTold, Messages
  <2> QED
    BY <1>9, <2>1 DEF Accompanies, States, Unchanged
<1>10. CASE state = "Complete"
  <2>1. message = Finished
    BY <1>10, LastTold, Messages
  <2> QED
    BY <1>10, <2>1 DEF Accompanies, States, Unchanged, Finished
<1> QED
  BY <1>0, <1>1, <1>2, <1>3, <1>4, <1>5, <1>6, <1>7, <1>8, <1>9, <1>10 DEF States

\* The operator is told what the run waits for, and of an upload that is complete only when the
\* board has the image (FancyProgressRenderer::observe of the events of recover_to_uboot).
THEOREM LineTellsTheWait == Reset => (Spec => []BarTellsTheWait)
<1>1. Inv /\ Reported => BarTellsTheWait
  <2> SUFFICES ASSUME Inv, Reported PROVE BarTellsTheWait
    OBVIOUS
  <2>0. TypeOK /\ Counts /\ InStep /\ Delivered
    BY DEF Inv
  <2>1. /\ Bar \in Accompanies[state]
        /\ Bar = "Waiting for stage 2 prompt" => state = "WaitForFipPrompt"
        /\ Bar = "Waiting for live U-Boot prompt" => state = "WaitForUbootPrompt"
    <3>1. CASE Waiting /\ waited > 0
      BY <2>0, <3>1, BarIs, HeartbeatAccompanies
    <3>2. CASE ~(Waiting /\ waited > 0) /\ events = <<>>
      <4>1. Bar = PowerCycle /\ state = "WaitForInitialPrompt"
        BY <2>0, <3>2, BarIs, LastTold
      <4> QED
        BY <4>1 DEF Accompanies, States, PowerCycle
    <3>3. CASE ~(Waiting /\ waited > 0) /\ events # <<>>
      <4> DEFINE message == Message(events[Len(events)], FALSE)
      <4>1. /\ message \in Accompanies[state] /\ message # Unchanged
            /\ message = "Waiting for stage 2 prompt" => state = "WaitForFipPrompt"
            /\ message = "Waiting for live U-Boot prompt" => state = "WaitForUbootPrompt"
        BY <2>0, <3>3, LastAccompanies
      <4>2. Bar = message
        BY <2>0, <3>3, <4>1, BarIs
      <4> HIDE DEF message
      <4> QED
        BY <4>1, <4>2
    <3> QED
      BY <3>1, <3>2, <3>3
  <2>2. state = "WaitForFipPrompt" => <<"preloader", "bootrom">> \in stored
    BY <2>0 DEF InStep, Ended, Delivered, Target, SecondRound, NextStage
  <2>3. state = "WaitForUbootPrompt" => stored = Images
    <3>1. state = "WaitForUbootPrompt" => <<"preloader", "bootrom">> \in stored /\ <<"fip", "bl2">> \in stored
      BY <2>0 DEF InStep, Ended, Delivered, Target, SecondRound, NextStage
    <3> QED
      BY <2>0, <3>1 DEF Delivered, Images
  <2> QED
    BY <2>1, <2>2, <2>3 DEF BarTellsTheWait
<1>2. Init => Reported
  BY ReportedStart
<1>3. Inv /\ Reported /\ [Next]_vars => Reported'
  BY ReportedStep DEF Inv
<1> QED
  BY <1>1, <1>2, <1>3, InvHolds, PTL DEF Spec

-----------------------------------------------------------------------------
(* The prompts that are on their way *)

\* What the program has read and what it is still to read, as one row of tokens.
Size == Len(console) + Len(toHost) + Len(output)
Said == [i \in 1..Size |->
            IF i <= Len(console) THEN console[i]
            ELSE IF i <= Len(console) + Len(toHost) THEN toHost[i - Len(console)]
            ELSE output[i - Len(console) - Len(toHost)]]

\* A text is in a sequence, or ahead of the cursor.
Holds(seq, text) == \E k \in 0..Len(seq) - Len(text) : \A i \in 1..Len(text) : seq[k + i] = text[i]
Shows(text) == \E k \in cursor..Size - Len(text) : \A i \in 1..Len(text) : Said[k + i] = text[i]

\* What a wait looks for, with what has to follow it.
Texts == {<<PRESS, CTL>>, <<PRESS, LOAD, CTL>>, <<UBOOT, SPACE>>, <<CRC, CRC, CRC>>}
Sought ==
    CASE state = "WaitForInitialPrompt" -> <<PRESS, CTL>>
      [] state \in {"SendPreloader", "WaitForFipPrompt"} -> <<PRESS, LOAD, CTL>>
      [] state \in {"SendFip", "WaitForUbootPrompt"} -> <<UBOOT, SPACE>>
      [] OTHER -> <<CRC, CRC, CRC>>

\* The board has printed what the present wait looks for, or the one after this transfer.
Arriving ==
    \/ state = "WaitForInitialPrompt" /\ stage = "bootrom" /\ mode = "prompt"
    \/ state \in {"SendPreloader", "WaitForFipPrompt"} /\ stage = "bl2" /\ mode = "prompt"
    \/ state \in {"SendFip", "WaitForUbootPrompt"} /\ stage = "uboot"
    \/ state \in CrcWaits /\ mode = "ready"

\* The invariant behind NoPromptMissed: what is awaited, once printed, stays ahead of the cursor,
\* in one piece.
Coming == Running /\ Arriving => Shows(Sought)

\* A step of the program or the line keeps the row as it is but for the token at `gone`, chatter
\* or an answer of XMODEM, which it takes out (0 if it takes none); answers may become control
\* bytes, and new tokens may follow.
Thins(gone) ==
    /\ cursor' = cursor
    /\ gone = 0 \/ gone \in cursor + 1..Size
    /\ gone # 0 => Said[gone] \in Answers \cup {TEXT}
    /\ \A i \in 1..Size : i # gone =>
          LET j == IF gone # 0 /\ i > gone THEN i - 1 ELSE i
          IN  j <= Size' /\ (Said[i] \notin Answers => Said'[j] = Said[i])
    /\ Size' \in Nat

\* No text of a prompt has chatter or an answer in it.
LEMMA TextsAre ==
    ASSUME NEW text \in Texts
    PROVE  Len(text) \in 2..3 /\ \A i \in 1..Len(text) : text[i] \notin Answers \cup {TEXT}
<1>1. /\ Len(<<PRESS, CTL>>) = 2 /\ Len(<<PRESS, LOAD, CTL>>) = 3
      /\ Len(<<UBOOT, SPACE>>) = 2 /\ Len(<<CRC, CRC, CRC>>) = 3
  OBVIOUS
<1>2. \A token \in {PRESS, LOAD, UBOOT, CRC, CTL, SPACE} : token \notin Answers \cup {TEXT}
  BY DEF PRESS, LOAD, UBOOT, CRC, CTL, SPACE, TEXT, Answers, ACK, NAK, CAN
<1>3. 1..2 = {1, 2} /\ 1..3 = {1, 2, 3}
  OBVIOUS
<1>4. CASE text = <<PRESS, CTL>>
  BY <1>1, <1>2, <1>3, <1>4
<1>5. CASE text = <<PRESS, LOAD, CTL>>
  BY <1>1, <1>2, <1>3, <1>5
<1>6. CASE text = <<UBOOT, SPACE>>
  BY <1>1, <1>2, <1>3, <1>6
<1>7. CASE text = <<CRC, CRC, CRC>>
  BY <1>1, <1>2, <1>3, <1>7
<1> QED
  BY <1>4, <1>5, <1>6, <1>7 DEF Texts

LEMMA SoughtIsText == Sought \in Texts
  BY DEF Sought, Texts

LEMMA ShowsKept ==
    ASSUME TypeOK, NEW gone, Thins(gone), NEW text \in Texts, Shows(text)
    PROVE  \E k \in cursor'..Size' - Len(text) : \A i \in 1..Len(text) : Said'[k + i] = text[i]
<1> DEFINE n == Len(text)
           size == Size
           later == Size'
           row == Said
           next == Said'
           place(i) == IF gone # 0 /\ i > gone THEN i - 1 ELSE i
<1>1. n \in Nat /\ n >= 1 /\ \A i \in 1..n : text[i] \notin Answers \cup {TEXT}
  BY TextsAre
<1>2. cursor \in Nat /\ size \in Nat /\ cursor' = cursor /\ later \in Nat
  BY DEF TypeOK, Size, Thins
<1>3. PICK k \in cursor..size - n : \A i \in 1..n : row[k + i] = text[i]
  BY DEF Shows
<1>4. /\ gone = 0 \/ gone \in cursor + 1..size
      /\ gone # 0 => row[gone] \in Answers \cup {TEXT}
      /\ \A i \in 1..size : i # gone =>
            LET j == IF gone # 0 /\ i > gone THEN i - 1 ELSE i
            IN  j <= later /\ (row[i] \notin Answers => next[j] = row[i])
  BY DEF Thins
<1> HIDE DEF n, size, later, row, next
<1>5. \A i \in 1..n : k + i \in 1..size /\ row[k + i] \notin Answers \cup {TEXT} /\ k + i # gone
  BY <1>1, <1>2, <1>3, <1>4
<1>6. CASE gone = 0
  <2>1. \A i \in 1..n : k + i <= later /\ next[k + i] = text[i]
    BY <1>3, <1>4, <1>5, <1>6
  <2>2. k + n <= later
    BY <1>1, <2>1
  <2>3. k \in cursor'..later - n
    BY <1>1, <1>2, <1>3, <2>2
  <2> QED
    BY <2>1, <2>3 DEF n, later, next
<1>7. CASE gone # 0 /\ gone > k
  <2>1. gone > k + n
    <3>1. gone \in Nat /\ ~(gone \in k + 1..k + n)
      <4> SUFFICES ASSUME gone \in k + 1..k + n PROVE FALSE
        BY <1>2, <1>4, <1>7
      <4>1. gone - k \in 1..n /\ k + (gone - k) = gone
        BY <1>1, <1>2, <1>3, <1>4, <1>7
      <4> QED
        BY <1>5, <4>1
    <3> QED
      BY <1>1, <1>2, <1>3, <1>7, <3>1
  <2>2. \A i \in 1..n : ~(k + i > gone)
    BY <1>1, <1>2, <1>3, <1>4, <1>7, <2>1
  <2>3. \A i \in 1..n : k + i <= later /\ next[k + i] = text[i]
    BY <1>3, <1>4, <1>5, <2>2
  <2>4. k + n <= later
    BY <1>1, <2>3
  <2>5. k \in cursor'..later - n
    BY <1>1, <1>2, <1>3, <2>4
  <2> QED
    BY <2>3, <2>5 DEF n, later, next
<1>8. CASE gone # 0 /\ ~(gone > k)
  <2> DEFINE l == k - 1
  <2>1. l \in Nat /\ cursor <= l /\ \A i \in 1..n : k + i > gone /\ l + i = (k + i) - 1
    BY <1>1, <1>2, <1>3, <1>4, <1>8
  <2>2. \A i \in 1..n : l + i <= later /\ next[l + i] = text[i]
    <3> SUFFICES ASSUME NEW i \in 1..n PROVE l + i <= later /\ next[l + i] = text[i]
      OBVIOUS
    <3>1. (k + i) - 1 <= later /\ next[(k + i) - 1] = row[k + i]
      BY <1>4, <1>5, <1>8, <2>1
    <3> QED
      BY <1>3, <2>1, <3>1
  <2> HIDE DEF l
  <2>3. l + n <= later
    BY <1>1, <2>2
  <2>4. l \in cursor'..later - n
    BY <1>1, <1>2, <2>1, <2>3
  <2> QED
    BY <2>2, <2>4 DEF n, later, next
<1> QED
  BY <1>6, <1>7, <1>8

\* Where the row is when the board or the program has only moved or added something.
LEMMA RowGrows ==
    ASSUME TypeOK, TypeOK', UNCHANGED <<console, cursor>>,
           \/ UNCHANGED <<toHost, output>>
           \/ output # <<>> /\ toHost' = Append(toHost, Head(output)) /\ output' = Tail(output)
           \/ toHost' = toHost /\ \E more \in Seq(Tokens \cup Answers) : output' = output \o more
           \/ output = <<>> /\ toHost = <<>> /\ output' = output
    PROVE  Thins(0)
<1>1. /\ console \in Seq(Tokens) /\ Len(console) \in Nat
      /\ toHost \in Seq(Tokens \cup Answers) /\ Len(toHost) \in Nat
      /\ output \in Seq(Tokens \cup Answers) /\ Len(output) \in Nat
      /\ Len(toHost') \in Nat /\ Len(output') \in Nat /\ console' = console
  <2>1. toHost' \in Seq(Tokens \cup Answers) /\ output' \in Seq(Tokens \cup Answers)
    BY DEF TypeOK
  <2>2. Len(toHost') \in Nat /\ Len(output') \in Nat
    BY <2>1
  <2>3. /\ console \in Seq(Tokens) /\ toHost \in Seq(Tokens \cup Answers)
        /\ output \in Seq(Tokens \cup Answers)
    BY DEF TypeOK
  <2> QED
    BY <2>2, <2>3
<1>2. cursor' = cursor /\ Size' \in Nat /\ Size \in Nat
  BY <1>1 DEF Size
<1> SUFFICES ASSUME NEW i \in 1..Size PROVE i <= Size' /\ Said'[i] = Said[i]
  BY <1>2 DEF Thins
<1>3. Said[i] = IF i <= Len(console) THEN console[i]
                ELSE IF i <= Len(console) + Len(toHost) THEN toHost[i - Len(console)]
                ELSE output[i - Len(console) - Len(toHost)]
  BY DEF Said
<1>4. ASSUME i \in 1..Size'
      PROVE  Said'[i] = IF i <= Len(console) THEN console[i]
                        ELSE IF i <= Len(console) + Len(toHost') THEN toHost'[i - Len(console)]
                        ELSE output'[i - Len(console) - Len(toHost')]
  BY <1>1, <1>4 DEF Said
<1>5. CASE UNCHANGED <<toHost, output>>
  BY <1>1, <1>3, <1>4, <1>5 DEF Size
<1>6. CASE output # <<>> /\ toHost' = Append(toHost, Head(output)) /\ output' = Tail(output)
  <2>1. /\ Len(toHost') = Len(toHost) + 1 /\ Len(output') = Len(output) - 1
        /\ \A k \in 1..Len(toHost) : toHost'[k] = toHost[k]
        /\ toHost'[Len(toHost) + 1] = output[1]
        /\ \A k \in 1..Len(output) - 1 : output'[k] = output[k + 1]
    BY <1>1, <1>6
  <2>2. Size' = Size /\ i \in 1..Size'
    BY <1>1, <2>1 DEF Size
  <2>3. CASE i <= Len(console)
    BY <1>3, <1>4, <2>2, <2>3
  <2>4. CASE ~(i <= Len(console)) /\ i <= Len(console) + Len(toHost)
    <3>1. i - Len(console) \in 1..Len(toHost)
      BY <1>1, <2>4
    <3>2. Said[i] = toHost[i - Len(console)]
      BY <1>3, <2>4
    <3>3. Said'[i] = toHost'[i - Len(console)]
      BY <1>1, <1>4, <2>1, <2>2, <2>4
    <3>4. toHost'[i - Len(console)] = toHost[i - Len(console)]
      BY <2>1, <3>1
    <3> QED
      BY <1>1, <2>2, <3>2, <3>3, <3>4
  <2>5. CASE i = Len(console) + Len(toHost) + 1
    <3>1. i - Len(console) - Len(toHost) = 1 /\ i - Len(console) = Len(toHost) + 1
      BY <1>1, <2>5
    <3> QED
      BY <1>1, <1>3, <1>4, <2>1, <2>2, <2>5, <3>1
  <2>6. CASE i > Len(console) + Len(toHost) + 1
    <3>1. i - Len(console) - Len(toHost') \in 1..Len(output) - 1
          /\ (i - Len(console) - Len(toHost')) + 1 = i - Len(console) - Len(toHost)
      BY <1>1, <2>1, <2>6 DEF Size
    <3>2. Said[i] = output[i - Len(console) - Len(toHost)]
      BY <1>1, <1>3, <2>6
    <3>3. Said'[i] = output'[i - Len(console) - Len(toHost')]
      BY <1>1, <1>4, <2>1, <2>2, <2>6
    <3>4. output'[i - Len(console) - Len(toHost')] = output[i - Len(console) - Len(toHost)]
      BY <2>1, <3>1
    <3> QED
      BY <1>1, <2>2, <3>2, <3>3, <3>4
  <2> QED
    BY <1>1, <2>2, <2>3, <2>4, <2>5, <2>6
<1>7. CASE toHost' = toHost /\ \E more \in Seq(Tokens \cup Answers) : output' = output \o more
  <2>1. PICK more \in Seq(Tokens \cup Answers) : output' = output \o more
    BY <1>7
  <2>2. Len(output') = Len(output) + Len(more) /\ Len(more) \in Nat
        /\ \A k \in 1..Len(output) : output'[k] = output[k]
    BY <1>1, <2>1
  <2>3. i \in 1..Size'
    BY <1>1, <1>7, <2>2 DEF Size
  <2>4. CASE i <= Len(console) + Len(toHost)
    BY <1>3, <1>4, <1>7, <2>3, <2>4
  <2>5. CASE i > Len(console) + Len(toHost)
    <3>1. i - Len(console) - Len(toHost) \in 1..Len(output)
      BY <1>1, <2>5 DEF Size
    <3> QED
      BY <1>1, <1>3, <1>4, <1>7, <2>2, <2>3, <2>5, <3>1
  <2> QED
    BY <1>1, <2>3, <2>4, <2>5
<1>8. CASE output = <<>> /\ toHost = <<>> /\ output' = output
  <2>1. Size = Len(console) /\ i <= Len(console) /\ Size' >= Size
    BY <1>1, <1>8 DEF Size
  <2> QED
    BY <1>1, <1>2, <1>3, <1>4, <2>1
<1> QED
  BY <1>5, <1>6, <1>7, <1>8

\* An answer to the sender is taken off the wire.
LEMMA RowLosesAnswer ==
    ASSUME TypeOK, UNCHANGED <<console, cursor, output>>, toHost # <<>>, Head(toHost) \in Answers,
           toHost' = Tail(toHost)
    PROVE  Thins(Len(console) + 1)
<1>1. /\ console \in Seq(Tokens) /\ Len(console) \in Nat /\ cursor \in 0..Len(console)
      /\ toHost \in Seq(Tokens \cup Answers) /\ Len(toHost) \in Nat /\ Len(toHost) > 0
      /\ output \in Seq(Tokens \cup Answers) /\ Len(output) \in Nat
      /\ Len(toHost') = Len(toHost) - 1 /\ console' = console /\ output' = output
      /\ \A k \in 1..Len(toHost) - 1 : toHost'[k] = toHost[k + 1]
      /\ toHost[1] \in Answers
  BY DEF TypeOK
<1>2. cursor' = cursor /\ Size \in Nat /\ Size' = Size - 1 /\ Size' \in Nat /\ Len(console) + 1 \in 1..Size
      /\ Len(console) + 1 \in cursor + 1..Size
  BY <1>1 DEF Size
<1>3. Said[Len(console) + 1] = toHost[1]
  <2>1. ~(Len(console) + 1 <= Len(console)) /\ Len(console) + 1 <= Len(console) + Len(toHost)
        /\ Len(console) + 1 - Len(console) = 1
    BY <1>1
  <2> QED
    BY <1>2, <2>1 DEF Said
<1>4. ASSUME NEW i \in 1..Size, i # Len(console) + 1, NEW j, j = IF i > Len(console) + 1 THEN i - 1 ELSE i
      PROVE  j <= Size' /\ Said'[j] = Said[i]
  <2>1. Said[i] = IF i <= Len(console) THEN console[i]
                  ELSE IF i <= Len(console) + Len(toHost) THEN toHost[i - Len(console)]
                  ELSE output[i - Len(console) - Len(toHost)]
    BY DEF Said
  <2>2. ASSUME j \in 1..Size'
        PROVE  Said'[j] = IF j <= Len(console) THEN console[j]
                          ELSE IF j <= Len(console) + Len(toHost') THEN toHost'[j - Len(console)]
                          ELSE output[j - Len(console) - Len(toHost')]
    BY <1>1, <2>2 DEF Said
  <2>3. j \in 1..Size'
    <3>1. CASE i > Len(console) + 1
      BY <1>1, <1>2, <1>4, <3>1
    <3>2. CASE i < Len(console) + 1
      <4>1. j = i /\ i \in Nat /\ i >= 1 /\ i <= Len(console) /\ Size' >= Len(console)
        BY <1>1, <1>4, <3>2 DEF Size
      <4> QED
        BY <1>2, <4>1
    <3> QED
      BY <1>1, <1>4, <3>1, <3>2
  <2>4. CASE i <= Len(console)
    BY <1>1, <1>2, <1>4, <2>1, <2>2, <2>3, <2>4
  <2>5. CASE i > Len(console) + 1 /\ i <= Len(console) + Len(toHost)
    <3>1. j - Len(console) \in 1..Len(toHost) - 1 /\ (j - Len(console)) + 1 = i - Len(console)
          /\ j > Len(console) /\ j <= Len(console) + Len(toHost')
      BY <1>1, <1>4, <2>5
    <3> QED
      BY <1>1, <1>2, <1>4, <2>1, <2>2, <2>3, <2>5, <3>1
  <2>6. CASE i > Len(console) + Len(toHost)
    <3>1. j - Len(console) - Len(toHost') = i - Len(console) - Len(toHost)
          /\ j > Len(console) + Len(toHost')
      BY <1>1, <1>4, <2>6
    <3> QED
      BY <1>1, <1>2, <1>4, <2>1, <2>2, <2>3, <2>6, <3>1
  <2> QED
    BY <1>1, <1>4, <2>4, <2>5, <2>6
<1>5. \A i \in 1..Size : i # Len(console) + 1 =>
         LET j == IF Len(console) + 1 # 0 /\ i > Len(console) + 1 THEN i - 1 ELSE i
         IN  j <= Size' /\ (Said[i] \notin Answers => Said'[j] = Said[i])
  BY <1>1, <1>4
<1> QED
  BY <1>1, <1>2, <1>3, <1>5 DEF Thins

\* A read moves the first n tokens of the wire to the console, the first of them perhaps into the
\* text it goes on.
LEMMA ReadMoves ==
    ASSUME console \in Seq(Tokens), toHost \in Seq(Tokens \cup Answers), NEW n \in 1..Len(toHost),
           console' = Joined(console, Heard(n))
    PROVE  \E skipped \in {0, 1} :
              /\ Len(console') = Len(console) + n - skipped
              /\ \A i \in 1..Len(console) : console'[i] = console[i]
              /\ \A i \in Len(console) + 1..Len(console') :
                    LET token == toHost[i - Len(console) + skipped]
                    IN  token \notin Answers => console'[i] = token
              /\ skipped = 1 => toHost[1] = TEXT
<1> DEFINE more == Heard(n)
<1>1. more \in Seq(Tokens) /\ Len(more) = n /\ n \in Nat /\ n >= 1 /\ more # <<>> /\ Len(console) \in Nat
  BY DEF Heard, Tokens
<1>2. \A k \in 1..n : more[k] = toHost[k] \/ (more[k] = CTL /\ toHost[k] \in Answers)
  BY DEF Heard
<1> HIDE DEF more
<1>3. CASE console' = console \o more
  <2>1. Len(console') = Len(console) + n /\ \A i \in 1..Len(console) : console'[i] = console[i]
    <3>1. /\ Len(console \o more) = Len(console) + Len(more)
          /\ \A i \in 1..Len(console) : (console \o more)[i] = console[i]
      BY <1>1
    <3> QED
      BY <1>1, <1>3, <3>1
  <2>2. ASSUME NEW i \in Len(console) + 1..Len(console'), toHost[i - Len(console)] \notin Answers
        PROVE  console'[i] = toHost[i - Len(console)]
    <3>1. i - Len(console) \in 1..n /\ console'[i] = more[i - Len(console)]
      BY <1>1, <1>3, <2>1
    <3> QED
      BY <1>2, <2>2, <3>1
  <2>3. \A i \in Len(console) + 1..Len(console') : i - Len(console) + 0 = i - Len(console)
    BY <1>1, <2>1
  <2>4. Len(console') = Len(console) + n - 0
    BY <1>1, <2>1
  <2> QED
    BY <2>1, <2>2, <2>3, <2>4
<1>4. CASE console' = console \o Tail(more) /\ Head(more) = TEXT
  <2>1. Tail(more) \in Seq(Tokens) /\ Len(Tail(more)) = n - 1
        /\ \A k \in 1..n - 1 : Tail(more)[k] = more[k + 1]
    BY <1>1
  <2>2. Len(console') = Len(console) + n - 1 /\ \A i \in 1..Len(console) : console'[i] = console[i]
    <3>1. /\ Len(console \o Tail(more)) = Len(console) + Len(Tail(more))
          /\ \A i \in 1..Len(console) : (console \o Tail(more))[i] = console[i]
      BY <1>1, <2>1
    <3>2. Len(console') = Len(console) + (n - 1)
      BY <1>4, <2>1, <3>1
    <3> QED
      BY <1>1, <1>4, <3>1, <3>2
  <2>3. ASSUME NEW i \in Len(console) + 1..Len(console'), toHost[i - Len(console) + 1] \notin Answers
        PROVE  console'[i] = toHost[i - Len(console) + 1]
    <3>1. i - Len(console) \in 1..n - 1 /\ console'[i] = Tail(more)[i - Len(console)]
      BY <1>1, <1>4, <2>1, <2>2
    <3>2. i - Len(console) + 1 \in 1..n /\ console'[i] = more[i - Len(console) + 1]
      BY <1>1, <2>1, <3>1
    <3> QED
      BY <1>2, <2>3, <3>2
  <2>4. toHost[1] = TEXT
    <3>1. more[1] = TEXT /\ 1 \in 1..n
      BY <1>1, <1>4
    <3> QED
      BY <1>2, <3>1 DEF TEXT, CTL
  <2> QED
    BY <2>2, <2>3, <2>4
<1>5. console' = console \o more \/ (console' = console \o Tail(more) /\ Head(more) = TEXT)
  BY DEF Joined, more
<1> QED
  BY <1>3, <1>4, <1>5

LEMMA RowRead ==
    ASSUME TypeOK, UNCHANGED <<cursor, output>>, NEW n \in 1..Len(toHost),
           console' = Joined(console, Heard(n)), toHost' = SubSeq(toHost, n + 1, Len(toHost))
    PROVE  \E gone : Thins(gone)
<1>1. /\ console \in Seq(Tokens) /\ Len(console) \in Nat /\ cursor \in 0..Len(console)
      /\ toHost \in Seq(Tokens \cup Answers) /\ Len(toHost) \in Nat /\ n \in Nat /\ n >= 1 /\ n <= Len(toHost)
      /\ output \in Seq(Tokens \cup Answers) /\ Len(output) \in Nat
  BY DEF TypeOK
<1>2. PICK skipped \in {0, 1} :
         /\ Len(console') = Len(console) + n - skipped
         /\ \A i \in 1..Len(console) : console'[i] = console[i]
         /\ \A i \in Len(console) + 1..Len(console') :
               LET token == toHost[i - Len(console) + skipped]
               IN  token \notin Answers => console'[i] = token
         /\ skipped = 1 => toHost[1] = TEXT
  BY <1>1, ReadMoves
<1>3. Len(toHost') = Len(toHost) - n /\ \A k \in 1..Len(toHost) - n : toHost'[k] = toHost[k + n]
  BY <1>1
<1>4. Size \in Nat /\ Size' = Size - skipped /\ Size' \in Nat /\ output' = output /\ cursor' = cursor
      /\ Len(console) + 1 \in cursor + 1..Size /\ Len(console') \in Nat /\ Len(toHost') \in Nat
  <2>1. Len(console') \in Nat /\ Len(toHost') \in Nat /\ output' = output /\ cursor' = cursor
    BY <1>1, <1>2, <1>3
  <2>2. Size \in Nat /\ Len(console) + 1 \in cursor + 1..Size
    BY <1>1 DEF Size
  <2>3. Size' = Len(console') + Len(toHost') + Len(output)
    BY <2>1 DEF Size
  <2>4. Size' = Size - skipped /\ Size' \in Nat
    <3> DEFINE c == Len(console)
               h == Len(toHost)
               o == Len(output)
               c1 == Len(console')
               h1 == Len(toHost')
               size == Size
               size1 == Size'
    <3>1. c \in Nat /\ h \in Nat /\ o \in Nat /\ c1 \in Nat /\ h1 \in Nat /\ n \in Nat /\ size \in Nat
      BY <1>1, <2>1, <2>2
    <3>2. c1 = c + n - skipped /\ h1 = h - n
      BY <1>2, <1>3
    <3>3. size = c + h + o /\ size1 = c1 + h1 + o
      BY <2>3 DEF Size
    <3>4. size > c
      BY <1>1 DEF Size
    <3> HIDE DEF c, h, o, c1, h1, size, size1
    <3>5. size1 = size - skipped
      BY <3>1, <3>2, <3>3
    <3>6. size1 \in Nat
      BY <3>1, <3>4, <3>5
    <3> QED
      BY <3>5, <3>6 DEF size, size1
  <2> QED
    BY <2>1, <2>2, <2>4
<1> DEFINE gone == IF skipped = 1 THEN Len(console) + 1 ELSE 0
<1>5. gone = 0 \/ gone \in cursor + 1..Size
  BY <1>4
<1>6. ASSUME gone # 0 PROVE Said[gone] \in Answers \cup {TEXT}
  <2>1. gone = Len(console) + 1 /\ toHost[1] = TEXT
    BY <1>2, <1>6
  <2>2. ~(gone <= Len(console)) /\ gone <= Len(console) + Len(toHost) /\ gone - Len(console) = 1 /\ gone \in 1..Size
    BY <1>1, <1>4, <2>1
  <2>3. Said[gone] = toHost[1]
    BY <2>2 DEF Said
  <2> QED
    BY <2>1, <2>3
<1>7. ASSUME NEW i \in 1..Size, i # gone, NEW j, j = IF gone # 0 /\ i > gone THEN i - 1 ELSE i
      PROVE  j <= Size' /\ (Said[i] \notin Answers => Said'[j] = Said[i])
  <2>0. gone = IF skipped = 1 THEN Len(console) + 1 ELSE 0
    OBVIOUS
  <2> HIDE DEF gone
  <2>1. Said[i] = IF i <= Len(console) THEN console[i]
                  ELSE IF i <= Len(console) + Len(toHost) THEN toHost[i - Len(console)]
                  ELSE output[i - Len(console) - Len(toHost)]
    BY DEF Said
  <2>2. ASSUME j \in 1..Size'
        PROVE  Said'[j] = IF j <= Len(console') THEN console'[j]
                          ELSE IF j <= Len(console') + Len(toHost') THEN toHost'[j - Len(console')]
                          ELSE output[j - Len(console') - Len(toHost')]
    BY <1>1, <1>4, <2>2 DEF Said
  <2>3. CASE i <= Len(console)
    <3>1. j = i /\ i \in 1..Len(console) /\ j <= Len(console') /\ j \in 1..Size'
      <4>1. i \in Nat /\ i >= 1 /\ ~(gone # 0 /\ i > gone)
        BY <1>1, <2>0, <2>3
      <4>2. Len(console') >= Len(console)
        BY <1>1, <1>2
      <4>3. Size' >= Len(console)
        <5>1. Size = Len(console) + Len(toHost) + Len(output)
          BY DEF Size
        <5> QED
          BY <1>1, <1>4, <5>1
      <4> QED
        BY <1>1, <1>4, <1>7, <2>3, <4>1, <4>2, <4>3
    <3> QED
      BY <1>2, <1>4, <2>1, <2>2, <2>3, <3>1
  <2>4. CASE i > Len(console)
    <3>1. j = i - skipped /\ j > Len(console) /\ j \in Nat /\ j >= 1
      BY <1>1, <1>2, <1>7, <2>0, <2>4
    <3>2. j \in 1..Size' /\ j <= Size'
      BY <1>2, <1>4, <3>1
    <3>3. CASE i <= Len(console) + n
      <4>1. j \in Len(console) + 1..Len(console') /\ j - Len(console) + skipped = i - Len(console)
        BY <1>1, <1>2, <1>4, <3>1, <3>3
      <4>2. Said[i] = toHost[i - Len(console)]
        BY <1>1, <2>1, <2>4, <3>3
      <4>3. Said'[j] = console'[j]
        BY <1>4, <2>2, <3>2, <4>1
      <4> QED
        BY <1>2, <3>2, <4>1, <4>2, <4>3
    <3>4. CASE i > Len(console) + n /\ i <= Len(console) + Len(toHost)
      <4>1. j - Len(console') \in 1..Len(toHost) - n /\ j - Len(console') + n = i - Len(console)
            /\ ~(j <= Len(console')) /\ j <= Len(console') + Len(toHost')
        <5>1. j - Len(console') = i - Len(console) - n
          BY <1>1, <1>2, <3>1
        <5>2. i \in Nat
          OBVIOUS
        <5> QED
          BY <1>1, <1>3, <1>4, <3>1, <3>4, <5>1, <5>2
      <4>2. Said[i] = toHost[i - Len(console)]
        BY <1>1, <2>1, <2>4, <3>4
      <4>3. Said'[j] = toHost'[j - Len(console')]
        BY <2>2, <3>2, <4>1
      <4> QED
        BY <1>3, <3>2, <4>1, <4>2, <4>3
    <3>5. CASE i > Len(console) + Len(toHost)
      <4>1. j - Len(console') - Len(toHost') = i - Len(console) - Len(toHost)
            /\ ~(j <= Len(console')) /\ ~(j <= Len(console') + Len(toHost'))
        <5>1. j - Len(console') = i - Len(console) - n
          BY <1>1, <1>2, <3>1
        <5>2. j - Len(console') - Len(toHost') = i - Len(console) - Len(toHost)
          <6> DEFINE c == Len(console)
                     h == Len(toHost)
                     c1 == Len(console')
                     h1 == Len(toHost')
          <6>1. c \in Nat /\ h \in Nat /\ c1 \in Nat /\ h1 \in Nat /\ n \in Nat /\ i \in Nat
            BY <1>1, <1>4
          <6>2. h1 = h - n /\ j - c1 = i - c - n
            BY <1>3, <5>1
          <6> HIDE DEF c, h, c1, h1
          <6>3. j - c1 - h1 = i - c - h
            BY <3>1, <6>1, <6>2
          <6> QED
            BY <6>3 DEF c, h, c1, h1
        <5>3. i - Len(console) - Len(toHost) > 0
          BY <1>1, <3>5
        <5> QED
          BY <1>4, <3>1, <5>2, <5>3
      <4>2. Said[i] = output[i - Len(console) - Len(toHost)]
        BY <1>1, <2>1, <2>4, <3>5
      <4>3. Said'[j] = output[j - Len(console') - Len(toHost')]
        BY <2>2, <3>2, <4>1
      <4> QED
        BY <3>2, <4>1, <4>2, <4>3
    <3> QED
      BY <1>1, <3>3, <3>4, <3>5
  <2> QED
    BY <1>1, <2>3, <2>4
<1>8. \A i \in 1..Size : i # gone =>
         LET j == IF gone # 0 /\ i > gone THEN i - 1 ELSE i
         IN  j <= Size' /\ (Said[i] \notin Answers => Said'[j] = Said[i])
  BY <1>7
<1>9. Thins(gone)
  BY <1>4, <1>5, <1>6, <1>8 DEF Thins
<1> QED
  BY <1>9

\* What the board prints is ahead of the cursor.
LEMMA ShowsPrinted ==
    ASSUME TypeOK, UNCHANGED <<console, toHost, cursor>>, NEW text \in Texts,
           NEW front \in Seq(Tokens \cup Answers), NEW more \in Seq(Tokens \cup Answers),
           output' = front \o more, Holds(more, text)
    PROVE  \E k \in cursor'..Size' - Len(text) : \A i \in 1..Len(text) : Said'[k + i] = text[i]
<1> DEFINE c == Len(console)
           h == Len(toHost)
           f == Len(front)
           m == Len(more)
           n == Len(text)
           size == Size'
<1>1. /\ c \in Nat /\ h \in Nat /\ f \in Nat /\ m \in Nat /\ n \in Nat /\ n >= 1
      /\ cursor \in Nat /\ cursor <= c /\ cursor' = cursor /\ console' = console /\ toHost' = toHost
  <2>1. n \in 2..3
    BY TextsAre
  <2>2. console \in Seq(Tokens) /\ toHost \in Seq(Tokens \cup Answers) /\ cursor \in 0..c
    BY DEF TypeOK
  <2>3. c \in Nat /\ h \in Nat /\ f \in Nat /\ m \in Nat
    BY <2>2
  <2> HIDE DEF c, h, f, m, n
  <2>4. n \in Nat /\ n >= 1
    BY <2>1
  <2>5. cursor \in Nat /\ cursor <= c
    BY <2>2, <2>3
  <2> QED
    BY <2>3, <2>4, <2>5
<1>2. PICK k \in 0..m - n : \A i \in 1..n : more[k + i] = text[i]
  BY DEF Holds
<1>3. Len(output') = f + m /\ \A l \in 1..m : output'[f + l] = more[l]
  OBVIOUS
<1>4. size = c + h + (f + m)
  BY <1>1, <1>3 DEF Size
<1>5. \A j \in 1..size : ~(j <= c) /\ ~(j <= c + h) => Said'[j] = output'[j - c - h]
  BY <1>1 DEF Said
<1> HIDE DEF c, h, f, m, n, size
<1> DEFINE start == c + h + f + k
<1>6. start \in cursor'..size - n
  BY <1>1, <1>2, <1>4
<1>7. ASSUME NEW i \in 1..n PROVE Said'[start + i] = text[i]
  <2>1. /\ start + i \in 1..size /\ ~(start + i <= c) /\ ~(start + i <= c + h)
        /\ (start + i) - c - h = f + (k + i) /\ k + i \in 1..m
    BY <1>1, <1>2, <1>4
  <2> HIDE DEF start
  <2>2. Said'[start + i] = output'[f + (k + i)]
    BY <1>5, <2>1
  <2> QED
    BY <1>2, <1>3, <2>1, <2>2
<1> HIDE DEF start
<1> QED
  BY <1>6, <1>7 DEF n, size

\* Every program prints what it is awaited with.
LEMMA BannersHold ==
    /\ \A banner \in Banner["bootrom"] : Holds(banner, <<PRESS, CTL>>)
    /\ \A banner \in Banner["bl2"] : Holds(banner, <<PRESS, LOAD, CTL>>)
    /\ \A banner \in Banner["uboot"] : Holds(banner, <<UBOOT, SPACE>>)
    /\ Holds(<<TEXT, CRC, CRC, CRC>>, <<CRC, CRC, CRC>>)
<1>1. /\ Banner["bootrom"] = {<<PRESS, CTL>>, <<TEXT, PRESS, CTL>>}
      /\ Banner["bl2"] = {<<PRESS, LOAD, CTL>>, <<TEXT, CTL, PRESS, LOAD, CTL>>}
      /\ Banner["uboot"] = {<<TEXT, CTL, UBOOT, SPACE>>}
  BY DEF Banner
<1>2. 1..2 = {1, 2} /\ 1..3 = {1, 2, 3}
  OBVIOUS
<1>3. Holds(<<PRESS, CTL>>, <<PRESS, CTL>>)
  <2>1. /\ 0 \in 0..Len(<<PRESS, CTL>>) - Len(<<PRESS, CTL>>)
        /\ \A i \in 1..Len(<<PRESS, CTL>>) : <<PRESS, CTL>>[0 + i] = <<PRESS, CTL>>[i]
    OBVIOUS
  <2> QED
    BY <2>1 DEF Holds
<1>4. Holds(<<TEXT, PRESS, CTL>>, <<PRESS, CTL>>)
  <2>1. /\ 1 \in 0..Len(<<TEXT, PRESS, CTL>>) - Len(<<PRESS, CTL>>)
        /\ \A i \in 1..Len(<<PRESS, CTL>>) : <<TEXT, PRESS, CTL>>[1 + i] = <<PRESS, CTL>>[i]
    BY <1>2
  <2> QED
    BY <2>1 DEF Holds
<1>5. Holds(<<PRESS, LOAD, CTL>>, <<PRESS, LOAD, CTL>>)
  <2>1. /\ 0 \in 0..Len(<<PRESS, LOAD, CTL>>) - Len(<<PRESS, LOAD, CTL>>)
        /\ \A i \in 1..Len(<<PRESS, LOAD, CTL>>) : <<PRESS, LOAD, CTL>>[0 + i] = <<PRESS, LOAD, CTL>>[i]
    OBVIOUS
  <2> QED
    BY <2>1 DEF Holds
<1>6. Holds(<<TEXT, CTL, PRESS, LOAD, CTL>>, <<PRESS, LOAD, CTL>>)
  <2>1. /\ 2 \in 0..Len(<<TEXT, CTL, PRESS, LOAD, CTL>>) - Len(<<PRESS, LOAD, CTL>>)
        /\ \A i \in 1..Len(<<PRESS, LOAD, CTL>>) :
              <<TEXT, CTL, PRESS, LOAD, CTL>>[2 + i] = <<PRESS, LOAD, CTL>>[i]
    BY <1>2
  <2> QED
    BY <2>1 DEF Holds
<1>7. Holds(<<TEXT, CTL, UBOOT, SPACE>>, <<UBOOT, SPACE>>)
  <2>1. /\ 2 \in 0..Len(<<TEXT, CTL, UBOOT, SPACE>>) - Len(<<UBOOT, SPACE>>)
        /\ \A i \in 1..Len(<<UBOOT, SPACE>>) : <<TEXT, CTL, UBOOT, SPACE>>[2 + i] = <<UBOOT, SPACE>>[i]
    BY <1>2
  <2> QED
    BY <2>1 DEF Holds
<1>8. Holds(<<TEXT, CRC, CRC, CRC>>, <<CRC, CRC, CRC>>)
  <2>1. /\ 1 \in 0..Len(<<TEXT, CRC, CRC, CRC>>) - Len(<<CRC, CRC, CRC>>)
        /\ \A i \in 1..Len(<<CRC, CRC, CRC>>) : <<TEXT, CRC, CRC, CRC>>[1 + i] = <<CRC, CRC, CRC>>[i]
    BY <1>2
  <2> QED
    BY <2>1 DEF Holds
<1> QED
  BY <1>1, <1>3, <1>4, <1>5, <1>6, <1>7, <1>8

LEMMA CarriesOn ==
    ASSUME TypeOK, Coming, Running, Arriving, Sought' = Sought, NEW gone, Thins(gone)
    PROVE  Shows(Sought)'
<1>1. Shows(Sought) /\ Sought \in Texts
  BY SoughtIsText DEF Coming
<1>2. \E k \in cursor'..Size' - Len(Sought) : \A i \in 1..Len(Sought) : Said'[k + i] = Sought[i]
  BY <1>1, ShowsKept
<1> QED
  BY <1>2 DEF Shows

LEMMA FailuresEnd == \A error : error # "running" /\ Fail(error) => ~Running'
  BY DEF Fail, Running

\* What is awaited after a step was awaited before it and is still ahead, or the step prints it.
LEMMA ComingStep == Inv /\ Inv' /\ Coming /\ [Next]_vars => Coming'
<1> SUFFICES ASSUME Inv, Inv', Coming, [Next]_vars, Running', Arriving' PROVE Shows(Sought)'
  BY DEF Coming
<1>0. TypeOK /\ TypeOK' /\ Counts /\ InStep /\ InStep' /\ Counts'
  BY DEF Inv
<1>t. /\ state \in States /\ toHost \in Seq(Tokens \cup Answers) /\ output \in Seq(Tokens \cup Answers)
  BY <1>0 DEF TypeOK
<1>1. CASE PromptFound
  <2>1. state' = After[state] /\ state \in PromptWaits
    BY <1>1 DEF PromptFound
  <2>2. state' \in {"SendXForPreloader", "SendXForFip", "Complete"}
    BY <2>1 DEF After, PromptWaits
  <2> QED
    BY <2>2 DEF Arriving, CrcWaits
<1>2. CASE SendX
  <2>1. state' = After[state] /\ state \in {"SendXForPreloader", "SendXForFip"} /\ mode' = mode
    BY <1>2 DEF SendX, boardVars
  <2>2. state' \in CrcWaits /\ mode' = "prompt"
    BY <1>0, <2>1 DEF After, InStep, CrcWaits
  <2> QED
    BY <2>2 DEF Arriving, CrcWaits
<1>3. CASE CrcFound \/ BlockSent
  <2>1. step' \in {"data", "eot_write"}
    BY <1>0, <1>3 DEF CrcFound, BlockSent, TypeOK
  <2>2. stage' = Target' /\ state' \in Sends
    BY <1>0, <2>1 DEF InStep, Counts
  <2> QED
    BY <2>2 DEF Arriving, Target, SecondRound, Sends, CrcWaits
<1>4. CASE ReadData
  <2>1. PICK n \in 1..Len(toHost) :
           console' = Joined(console, Heard(n)) /\ toHost' = SubSeq(toHost, n + 1, Len(toHost))
    BY <1>4 DEF ReadData, Heard
  <2>2. UNCHANGED <<state, cursor, result, stage, mode, output>>
    BY <1>4 DEF ReadData, boardVars
  <2>3. PICK gone : Thins(gone)
    BY <1>0, <2>1, <2>2, RowRead
  <2>4. Running /\ Arriving /\ Sought' = Sought
    BY <2>2 DEF Running, Arriving, Sought
  <2> QED
    BY <1>0, <2>3, <2>4, CarriesOn
<1>5. CASE ReadNothing \/ UNCHANGED vars
  <2>1. UNCHANGED <<state, console, cursor, result, stage, mode, toHost, output>>
    BY <1>5, FailuresEnd DEF ReadNothing, boardVars, vars
  <2>2. Running /\ Arriving /\ Sought' = Sought
    BY <2>1 DEF Running, Arriving, Sought
  <2> QED
    BY <1>0, <2>1, <2>2, RowGrows, CarriesOn
<1>6. CASE SerialFails \/ BlockFails \/ EotRejected
  BY <1>6, FailuresEnd DEF SerialFails, BlockFails, EotRejected
<1>7. CASE WriteEot
  <2>1. step = "eot_write" /\ UNCHANGED <<state, stage, mode>>
    BY <1>7 DEF WriteEot, boardVars
  <2>2. stage' = Target /\ state' \in Sends /\ state' = state
    BY <1>0, <2>1 DEF InStep, Counts
  <2> QED
    BY <2>2 DEF Arriving, Target, SecondRound, Sends, CrcWaits
<1>8. CASE EotAcked \/ EotNaked
  <2>1. /\ Running /\ step = "eot_wait" /\ toHost # <<>> /\ Head(toHost) \in Answers /\ toHost' = Tail(toHost)
        /\ UNCHANGED <<console, cursor, stage, mode, output>>
    BY <1>8 DEF EotAcked, EotNaked, ExcuseEot, boardVars, Answers
  <2>2. state' = state \/ state' = After[state]
    BY <1>8 DEF EotAcked, EotNaked, ExcuseEot
  <2>3. state \in Sends
    BY <1>0, <2>1 DEF Counts
  <2>4. Arriving /\ Sought' = Sought
    BY <2>1, <2>2, <2>3 DEF Arriving, Sought, After, Sends, CrcWaits
  <2>5. Thins(Len(console) + 1)
    BY <1>0, <2>1, RowLosesAnswer
  <2> QED
    BY <1>0, <2>1, <2>4, <2>5, CarriesOn
<1>9. CASE EotTimesOut
  <2>1. /\ Running /\ step = "eot_wait" /\ state' = After[state]
        /\ UNCHANGED <<console, cursor, stage, mode, toHost, output>>
    BY <1>9 DEF EotTimesOut, ExcuseEot, boardVars
  <2>2. state \in Sends
    BY <1>0, <2>1 DEF Counts
  <2>3. Arriving /\ Sought' = Sought
    BY <2>1, <2>2 DEF Arriving, Sought, After, Sends, CrcWaits
  <2> QED
    BY <1>0, <2>1, <2>3, RowGrows, CarriesOn
<1>10. CASE PowerOn
  <2>1. PICK banner \in Banner["bootrom"] : output' = banner
    BY <1>10 DEF PowerOn
  <2>2. banner \in Seq(Tokens \cup Answers) /\ Holds(banner, <<PRESS, CTL>>)
    <3>1. banner \in Seq(Tokens)
      BY BannersAreTokens
    <3> QED
      BY <3>1, BannersHold
  <2>3. <<>> \in Seq(Tokens \cup Answers) /\ output' = <<>> \o banner
    BY <2>1, <2>2
  <2>4. state' = "WaitForInitialPrompt" /\ UNCHANGED <<console, toHost, cursor>>
    BY <1>10 DEF PowerOn, runnerVars
  <2>5. Sought' = <<PRESS, CTL>> /\ <<PRESS, CTL>> \in Texts
    BY <2>4 DEF Sought, Texts
  <2>6. \E k \in cursor'..Size' - Len(<<PRESS, CTL>>) :
           \A i \in 1..Len(<<PRESS, CTL>>) : Said'[k + i] = <<PRESS, CTL>>[i]
    BY <1>0, <2>2, <2>3, <2>4, <2>5, ShowsPrinted
  <2> QED
    BY <2>5, <2>6 DEF Shows
<1>11. CASE Transmit \/ LogOn
  <2>1. UNCHANGED <<state, console, cursor, result, stage, mode>>
    BY <1>11 DEF Transmit, LogOn, runnerVars, boardVars
  <2>2. \/ output # <<>> /\ toHost' = Append(toHost, Head(output)) /\ output' = Tail(output)
        \/ output = <<>> /\ toHost = <<>> /\ output' = output
    BY <1>11 DEF Transmit, LogOn, boardVars
  <2>3. Running /\ Arriving /\ Sought' = Sought
    BY <2>1 DEF Running, Arriving, Sought
  <2> QED
    BY <1>0, <2>1, <2>2, <2>3, RowGrows, CarriesOn
<1>12. CASE TakeX
  <2>1. toBoard # <<>> /\ Head(toBoard) = "x" /\ UNCHANGED <<state, console, toHost, cursor>>
    BY <1>12 DEF TakeX, runnerVars
  <2>2. state \in CrcWaits /\ mode = "prompt" /\ stage \in {"bootrom", "bl2"}
    BY <1>0, <2>1, LineToBoard DEF Target
  <2> DEFINE more == <<TEXT, CRC, CRC, CRC>>
             text == <<CRC, CRC, CRC>>
  <2>3. output' = output \o more
    BY <1>12, <2>2 DEF TakeX
  <2>4. more \in Seq(Tokens \cup Answers) /\ Holds(more, text)
    BY BannersHold DEF Tokens
  <2>5. Sought' = text /\ text \in Texts
    BY <2>1, <2>2 DEF Sought, Texts, CrcWaits
  <2> HIDE DEF more, text
  <2>6. \E k \in cursor'..Size' - Len(text) : \A i \in 1..Len(text) : Said'[k + i] = text[i]
    BY <1>0, <1>t, <2>1, <2>3, <2>4, <2>5, ShowsPrinted
  <2> QED
    BY <2>5, <2>6 DEF Shows
<1>13. CASE RepeatC
  <2>1. output = <<>> /\ output' = <<CRC>> /\ UNCHANGED <<state, console, cursor, result, stage, mode, toHost>>
    BY <1>13 DEF RepeatC, runnerVars
  <2>2. <<CRC>> \in Seq(Tokens \cup Answers) /\ output' = output \o <<CRC>>
    BY <2>1 DEF Tokens
  <2>3. Running /\ Arriving /\ Sought' = Sought
    BY <2>1 DEF Running, Arriving, Sought
  <2> QED
    BY <1>0, <2>1, <2>2, <2>3, RowGrows, CarriesOn
<1>14. CASE TakeEot
  <2>1. toBoard # <<>> /\ Head(toBoard) = "EOT" /\ UNCHANGED <<state, console, toHost, cursor>>
    BY <1>14 DEF TakeEot, runnerVars
  <2>2. mode = "receive" /\ stage = Target /\ state \in {"SendPreloader", "WaitForFipPrompt", "SendFip", "WaitForUbootPrompt"}
    <3>1. mode = "receive" /\ stage = Target /\ (step = "eot_wait" \/ state \in {"WaitForFipPrompt", "WaitForUbootPrompt"})
      BY <1>0, <2>1, LineToBoard
    <3> QED
      BY <1>0, <3>1 DEF Counts, Sends
  <2>3. CASE UNCHANGED stage
    BY <2>1, <2>2, <2>3 DEF Arriving, Target, SecondRound, CrcWaits
  <2>4. CASE ~UNCHANGED stage
    <3>1. stage' = NextStage[stage] /\ \E banner \in Banner[NextStage[stage]] :
             output' = output \o <<ACK>> \o banner \/ output' = output \o banner
      BY <1>14, <2>2, <2>4 DEF TakeEot, Boot, boardVars
    <3>2. PICK banner \in Banner[stage'] : output' = output \o <<ACK>> \o banner \/ output' = output \o banner
      BY <3>1
    <3>3. stage' \in {"bl2", "uboot"} /\ banner \in Seq(Tokens) /\ Holds(banner, Sought')
      <4>1. CASE state \in {"SendPreloader", "WaitForFipPrompt"}
        <5>1. stage' = "bl2" /\ Sought' = <<PRESS, LOAD, CTL>>
          BY <2>1, <2>2, <3>1, <4>1 DEF Target, SecondRound, NextStage, Sought
        <5> QED
          BY <3>2, <5>1, BannersHold, BannersAreTokens
      <4>2. CASE state \in {"SendFip", "WaitForUbootPrompt"}
        <5>1. stage' = "uboot" /\ Sought' = <<UBOOT, SPACE>>
          BY <2>1, <2>2, <3>1, <4>2 DEF Target, SecondRound, NextStage, Sought
        <5> QED
          BY <3>2, <5>1, BannersHold, BannersAreTokens
      <4> QED
        BY <2>2, <4>1, <4>2
    <3>4. PICK front \in Seq(Tokens \cup Answers) : output' = front \o banner
      <4>1. output \o <<ACK>> \in Seq(Tokens \cup Answers)
        BY <1>t DEF Answers
      <4> QED
        BY <1>t, <3>2, <4>1
    <3> DEFINE text == Sought'
    <3>5. text \in Texts /\ banner \in Seq(Tokens \cup Answers) /\ Holds(banner, text)
      BY <3>3, SoughtIsText DEF Sought, Texts
    <3>6. text = Sought'
      OBVIOUS
    <3> HIDE DEF text
    <3>7. \E k \in cursor'..Size' - Len(text) : \A i \in 1..Len(text) : Said'[k + i] = text[i]
      BY <1>0, <2>1, <3>4, <3>5, ShowsPrinted
    <3> QED
      BY <3>6, <3>7 DEF Shows
  <2> QED
    BY <2>3, <2>4
<1> QED
  BY <1>1, <1>2, <1>3, <1>4, <1>5, <1>6, <1>7, <1>8, <1>9, <1>10, <1>11, <1>12, <1>13, <1>14
     DEF Next, Runner, Board

\* A wait that has read all there is has what it looks for if that has been printed.
LEMMA NothingOverlooked ==
    ASSUME TypeOK, Coming, Waiting, Match = NoMatch, toHost = <<>>, Awaited
    PROVE  output # <<>>
<1> SUFFICES ASSUME output = <<>> PROVE FALSE
  OBVIOUS
<1>1. console \in Seq(Tokens) /\ Len(console) \in Nat /\ cursor \in Nat /\ cursor <= Len(console)
  BY DEF TypeOK
<1>2. Size = Len(console)
  BY <1>1 DEF Size
<1>3. \A i \in 1..Len(console) : Said[i] = console[i]
  BY <1>2 DEF Said
<1>4. Arriving /\ Running
  BY DEF Awaited, Arriving, Waiting, CrcWaits
<1>5. PICK k \in cursor..Len(console) - Len(Sought) : \A i \in 1..Len(Sought) : Said[k + i] = Sought[i]
  BY <1>2, <1>4 DEF Coming, Shows
<1>6. Len(Sought) \in 2..3
  BY SoughtIsText, TextsAre
<1>7. \A i \in 1..Len(Sought) : console[k + i] = Sought[i]
  <2>1. ASSUME NEW i \in 1..Len(Sought) PROVE k + i \in 1..Len(console)
    BY <1>1, <1>5, <1>6
  <2> QED
    BY <1>3, <1>5, <2>1
<1>8. CASE state = "WaitForInitialPrompt"
  <2>1. Sought = <<PRESS, CTL>> /\ Len(Sought) = 2
    BY <1>8 DEF Sought
  <2>2. k + 1 \in cursor + 1..Len(console) /\ k + 1 + 1 = k + 2 /\ k \in Nat
        /\ console[k + 1] = PRESS /\ console[k + 2] = CTL
    BY <1>1, <1>5, <1>7, <2>1
  <2>3. InitialRecovery \in Seq(Tokens) /\ InitialRecovery # <<>> /\ Len(InitialRecovery) = 1
        /\ InitialRecovery[1] = PRESS
    BY DEF InitialRecovery, Tokens
  <2>4. OccursAt(console, InitialRecovery, k + 1)
    BY <2>2, <2>3 DEF OccursAt
  <2>5. Terminated(console, k + 1, FALSE)
    BY <2>2 DEF Terminated, IsControl
  <2>6. FindPrompt(console, cursor, InitialRecovery, FALSE) = NoMatch
    BY <1>8 DEF Match
  <2> QED
    BY <1>1, <2>2, <2>3, <2>4, <2>5, <2>6, NoPromptOverlooked
<1>9. CASE state = "WaitForFipPrompt"
  <2>1. Sought = <<PRESS, LOAD, CTL>> /\ Len(Sought) = 3
    BY <1>9 DEF Sought
  <2>2. k + 2 \in cursor + 2..Len(console) /\ k + 2 + 1 = k + 3 /\ k \in Nat
        /\ console[k + 1] = PRESS /\ console[k + 2] = LOAD /\ console[k + 3] = CTL
    BY <1>1, <1>5, <1>7, <2>1
  <2>3. SecondStage \in Seq(Tokens) /\ SecondStage # <<>> /\ Len(SecondStage) = 2
        /\ SecondStage[1] = PRESS /\ SecondStage[2] = LOAD
    BY DEF SecondStage, Tokens
  <2>4. OccursAt(console, SecondStage, k + 2)
    <3>1. k + 2 - 2 + 1 = k + 1 /\ k + 2 - 2 + 2 = k + 2 /\ 1..2 = {1, 2}
      BY <2>2
    <3> QED
      BY <2>2, <2>3, <3>1 DEF OccursAt
  <2>5. Terminated(console, k + 2, FALSE)
    BY <2>2 DEF Terminated, IsControl
  <2>6. FindPrompt(console, cursor, SecondStage, FALSE) = NoMatch
    BY <1>9 DEF Match
  <2> QED
    BY <1>1, <2>2, <2>3, <2>4, <2>5, <2>6, NoPromptOverlooked
<1>10. CASE state = "WaitForUbootPrompt"
  <2>1. Sought = <<UBOOT, SPACE>> /\ Len(Sought) = 2
    BY <1>10 DEF Sought
  <2>2. k + 1 \in cursor + 1..Len(console) /\ k + 1 + 1 = k + 2 /\ k \in Nat
        /\ console[k + 1] = UBOOT /\ console[k + 2] = SPACE
    BY <1>1, <1>5, <1>7, <2>1
  <2>3. UBootShell \in Seq(Tokens) /\ UBootShell # <<>> /\ Len(UBootShell) = 1 /\ UBootShell[1] = UBOOT
    BY DEF UBootShell, Tokens
  <2>4. OccursAt(console, UBootShell, k + 1)
    BY <2>2, <2>3 DEF OccursAt
  <2>5. Terminated(console, k + 1, TRUE)
    BY <2>2 DEF Terminated
  <2>6. FindPrompt(console, cursor, UBootShell, TRUE) = NoMatch
    BY <1>10 DEF Match
  <2> QED
    BY <1>1, <2>2, <2>3, <2>4, <2>5, <2>6, NoPromptOverlooked
<1>11. CASE state \in CrcWaits
  <2>1. Sought = <<CRC, CRC, CRC>> /\ Len(Sought) = 3
    BY <1>11 DEF Sought, CrcWaits
  <2>2. k \in cursor..Len(console) - 3
        /\ console[k + 1] = CRC /\ console[k + 2] = CRC /\ console[k + 3] = CRC
    BY <1>1, <1>5, <1>7, <2>1
  <2>3. FindCrcReady(console, cursor) = NoMatch
    BY <1>11 DEF Match, CrcWaits
  <2> QED
    BY <1>1, <2>2, <2>3, NoReadinessOverlooked
<1> QED
  BY <1>8, <1>9, <1>10, <1>11 DEF Waiting, PromptWaits

\* The board prints what a run that has given up was waiting for before it waits itself.
LEMMA AwaitedIsPrinted ==
    ASSUME Inv, Board, UNCHANGED result, NoPromptMissed
    PROVE  NoPromptMissed'
<1> SUFFICES ASSUME result \in {"Timeout", "Xmodem"}, Awaited' PROVE output' # <<>> \/ toHost' # <<>>
  BY DEF NoPromptMissed
<1>0. /\ TypeOK /\ toHost \in Seq(Tokens \cup Answers) /\ output \in Seq(Tokens \cup Answers)
      /\ Counts /\ InStep
  BY DEF Inv, TypeOK
<1>1. CASE PowerOn
  BY <1>1 DEF PowerOn, Banner
<1>2. CASE Transmit
  <2>1. Append(toHost, Head(output)) # <<>>
    BY <1>0
  <2> QED
    BY <1>2, <2>1 DEF Transmit
<1>3. CASE LogOn
  BY <1>3 DEF LogOn
<1>4. CASE TakeX
  <2>1. CASE mode = "prompt" /\ stage \in {"bootrom", "bl2"}
    <3>1. <<TEXT, CRC, CRC, CRC>> \in Seq(Tokens \cup Answers) /\ Len(<<TEXT, CRC, CRC, CRC>>) = 4
      BY DEF Tokens
    <3>2. Len(output \o <<TEXT, CRC, CRC, CRC>>) > 0
      BY <1>0, <3>1
    <3> QED
      BY <1>4, <2>1, <3>2 DEF TakeX
  <2>2. CASE ~(mode = "prompt" /\ stage \in {"bootrom", "bl2"})
    <3>1. UNCHANGED <<state, stage, mode, toHost, output>>
      BY <1>4, <2>2 DEF TakeX, runnerVars
    <3> QED
      BY <3>1 DEF NoPromptMissed, Awaited
  <2> QED
    BY <2>1, <2>2
<1>5. CASE RepeatC
  BY <1>5 DEF RepeatC
<1>6. CASE TakeEot
  <2>1. CASE UNCHANGED boardVars
    <3>1. UNCHANGED <<state, stage, mode, toHost, output>>
      BY <1>6, <2>1 DEF TakeEot, runnerVars, boardVars
    <3> QED
      BY <3>1 DEF NoPromptMissed, Awaited
  <2>2. CASE output' = Append(output, NAK)
    BY <1>0, <2>2
  <2>3. CASE \E banner \in Banner[NextStage[stage]] :
                output' = output \o <<ACK>> \o banner \/ output' = output \o banner
    <3>1. stage \in {"bootrom", "bl2"}
      <4>1. toBoard # <<>> /\ Head(toBoard) = "EOT"
        BY <1>6 DEF TakeEot
      <4> QED
        BY <1>0, <4>1, LineToBoard DEF Target
    <3>2. PICK banner \in Banner[NextStage[stage]] :
             output' = output \o <<ACK>> \o banner \/ output' = output \o banner
      BY <2>3
    <3>3. NextStage[stage] \in {"bl2", "uboot"}
      BY <3>1 DEF NextStage
    <3>4. banner \in Seq(Tokens) /\ Len(banner) > 0
      <4>1. banner \in Seq(Tokens)
        BY <3>3, BannersAreTokens
      <4>2. banner # <<>>
        BY <3>3 DEF Banner
      <4> QED
        BY <4>1, <4>2
    <3>5. Len(output \o <<ACK>> \o banner) > 0 /\ Len(output \o banner) > 0
      <4>1. Len(output \o banner) = Len(output) + Len(banner) /\ Len(output) \in Nat
        BY <1>0, <3>4
      <4>2. output \o <<ACK>> \in Seq(Tokens \cup Answers)
        BY <1>0 DEF Answers
      <4>3. Len(output \o <<ACK>> \o banner) = Len(output \o <<ACK>>) + Len(banner)
            /\ Len(output \o <<ACK>>) \in Nat
        BY <3>4, <4>2
      <4> QED
        BY <3>4, <4>1, <4>3
    <3> QED
      BY <3>2, <3>5
  <2> QED
    BY <1>6, <2>1, <2>2, <2>3 DEF TakeEot
<1> QED
  BY <1>1, <1>2, <1>3, <1>4, <1>5, <1>6 DEF Board

LEMMA NoneMissedStep == Inv /\ Coming /\ NoPromptMissed /\ [Next]_vars => NoPromptMissed'
<1> SUFFICES ASSUME Inv, Coming, NoPromptMissed, [Next]_vars PROVE NoPromptMissed'
  OBVIOUS
<1>0. TypeOK /\ Counts /\ result \in Results
  BY DEF Inv, TypeOK
<1>1. CASE Board
  <2>1. UNCHANGED result
    BY <1>1 DEF Board, PowerOn, Transmit, LogOn, TakeX, RepeatC, TakeEot, runnerVars
  <2> QED
    BY <1>1, <2>1, AwaitedIsPrinted
<1>2. CASE UNCHANGED vars
  BY <1>2 DEF NoPromptMissed, Awaited, vars
<1>3. CASE ReadNothing
  <2>1. Waiting /\ Match = NoMatch /\ toHost = <<>> /\ UNCHANGED <<state, stage, mode, toHost, output>>
    BY <1>3 DEF ReadNothing, Fail, boardVars
  <2>2. Awaited' => Awaited
    BY <2>1 DEF Awaited
  <2>3. Awaited => output # <<>>
    BY <1>0, <2>1, NothingOverlooked
  <2> QED
    BY <2>1, <2>2, <2>3 DEF NoPromptMissed
<1>4. CASE BlockFails \/ EotRejected
  <2>1. state \in Sends /\ state' = state
    BY <1>0, <1>4 DEF BlockFails, EotRejected, Fail, Counts
  <2> QED
    BY <2>1 DEF NoPromptMissed, Awaited, Sends, CrcWaits
<1>5. CASE SerialFails
  <2>1. \/ state \in Sends /\ state' = state
        \/ result' \in {"Serial", "XmodemIo"}
    BY <1>5 DEF SerialFails, Fail
  <2> QED
    BY <2>1 DEF NoPromptMissed, Awaited, Sends, CrcWaits
<1>6. CASE \/ PromptFound \/ SendX \/ CrcFound \/ ReadData \/ BlockSent \/ WriteEot
           \/ EotAcked \/ EotNaked \/ EotTimesOut
  <2>1. result' \in {"running", "ok"}
    BY <1>6 DEF PromptFound, SendX, CrcFound, ReadData, BlockSent, WriteEot, EotAcked, EotNaked, EotTimesOut,
                ExcuseEot, Waiting, Running
  <2> QED
    BY <2>1 DEF NoPromptMissed
<1> QED
  BY <1>1, <1>2, <1>3, <1>4, <1>5, <1>6 DEF Next, Runner

\* No wait gives up on a prompt, or on readiness, that has reached the host: read_or_heartbeat
\* fails only after find_prompt or find_crc_ready has looked at all that was read, and what
\* is cut off at the cursor or joined in a read is never a part of what is still awaited.
THEOREM PromptsAreNotMissed == Reset => (Spec => []NoPromptMissed)
<1> SUFFICES ASSUME Reset PROVE Spec => []NoPromptMissed
  OBVIOUS
<1>1. Init => Coming /\ NoPromptMissed
  <2> SUFFICES ASSUME Init PROVE Coming /\ NoPromptMissed
    OBVIOUS
  <2>1. state = "WaitForInitialPrompt" /\ stage \in {"off", "shell"} /\ result = "running"
    BY DEF Init, Reset
  <2> QED
    BY <2>1 DEF Coming, Arriving, NoPromptMissed, CrcWaits
<1>2. Inv /\ Inv' /\ Coming /\ NoPromptMissed /\ [Next]_vars => Coming' /\ NoPromptMissed'
  BY ComingStep, NoneMissedStep
<1> QED
  BY <1>1, <1>2, InvHolds, PTL DEF Spec
=============================================================================
