---------------------------- MODULE FlashProofs -----------------------------
(***************************************************************************)
(* What `flash_from_uboot` does to the device, proved for every layout,    *)
(* command line, pair of sizes, MMC device and U-Boot: an image that does  *)
(* not fit leaves it untouched, success means that both images are there,  *)
(* and the whole run is an update as FlashUpdate.tla promises it; and what *)
(* it says of the device: completions are true, what was done is not       *)
(* denied, the operator is told what changes it, and a transfer that fails *)
(* is reported as such.                                                    *)
(***************************************************************************)
EXTENDS Flash, PromptProofs, FlashLayoutProofs

-----------------------------------------------------------------------------
(* What the program was given *)

\* Once the images are prepared the runner leaves the sizes alone.
LEMMA RunnerKeepsSizes ==
    ASSUME Runner
    PROVE  UNCHANGED given
<1> USE DEF Fail, Accept, ExcuseEot
<1>1. CASE PrepareStagePayloads
  BY <1>1 DEF PrepareStagePayloads
<1>2. CASE WakePrompt
  BY <1>2 DEF WakePrompt
<1>3. CASE SendCommand
  BY <1>3 DEF SendCommand
<1>4. CASE SendFails
  BY <1>4 DEF SendFails
<1>5. CASE ReadData
  BY <1>5 DEF ReadData
<1>6. CASE ReadFails
  BY <1>6 DEF ReadFails
<1>7. CASE PromptSeen
  BY <1>7 DEF PromptSeen
<1>8. CASE CommandDone
  BY <1>8 DEF CommandDone, Require, VerifyFilesize
<1>9. CASE CrcReady
  BY <1>9 DEF CrcReady
<1>10. CASE DataSent
  BY <1>10 DEF DataSent
<1>11. CASE DataFails
  BY <1>11 DEF DataFails
<1>12. CASE WriteEot
  BY <1>12 DEF WriteEot
<1>13. CASE EotAcked
  BY <1>13 DEF EotAcked
<1>14. CASE EotNaked
  BY <1>14 DEF EotNaked
<1>15. CASE EotTimesOut
  BY <1>15 DEF EotTimesOut
<1>16. CASE EotFails
  BY <1>16 DEF EotFails
<1>17. CASE LoadxDone
  BY <1>17 DEF LoadxDone
<1>18. CASE ResetSeen
  BY <1>18 DEF ResetSeen
<1>19. CASE ReadOn
  BY <1>19 DEF ReadOn, runnerVars, given
<1> QED
  BY <1>1, <1>2, <1>3, <1>4, <1>5, <1>6, <1>7, <1>8, <1>9, <1>10, <1>11, <1>12, <1>13, <1>14, <1>15,
     <1>16, <1>17, <1>18, <1>19 DEF Runner

-----------------------------------------------------------------------------
(* Output in transit *)

Symbols == Tokens \cup Lines \cup Answers

\* What a stretch of output holds, in whatever order.
In(s) == {s[i] : i \in 1..Len(s)}

\* What may still be on its way when the next command is sent: the space after a prompt, chatter.
QuietTokens == {SPACE, TEXT}
Quiet(s) == In(s) \subseteq QuietTokens

\* A prompt, or the rejection of an EOT, is the last that U-Boot says before it is spoken to again.
Closers == {UBOOT, NAK}
Closed(s) == \A i, j \in 1..Len(s) : i < j /\ s[i] \in Closers => s[j] \in QuietTokens

\* Nothing holds nothing.
LEMMA InEmpty == In(<<>>) = {} /\ Quiet(<<>>) /\ Closed(<<>>)
  BY DEF In, Quiet, Closed

\* What output holds when it grows by one.
LEMMA InAppend ==
    ASSUME NEW S, NEW s \in Seq(S), NEW e
    PROVE  In(Append(s, e)) = In(s) \cup {e}
<1>1. /\ Len(Append(s, e)) = Len(s) + 1 /\ Append(s, e)[Len(s) + 1] = e
      /\ \A i \in 1..Len(s) : Append(s, e)[i] = s[i]
  OBVIOUS
<1>2. 1..Len(s) + 1 = (1..Len(s)) \cup {Len(s) + 1} /\ Len(s) \in Nat
  OBVIOUS
<1> QED
  BY <1>1, <1>2 DEF In

\* Output without its first token.
LEMMA TailFacts ==
    ASSUME NEW S, NEW s \in Seq(S), s # <<>>
    PROVE  /\ Len(s) \in Nat \ {0} /\ Head(s) = s[1] /\ Head(s) \in S
           /\ Tail(s) \in Seq(S) /\ Len(Tail(s)) = Len(s) - 1
           /\ \A i \in 1..Len(s) - 1 : Tail(s)[i] = s[i + 1]
  OBVIOUS

\* A token that is transmitted leaves the rest closed, and quiet if it closes.
LEMMA InTail ==
    ASSUME NEW S, NEW s \in Seq(S), s # <<>>
    PROVE  /\ Head(s) \in In(s)
           /\ In(Tail(s)) \subseteq In(s)
           /\ Closed(s) => Closed(Tail(s)) /\ (Head(s) \in Closers => Quiet(Tail(s)))
<1>1. Head(s) \in In(s) /\ In(Tail(s)) \subseteq In(s)
  BY TailFacts DEF In
<1>2. ASSUME Closed(s)
      PROVE  Closed(Tail(s)) /\ (Head(s) \in Closers => Quiet(Tail(s)))
  BY <1>2, TailFacts DEF Closed, Quiet, In
<1> QED
  BY <1>1, <1>2

\* Quiet output closes nothing.
LEMMA QuietIsClosed ==
    ASSUME NEW s, Quiet(s)
    PROVE  Closed(s) /\ In(s) \cap Closers = {}
<1>1. QuietTokens \cap Closers = {}
  BY DEF QuietTokens, Closers, SPACE, TEXT, UBOOT, NAK
<1> QED
  BY <1>1 DEF Quiet, Closed, In

\* Closed output stays closed as long as it is quiet after a closer.
LEMMA ClosedAppend ==
    ASSUME NEW S, NEW s \in Seq(S), NEW e, Closed(s), In(s) \cap Closers = {} \/ e \in QuietTokens
    PROVE  Closed(Append(s, e))
<1>1. /\ Len(Append(s, e)) = Len(s) + 1 /\ Append(s, e)[Len(s) + 1] = e /\ Len(s) \in Nat
      /\ \A i \in 1..Len(s) : Append(s, e)[i] = s[i]
  OBVIOUS
<1>2. \A i \in 1..Len(s) : s[i] \in Closers => e \in QuietTokens
  BY DEF In
<1> QED
  BY <1>1, <1>2 DEF Closed

\* What a read moves from the wire to the console.
LEMMA ReadFacts ==
    ASSUME buffer \in Seq(Tokens \cup Lines), toHost \in Seq(Symbols), ReadData
    PROVE  /\ buffer' \in Seq(Tokens \cup Lines) /\ toHost' \in Seq(Symbols)
           /\ Len(buffer') >= Len(buffer)
           /\ \A t \in In(buffer') :
                 t \in In(buffer) \/ t \in In(toHost) \/ (t = CTL /\ In(toHost) \cap Answers # {})
           /\ In(toHost') \subseteq In(toHost)
           /\ Closed(toHost) => Closed(toHost')
           /\ UBOOT \in In(buffer') =>
                 UBOOT \in In(buffer) \/ (UBOOT \in In(toHost) /\ (Closed(toHost) => Quiet(toHost')))
<1>1. PICK n \in 1..Len(toHost) :
         /\ buffer' = buffer \o [i \in 1..n |-> IF toHost[i] \in Answers THEN CTL ELSE toHost[i]]
         /\ toHost' = SubSeq(toHost, n + 1, Len(toHost))
  BY DEF ReadData
<1> DEFINE heard == [i \in 1..n |-> IF toHost[i] \in Answers THEN CTL ELSE toHost[i]]
<1>2. /\ Len(toHost) \in Nat /\ Len(buffer) \in Nat /\ n \in Nat
      /\ \A i \in 1..Len(toHost) : toHost[i] \in Symbols
  OBVIOUS
<1>3. \A i \in 1..n : heard[i] \in Tokens \cup Lines
  <2>1. CTL \in Tokens
    BY DEF Tokens
  <2> QED
    BY <1>2, <2>1 DEF Symbols
<1>4. heard \in Seq(Tokens \cup Lines) /\ Len(heard) = n
  BY <1>2, <1>3
<1>5. /\ buffer' \in Seq(Tokens \cup Lines) /\ Len(buffer') = Len(buffer) + n
      /\ \A i \in 1..Len(buffer) : buffer'[i] = buffer[i]
      /\ \A i \in Len(buffer) + 1..Len(buffer) + n : buffer'[i] = heard[i - Len(buffer)]
  <2> HIDE DEF heard
  <2> QED
    BY <1>1, <1>2, <1>4 DEF heard
<1>6. /\ toHost' \in Seq(Symbols) /\ Len(toHost') = Len(toHost) - n
      /\ \A i \in 1..Len(toHost) - n : toHost'[i] = toHost[i + n]
  BY <1>1, <1>2
<1>7. ASSUME NEW t \in In(buffer')
      PROVE  \/ t \in In(buffer)
             \/ \E k \in 1..n : t = heard[k]
  <2>1. PICK i \in 1..Len(buffer') : t = buffer'[i]
    BY <1>7 DEF In
  <2>2. CASE i <= Len(buffer)
    BY <1>2, <1>5, <2>1, <2>2 DEF In
  <2>3. CASE i > Len(buffer)
    <3>1. i - Len(buffer) \in 1..n /\ t = heard[i - Len(buffer)]
      BY <1>2, <1>5, <2>1, <2>3
    <3> QED
      BY <3>1
  <2> QED
    BY <1>2, <2>1, <2>2, <2>3
<1>8. \A k \in 1..n : heard[k] \in In(toHost) \/ (heard[k] = CTL /\ In(toHost) \cap Answers # {})
  BY <1>2 DEF In
<1>9. In(toHost') \subseteq In(toHost)
  BY <1>2, <1>6 DEF In
<1>a. \A i \in 1..Len(toHost') : i + n \in 1..Len(toHost) /\ n < i + n /\ toHost'[i] = toHost[i + n]
  BY <1>2, <1>6
<1>10. ASSUME Closed(toHost) PROVE Closed(toHost')
  <2> SUFFICES ASSUME NEW i \in 1..Len(toHost'), NEW j \in 1..Len(toHost'), i < j, toHost'[i] \in Closers
               PROVE  toHost'[j] \in QuietTokens
    BY DEF Closed
  <2>1. i + n < j + n
    BY <1>2, <1>6
  <2> QED
    BY <1>10, <1>a, <2>1 DEF Closed
<1>11. ASSUME NEW k \in 1..n, heard[k] = UBOOT
       PROVE  UBOOT \in In(toHost) /\ (Closed(toHost) => Quiet(toHost'))
  <2>1. toHost[k] = UBOOT /\ k \in 1..Len(toHost)
    BY <1>2, <1>11 DEF UBOOT, CTL
  <2>2. UBOOT \in In(toHost)
    BY <2>1 DEF In
  <2>3. ASSUME Closed(toHost) PROVE Quiet(toHost')
    <3>1. \A j \in 1..Len(toHost) : k < j => toHost[j] \in QuietTokens
      BY <2>1, <2>3 DEF Closed, Closers
    <3> QED
      <4>1. \A i \in 1..Len(toHost') : toHost'[i] \in QuietTokens
        <5> SUFFICES ASSUME NEW i \in 1..Len(toHost') PROVE toHost'[i] \in QuietTokens
          OBVIOUS
        <5>1. i + n \in 1..Len(toHost) /\ k < i + n /\ toHost'[i] = toHost[i + n]
          BY <1>2, <1>6
        <5> QED
          BY <3>1, <5>1
      <4> QED
        BY <4>1 DEF Quiet, In
  <2> QED
    BY <2>2, <2>3
<1> HIDE DEF heard
<1>12. UBOOT \in In(buffer') =>
          UBOOT \in In(buffer) \/ (UBOOT \in In(toHost) /\ (Closed(toHost) => Quiet(toHost')))
  BY <1>7, <1>11
<1>13. \A t \in In(buffer') :
          t \in In(buffer) \/ t \in In(toHost) \/ (t = CTL /\ In(toHost) \cap Answers # {})
  BY <1>7, <1>8
<1>14. Len(buffer') >= Len(buffer)
  BY <1>2, <1>5
<1> QED
  BY <1>5, <1>6, <1>9, <1>10, <1>12, <1>13, <1>14

-----------------------------------------------------------------------------
(* Commands and what is found in their output *)

\* Two stretches of output, or of events, one after the other.
LEMMA ConcatFacts ==
    ASSUME NEW S, NEW a \in Seq(S), NEW b \in Seq(S)
    PROVE  /\ a \o b \in Seq(S) /\ Len(a \o b) = Len(a) + Len(b)
           /\ \A i \in 1..Len(a) : (a \o b)[i] = a[i]
           /\ \A i \in 1..Len(b) : (a \o b)[Len(a) + i] = b[i]
  OBVIOUS

\* The commands of flash_from_uboot and flash_stage, one by one.
LEMMA ScriptIs ==
    /\ Len(Script) = 9
    /\ Script[1] = Command("loadaddr", "none") /\ Script[2] = Command("erase", "none")
    /\ Script[3] = Command("loadx", "preloader") /\ Script[4] = Command("filesize", "preloader")
    /\ Script[5] = Command("write", "preloader") /\ Script[6] = Command("loadx", "fip")
    /\ Script[7] = Command("filesize", "fip") /\ Script[8] = Command("write", "fip")
    /\ Script[9] = Command("reset", "none")
<1> DEFINE begin == <<Command("loadaddr", "none"), Command("erase", "none")>>
           p == StageScript("preloader")
           f == StageScript("fip")
           end == <<Command("reset", "none")>>
           five == begin \o p
           eight == five \o f
<1>1. /\ begin \in Seq(UBootCommand) /\ p \in Seq(UBootCommand) /\ f \in Seq(UBootCommand)
      /\ end \in Seq(UBootCommand)
  BY DEF StageScript, UBootCommand, ImageKind, Command
<1>2. /\ Len(begin) = 2 /\ begin[1] = Command("loadaddr", "none") /\ begin[2] = Command("erase", "none")
      /\ Len(p) = 3 /\ p[1] = Command("loadx", "preloader") /\ p[2] = Command("filesize", "preloader")
      /\ p[3] = Command("write", "preloader")
      /\ Len(f) = 3 /\ f[1] = Command("loadx", "fip") /\ f[2] = Command("filesize", "fip")
      /\ f[3] = Command("write", "fip")
      /\ Len(end) = 1 /\ end[1] = Command("reset", "none")
  BY DEF StageScript
<1>3. Script = eight \o end
  BY DEF Script
<1> HIDE DEF begin, p, f, end
<1>4. /\ five \in Seq(UBootCommand) /\ Len(five) = Len(begin) + Len(p)
      /\ \A i \in 1..Len(begin) : five[i] = begin[i]
      /\ \A i \in 1..Len(p) : five[Len(begin) + i] = p[i]
  BY <1>1, ConcatFacts
<1> HIDE DEF five
<1>5. /\ Len(five) = 5 /\ five[1] = begin[1] /\ five[2] = begin[2]
      /\ five[3] = p[1] /\ five[4] = p[2] /\ five[5] = p[3]
  BY <1>2, <1>4
<1>6. /\ eight \in Seq(UBootCommand) /\ Len(eight) = Len(five) + Len(f)
      /\ \A i \in 1..Len(five) : eight[i] = five[i]
      /\ \A i \in 1..Len(f) : eight[Len(five) + i] = f[i]
  <2>1. five \in Seq(UBootCommand)
    BY <1>4
  <2> QED
    BY <1>1, <2>1, ConcatFacts
<1> HIDE DEF eight
<1>7. /\ Len(eight) = 8 /\ eight[1] = five[1] /\ eight[2] = five[2] /\ eight[3] = five[3] /\ eight[4] = five[4]
      /\ eight[5] = five[5] /\ eight[6] = f[1] /\ eight[7] = f[2] /\ eight[8] = f[3]
  BY <1>2, <1>5, <1>6
<1>8. /\ Len(Script) = Len(eight) + Len(end)
      /\ \A i \in 1..Len(eight) : Script[i] = eight[i]
      /\ \A i \in 1..Len(end) : Script[Len(eight) + i] = end[i]
  <2>1. eight \in Seq(UBootCommand)
    BY <1>6
  <2> QED
    BY <1>1, <1>3, <2>1, ConcatFacts
<1>9. /\ Len(Script) = 9 /\ Script[1] = eight[1] /\ Script[2] = eight[2] /\ Script[3] = eight[3]
      /\ Script[4] = eight[4] /\ Script[5] = eight[5] /\ Script[6] = eight[6] /\ Script[7] = eight[7]
      /\ Script[8] = eight[8] /\ Script[9] = end[1]
  BY <1>2, <1>7, <1>8
<1> QED
  BY <1>2, <1>5, <1>7, <1>9

\* Which commands there are, and in which order.
LEMMA ScriptFacts ==
    /\ Len(Script) = 9
    /\ \A p \in 1..9 :
          /\ Script[p] = Command(Script[p].op, Script[p].image)
          /\ Script[p] \in UBootCommand
          /\ Script[p].op = "loadaddr" <=> p = 1
          /\ Script[p].op = "erase" <=> p = 2
          /\ Script[p].op = "loadx" <=> p \in {3, 6}
          /\ Script[p].op = "filesize" <=> p \in {4, 7}
          /\ Script[p].op = "write" <=> p \in {5, 8}
          /\ Script[p].op = "reset" <=> p = 9
          /\ p \in 3..5 => Script[p].image = "preloader"
          /\ p \in 6..8 => Script[p].image = "fip"
          /\ p \in {1, 2, 9} => Script[p].image = "none"
<1>1. Len(Script) = 9
  BY ScriptIs
<1>2. /\ Script[1] = Command("loadaddr", "none") /\ Script[2] = Command("erase", "none")
      /\ Script[3] = Command("loadx", "preloader") /\ Script[4] = Command("filesize", "preloader")
      /\ Script[5] = Command("write", "preloader") /\ Script[6] = Command("loadx", "fip")
      /\ Script[7] = Command("filesize", "fip") /\ Script[8] = Command("write", "fip")
      /\ Script[9] = Command("reset", "none")
  BY ScriptIs
<1>3. ASSUME NEW p \in 1..9
      PROVE  p \in {1, 2, 3, 4, 5, 6, 7, 8, 9}
  BY <1>3
<1>4. ASSUME NEW op \in {"loadaddr", "erase", "loadx", "filesize", "write", "reset"},
             NEW image \in {"none", "preloader", "fip"}
      PROVE  /\ Command(op, image).op = op /\ Command(op, image).image = image
             /\ Command(op, image) \in UBootCommand
  BY DEF Command, UBootCommand, ImageKind
<1>5. /\ Script[1] \in UBootCommand /\ Script[1].op = "loadaddr" /\ Script[1].image = "none"
      /\ Script[2] \in UBootCommand /\ Script[2].op = "erase" /\ Script[2].image = "none"
      /\ Script[3] \in UBootCommand /\ Script[3].op = "loadx" /\ Script[3].image = "preloader"
      /\ Script[4] \in UBootCommand /\ Script[4].op = "filesize" /\ Script[4].image = "preloader"
      /\ Script[5] \in UBootCommand /\ Script[5].op = "write" /\ Script[5].image = "preloader"
      /\ Script[6] \in UBootCommand /\ Script[6].op = "loadx" /\ Script[6].image = "fip"
      /\ Script[7] \in UBootCommand /\ Script[7].op = "filesize" /\ Script[7].image = "fip"
      /\ Script[8] \in UBootCommand /\ Script[8].op = "write" /\ Script[8].image = "fip"
      /\ Script[9] \in UBootCommand /\ Script[9].op = "reset" /\ Script[9].image = "none"
  BY <1>2, <1>4
<1>6. \A p \in {1, 2, 3, 4, 5, 6, 7, 8, 9} : Script[p] = Command(Script[p].op, Script[p].image)
  BY <1>2, <1>5
<1> QED
  BY <1>1, <1>3, <1>5, <1>6

\* The line of a command is neither a carriage return nor an EOT.
LEMMA LinesDiffer ==
    ASSUME NEW p \in 1..9
    PROVE  Script[p] # Wake /\ Script[p] # EOT /\ Wake # EOT
<1>1. Script[p].op # "wake" /\ Script[p].op # "EOT"
  BY ScriptFacts DEF UBootCommand
<1> QED
  BY <1>1 DEF Wake, EOT, Command

\* The first line of output ends somewhere if a control byte has been read.
LEMMA FirstLineEnds ==
    ASSUME NEW T, NEW output \in Seq(T), NEW i \in 1..Len(output), IsControl(output[i])
    PROVE  FirstLineEnd(output) \in 1..Len(output)
<1> DEFINE Controls == {j \in 1..Len(output) : IsControl(output[j])}
           first == CHOOSE e \in Controls : \A other \in Controls : e <= other
           Ends == {j \in first..Len(output) : j < Len(output) => ~IsControl(output[j + 1])}
           end == CHOOSE e \in Ends : \A other \in Ends : e <= other
<1>1. Len(output) \in Nat
  OBVIOUS
<1>2. first \in Controls /\ \A other \in Controls : first <= other
  <2>1. Controls \in SUBSET Nat /\ i \in Controls
    OBVIOUS
  <2> HIDE DEF Controls
  <2> QED
    BY <2>1, LeastExists
<1> HIDE DEF first
<1>3. end \in Ends /\ \A other \in Ends : end <= other
  <2>1. Ends \in SUBSET Nat /\ Len(output) \in Ends
    BY <1>1, <1>2
  <2> HIDE DEF Ends
  <2> QED
    BY <2>1, LeastExists
<1> HIDE DEF end
<1>4. end \in 1..Len(output) /\ (end < Len(output) => ~IsControl(output[end + 1])) /\ first <= end
  BY <1>1, <1>2, <1>3
<1>5. ASSUME NEW k \in 1..end - 1, IsControl(output[k])
      PROVE  IsControl(output[k + 1])
  <2>1. k \in Controls
    BY <1>1, <1>4, <1>5
  <2>2. k \in first..Len(output) /\ k < Len(output) /\ k < end
    BY <1>1, <1>2, <1>4, <2>1
  <2>3. k \notin Ends
    BY <1>3, <1>4, <2>2
  <2> QED
    BY <2>2, <2>3
<1>6. IsControl(output[end])
  <2>1. CASE end = first
    BY <1>2, <2>1
  <2>2. CASE end > first
    <3>1. end - 1 \in first..Len(output) /\ end - 1 < Len(output) /\ end - 1 + 1 = end
      BY <1>1, <1>2, <1>4, <2>2
    <3>2. end - 1 \notin Ends
      BY <1>3, <1>4, <3>1
    <3> QED
      BY <3>1, <3>2
  <2> QED
    BY <1>2, <1>4, <2>1, <2>2
<1>7. \E e \in 1..Len(output) :
         /\ IsControl(output[e])
         /\ e < Len(output) => ~IsControl(output[e + 1])
         /\ \A k \in 1..e - 1 : IsControl(output[k]) => IsControl(output[k + 1])
  BY <1>4, <1>5, <1>6
<1> QED
  BY <1>7 DEF FirstLineEnd

\* A command whose output is complete has printed a prompt.
LEMMA CompleteHasPrompt ==
    ASSUME NEW T, NEW output \in Seq(T), UBOOT \in T, CommandComplete(output)
    PROVE  UBOOT \in In(output) /\ Len(output) \in Nat \ {0}
<1>1. PromptSearchCursor(output) \in Nat
  <2>1. CASE ~ \E i \in 1..Len(output) : IsControl(output[i])
    BY <2>1 DEF PromptSearchCursor
  <2>2. CASE \E i \in 1..Len(output) : IsControl(output[i])
    <3>1. FirstLineEnd(output) \in Nat
      BY <2>2, FirstLineEnds
    <3> QED
      BY <2>2, <3>1 DEF PromptSearchCursor
  <2> QED
    BY <2>1, <2>2
<1> DEFINE from == PromptSearchCursor(output)
           found == FindPrompt(output, from, UBootShell, TRUE)
<1>2. UBootShell \in Seq(T) /\ UBootShell # <<>> /\ Len(UBootShell) = 1 /\ UBootShell[1] = UBOOT
  BY DEF UBootShell
<1>3. found # NoMatch
  BY DEF CommandComplete
<1> HIDE DEF from
<1>4. found \in from + 1..Len(output) /\ output[found] = UBootShell[Len(UBootShell)]
  BY <1>1, <1>2, <1>3, FindPromptFinds DEF from
<1> HIDE DEF found
<1>5. found \in 1..Len(output) /\ output[found] = UBOOT
  BY <1>1, <1>2, <1>4 DEF from
<1> QED
  BY <1>5 DEF In

\* What a wait has found, and where.
LEMMA MatchFacts ==
    ASSUME buffer \in Seq(Tokens \cup Lines), cursor \in 0..Len(buffer), Match # NoMatch
    PROVE  /\ phase \in Waits => Match \in 0..Len(buffer)
           /\ phase \in {"wake_wait", "loadx_wait", "output"} => UBOOT \in In(buffer)
           /\ phase = "crc_wait" => CRC \in In(buffer)
           /\ phase = "reset_wait" => In(buffer) \cap Evidence # {}
<1>1. cursor \in Nat /\ Len(buffer) \in Nat
  OBVIOUS
<1>2. CASE phase \in {"wake_wait", "loadx_wait"}
  <2>1. Match = FindPrompt(buffer, cursor, UBootShell, TRUE)
    BY <1>2 DEF Match
  <2>2. UBootShell \in Seq(Tokens \cup Lines) /\ UBootShell # <<>> /\ Len(UBootShell) = 1 /\ UBootShell[1] = UBOOT
    BY DEF UBootShell, Tokens
  <2>3. Match \in cursor + 1..Len(buffer) /\ buffer[Match] = UBootShell[Len(UBootShell)]
    BY <1>1, <2>1, <2>2, FindPromptFinds
  <2>4. Match \in 1..Len(buffer) /\ buffer[Match] = UBOOT
    BY <1>1, <2>2, <2>3
  <2> QED
    BY <1>2, <2>4 DEF In
<1>3. CASE phase = "crc_wait"
  <2>1. Match = FindCrcReady(buffer, cursor)
    BY <1>3 DEF Match
  <2>2. Match \in cursor + 1..Len(buffer) /\ \E i \in cursor + 1..Match : buffer[i] = CRC
    BY <1>1, <2>1, FindCrcReadyFinds
  <2>3. Match \in 1..Len(buffer) /\ \E i \in 1..Len(buffer) : buffer[i] = CRC
    BY <1>1, <2>2
  <2> QED
    BY <1>3, <2>3 DEF In
<1>4. CASE phase = "reset_wait"
  <2> DEFINE seen == {i \in cursor + 1..Len(buffer) : buffer[i] \in Evidence}
  <2>1. Match = EvidenceEnd
    BY <1>4 DEF Match
  <2>2. seen # {}
    BY <2>1 DEF EvidenceEnd
  <2>3. seen \in SUBSET Nat
    BY <1>1
  <2>4. Match \in seen
    <3>1. Match = CHOOSE i \in seen : \A j \in seen : i <= j
      BY <2>1, <2>2 DEF EvidenceEnd
    <3> HIDE DEF seen
    <3> QED
      BY <2>2, <2>3, <3>1, LeastExists
  <2>5. Match \in 1..Len(buffer) /\ buffer[Match] \in Evidence
    BY <1>1, <2>4
  <2> QED
    BY <1>4, <2>5 DEF In
<1>5. CASE phase = "output"
  <2>1. CommandComplete(buffer) /\ Match = Len(buffer)
    BY <1>5 DEF Match
  <2>2. UBOOT \in In(buffer)
    BY <2>1, CompleteHasPrompt DEF Tokens
  <2> QED
    BY <1>1, <1>5, <2>1, <2>2
<1>6. CASE phase \notin Waits
  BY <1>6 DEF Waits
<1> QED
  BY <1>2, <1>3, <1>4, <1>5, <1>6 DEF Waits

\* A report is made of a line that was read.
LEMMA ReportFacts ==
    ASSUME NEW kind, buffer \in Seq(Tokens \cup Lines), Reports(buffer, kind)
    PROVE  Reported(buffer, kind) \in In(buffer) \cap kind
<1> DEFINE lines == LinesOf(buffer, kind)
           first == CHOOSE i \in lines : \A j \in lines : i <= j
<1>1. lines \in SUBSET Nat /\ lines # {}
  BY DEF Reports, LinesOf
<1>2. first \in lines
  <2> HIDE DEF lines
  <2> QED
    BY <1>1, LeastExists
<1>3. first \in 1..Len(buffer) /\ buffer[first] \in kind /\ Reported(buffer, kind) = buffer[first]
  BY <1>2 DEF LinesOf, Reported
<1> QED
  BY <1>3 DEF In

\* The lines that the parsers look for.
LEMMA LineSets ==
    /\ FilesizeLines = {"filesize=P", "filesize=F", "filesize=?"}
    /\ TotalLines = {"Total Size = P", "Total Size = F", "Total Size = ?"}
    /\ FilesizeOf["preloader"] = "filesize=P" /\ FilesizeOf["fip"] = "filesize=F" /\ FilesizeOf["other"] = "filesize=?"
    /\ TotalOf["preloader"] = "Total Size = P" /\ TotalOf["fip"] = "Total Size = F" /\ TotalOf["other"] = "Total Size = ?"
<1>1. DOMAIN FilesizeOf = {"preloader", "fip", "other"} /\ DOMAIN TotalOf = {"preloader", "fip", "other"}
  BY DEF FilesizeOf, TotalOf
<1>2. /\ FilesizeOf["preloader"] = "filesize=P" /\ FilesizeOf["fip"] = "filesize=F"
      /\ FilesizeOf["other"] = "filesize=?"
      /\ TotalOf["preloader"] = "Total Size = P" /\ TotalOf["fip"] = "Total Size = F"
      /\ TotalOf["other"] = "Total Size = ?"
  BY DEF FilesizeOf, TotalOf
<1> QED
  BY <1>1, <1>2 DEF FilesizeLines, TotalLines

\* No line the parsers look for closes a command.
LEMMA NoCloserIsLine == Lines \cap Closers = {} /\ CTL \notin Closers /\ CTL \notin QuietTokens
<1>1. Lines = {LOADADDR, ERASED, WRITTEN, MALFORMED, RESETTING, UBOOTBANNER, "filesize=P", "filesize=F", "filesize=?",
               "Total Size = P", "Total Size = F", "Total Size = ?"}
  BY LineSets DEF Lines
<1> QED
  BY <1>1 DEF Closers, QuietTokens, UBOOT, NAK, TEXT, CTL, SPACE, LOADADDR, ERASED, WRITTEN, MALFORMED,
         RESETTING, UBOOTBANNER

\* What two stretches hold together.
LEMMA InConcat ==
    ASSUME NEW S, NEW a \in Seq(S), NEW b \in Seq(S)
    PROVE  a \o b \in Seq(S) /\ In(a \o b) = In(a) \cup In(b)
<1> DEFINE c == a \o b
<1>1. /\ c \in Seq(S) /\ Len(c) = Len(a) + Len(b)
      /\ \A i \in 1..Len(a) : c[i] = a[i]
      /\ \A i \in 1..Len(b) : c[Len(a) + i] = b[i]
  BY ConcatFacts
<1>2. Len(a) \in Nat /\ Len(b) \in Nat
  OBVIOUS
<1> HIDE DEF c
<1>3. \A i \in 1..Len(c) : c[i] \in In(a) \cup In(b)
  <2> SUFFICES ASSUME NEW i \in 1..Len(c) PROVE c[i] \in In(a) \cup In(b)
    OBVIOUS
  <2>1. CASE i <= Len(a)
    BY <1>1, <1>2, <2>1 DEF In
  <2>2. CASE i > Len(a)
    <3>1. i - Len(a) \in 1..Len(b) /\ Len(a) + (i - Len(a)) = i
      BY <1>1, <1>2, <2>2
    <3> QED
      BY <1>1, <3>1 DEF In
  <2> QED
    BY <1>1, <1>2, <2>1, <2>2
<1>4. \A i \in 1..Len(a) : a[i] \in In(c)
  BY <1>1, <1>2 DEF In
<1>5. \A i \in 1..Len(b) : b[i] \in In(c)
  <2> SUFFICES ASSUME NEW i \in 1..Len(b) PROVE b[i] \in In(c)
    OBVIOUS
  <2>1. Len(a) + i \in 1..Len(c) /\ c[Len(a) + i] = b[i]
    BY <1>1, <1>2
  <2> QED
    BY <2>1 DEF In
<1>6. In(c) = In(a) \cup In(b)
  <2>1. In(c) \subseteq In(a) \cup In(b)
    BY <1>3 DEF In
  <2>2. In(a) \subseteq In(c) /\ In(b) \subseteq In(c)
    BY <1>4, <1>5 DEF In
  <2> QED
    BY <2>1, <2>2
<1> QED
  BY <1>1, <1>6 DEF c

\* A single token.
LEMMA InOne ==
    ASSUME NEW e
    PROVE  In(<<e>>) = {e}
  BY DEF In

\* Output that ends in the shell's prompt.
LEMMA PromptLast ==
    ASSUME NEW s \in Seq(Symbols), In(s) \cap Closers = {}
    PROVE  /\ s \o ShellPrompt \in Seq(Symbols)
           /\ In(s \o ShellPrompt) = In(s) \cup {UBOOT, SPACE}
           /\ Closed(s \o ShellPrompt)
<1> DEFINE c == s \o ShellPrompt
<1>1. ShellPrompt \in Seq(Symbols) /\ In(ShellPrompt) = {UBOOT, SPACE}
  <2>1. ShellPrompt \in Seq(Symbols) /\ Len(ShellPrompt) = 2 /\ ShellPrompt[1] = UBOOT /\ ShellPrompt[2] = SPACE
    BY DEF ShellPrompt, Symbols, Tokens
  <2>2. 1..2 = {1, 2}
    OBVIOUS
  <2> QED
    BY <2>1, <2>2 DEF In
<1>2. /\ c \in Seq(Symbols) /\ Len(c) = Len(s) + Len(ShellPrompt)
      /\ \A i \in 1..Len(s) : c[i] = s[i]
      /\ \A i \in 1..Len(ShellPrompt) : c[Len(s) + i] = ShellPrompt[i]
  <2>1. ShellPrompt \in Seq(Symbols)
    BY <1>1
  <2> QED
    BY <2>1, ConcatFacts
<1>3. Len(s) \in Nat /\ Len(ShellPrompt) = 2 /\ ShellPrompt[2] = SPACE
  BY DEF ShellPrompt
<1> HIDE DEF c
<1>4. Len(c) = Len(s) + 2 /\ c[Len(s) + 2] = SPACE
  BY <1>2, <1>3
<1>5. Closed(c)
  <2> SUFFICES ASSUME NEW i \in 1..Len(c), NEW j \in 1..Len(c), i < j, c[i] \in Closers
               PROVE  c[j] \in QuietTokens
    BY DEF Closed
  <2>1. i > Len(s)
    <3> SUFFICES ASSUME i <= Len(s) PROVE FALSE
      BY <1>3
    <3>1. c[i] \in In(s)
      BY <1>2, <1>3 DEF In
    <3> QED
      BY <3>1
  <2>2. j = Len(s) + 2
    BY <1>3, <1>4, <2>1
  <2> QED
    BY <1>4, <2>2 DEF QuietTokens
<1>6. In(c) = In(s) \cup {UBOOT, SPACE}
  <2>1. In(s \o ShellPrompt) = In(s) \cup In(ShellPrompt)
    BY <1>1, InConcat
  <2> QED
    BY <1>1, <2>1 DEF c
<1> QED
  BY <1>2, <1>5, <1>6 DEF c

\* What the shell prints in answer to a command, to a carriage return and at the end of loadx.
LEMMA ReplyFacts ==
    ASSUME NEW line \in Tokens \cup Lines, line # UBOOT
    PROVE  LET reply == Reply(<<line>>)
           IN  reply \in Seq(Symbols) /\ Closed(reply) /\ In(reply) = {TEXT, CTL, line, UBOOT, SPACE}
<1> DEFINE start == <<TEXT, CTL>>
           told == <<line>>
           close == <<CTL>>
<1>1. start \in Seq(Symbols) /\ told \in Seq(Symbols) /\ close \in Seq(Symbols)
  BY DEF Symbols, Tokens
<1>2. In(start) = {TEXT, CTL} /\ In(told) = {line} /\ In(close) = {CTL}
  <2>1. Len(start) = 2 /\ start[1] = TEXT /\ start[2] = CTL /\ 1..2 = {1, 2}
    OBVIOUS
  <2>2. In(start) = {TEXT, CTL}
    BY <2>1 DEF In
  <2> QED
    BY <2>2, InOne
<1>3. Reply(<<line>>) = ((start \o told) \o close) \o ShellPrompt
  BY DEF Reply
<1> HIDE DEF start, told, close
<1>4. start \o told \in Seq(Symbols) /\ In(start \o told) = {TEXT, CTL, line}
  BY <1>1, <1>2, InConcat
<1>5. (start \o told) \o close \in Seq(Symbols) /\ In((start \o told) \o close) = {TEXT, CTL, line}
  <2> DEFINE two == start \o told
  <2>1. two \in Seq(Symbols)
    BY <1>4
  <2> HIDE DEF two
  <2>2. two \o close \in Seq(Symbols) /\ In(two \o close) = In(two) \cup In(close)
    BY <1>1, <2>1, InConcat
  <2>3. In(two) \cup In(close) = {TEXT, CTL, line}
    BY <1>2, <1>4 DEF two
  <2> QED
    BY <2>2, <2>3 DEF two
<1>6. {TEXT, CTL, line} \cap Closers = {}
  BY NoCloserIsLine DEF Closers, Tokens, UBOOT, NAK, TEXT, CTL, PRESS, LOAD, CRC, SPACE
<1> DEFINE s == (start \o told) \o close
<1>7. s \in Seq(Symbols) /\ In(s) = {TEXT, CTL, line} /\ Reply(<<line>>) = s \o ShellPrompt
  BY <1>3, <1>5
<1> HIDE DEF s
<1> QED
  BY <1>6, <1>7, PromptLast

\* The answer to a carriage return.
LEMMA WakeFacts ==
    LET reply == <<CTL>> \o ShellPrompt
    IN  reply \in Seq(Symbols) /\ Closed(reply) /\ In(reply) = {CTL, UBOOT, SPACE}
<1>1. <<CTL>> \in Seq(Symbols) /\ In(<<CTL>>) = {CTL}
  BY InOne DEF Symbols, Tokens
<1>2. {CTL} \cap Closers = {}
  BY NoCloserIsLine
<1> DEFINE s == <<CTL>>
<1> HIDE DEF s
<1>3. s \in Seq(Symbols) /\ In(s) = {CTL}
  BY <1>1 DEF s
<1>4. s \o ShellPrompt \in Seq(Symbols) /\ Closed(s \o ShellPrompt) /\ In(s \o ShellPrompt) = {CTL, UBOOT, SPACE}
  BY <1>2, <1>3, PromptLast
<1> QED
  BY <1>4 DEF s

\* loadx gives up.
LEMMA GiveUpFacts ==
    LET reply == <<TEXT, CTL>> \o ShellPrompt
    IN  reply \in Seq(Symbols) /\ Closed(reply) /\ In(reply) = {TEXT, CTL, UBOOT, SPACE}
<1> DEFINE s == <<TEXT, CTL>>
<1>1. s \in Seq(Symbols) /\ In(s) = {TEXT, CTL}
  <2>1. Len(s) = 2 /\ s[1] = TEXT /\ s[2] = CTL /\ 1..2 = {1, 2} /\ s \in Seq(Symbols)
    BY DEF Symbols, Tokens
  <2> QED
    BY <2>1 DEF In
<1>2. {TEXT, CTL} \cap Closers = {}
  BY NoCloserIsLine DEF Closers, TEXT, UBOOT, NAK
<1> HIDE DEF s
<1>3. s \o ShellPrompt \in Seq(Symbols) /\ Closed(s \o ShellPrompt) /\ In(s \o ShellPrompt) = {TEXT, CTL, UBOOT, SPACE}
  BY <1>1, <1>2, PromptLast
<1> QED
  BY <1>3 DEF s

\* loadx is done.
LEMMA LoadedFacts ==
    ASSUME NEW answer \in {<<>>, <<ACK>>}, NEW summary,
           summary = <<>> \/ \E line \in TotalLines \cup {MALFORMED} : summary = <<line>>
    PROVE  LET reply == answer \o summary \o <<CTL>> \o ShellPrompt
           IN  reply \in Seq(Symbols) /\ Closed(reply) /\ CRC \notin In(reply) /\ NAK \notin In(reply)
<1> DEFINE close == <<CTL>>
           s == (answer \o summary) \o close
           Harmless == {ACK, CTL, MALFORMED} \cup TotalLines
<1>1. answer \in Seq(Symbols) /\ In(answer) \subseteq Harmless
  <2>1. <<ACK>> \in Seq(Symbols) /\ In(<<ACK>>) = {ACK} /\ <<>> \in Seq(Symbols) /\ In(<<>>) = {}
    BY InOne, InEmpty DEF Symbols, Answers
  <2> QED
    BY <2>1
<1>2. summary \in Seq(Symbols) /\ In(summary) \subseteq Harmless
  <2>1. CASE summary = <<>>
    BY <2>1, InEmpty
  <2>2. CASE summary # <<>>
    <3>1. PICK line \in TotalLines \cup {MALFORMED} : summary = <<line>>
      BY <2>2
    <3>2. line \in Symbols /\ In(summary) = {line}
      BY <3>1, InOne DEF Symbols, Lines
    <3> QED
      BY <3>1, <3>2
  <2> QED
    BY <2>1, <2>2
<1>3. close \in Seq(Symbols) /\ In(close) = {CTL}
  BY InOne DEF Symbols, Tokens
<1> HIDE DEF close
<1>4. answer \o summary \in Seq(Symbols) /\ In(answer \o summary) \subseteq Harmless
  BY <1>1, <1>2, InConcat
<1>5. s \in Seq(Symbols) /\ In(s) \subseteq Harmless
  <2> DEFINE two == answer \o summary
  <2>1. two \in Seq(Symbols)
    BY <1>4
  <2> HIDE DEF two
  <2>2. two \o close \in Seq(Symbols) /\ In(two \o close) = In(two) \cup In(close)
    BY <1>3, <2>1, InConcat
  <2>3. In(two) \cup In(close) \subseteq Harmless
    BY <1>3, <1>4 DEF two
  <2> QED
    BY <2>2, <2>3 DEF two
<1>6. Harmless \cap Closers = {} /\ CRC \notin Harmless /\ NAK \notin Harmless
  BY LineSets, NoCloserIsLine DEF Closers, Lines, ACK, NAK, CRC, CTL, UBOOT, MALFORMED
<1> HIDE DEF s, Harmless
<1>7. s \o ShellPrompt \in Seq(Symbols) /\ Closed(s \o ShellPrompt) /\ In(s \o ShellPrompt) = In(s) \cup {UBOOT, SPACE}
  BY <1>5, <1>6, PromptLast
<1>8. CRC \notin {UBOOT, SPACE} /\ NAK \notin {UBOOT, SPACE}
  BY DEF CRC, NAK, UBOOT, SPACE
<1> QED
  BY <1>5, <1>6, <1>7, <1>8 DEF s, close

-----------------------------------------------------------------------------
(* The invariant *)

Running == phase \notin {"failed", "done"}

\* Where program and board are: one command at a time is on its way, and both agree which.
Placed ==
    /\ sizes \in SizeChoices
    /\ phase \in {"prepare", "wake", "wake_wait"} => pos = 1
    /\ phase = "output" => Current.op \in {"loadaddr", "erase", "filesize", "write"}
    /\ phase \in {"crc_wait", "data", "eot_write", "eot_wait", "loadx_wait"} => Current.op = "loadx"
    /\ phase \in {"reset_wait", "done"} => Current.op = "reset"
    /\ phase \in {"prepare", "wake", "send"} => toBoard = <<>> /\ mode = "shell"
    /\ phase \in {"prepare", "wake"} => buffer = <<>>
    /\ phase = "data" => mode = "ready"
    /\ phase \in {"data", "eot_write"} => attempts < EotRetryLimit
    /\ phase = "eot_write" => toBoard = <<>> /\ mode = "receive"
    /\ phase = "done" => mode = "reset"
    /\ \/ toBoard = <<>>
       \/ toBoard = <<Wake>> /\ mode = "shell" /\ phase \in {"wake_wait", "failed"}
       \/ toBoard = <<Current>> /\ mode = "shell" /\ phase \in {"output", "crc_wait", "reset_wait", "failed"}
       \/ toBoard = <<EOT>> /\ mode = "receive" /\ phase \in {"eot_wait", "loadx_wait", "failed"}
    /\ mode = "ready" => Current.op = "loadx" /\ toBoard = <<>> /\ phase \in {"crc_wait", "data", "failed"}
    /\ mode = "receive" => /\ Current.op = "loadx" /\ ram = Current.image
                           /\ phase \in {"eot_write", "eot_wait", "loadx_wait", "failed"}
    /\ mode = "reset" => Current.op = "reset" /\ toBoard = <<>> /\ phase \in {"reset_wait", "done", "failed"}
    /\ phase \in {"eot_write", "eot_wait", "loadx_wait"} \/ Current.op \in {"filesize", "write"} =>
          ram = Current.image

\* What is on its way to the program, and what it has read of it.
Wire ==
    Running =>
        /\ Closed(toHost) /\ Closed(out)
        /\ In(toHost) \cap Closers # {} => Quiet(out)
        /\ UBOOT \in In(buffer) => Quiet(toHost) /\ Quiet(out)
        /\ phase \in {"prepare", "wake", "send", "eot_write"} => Quiet(toHost) /\ Quiet(out)
        /\ toBoard # <<>> => Quiet(toHost) /\ Quiet(out) /\ UBOOT \notin In(buffer)
        /\ toBoard # <<>> /\ phase \in {"output", "crc_wait", "reset_wait"} => Quiet(buffer)
        /\ phase = "crc_wait" /\ CRC \in In(buffer) \cup In(toHost) \cup In(out) => mode = "ready"
        /\ mode \in {"ready", "receive"} => UBOOT \notin In(buffer) \cup In(toHost) \cup In(out)
        /\ NAK \in In(toHost) \cup In(out) => mode = "receive"

\* The lines that only a command that was carried out prints.
Evident(op) ==
    CASE op = "loadaddr" -> {LOADADDR}
      [] op = "erase" -> {ERASED}
      [] op = "filesize" -> FilesizeLines
      [] op = "write" -> {WRITTEN}
      [] op = "reset" -> Evidence
      [] OTHER -> {}

\* They come from the command that is running.
Own ==
    phase \in {"output", "reset_wait"} =>
        \A t \in (In(buffer) \cup In(toHost) \cup In(out)) \cap Evident(Current.op) :
            /\ Current \in did
            /\ Current.op = "filesize" => filesize # "unset" /\ t = FilesizeOf[filesize]
            /\ Current.op = "reset" => mode = "reset"

\* An image is written only after U-Boot has counted its bytes.
Verified ==
    Current.op = "write" => filesize = Current.image \/ (SameSize /\ filesize \in Images)

QuietInv == TypeOK /\ Placed /\ Wire /\ Own /\ Verified /\ ConfirmedMeansDone

-----------------------------------------------------------------------------
(* Steps of the runner *)

\* The types, as the proofs below need them.
LEMMA TypeFacts ==
    ASSUME QuietInv
    PROVE  /\ pos \in 1..9 /\ Current \in UBootCommand
           /\ buffer \in Seq(Tokens \cup Lines) /\ toHost \in Seq(Symbols) /\ out \in Seq(Symbols)
           /\ cursor \in 0..Len(buffer) /\ events \in Seq(EventPayload)
           /\ mode \in {"shell", "ready", "receive", "reset"}
  BY ScriptFacts DEF QuietInv, TypeOK, Symbols, Current

\* The order in which commands run, for the one that is running.
LEMMA CurrentFacts ==
    ASSUME pos \in 1..9
    PROVE  /\ Current.op = "loadaddr" <=> pos = 1
           /\ Current.op = "erase" <=> pos = 2
           /\ Current.op = "loadx" <=> pos \in {3, 6}
           /\ Current.op = "filesize" <=> pos \in {4, 7}
           /\ Current.op = "write" <=> pos \in {5, 8}
           /\ Current.op = "reset" <=> pos = 9
           /\ pos \in 3..5 => Current.image = "preloader"
           /\ pos \in 6..8 => Current.image = "fip"
           /\ pos \in {1, 2, 9} => Current.image = "none"
           /\ Current # Wake /\ Current # EOT /\ Wake # EOT
  BY ScriptFacts, LinesDiffer DEF Current

\* Evidence is neither the space after a prompt nor chatter.
LEMMA EvidentIsLoud ==
    ASSUME NEW op
    PROVE  Evident(op) \cap QuietTokens = {} /\ CTL \notin Evident(op) /\ UBOOT \notin Evident(op)
  BY LineSets DEF Evident, QuietTokens, Evidence, LOADADDR, ERASED, WRITTEN, RESETTING, PRESS, UBOOTBANNER,
                  SPACE, TEXT, CTL, UBOOT

\* What is told of a command that was carried out stays true when other events are added.
LEMMA EventsKept ==
    ASSUME ConfirmedMeansDone, events \in Seq(EventPayload), NEW more \in Seq(EventPayload),
           events' = events \o more, did \subseteq did',
           \A p \in {q \in 1..Len(Script) : Script[q].op # "loadx"} :
               <<"UBootCommandCompleted", Script[p]>> \in In(more) => Script[p] \in did'
    PROVE  ConfirmedMeansDone' /\ events' \in Seq(EventPayload)
<1>1. events' \in Seq(EventPayload) /\ In(events') = In(events) \cup In(more)
  BY InConcat
<1>2. \A p \in {q \in 1..Len(Script) : Script[q].op # "loadx"} :
         <<"UBootCommandCompleted", Script[p]>> \in In(events) => Script[p] \in did
  BY DEF ConfirmedMeansDone, In
<1>3. \A p \in {q \in 1..Len(Script) : Script[q].op # "loadx"} :
         <<"UBootCommandCompleted", Script[p]>> \in In(events') => Script[p] \in did'
  BY <1>1, <1>2
<1> QED
  BY <1>1, <1>3 DEF ConfirmedMeansDone, In

\* Without a new event there is nothing new to have been done.
LEMMA EventsUnchanged ==
    ASSUME ConfirmedMeansDone, events' = events, did \subseteq did'
    PROVE  ConfirmedMeansDone'
  BY DEF ConfirmedMeansDone

\* One more event, which is no completion.
LEMMA EventAdded ==
    ASSUME ConfirmedMeansDone, events \in Seq(EventPayload), NEW event \in EventPayload,
           events' = Append(events, event), did' = did,
           \A command : event # <<"UBootCommandCompleted", command>>
    PROVE  ConfirmedMeansDone' /\ events' \in Seq(EventPayload)
<1>1. events' \in Seq(EventPayload) /\ In(events') = In(events) \cup {event}
  BY InAppend
<1>2. \A p \in {q \in 1..Len(Script) : Script[q].op # "loadx"} :
         <<"UBootCommandCompleted", Script[p]>> \in In(events) => Script[p] \in did
  BY DEF ConfirmedMeansDone, In
<1>3. \A p \in {q \in 1..Len(Script) : Script[q].op # "loadx"} :
         <<"UBootCommandCompleted", Script[p]>> \in In(events') => Script[p] \in did'
  BY <1>1, <1>2
<1> QED
  BY <1>1, <1>3 DEF ConfirmedMeansDone, In

\* A run that fails leaves the board where it was, at most with one more line to carry out.
LEMMA FailingKeeps ==
    ASSUME QuietInv, phase' = "failed", result' \in Results,
           UNCHANGED <<given, pos, buffer, cursor, attempts, out, mode, chatter, filesize, mmc, did>>,
           excused' \in BOOLEAN, events' \in Seq(EventPayload), ConfirmedMeansDone', toHost' \in Seq(Symbols),
           ram' = ram \/ (phase = "data" /\ ram' = "part"),
           \/ toBoard' = toBoard
           \/ phase = "wake" /\ toBoard' = <<Wake>>
           \/ phase = "send" /\ toBoard' = <<Current>>
           \/ phase = "eot_write" /\ toBoard' = <<EOT>>
    PROVE  QuietInv'
<1> USE DEF QuietInv
<1>0. Current' = Current /\ pos \in 1..9
  BY TypeFacts DEF Current
<1>1. TypeOK'
  BY DEF TypeOK, Symbols
<1>2. Placed'
  BY <1>0, CurrentFacts DEF Placed, given
<1>3. Wire' /\ Own'
  BY DEF Wire, Own, Running
<1>4. Verified'
  BY <1>0 DEF Verified
<1> QED
  BY <1>1, <1>2, <1>3, <1>4

\* prepare_stage_payloads says nothing to the board.
LEMMA PrepareKeeps ==
    ASSUME QuietInv, PrepareStagePayloads
    PROVE  QuietInv'
<1> USE DEF QuietInv
<1>0. events \in Seq(EventPayload) /\ toHost \in Seq(Symbols) /\ ConfirmedMeansDone'
  BY TypeFacts, EventsUnchanged DEF PrepareStagePayloads, Fail, boardVars
<1>1. CASE \A image \in Images : SizeFits(Plan[image], sizes[image])
  <2>1. UNCHANGED <<given, pos, buffer, cursor, attempts, excused, events, result, toHost, toBoard, boardVars>>
        /\ phase = "prepare" /\ phase' = "wake"
    BY <1>1 DEF PrepareStagePayloads
  <2>2. TypeOK' /\ Placed' /\ Wire' /\ Own' /\ Verified'
    BY <2>1 DEF TypeOK, Placed, Wire, Own, Verified, Running, boardVars, given, Current
  <2> QED
    BY <1>0, <2>2
<1>2. CASE ~ \A image \in Images : SizeFits(Plan[image], sizes[image])
  <2>1. Fail("BadInput") /\ UNCHANGED <<toHost, toBoard, boardVars>>
    BY <1>2 DEF PrepareStagePayloads
  <2>2. result' \in Results /\ excused' \in BOOLEAN
    BY <2>1 DEF Fail, Results, TypeOK
  <2> QED
    BY <1>0, <2>1, <2>2, FailingKeeps DEF Fail, boardVars
<1> QED
  BY <1>1, <1>2

\* ensure_prompt's carriage return goes to a board that waits at its prompt.
LEMMA WakePromptKeeps ==
    ASSUME QuietInv, WakePrompt
    PROVE  QuietInv'
<1> USE DEF QuietInv
<1>1. /\ phase = "wake" /\ phase' = "wake_wait" /\ toBoard = <<>> /\ toBoard' = <<Wake>> /\ mode = "shell"
      /\ UNCHANGED <<given, pos, buffer, cursor, attempts, excused, events, result, toHost, boardVars>>
      /\ buffer = <<>>
  BY DEF WakePrompt, Placed
<1>2. TypeOK' /\ Placed' /\ Own' /\ Verified'
  BY <1>1 DEF TypeOK, Placed, Own, Verified, Waits, boardVars, given, Current
<1>3. UBOOT \notin In(buffer)
  BY <1>1, InEmpty
<1>4. Wire'
  BY <1>1, <1>3 DEF Wire, Running, boardVars
<1> QED
  BY <1>1, <1>2, <1>4, EventsUnchanged DEF boardVars

\* A write that fails may have sent its line.
LEMMA SendFailsKeeps ==
    ASSUME QuietInv, SendFails
    PROVE  QuietInv'
<1> USE DEF QuietInv
<1>1. /\ phase \in {"wake", "send"} /\ phase' = "failed" /\ result' \in Results /\ excused' \in BOOLEAN
      /\ UNCHANGED <<given, pos, buffer, cursor, attempts, toHost, boardVars>>
  BY DEF SendFails, Results, TypeOK
<1>2. toBoard = <<>>
  BY <1>1 DEF Placed
<1>3. \/ toBoard' = toBoard
      \/ phase = "wake" /\ toBoard' = <<Wake>>
      \/ phase = "send" /\ toBoard' = <<Current>>
  BY <1>1, <1>2 DEF SendFails
<1>4. events' \in Seq(EventPayload) /\ ConfirmedMeansDone'
  <2>1. CASE phase = "send"
    <3>1. events' = Append(events, <<"UBootCommandStarted", Current>>)
      BY <2>1 DEF SendFails, Emit
    <3>2. <<"UBootCommandStarted", Current>> \in EventPayload
      BY TypeFacts DEF EventPayload
    <3> QED
      BY <1>1, <3>1, <3>2, EventAdded, TypeFacts DEF boardVars
  <2>2. CASE phase # "send"
    BY <1>1, <2>2, TypeFacts, EventsUnchanged DEF SendFails, boardVars
  <2> QED
    BY <2>1, <2>2
<1>5. toHost \in Seq(Symbols)
  BY TypeFacts
<1> QED
  BY <1>1, <1>3, <1>4, <1>5, FailingKeeps DEF boardVars

\* A read moves output from the wire to the console.
LEMMA ReadDataKeeps ==
    ASSUME QuietInv, ReadData
    PROVE  QuietInv'
<1> USE DEF QuietInv
<1>1. /\ phase \in Waits
      /\ UNCHANGED <<given, phase, pos, cursor, attempts, excused, events, result, toBoard, boardVars>>
      /\ Current' = Current
  BY DEF ReadData, Current
<1>2. buffer \in Seq(Tokens \cup Lines) /\ toHost \in Seq(Symbols) /\ pos \in 1..9 /\ cursor \in 0..Len(buffer)
  BY TypeFacts
<1>3. /\ buffer' \in Seq(Tokens \cup Lines) /\ toHost' \in Seq(Symbols)
      /\ Len(buffer') >= Len(buffer)
      /\ \A t \in In(buffer') :
            t \in In(buffer) \/ t \in In(toHost) \/ (t = CTL /\ In(toHost) \cap Answers # {})
      /\ In(toHost') \subseteq In(toHost)
      /\ Closed(toHost) => Closed(toHost')
      /\ UBOOT \in In(buffer') =>
            UBOOT \in In(buffer) \/ (UBOOT \in In(toHost) /\ (Closed(toHost) => Quiet(toHost')))
  BY <1>2, ReadFacts
<1>4. TypeOK'
  <2>1. cursor' \in 0..Len(buffer')
    BY <1>1, <1>2, <1>3
  <2> QED
    BY <1>1, <1>3, <2>1 DEF TypeOK, Symbols, boardVars
<1>5. Placed'
  BY <1>1 DEF Placed, boardVars, given, Waits
<1>6. Wire'
  <2>0. CASE ~Running
    BY <1>1, <2>0 DEF Wire, Running
  <2> SUFFICES ASSUME Running PROVE Wire'
    BY <2>0
  <2>1. Quiet(toHost) => Quiet(toHost')
    BY <1>3 DEF Quiet
  <2>2. UBOOT \in In(buffer') => Quiet(toHost') /\ Quiet(out)
    BY <1>3, <2>1 DEF Wire, Closers
  <2>3. toBoard # <<>> => UBOOT \notin In(buffer') /\ (Quiet(buffer) => Quiet(buffer'))
    <3>1. UBOOT \notin QuietTokens /\ QuietTokens \cap Answers = {}
      BY DEF UBOOT, QuietTokens, SPACE, TEXT, Answers, ACK, NAK, CAN
    <3> QED
      BY <1>3, <3>1 DEF Wire, Quiet
  <2>4. CRC \in In(buffer') => CRC \in In(buffer) \/ CRC \in In(toHost)
    BY <1>3 DEF CRC, CTL
  <2> QED
    BY <1>1, <1>3, <2>1, <2>2, <2>3, <2>4 DEF Wire, Running, boardVars
<1>7. Own'
  <2>1. \A t \in In(buffer') \cap Evident(Current.op) : t \in In(buffer) \/ t \in In(toHost)
    BY <1>3, EvidentIsLoud
  <2> QED
    BY <1>1, <1>3, <2>1 DEF Own, boardVars
<1>8. Verified' /\ ConfirmedMeansDone'
  BY <1>1, EventsUnchanged DEF Verified, boardVars
<1> QED
  BY <1>4, <1>5, <1>6, <1>7, <1>8

\* A read of text that goes on keeps nothing of it.
LEMMA ReadOnKeeps ==
    ASSUME QuietInv, ReadOn
    PROVE  QuietInv'
<1> USE DEF QuietInv
<1>1. toHost = <<TEXT>> /\ toHost' = <<>> /\ UNCHANGED <<runnerVars, toBoard, boardVars>> /\ Current' = Current
  BY DEF ReadOn, GoesOn, runnerVars, Current
<1>2. In(toHost') = {} /\ Quiet(toHost') /\ Closed(toHost')
  BY <1>1, InEmpty
<1>3. TypeOK' /\ Placed' /\ Verified' /\ ConfirmedMeansDone'
  BY <1>1, EventsUnchanged DEF TypeOK, Placed, Verified, runnerVars, boardVars
<1>4. Own'
  BY <1>1, <1>2 DEF Own, runnerVars, boardVars
<1>5. Wire'
  BY <1>1, <1>2 DEF Wire, Running, runnerVars, boardVars
<1> QED
  BY <1>3, <1>4, <1>5

\* A wait that fails ends the run.
LEMMA ReadFailsKeeps ==
    ASSUME QuietInv, ReadFails
    PROVE  QuietInv'
<1> USE DEF QuietInv
<1>1. /\ phase' = "failed" /\ result' \in Results /\ excused' \in BOOLEAN
      /\ UNCHANGED <<given, pos, buffer, cursor, attempts, events, toHost, toBoard, boardVars>>
  BY DEF ReadFails, Fail, Results, TypeOK
<1>2. events \in Seq(EventPayload) /\ toHost \in Seq(Symbols) /\ ConfirmedMeansDone'
  BY <1>1, TypeFacts, EventsUnchanged DEF boardVars
<1> QED
  BY <1>1, <1>2, FailingKeeps DEF boardVars

\* The first prompt: everything the carriage return brought about has been read.
LEMMA PromptSeenKeeps ==
    ASSUME QuietInv, PromptSeen
    PROVE  QuietInv'
<1> USE DEF QuietInv
<1>1. /\ phase = "wake_wait" /\ Match # NoMatch /\ phase' = "send" /\ cursor' = Match
      /\ events' = Append(events, <<"UBootPromptSeen">>)
      /\ UNCHANGED <<given, pos, buffer, attempts, excused, result, toHost, toBoard, boardVars>>
      /\ Current' = Current
  BY DEF PromptSeen, AdvancedTo, Emit, Current
<1>2. Match \in 0..Len(buffer) /\ UBOOT \in In(buffer)
  BY <1>1, MatchFacts, TypeFacts DEF Waits
<1>3. Quiet(toHost) /\ Quiet(out) /\ toBoard = <<>> /\ mode = "shell"
  BY <1>1, <1>2, TypeFacts DEF Wire, Running, Placed
<1>4. <<"UBootPromptSeen">> \in EventPayload
  BY DEF EventPayload
<1>5. ConfirmedMeansDone' /\ events' \in Seq(EventPayload)
  <2>1. \A command : <<"UBootPromptSeen">> # <<"UBootCommandCompleted", command>>
    OBVIOUS
  <2> QED
    BY <1>1, <1>4, <2>1, EventAdded, TypeFacts DEF boardVars
<1>6. TypeOK' /\ Placed' /\ Own' /\ Verified'
  BY <1>1, <1>2, <1>3, <1>5 DEF TypeOK, Placed, Own, Verified, Waits, boardVars, given
<1>7. Wire'
  BY <1>1, <1>3 DEF Wire, Running, boardVars
<1> QED
  BY <1>5, <1>6, <1>7

\* A command's line is sent to a board that has nothing more to say.
LEMMA SendCommandKeeps ==
    ASSUME QuietInv, SendCommand
    PROVE  QuietInv'
<1> USE DEF QuietInv
<1>0. pos \in 1..9 /\ Current \in UBootCommand /\ Current' = Current
  BY TypeFacts DEF SendCommand, Current
<1>1. /\ phase = "send" /\ toBoard = <<>> /\ toBoard' = <<Current>> /\ mode = "shell"
      /\ buffer' = <<>> /\ cursor' = 0 /\ events' = Append(events, <<"UBootCommandStarted", Current>>)
      /\ UNCHANGED <<given, pos, attempts, excused, result, toHost, boardVars>>
      /\ phase' \in {"crc_wait", "reset_wait", "output"}
      /\ phase' = "crc_wait" <=> Current.op = "loadx"
      /\ phase' = "reset_wait" <=> Current.op = "reset"
  BY DEF SendCommand, Placed, Emit
<1>2. In(buffer') = {} /\ Quiet(buffer')
  BY <1>1, InEmpty
<1>3. TypeOK'
  <2>1. <<"UBootCommandStarted", Current>> \in EventPayload
    BY <1>0 DEF EventPayload
  <2>2. events' \in Seq(EventPayload) /\ buffer' \in Seq(Tokens \cup Lines) /\ cursor' \in 0..Len(buffer')
    BY <1>1, <2>1 DEF TypeOK
  <2> QED
    BY <1>1, <2>2 DEF TypeOK, Waits, boardVars
<1>4. Placed'
  <2>1. Current.op # "loadx" /\ Current.op # "reset" => Current.op \in {"loadaddr", "erase", "filesize", "write"}
    BY <1>0 DEF UBootCommand
  <2> QED
    BY <1>0, <1>1, <2>1 DEF Placed, boardVars, given
<1>5. Quiet(toHost) /\ Quiet(out) /\ In(toHost) \cap Closers = {} /\ In(out) \cap Closers = {}
  BY <1>1, QuietIsClosed DEF Wire, Running
<1>6. CRC \notin QuietTokens /\ NAK \notin QuietTokens /\ UBOOT \notin QuietTokens
  BY DEF CRC, NAK, UBOOT, QuietTokens, SPACE, TEXT
<1>7. Wire'
  BY <1>1, <1>2, <1>5, <1>6 DEF Wire, Running, boardVars, Quiet
<1>8. Own'
  BY <1>0, <1>1, <1>2, <1>5, EvidentIsLoud DEF Own, boardVars, Quiet
<1>9. Verified'
  BY <1>0, <1>1 DEF Verified, boardVars
<1>10. ConfirmedMeansDone'
  <2>1. <<"UBootCommandStarted", Current>> \in EventPayload
    BY <1>0 DEF EventPayload
  <2> QED
    BY <1>1, <2>1, EventAdded, TypeFacts DEF boardVars
<1> QED
  BY <1>3, <1>4, <1>7, <1>8, <1>9, <1>10

\* A command whose output has been judged good: the next one is due, and U-Boot waits for it.
LEMMA AcceptKeeps ==
    ASSUME QuietInv, NEW more \in Seq(EventPayload), Accept(more), UNCHANGED <<toHost, toBoard, boardVars>>,
           phase \in {"output", "loadx_wait"}, UBOOT \in In(buffer),
           Current.op # "loadx" /\ Completed \in In(more) => Current \in did,
           \A command : <<"UBootCommandCompleted", command>> \in In(more) => command = Current,
           Current.op = "filesize" => filesize = Current.image \/ (SameSize /\ filesize \in Images)
    PROVE  QuietInv'
<1> USE DEF QuietInv
<1>0. /\ pos \in 1..9 /\ events \in Seq(EventPayload)
      /\ mode \in {"shell", "ready", "receive", "reset"}
  BY TypeFacts
<1>1. /\ phase' = "send" /\ pos' = pos + 1 /\ excused' = FALSE
      /\ UNCHANGED <<given, buffer, cursor, attempts, result, toHost, toBoard, boardVars>>
      /\ events' = events \o more
  BY DEF Accept
<1>2. toBoard = <<>> /\ mode = "shell" /\ Quiet(toHost) /\ Quiet(out)
  BY <1>0 DEF Wire, Running, Placed
<1>3. Current.op # "reset"
  BY DEF Placed
<1>4. pos \in 1..8
  BY <1>0, <1>3, CurrentFacts
<1>5. /\ Current' = Script[pos + 1] /\ pos + 1 \in 1..9 /\ pos' \in 1..9
      /\ Current'.op \in {"filesize", "write"} => Current.op \in {"loadx", "filesize"} /\ Current'.image = Current.image
      /\ Current'.op = "write" => Current.op = "filesize"
  <2>1. Current' = Script[pos + 1] /\ pos + 1 \in 1..9
    BY <1>1, <1>4 DEF Current
  <2>2. /\ Current'.op = "filesize" <=> pos \in {3, 6}
        /\ Current'.op = "write" <=> pos \in {4, 7}
        /\ pos \in 2..4 => Current'.image = "preloader"
        /\ pos \in 5..7 => Current'.image = "fip"
    BY <1>4, <2>1, ScriptFacts
  <2> QED
    BY <1>0, <1>1, <2>1, <2>2, CurrentFacts
<1>6. ConfirmedMeansDone' /\ events' \in Seq(EventPayload)
  <2>1. \A p \in {q \in 1..Len(Script) : Script[q].op # "loadx"} :
           <<"UBootCommandCompleted", Script[p]>> \in In(more) => Script[p] \in did'
    BY <1>1 DEF Completed, boardVars
  <2> QED
    BY <1>0, <1>1, <2>1, EventsKept DEF boardVars
<1>7. TypeOK'
  <2>1. Len(Script) = 9
    BY ScriptFacts
  <2> QED
    BY <1>1, <1>5, <1>6, <2>1 DEF TypeOK, boardVars
<1>8. Placed'
  BY <1>1, <1>2, <1>5 DEF Placed, boardVars, given
<1>9. Wire'
  BY <1>1, <1>2 DEF Wire, Running, boardVars
<1>10. Own' /\ Verified'
  BY <1>1, <1>5 DEF Own, Verified, boardVars
<1> QED
  BY <1>6, <1>7, <1>8, <1>9, <1>10

\* What is said when a command is done.
LEMMA CompletedFacts ==
    ASSUME QuietInv
    PROVE  /\ Completed \in EventPayload /\ <<Completed>> \in Seq(EventPayload) /\ In(<<Completed>>) = {Completed}
           /\ \A command : <<"UBootCommandCompleted", command>> = Completed => command = Current
<1>1. Completed \in EventPayload
  BY TypeFacts DEF Completed, EventPayload
<1>2. \A command : <<"UBootCommandCompleted", command>> = Completed => command = Current
  BY DEF Completed
<1> QED
  BY <1>1, <1>2, InOne

\* require_output and capture_hex_value accept a line of the running command only.
LEMMA RequireKeeps ==
    ASSUME QuietInv, NEW kind, Require(kind), UNCHANGED <<toHost, toBoard, boardVars>>,
           phase = "output", UBOOT \in In(buffer), kind \subseteq Evident(Current.op), Current.op # "filesize"
    PROVE  QuietInv'
<1>1. CASE Reports(buffer, kind)
  <2>1. Accept(<<Completed>>)
    BY <1>1 DEF Require
  <2>2. Current \in did
    BY <1>1, ReportFacts, TypeFacts DEF Own, QuietInv
  <2> QED
    BY <2>1, <2>2, AcceptKeeps, CompletedFacts
<1>2. CASE ~Reports(buffer, kind)
  <2>1. /\ phase' = "failed" /\ result' \in Results /\ excused' \in BOOLEAN
        /\ UNCHANGED <<given, pos, buffer, cursor, attempts, events, toHost, toBoard, boardVars>>
    BY <1>2 DEF Require, Fail, Results, TypeOK, QuietInv
  <2>2. events \in Seq(EventPayload) /\ toHost \in Seq(Symbols) /\ ConfirmedMeansDone'
    BY <2>1, TypeFacts, EventsUnchanged DEF boardVars, QuietInv
  <2> QED
    BY <2>1, <2>2, FailingKeeps DEF boardVars
<1> QED
  BY <1>1, <1>2

\* The size that is reported is the one U-Boot counted.
LEMMA VerifyFilesizeKeeps ==
    ASSUME QuietInv, VerifyFilesize, UNCHANGED <<toHost, toBoard, boardVars>>,
           phase = "output", UBOOT \in In(buffer), Current.op = "filesize"
    PROVE  QuietInv'
<1>1. CASE Reports(buffer, FilesizeLines) /\ SizeMatches(Reported(buffer, FilesizeLines), FilesizeOf, Current.image)
  <2> DEFINE line == Reported(buffer, FilesizeLines)
             more == <<<<"ImageVerified", Current.image>>, Completed>>
  <2>1. Accept(more)
    BY <1>1 DEF VerifyFilesize
  <2>2. line \in In(buffer) \cap FilesizeLines
    BY <1>1, ReportFacts, TypeFacts
  <2>3. Current \in did /\ filesize # "unset" /\ line = FilesizeOf[filesize]
    BY <2>2 DEF Own, QuietInv, Evident
  <2>4. Current.image \in Images
    BY TypeFacts, CurrentFacts DEF Images
  <2>5. filesize \in {"preloader", "fip", "other"}
    BY <2>3 DEF QuietInv, TypeOK, Images
  <2>6. filesize = Current.image \/ (SameSize /\ filesize \in Images)
    <3>1. line = FilesizeOf[Current.image] \/ (SameSize /\ line # FilesizeOf["other"])
      BY <1>1 DEF SizeMatches
    <3> HIDE DEF line
    <3> QED
      BY <2>3, <2>4, <2>5, <3>1, LineSets DEF Images
  <2>7. /\ more \in Seq(EventPayload) /\ In(more) = {<<"ImageVerified", Current.image>>, Completed}
    <3>1. <<"ImageVerified", Current.image>> \in EventPayload
      BY <2>4 DEF EventPayload, ImageKind, Images
    <3>2. Len(more) = 2 /\ more[1] = <<"ImageVerified", Current.image>> /\ more[2] = Completed /\ 1..2 = {1, 2}
      OBVIOUS
    <3>3. more \in Seq(EventPayload)
      BY <3>1, CompletedFacts
    <3> HIDE DEF more
    <3> QED
      BY <3>2, <3>3 DEF In
  <2>8. \A command : <<"UBootCommandCompleted", command>> # <<"ImageVerified", Current.image>>
    OBVIOUS
  <2>9. \A command : <<"UBootCommandCompleted", command>> \in In(more) => command = Current
    BY <2>7, <2>8, CompletedFacts
  <2> HIDE DEF more
  <2> QED
    BY <2>1, <2>3, <2>6, <2>7, <2>9, AcceptKeeps
<1>2. CASE ~ (Reports(buffer, FilesizeLines) /\ SizeMatches(Reported(buffer, FilesizeLines), FilesizeOf, Current.image))
  <2>1. /\ phase' = "failed" /\ result' \in Results /\ excused' \in BOOLEAN
        /\ UNCHANGED <<given, pos, buffer, cursor, attempts, events, toHost, toBoard, boardVars>>
    BY <1>2 DEF VerifyFilesize, Fail, Results, TypeOK, QuietInv
  <2>2. events \in Seq(EventPayload) /\ toHost \in Seq(Symbols) /\ ConfirmedMeansDone'
    BY <2>1, TypeFacts, EventsUnchanged DEF boardVars, QuietInv
  <2> QED
    BY <2>1, <2>2, FailingKeeps DEF boardVars
<1> QED
  BY <1>1, <1>2

\* The closing prompt of a command.
LEMMA CommandDoneKeeps ==
    ASSUME QuietInv, CommandDone
    PROVE  QuietInv'
<1>1. phase = "output" /\ Match # NoMatch /\ UNCHANGED <<toHost, toBoard, boardVars>>
  BY DEF CommandDone
<1>2. UBOOT \in In(buffer)
  BY <1>1, MatchFacts, TypeFacts
<1>3. CASE Current.op = "loadaddr" /\ Require({LOADADDR})
  BY <1>1, <1>2, <1>3, RequireKeeps DEF Evident
<1>4. CASE Current.op = "erase" /\ Require({ERASED})
  BY <1>1, <1>2, <1>4, RequireKeeps DEF Evident
<1>5. CASE Current.op = "filesize" /\ VerifyFilesize
  BY <1>1, <1>2, <1>5, VerifyFilesizeKeeps
<1>6. CASE Current.op = "write" /\ Require({WRITTEN})
  BY <1>1, <1>2, <1>6, RequireKeeps DEF Evident
<1> QED
  BY <1>3, <1>4, <1>5, <1>6 DEF CommandDone

\* Readiness comes from the loadx that was sent.
LEMMA CrcReadyKeeps ==
    ASSUME QuietInv, CrcReady
    PROVE  QuietInv'
<1> USE DEF QuietInv
<1> DEFINE more == <<<<"CrcReady", Transfer>>, <<"XmodemStarted", Transfer>>>>
<1>1. /\ phase = "crc_wait" /\ Match # NoMatch /\ phase' = "data" /\ cursor' = Match /\ attempts' = 0
      /\ events' = events \o more
      /\ UNCHANGED <<given, pos, buffer, excused, result, toHost, toBoard, boardVars>>
      /\ Current' = Current
  BY DEF CrcReady, AdvancedTo, Current
<1>2. Match \in 0..Len(buffer) /\ CRC \in In(buffer)
  BY <1>1, MatchFacts, TypeFacts DEF Waits
<1>3. mode = "ready"
  BY <1>1, <1>2 DEF Wire, Running
<1>4. ConfirmedMeansDone' /\ events' \in Seq(EventPayload)
  <2>1. more \in Seq(EventPayload)
    BY DEF Transfer, EventPayload, TransferStage
  <2>2. Len(more) = 2 /\ more[1] = <<"CrcReady", Transfer>> /\ more[2] = <<"XmodemStarted", Transfer>> /\ 1..2 = {1, 2}
    OBVIOUS
  <2>3. In(more) = {<<"CrcReady", Transfer>>, <<"XmodemStarted", Transfer>>}
    BY <2>2 DEF In
  <2>4. \A command : <<"UBootCommandCompleted", command>> \notin In(more)
    BY <2>3
  <2> HIDE DEF more
  <2> QED
    BY <1>1, <2>1, <2>4, EventsKept, TypeFacts DEF boardVars
<1>5. TypeOK'
  BY <1>1, <1>2, <1>4, FlashAssumption DEF TypeOK, Waits, boardVars
<1>6. Placed' /\ Own' /\ Verified'
  BY <1>1, <1>3, FlashAssumption DEF Placed, Own, Verified, boardVars, given
<1>7. Wire'
  BY <1>1, <1>3 DEF Wire, Running, boardVars
<1> QED
  BY <1>4, <1>5, <1>6, <1>7

\* The blocks of a transfer.
LEMMA DataSentKeeps ==
    ASSUME QuietInv, DataSent
    PROVE  QuietInv'
<1> USE DEF QuietInv
<1>1. /\ phase = "data" /\ toHost = <<>> /\ out = <<>> /\ mode = "ready"
      /\ mode' = "receive" /\ ram' = Current.image /\ phase' = "eot_write"
      /\ UNCHANGED <<given, pos, buffer, cursor, attempts, excused, events, result, toHost, toBoard,
                     out, chatter, filesize, mmc, did>>
      /\ Current' = Current
  BY DEF DataSent, Current
<1>2. toBoard = <<>> /\ Current.op = "loadx" /\ Current.image \in Images
  BY <1>1, TypeFacts, CurrentFacts DEF Placed, Images
<1>3. TypeOK' /\ Placed' /\ Own' /\ Verified'
  BY <1>1, <1>2 DEF TypeOK, Placed, Own, Verified, given
<1>4. Wire'
  BY <1>1, <1>2, InEmpty DEF Wire, Running
<1> QED
  BY <1>1, <1>3, <1>4, EventsUnchanged

\* A transfer that fails.
LEMMA DataFailsKeeps ==
    ASSUME QuietInv, DataFails
    PROVE  QuietInv'
<1> USE DEF QuietInv
<1>1. /\ phase = "data" /\ phase' = "failed" /\ result' \in Results /\ excused' \in BOOLEAN /\ ram' \in {ram, "part"}
      /\ UNCHANGED <<given, pos, buffer, cursor, attempts, events, toHost, toBoard,
                     out, mode, chatter, filesize, mmc, did>>
  BY DEF DataFails, Fail, Results, TypeOK
<1>2. events \in Seq(EventPayload) /\ toHost \in Seq(Symbols) /\ ConfirmedMeansDone'
  BY <1>1, TypeFacts, EventsUnchanged
<1> QED
  BY <1>1, <1>2, FailingKeeps

\* An EOT is sent after the blocks, or after the rejection of the one before.
LEMMA WriteEotKeeps ==
    ASSUME QuietInv, WriteEot
    PROVE  QuietInv'
<1> USE DEF QuietInv
<1>1. /\ phase = "eot_write" /\ phase' = "eot_wait" /\ toBoard = <<>> /\ toBoard' = <<EOT>> /\ mode = "receive"
      /\ attempts' = attempts + 1
      /\ UNCHANGED <<given, pos, buffer, cursor, excused, events, result, toHost, boardVars>>
      /\ Current' = Current
  BY DEF WriteEot, Placed, Current
<1>2. TypeOK'
  <2>1. attempts + 1 \in 0..EotRetryLimit
    BY <1>1, FlashAssumption DEF TypeOK, Placed
  <2> QED
    BY <1>1, <2>1 DEF TypeOK, boardVars
<1>3. Placed' /\ Own' /\ Verified'
  BY <1>1 DEF Placed, Own, Verified, boardVars, given
<1>4. Wire'
  BY <1>1 DEF Wire, Running, boardVars
<1> QED
  BY <1>1, <1>2, <1>3, <1>4, EventsUnchanged DEF boardVars

\* The EOT is acknowledged.
LEMMA EotAckedKeeps ==
    ASSUME QuietInv, EotAcked
    PROVE  QuietInv'
<1> USE DEF QuietInv
<1>1. /\ phase = "eot_wait" /\ phase' = "loadx_wait" /\ toHost # <<>> /\ toHost' = Tail(toHost)
      /\ events' = Append(events, <<"XmodemCompleted", Transfer, FALSE>>)
      /\ UNCHANGED <<given, pos, buffer, cursor, attempts, excused, result, toBoard, boardVars>>
      /\ Current' = Current
  BY DEF EotAcked, Emit, Current
<1>2. /\ toHost' \in Seq(Symbols) /\ In(toHost') \subseteq In(toHost)
      /\ Closed(toHost) => Closed(toHost')
  BY <1>1, InTail, TailFacts, TypeFacts
<1>3. ConfirmedMeansDone' /\ events' \in Seq(EventPayload)
  <2>1. <<"XmodemCompleted", Transfer, FALSE>> \in EventPayload
    BY DEF EventPayload, Transfer, TransferStage
  <2>2. \A command : <<"XmodemCompleted", Transfer, FALSE>> # <<"UBootCommandCompleted", command>>
    OBVIOUS
  <2> QED
    BY <1>1, <2>1, <2>2, EventAdded, TypeFacts DEF boardVars
<1>4. TypeOK'
  BY <1>1, <1>2, <1>3 DEF TypeOK, Symbols, Waits, boardVars
<1>5. Placed' /\ Own' /\ Verified'
  BY <1>1 DEF Placed, Own, Verified, boardVars, given
<1>6. Wire'
  BY <1>1, <1>2 DEF Wire, Running, boardVars, Quiet
<1> QED
  BY <1>3, <1>4, <1>5, <1>6

\* The EOT is excused: the program looks for the prompt next.
LEMMA ExcuseKeeps ==
    ASSUME QuietInv, phase = "eot_wait", ExcuseEot, UNCHANGED <<toBoard, boardVars>>, toHost' \in Seq(Symbols),
           In(toHost') \subseteq In(toHost), Closed(toHost) => Closed(toHost')
    PROVE  QuietInv'
<1> USE DEF QuietInv
<1>1. /\ phase' = "loadx_wait" /\ excused' = TRUE
      /\ UNCHANGED <<given, pos, buffer, cursor, attempts, events, result, toBoard, boardVars>>
      /\ Current' = Current
  BY DEF ExcuseEot, Current
<1>2. TypeOK'
  BY <1>1 DEF TypeOK, Symbols, Waits, boardVars
<1>3. Placed' /\ Own' /\ Verified'
  BY <1>1 DEF Placed, Own, Verified, boardVars, given
<1>4. Wire'
  BY <1>1 DEF Wire, Running, boardVars, Quiet
<1> QED
  BY <1>1, <1>2, <1>3, <1>4, EventsUnchanged DEF boardVars

\* The EOT is rejected: it is sent again, or excused.
LEMMA EotNakedKeeps ==
    ASSUME QuietInv, EotNaked
    PROVE  QuietInv'
<1> USE DEF QuietInv
<1>1. phase = "eot_wait" /\ toHost # <<>> /\ Head(toHost) = NAK /\ toHost' = Tail(toHost) /\ UNCHANGED <<toBoard, boardVars>>
  BY DEF EotNaked
<1>2. /\ toHost' \in Seq(Symbols) /\ In(toHost') \subseteq In(toHost) /\ NAK \in In(toHost)
      /\ Closed(toHost) => Closed(toHost') /\ Quiet(toHost')
  BY <1>1, InTail, TailFacts, TypeFacts DEF Closers
<1>3. CASE attempts < EotRetryLimit
  <2>1. /\ phase' = "eot_write"
        /\ UNCHANGED <<given, pos, buffer, cursor, attempts, excused, events, result>> /\ Current' = Current
    BY <1>3 DEF EotNaked, Current
  <2>2. mode = "receive" /\ Quiet(out)
    BY <1>1, <1>2 DEF Wire, Running, Closers
  <2>3. toBoard = <<>>
    <3>1. NAK \notin QuietTokens
      BY DEF NAK, QuietTokens, SPACE, TEXT
    <3> QED
      BY <1>1, <1>2, <3>1 DEF Wire, Running, Quiet
  <2>4. TypeOK' /\ Placed' /\ Own' /\ Verified'
    BY <1>1, <1>2, <1>3, <2>1, <2>2, <2>3 DEF TypeOK, Placed, Own, Verified, Symbols, boardVars, given
  <2>5. Wire'
    BY <1>1, <1>2, <2>1, <2>2, <2>3 DEF Wire, Running, boardVars
  <2> QED
    BY <1>1, <2>1, <2>4, <2>5, EventsUnchanged DEF boardVars
<1>4. CASE ~(attempts < EotRetryLimit)
  <2>1. ExcuseEot
    BY <1>4 DEF EotNaked
  <2> QED
    BY <1>1, <1>2, <2>1, ExcuseKeeps
<1> QED
  BY <1>3, <1>4

\* The EOT is not answered, and excused.
LEMMA EotTimesOutKeeps ==
    ASSUME QuietInv, EotTimesOut
    PROVE  QuietInv'
<1>1. phase = "eot_wait" /\ ExcuseEot /\ UNCHANGED <<toHost, toBoard, boardVars>>
  BY DEF EotTimesOut
<1>2. toHost' \in Seq(Symbols)
  BY <1>1, TypeFacts
<1> QED
  BY <1>1, <1>2, ExcuseKeeps

\* The EOT fails for good.
LEMMA EotFailsKeeps ==
    ASSUME QuietInv, EotFails
    PROVE  QuietInv'
<1> USE DEF QuietInv
<1>1. /\ phase' = "failed" /\ result' \in Results /\ excused' \in BOOLEAN
      /\ UNCHANGED <<given, pos, buffer, cursor, attempts, events, boardVars>>
  BY DEF EotFails, Fail, Results, TypeOK
<1>2. /\ toHost' \in {toHost, IF toHost = <<>> THEN toHost ELSE Tail(toHost)}
      /\ toBoard' = toBoard \/ (phase = "eot_write" /\ toBoard' = Append(toBoard, EOT))
  BY DEF EotFails
<1>5. phase = "eot_write" => Append(toBoard, EOT) = <<EOT>>
  BY DEF Placed
<1>3. toHost' \in Seq(Symbols)
  BY <1>2, TypeFacts, TailFacts
<1>4. events \in Seq(EventPayload) /\ ConfirmedMeansDone'
  BY <1>1, TypeFacts, EventsUnchanged DEF boardVars
<1> QED
  BY <1>1, <1>2, <1>3, <1>4, <1>5, FailingKeeps DEF boardVars

\* The prompt after a transfer, and verify_total_size.
LEMMA LoadxDoneKeeps ==
    ASSUME QuietInv, LoadxDone
    PROVE  QuietInv'
<1> USE DEF QuietInv
<1> DEFINE seen == (IF excused THEN <<<<"XmodemCompleted", Transfer, TRUE>>>> ELSE <<>>) \o <<<<"UBootPromptSeen">>>>
<1>1. phase = "loadx_wait" /\ Match # NoMatch /\ UNCHANGED <<toHost, toBoard, boardVars>>
  BY DEF LoadxDone
<1>2. UBOOT \in In(buffer) /\ Current.op = "loadx"
  BY <1>1, MatchFacts, TypeFacts DEF Placed
<1>3. /\ seen \in Seq(EventPayload)
      /\ In(seen) \subseteq {<<"XmodemCompleted", Transfer, TRUE>>, <<"UBootPromptSeen">>}
  <2> DEFINE recovered == IF excused THEN <<<<"XmodemCompleted", Transfer, TRUE>>>> ELSE <<>>
             prompt == <<<<"UBootPromptSeen">>>>
  <2>1. <<"XmodemCompleted", Transfer, TRUE>> \in EventPayload /\ <<"UBootPromptSeen">> \in EventPayload
    BY DEF EventPayload, Transfer, TransferStage
  <2>2. recovered \in Seq(EventPayload) /\ prompt \in Seq(EventPayload)
    BY <2>1
  <2>3. In(recovered) \subseteq {<<"XmodemCompleted", Transfer, TRUE>>} /\ In(prompt) = {<<"UBootPromptSeen">>}
    BY InOne, InEmpty
  <2> HIDE DEF recovered, prompt
  <2>4. recovered \o prompt \in Seq(EventPayload) /\ In(recovered \o prompt) = In(recovered) \cup In(prompt)
    BY <2>2, InConcat
  <2> QED
    BY <2>3, <2>4 DEF recovered, prompt
<1>4. \A command : <<"UBootCommandCompleted", command>> \notin In(seen)
  <2>1. \A command : /\ <<"UBootCommandCompleted", command>> # <<"XmodemCompleted", Transfer, TRUE>>
                     /\ <<"UBootCommandCompleted", command>> # <<"UBootPromptSeen">>
    OBVIOUS
  <2> HIDE DEF seen
  <2> QED
    BY <1>3, <2>1
<1> HIDE DEF seen
<1>5. CASE Accept(seen \o <<Completed>>)
  <2>1. seen \o <<Completed>> \in Seq(EventPayload) /\ In(seen \o <<Completed>>) = In(seen) \cup {Completed}
    <3> DEFINE done == <<Completed>>
    <3>1. done \in Seq(EventPayload) /\ In(done) = {Completed}
      BY CompletedFacts
    <3> HIDE DEF done
    <3>2. seen \o done \in Seq(EventPayload) /\ In(seen \o done) = In(seen) \cup In(done)
      BY <1>3, <3>1, InConcat
    <3> QED
      BY <3>1, <3>2 DEF done
  <2>2. \A command : <<"UBootCommandCompleted", command>> \in In(seen \o <<Completed>>) => command = Current
    BY <1>4, <2>1, CompletedFacts
  <2> DEFINE more == seen \o <<Completed>>
  <2>3. more \in Seq(EventPayload) /\ Accept(more)
        /\ \A command : <<"UBootCommandCompleted", command>> \in In(more) => command = Current
    BY <1>5, <2>1, <2>2
  <2> HIDE DEF more
  <2> QED
    BY <1>1, <1>2, <2>3, AcceptKeeps
<1>6. ASSUME NEW error \in {"VerificationMismatch", "Protocol"},
             phase' = "failed", result' = error, events' = events \o seen, excused' = FALSE,
             UNCHANGED <<given, pos, buffer, cursor, attempts>>
      PROVE  QuietInv'
  <2>1. result' \in Results /\ toHost' \in Seq(Symbols)
    BY <1>1, <1>6, TypeFacts DEF Results
  <2>2. ConfirmedMeansDone' /\ events' \in Seq(EventPayload)
    BY <1>1, <1>3, <1>4, <1>6, EventsKept, TypeFacts DEF boardVars
  <2> QED
    BY <1>1, <1>6, <2>1, <2>2, FailingKeeps DEF boardVars
<1> QED
  BY <1>5, <1>6 DEF LoadxDone, seen

\* The reset is seen to happen.
LEMMA ResetSeenKeeps ==
    ASSUME QuietInv, ResetSeen
    PROVE  QuietInv'
<1> USE DEF QuietInv
<1> DEFINE more == <<<<"ResetSeen">>, <<"HandoffReady", FALSE>>>>
<1>1. /\ phase = "reset_wait" /\ Match # NoMatch /\ cursor' = Match /\ phase' = "done" /\ result' = "ok"
      /\ events' = events \o more
      /\ UNCHANGED <<given, pos, buffer, attempts, excused, toHost, toBoard, boardVars>>
      /\ Current' = Current
  BY DEF ResetSeen, Current
<1>2. Match \in 0..Len(buffer) /\ In(buffer) \cap Evidence # {}
  BY <1>1, MatchFacts, TypeFacts DEF Waits
<1>3. Current.op = "reset" /\ mode = "reset"
  BY <1>1, <1>2 DEF Own, Placed, Evident
<1>4. ConfirmedMeansDone' /\ events' \in Seq(EventPayload)
  <2> DEFINE seen == <<"ResetSeen">>
             ready == <<"HandoffReady", FALSE>>
  <2>0. seen \in EventPayload /\ ready \in EventPayload
    BY DEF EventPayload
  <2>a. \A command : <<"UBootCommandCompleted", command>> # seen /\ <<"UBootCommandCompleted", command>> # ready
    OBVIOUS
  <2> HIDE DEF seen, ready
  <2>1. <<seen, ready>> \in Seq(EventPayload)
    BY <2>0
  <2>2. Len(<<seen, ready>>) = 2 /\ <<seen, ready>>[1] = seen /\ <<seen, ready>>[2] = ready /\ 1..2 = {1, 2}
    OBVIOUS
  <2>3. In(<<seen, ready>>) = {seen, ready}
    BY <2>2 DEF In
  <2>4. \A command : <<"UBootCommandCompleted", command>> \notin In(more)
    BY <2>a, <2>3 DEF seen, ready
  <2>5. more \in Seq(EventPayload)
    BY <2>1 DEF seen, ready
  <2> HIDE DEF more
  <2> QED
    BY <1>1, <2>4, <2>5, EventsKept, TypeFacts DEF boardVars
<1>5. TypeOK' /\ Placed' /\ Verified'
  BY <1>1, <1>2, <1>3, <1>4 DEF TypeOK, Placed, Verified, Results, boardVars, given
<1>6. Wire' /\ Own'
  BY <1>1 DEF Wire, Own, Running
<1> QED
  BY <1>4, <1>5, <1>6
-----------------------------------------------------------------------------
(* Steps of the board *)

\* The board takes the one line that is on its way to it.
LEMMA TakeFacts ==
    ASSUME QuietInv, NEW line, Take(line)
    PROVE  /\ toBoard' = <<>> /\ out = <<>> /\ UNCHANGED <<runnerVars, toHost, chatter>> /\ Current' = Current
           /\ toBoard # <<>>
           /\ \/ line = Wake /\ mode = "shell" /\ phase \in {"wake_wait", "failed"}
              \/ line = Current /\ mode = "shell" /\ phase \in {"output", "crc_wait", "reset_wait", "failed"}
              \/ line = EOT /\ mode = "receive" /\ phase \in {"eot_wait", "loadx_wait", "failed"}
           /\ Running => /\ Quiet(toHost) /\ In(toHost) \cap (Closers \cup {CRC}) = {} /\ UBOOT \notin In(buffer)
                         /\ phase \in {"output", "crc_wait", "reset_wait"} => Quiet(buffer)
<1>1. /\ out = <<>> /\ toBoard # <<>> /\ Head(toBoard) = line /\ toBoard' = Tail(toBoard)
      /\ UNCHANGED <<runnerVars, toHost, chatter>> /\ Current' = Current
  BY DEF Take, runnerVars, Current
<1>2. \A e : Head(<<e>>) = e /\ Tail(<<e>>) = <<>>
  OBVIOUS
<1>3. /\ toBoard' = <<>>
      /\ \/ line = Wake /\ mode = "shell" /\ phase \in {"wake_wait", "failed"}
         \/ line = Current /\ mode = "shell" /\ phase \in {"output", "crc_wait", "reset_wait", "failed"}
         \/ line = EOT /\ mode = "receive" /\ phase \in {"eot_wait", "loadx_wait", "failed"}
  <2>1. CASE toBoard = <<Wake>> /\ mode = "shell" /\ phase \in {"wake_wait", "failed"}
    BY <1>1, <1>2, <2>1
  <2>2. CASE toBoard = <<Current>> /\ mode = "shell" /\ phase \in {"output", "crc_wait", "reset_wait", "failed"}
    BY <1>1, <1>2, <2>2
  <2>3. CASE toBoard = <<EOT>> /\ mode = "receive" /\ phase \in {"eot_wait", "loadx_wait", "failed"}
    BY <1>1, <1>2, <2>3
  <2> QED
    BY <1>1, <2>1, <2>2, <2>3 DEF QuietInv, Placed
<1>4. Running => /\ Quiet(toHost) /\ UBOOT \notin In(buffer)
                 /\ phase \in {"output", "crc_wait", "reset_wait"} => Quiet(buffer)
  BY <1>1 DEF QuietInv, Wire
<1>5. Quiet(toHost) => In(toHost) \cap (Closers \cup {CRC}) = {}
  BY QuietIsClosed DEF Quiet, QuietTokens, CRC, SPACE, TEXT
<1> QED
  BY <1>1, <1>3, <1>4, <1>5

\* A token leaves the board.
LEMMA TransmitKeeps ==
    ASSUME QuietInv, Transmit
    PROVE  QuietInv'
<1> USE DEF QuietInv
<1>1. /\ out # <<>> /\ toHost' = Append(toHost, Head(out)) /\ out' = Tail(out)
      /\ UNCHANGED <<runnerVars, toBoard, mode, chatter, ram, filesize, mmc, did>> /\ Current' = Current
  BY DEF Transmit, runnerVars, Current
<1>2. toHost \in Seq(Symbols) /\ out \in Seq(Symbols)
  BY TypeFacts
<1>3. /\ out' \in Seq(Symbols) /\ Head(out) \in Symbols
      /\ Head(out) \in In(out) /\ In(out') \subseteq In(out)
      /\ Closed(out) => Closed(out') /\ (Head(out) \in Closers => Quiet(out'))
  BY <1>1, <1>2, InTail, TailFacts
<1>4. toHost' \in Seq(Symbols) /\ In(toHost') = In(toHost) \cup {Head(out)}
  BY <1>1, <1>2, <1>3, InAppend
<1>5. TypeOK'
  BY <1>1, <1>3, <1>4 DEF TypeOK, Symbols, runnerVars
<1>6. Placed' /\ Verified' /\ ConfirmedMeansDone'
  BY <1>1, EventsUnchanged DEF Placed, Verified, runnerVars
<1>7. Own'
  BY <1>1, <1>3, <1>4 DEF Own, runnerVars
<1>8. Wire'
  <2>0. CASE ~Running
    BY <1>1, <2>0 DEF Wire, Running, runnerVars
  <2> SUFFICES ASSUME Running PROVE Wire'
    BY <2>0
  <2>1. Closed(toHost')
    <3>1. In(toHost) \cap Closers = {} \/ Head(out) \in QuietTokens
      BY <1>3 DEF Wire, Quiet
    <3>2. Closed(toHost)
      BY DEF Wire
    <3> QED
      BY <1>1, <1>2, <3>1, <3>2, ClosedAppend
  <2>2. Closed(out')
    BY <1>3 DEF Wire
  <2>3. In(toHost') \cap Closers # {} => Quiet(out')
    BY <1>3, <1>4 DEF Wire, Quiet
  <2>4. Quiet(toHost) /\ Quiet(out) => Quiet(toHost') /\ Quiet(out')
    BY <1>3, <1>4 DEF Quiet
  <2>5. UNCHANGED <<phase, buffer, toBoard, mode>>
    BY <1>1 DEF runnerVars
  <2> QED
    BY <1>3, <1>4, <2>1, <2>2, <2>3, <2>4, <2>5 DEF Wire, Running
<1> QED
  BY <1>5, <1>6, <1>7, <1>8

\* U-Boot prints a line of its own, in its output or after it.
LEMMA ChatterKeeps ==
    ASSUME QuietInv, Chatter \/ LogOn
    PROVE  QuietInv'
<1> USE DEF QuietInv
<1>1. /\ toHost' = Append(toHost, TEXT)
      /\ UNCHANGED <<runnerVars, toBoard, out, mode, ram, filesize, mmc, did>> /\ Current' = Current
  BY DEF Chatter, LogOn, runnerVars, boardVars, Current
<1>2. toHost \in Seq(Symbols) /\ TEXT \in Symbols
  BY TypeFacts DEF Symbols, Tokens
<1>3. toHost' \in Seq(Symbols) /\ In(toHost') = In(toHost) \cup {TEXT}
  BY <1>1, <1>2, InAppend
<1>4. TEXT \in QuietTokens /\ TEXT \notin Closers \cup {CRC, UBOOT, NAK}
  BY DEF QuietTokens, Closers, TEXT, CRC, UBOOT, NAK
<1>5. TypeOK'
  BY <1>1, <1>3 DEF TypeOK, Symbols, runnerVars
<1>6. Placed' /\ Verified' /\ ConfirmedMeansDone'
  BY <1>1, EventsUnchanged DEF Placed, Verified, runnerVars
<1>7. Own'
  BY <1>1, <1>3, <1>4, EvidentIsLoud DEF Own, runnerVars
<1>8. Wire'
  <2>1. Closed(toHost) => Closed(toHost')
    BY <1>1, <1>2, <1>4, ClosedAppend
  <2>2. Quiet(toHost) => Quiet(toHost')
    BY <1>3, <1>4 DEF Quiet
  <2>3. UNCHANGED <<phase, buffer, toBoard, mode, out>>
    BY <1>1 DEF runnerVars
  <2> QED
    BY <1>3, <1>4, <2>1, <2>2, <2>3 DEF Wire, Running
<1> QED
  BY <1>5, <1>6, <1>7, <1>8

\* The shell answers a line, and is at its prompt again.
LEMMA AnswerKeeps ==
    ASSUME QuietInv, NEW line, Take(line), mode = "shell", mode' = "shell", UNCHANGED <<ram, filesize>>,
           out' \in Seq(Symbols), Closed(out'), CRC \notin In(out'), NAK \notin In(out'),
           did \subseteq did', mmc' \in [0..DeviceBlocks - 1 -> Images \cup {"old", "erased", "torn"}],
           \A t \in In(out') \cap Evident(Current.op) :
               phase \in {"output", "reset_wait"} =>
                   /\ Current \in did'
                   /\ Current.op = "filesize" => filesize # "unset" /\ t = FilesizeOf[filesize]
                   /\ Current.op # "reset"
    PROVE  QuietInv'
<1> USE DEF QuietInv
<1>1. /\ toBoard' = <<>> /\ out = <<>> /\ UNCHANGED <<runnerVars, toHost, chatter>> /\ Current' = Current
      /\ phase \in {"wake_wait", "output", "crc_wait", "reset_wait", "failed"}
      /\ Running => /\ Quiet(toHost) /\ In(toHost) \cap (Closers \cup {CRC}) = {} /\ UBOOT \notin In(buffer)
                    /\ phase \in {"output", "crc_wait", "reset_wait"} => Quiet(buffer)
  BY TakeFacts
<1>2. TypeOK'
  BY <1>1 DEF TypeOK, Symbols, runnerVars
<1>3. Placed' /\ Verified' /\ ConfirmedMeansDone'
  BY <1>1, EventsUnchanged DEF Placed, Verified, runnerVars
<1>4. Own'
  <2>1. Running => In(toHost) \cap Evident(Current.op) = {}
    BY <1>1, EvidentIsLoud DEF Quiet
  <2>2. Running /\ phase \in {"output", "reset_wait"} => In(buffer) \cap Evident(Current.op) = {}
    BY <1>1, EvidentIsLoud DEF Quiet
  <2>3. UNCHANGED <<phase, buffer, toHost, filesize>>
    BY <1>1 DEF runnerVars
  <2> QED
    BY <1>1, <2>1, <2>2, <2>3 DEF Own, Running
<1>5. Wire'
  <2>1. Running /\ phase = "crc_wait" => CRC \notin In(buffer)
    BY <1>1 DEF Quiet, QuietTokens, CRC, SPACE, TEXT
  <2>2. UNCHANGED <<phase, buffer, toHost>>
    BY <1>1 DEF runnerVars
  <2> QED
    BY <1>1, <2>1, <2>2 DEF Wire, Running, Closers
<1> QED
  BY <1>2, <1>3, <1>4, <1>5

\* The board takes the carriage return.
LEMMA TakeWakeKeeps ==
    ASSUME QuietInv, TakeWake
    PROVE  QuietInv'
<1>1. mode = "shell" /\ Take(Wake) /\ out' = <<CTL>> \o ShellPrompt /\ UNCHANGED <<mode, ram, filesize, mmc, did>>
  BY DEF TakeWake
<1>2. out' \in Seq(Symbols) /\ Closed(out') /\ In(out') = {CTL, UBOOT, SPACE}
  BY <1>1, WakeFacts
<1>3. CRC \notin In(out') /\ NAK \notin In(out')
  BY <1>2 DEF CRC, NAK, CTL, UBOOT, SPACE
<1>4. In(out') \cap Evident(Current.op) = {}
  BY <1>2, EvidentIsLoud DEF QuietTokens
<1>5. mmc' \in [0..DeviceBlocks - 1 -> Images \cup {"old", "erased", "torn"}]
  BY <1>1 DEF QuietInv, TypeOK
<1> QED
  BY <1>1, <1>2, <1>3, <1>4, <1>5, AnswerKeeps

\* The answer to a command: its echo, the line it prints, and the prompt.
LEMMA ReplyKeeps ==
    ASSUME QuietInv, NEW line, Take(line), mode = "shell", UNCHANGED <<mode, ram, filesize>>,
           NEW t \in Tokens \cup Lines, t \notin {UBOOT, CRC, NAK}, out' = Reply(<<t>>), did \subseteq did',
           mmc' \in [0..DeviceBlocks - 1 -> Images \cup {"old", "erased", "torn"}],
           t \in Evident(Current.op) /\ phase \in {"output", "reset_wait"} =>
               /\ Current \in did'
               /\ Current.op = "filesize" => filesize # "unset" /\ t = FilesizeOf[filesize]
               /\ Current.op # "reset"
    PROVE  QuietInv'
<1>1. out' \in Seq(Symbols) /\ Closed(out') /\ In(out') = {TEXT, CTL, t, UBOOT, SPACE}
  BY ReplyFacts
<1>2. CRC \notin In(out') /\ NAK \notin In(out')
  BY <1>1 DEF CRC, NAK, TEXT, CTL, UBOOT, SPACE
<1>3. \A e \in In(out') \cap Evident(Current.op) : e = t
  BY <1>1, EvidentIsLoud DEF QuietTokens
<1> QED
  BY <1>1, <1>2, <1>3, AnswerKeeps

\* The lines the shell prints are none of the closing ones.
LEMMA PlainLines ==
    /\ {LOADADDR, ERASED, WRITTEN, TEXT} \cup FilesizeLines \subseteq Tokens \cup Lines
    /\ ({LOADADDR, ERASED, WRITTEN, TEXT} \cup FilesizeLines) \cap {UBOOT, CRC, NAK} = {}
  BY LineSets DEF Lines, Tokens, LOADADDR, ERASED, WRITTEN, TEXT, UBOOT, CRC, NAK

\* The board prints a variable.
LEMMA TakePrintenvKeeps ==
    ASSUME QuietInv, TakePrintenv
    PROVE  QuietInv'
<1>1. mode = "shell" /\ UNCHANGED <<mode, ram, filesize, mmc>>
      /\ mmc' \in [0..DeviceBlocks - 1 -> Images \cup {"old", "erased", "torn"}]
  BY DEF TakePrintenv, QuietInv, TypeOK
<1>2. CASE Take(Command("loadaddr", "none")) /\ out' = Reply(<<LOADADDR>>) /\ Succeeds(Command("loadaddr", "none"))
  <2> DEFINE line == Command("loadaddr", "none")
  <2>1. line # Wake /\ line # EOT /\ line.op = "loadaddr"
    BY DEF Command, Wake, EOT
  <2>2. Take(line) /\ out' = Reply(<<LOADADDR>>) /\ did' = did \cup {line}
    BY <1>2 DEF Succeeds
  <2> HIDE DEF line
  <2>3. line = Current
    BY <2>1, <2>2, TakeFacts
  <2> QED
    BY <1>1, <2>1, <2>2, <2>3, PlainLines, ReplyKeeps
<1>3. ASSUME NEW image \in Images, Take(Command("filesize", image)), filesize # "unset",
             out' = Reply(<<FilesizeOf[filesize]>>), Succeeds(Command("filesize", image))
      PROVE  QuietInv'
  <2> DEFINE line == Command("filesize", image)
  <2>1. line # Wake /\ line # EOT /\ line.op = "filesize"
    BY DEF Command, Wake, EOT
  <2>2. Take(line) /\ did' = did \cup {line}
    BY <1>3 DEF Succeeds
  <2> HIDE DEF line
  <2>3. line = Current
    BY <2>1, <2>2, TakeFacts
  <2>4. FilesizeOf[filesize] \in FilesizeLines
    BY <1>3, LineSets DEF QuietInv, TypeOK, Images
  <2> QED
    BY <1>1, <1>3, <2>1, <2>2, <2>3, <2>4, PlainLines, ReplyKeeps
<1> QED
  BY <1>2, <1>3 DEF TakePrintenv

\* Overwriting a range keeps the device's type.
LEMMA OverwriteType ==
    ASSUME mmc \in [0..DeviceBlocks - 1 -> Images \cup {"old", "erased", "torn"}],
           NEW range, NEW content \in Images \cup {"old", "erased", "torn"}
    PROVE  Overwrite(range, content) \in [0..DeviceBlocks - 1 -> Images \cup {"old", "erased", "torn"}]
  BY DEF Overwrite

\* The board erases.
LEMMA TakeEraseKeeps ==
    ASSUME QuietInv, TakeErase
    PROVE  QuietInv'
<1> DEFINE line == Command("erase", "none")
<1>1. /\ mode = "shell" /\ UNCHANGED <<mode, ram, filesize>> /\ Take(line) /\ out' = Reply(<<ERASED>>)
      /\ did' = did \cup {line} /\ mmc' = Overwrite(Plan["erase"], "erased")
  BY DEF TakeErase, Succeeds
<1>2. line # Wake /\ line # EOT /\ line.op = "erase"
  BY DEF Command, Wake, EOT
<1>3. mmc' \in [0..DeviceBlocks - 1 -> Images \cup {"old", "erased", "torn"}]
  BY <1>1, OverwriteType DEF QuietInv, TypeOK
<1> HIDE DEF line
<1>4. line = Current
  BY <1>1, <1>2, TakeFacts
<1> QED
  BY <1>1, <1>2, <1>3, <1>4, PlainLines, ReplyKeeps

\* The board writes what it has loaded.
LEMMA TakeWriteKeeps ==
    ASSUME QuietInv, TakeWrite
    PROVE  QuietInv'
<1>1. PICK image \in Images :
         /\ Take(Command("write", image))
         /\ mmc' = Overwrite(PlannedWrite(image), ram)
         /\ Succeeds(Command("write", image))
  BY DEF TakeWrite
<1> DEFINE line == Command("write", image)
<1>2. /\ mode = "shell" /\ UNCHANGED <<mode, ram, filesize>> /\ Take(line) /\ out' = Reply(<<WRITTEN>>)
      /\ did' = did \cup {line}
  BY <1>1 DEF TakeWrite, Succeeds
<1>3. line # Wake /\ line # EOT /\ line.op = "write" /\ line.image = image
  BY DEF Command, Wake, EOT
<1> HIDE DEF line
<1>4. line = Current
  BY <1>2, <1>3, TakeFacts
<1>5. ram \in Images
  BY <1>3, <1>4 DEF QuietInv, Placed
<1>6. mmc' \in [0..DeviceBlocks - 1 -> Images \cup {"old", "erased", "torn"}]
  BY <1>1, <1>5, OverwriteType DEF QuietInv, TypeOK
<1> QED
  BY <1>2, <1>3, <1>4, <1>6, PlainLines, ReplyKeeps

\* A command fails on the board: the answer holds no evidence of it.
LEMMA TakeFailsKeeps ==
    ASSUME QuietInv, TakeFails
    PROVE  QuietInv'
<1>1. PICK line \in {Script[p] : p \in 1..Len(Script)} :
         /\ Take(line)
         /\ mmc' \in {mmc} \cup (IF line.op = "write" THEN {Overwrite(PlannedWrite(line.image), "torn")} ELSE {})
                           \cup (IF line.op = "erase" THEN {Overwrite(Plan["erase"], "torn")} ELSE {})
  BY DEF TakeFails
<1>2. mode = "shell" /\ out' = Reply(<<TEXT>>) /\ UNCHANGED <<mode, ram, filesize, did>>
  BY DEF TakeFails
<1>3. mmc' \in [0..DeviceBlocks - 1 -> Images \cup {"old", "erased", "torn"}]
  BY <1>1, OverwriteType DEF QuietInv, TypeOK
<1>4. TEXT \notin Evident(Current.op)
  BY EvidentIsLoud DEF QuietTokens
<1> QED
  BY <1>1, <1>2, <1>3, <1>4, PlainLines, ReplyKeeps

\* The board starts to receive.
LEMMA TakeLoadxKeeps ==
    ASSUME QuietInv, TakeLoadx
    PROVE  QuietInv'
<1> USE DEF QuietInv
<1>1. PICK image \in Images : Take(Command("loadx", image))
  BY DEF TakeLoadx
<1> DEFINE line == Command("loadx", image)
           ready == <<TEXT, CTL, CRC, CRC, CRC>>
<1>2. mode = "shell" /\ mode' = "ready" /\ UNCHANGED <<ram, filesize, mmc, did>> /\ Take(line) /\ out' = ready
  BY <1>1 DEF TakeLoadx
<1>3. line # Wake /\ line # EOT /\ line.op = "loadx"
  BY DEF Command, Wake, EOT
<1>4. ready \in Seq(Symbols) /\ In(ready) = {TEXT, CTL, CRC}
  <2>1. /\ ready \in Seq(Symbols) /\ Len(ready) = 5
        /\ ready[1] = TEXT /\ ready[2] = CTL /\ ready[3] = CRC /\ ready[4] = CRC /\ ready[5] = CRC
    BY DEF Symbols, Tokens
  <2>2. 1..5 = {1, 2, 3, 4, 5}
    OBVIOUS
  <2> HIDE DEF ready
  <2> QED
    BY <2>1, <2>2 DEF In
<1>5. UBOOT \notin In(ready) /\ NAK \notin In(ready)
  BY <1>4 DEF TEXT, CTL, CRC, UBOOT, NAK
<1> HIDE DEF line, ready
<1>6. Closed(ready)
  BY <1>5 DEF Closed, In, Closers
<1>7. /\ toBoard' = <<>> /\ UNCHANGED <<runnerVars, toHost, chatter>> /\ Current' = Current
      /\ line = Current
      /\ phase \in {"output", "crc_wait", "reset_wait", "failed"}
      /\ Running => /\ Quiet(toHost) /\ In(toHost) \cap (Closers \cup {CRC}) = {} /\ UBOOT \notin In(buffer)
  BY <1>2, <1>3, TakeFacts
<1>8. phase \in {"crc_wait", "failed"}
  BY <1>3, <1>7 DEF Placed
<1>9. UNCHANGED <<phase, buffer, toHost, sizes, pos>>
  BY <1>7 DEF runnerVars
<1>10. TypeOK'
  BY <1>2, <1>4, <1>7 DEF TypeOK, Symbols, runnerVars
<1>11. Placed'
  BY <1>2, <1>3, <1>7, <1>8, <1>9 DEF Placed
<1>12. Own' /\ Verified' /\ ConfirmedMeansDone'
  BY <1>2, <1>7, <1>8, EventsUnchanged DEF Own, Verified, runnerVars
<1>13. Wire'
  BY <1>2, <1>5, <1>6, <1>7, <1>8, <1>9 DEF Wire, Running, Closers
<1> QED
  BY <1>10, <1>11, <1>12, <1>13

\* The board ends a transfer, or rejects the EOT.
LEMMA TakeEotKeeps ==
    ASSUME QuietInv, TakeEot
    PROVE  QuietInv'
<1> USE DEF QuietInv
<1>1. mode = "receive" /\ Take(EOT) /\ UNCHANGED <<ram, mmc>>
  BY DEF TakeEot
<1>2. /\ toBoard' = <<>> /\ UNCHANGED <<runnerVars, toHost, chatter>> /\ Current' = Current
      /\ phase \in {"eot_wait", "loadx_wait", "failed"}
      /\ Running => /\ Quiet(toHost) /\ In(toHost) \cap (Closers \cup {CRC}) = {} /\ UBOOT \notin In(buffer)
  BY <1>1, TakeFacts
<1>3. Current.op = "loadx" /\ ram = Current.image /\ ram \in Images
  <2>1. Current.op = "loadx" /\ ram = Current.image
    BY <1>1 DEF Placed
  <2> QED
    BY <2>1, TypeFacts, CurrentFacts DEF Images
<1>4. UNCHANGED <<phase, buffer, toHost, sizes, pos>>
  BY <1>2 DEF runnerVars
<1>5. ASSUME out' \in Seq(Symbols), Closed(out'), CRC \notin In(out'),
             filesize' \in Images \cup {"unset", "other"}, did \subseteq did',
             \/ mode' = "shell" /\ NAK \notin In(out')
             \/ mode' = "receive" /\ UBOOT \notin In(out')
      PROVE  QuietInv'
  <2>1. TypeOK'
    BY <1>1, <1>2, <1>5 DEF TypeOK, Symbols, runnerVars
  <2>2. Placed'
    BY <1>1, <1>2, <1>3, <1>4, <1>5 DEF Placed
  <2>3. Own' /\ Verified' /\ ConfirmedMeansDone'
    BY <1>2, <1>3, <1>4, <1>5, EventsUnchanged DEF Own, Verified, runnerVars
  <2>4. Wire'
    BY <1>2, <1>4, <1>5 DEF Wire, Running, Closers
  <2> QED
    BY <2>1, <2>2, <2>3, <2>4
<1>6. CASE out' = <<NAK>> /\ UNCHANGED <<mode, filesize, did>>
  <2>1. <<NAK>> \in Seq(Symbols) /\ In(<<NAK>>) = {NAK}
    BY InOne DEF Symbols, Answers
  <2>2. Closed(<<NAK>>)
    BY DEF Closed
  <2>3. CRC # NAK /\ UBOOT # NAK
    BY DEF CRC, NAK, UBOOT
  <2>4. filesize \in Images \cup {"unset", "other"}
    BY DEF TypeOK
  <2> QED
    BY <1>1, <1>5, <1>6, <2>1, <2>2, <2>3, <2>4
<1>7. CASE /\ out' = <<TEXT, CTL>> \o ShellPrompt
           /\ mode' = "shell"
           /\ UNCHANGED <<filesize, did>>
  <2>1. out' \in Seq(Symbols) /\ Closed(out') /\ In(out') = {TEXT, CTL, UBOOT, SPACE}
    BY <1>7, GiveUpFacts
  <2>2. CRC \notin In(out') /\ NAK \notin In(out')
    BY <2>1 DEF CRC, NAK, TEXT, CTL, UBOOT, SPACE
  <2>3. filesize' \in Images \cup {"unset", "other"} /\ did \subseteq did' /\ mode' = "shell"
    BY <1>7 DEF TypeOK
  <2> QED
    BY <1>5, <2>1, <2>2, <2>3
<1>8. ASSUME NEW answer \in {<<>>, <<ACK>>}, NEW loaded \in {ram} \cup (IF Faulty THEN {"other"} ELSE {}),
             filesize' = loaded,
             NEW summary \in {<<>>, <<TotalOf[loaded]>>} \cup (IF Faulty THEN {<<MALFORMED>>} ELSE {}),
             out' = answer \o summary \o <<CTL>> \o ShellPrompt,
             mode' = "shell", Succeeds(Command("loadx", ram))
      PROVE  QuietInv'
  <2>1. loaded \in Images \cup {"other"}
    BY <1>3, <1>8
  <2>2. TotalOf[loaded] \in TotalLines
    BY <2>1, LineSets DEF Images
  <2>3. summary = <<>> \/ \E line \in TotalLines \cup {MALFORMED} : summary = <<line>>
    BY <1>8, <2>2
  <2>4. out' \in Seq(Symbols) /\ Closed(out') /\ CRC \notin In(out') /\ NAK \notin In(out')
    BY <1>8, <2>3, LoadedFacts
  <2>5. filesize' \in Images \cup {"unset", "other"} /\ did \subseteq did' /\ mode' = "shell"
    BY <1>8, <2>1 DEF Succeeds
  <2> QED
    BY <1>5, <2>4, <2>5
<1> QED
  BY <1>6, <1>7, <1>8 DEF TakeEot

\* The board resets.
LEMMA TakeResetKeeps ==
    ASSUME QuietInv, TakeReset
    PROVE  QuietInv'
<1> USE DEF QuietInv
<1> DEFINE line == Command("reset", "none")
           begin == <<TEXT, CTL, TEXT, CTL>>
<1>1. PICK evidence \in {<<>>, <<RESETTING>>, <<PRESS, CTL>>, <<TEXT, CTL, UBOOTBANNER>>} : out' = begin \o evidence
  BY DEF TakeReset
<1>2. /\ mode = "shell" /\ mode' = "reset" /\ Take(line) /\ did' = did \cup {line}
      /\ UNCHANGED <<ram, filesize, mmc>>
  BY DEF TakeReset, Succeeds
<1>3. line # Wake /\ line # EOT /\ line.op = "reset"
  BY DEF Command, Wake, EOT
<1>4. begin \in Seq(Symbols) /\ In(begin) = {TEXT, CTL}
  <2>1. /\ begin \in Seq(Symbols) /\ Len(begin) = 4
        /\ begin[1] = TEXT /\ begin[2] = CTL /\ begin[3] = TEXT /\ begin[4] = CTL
    BY DEF Symbols, Tokens
  <2>2. 1..4 = {1, 2, 3, 4}
    OBVIOUS
  <2> HIDE DEF begin
  <2> QED
    BY <2>1, <2>2 DEF In
<1>5. evidence \in Seq(Symbols) /\ In(evidence) \subseteq {TEXT, CTL, RESETTING, PRESS, UBOOTBANNER}
  <2>1. CASE evidence = <<RESETTING>>
    BY <2>1, InOne DEF Symbols, Lines
  <2>2. CASE evidence = <<PRESS, CTL>>
    <3>1. evidence \in Seq(Symbols) /\ Len(evidence) = 2 /\ evidence[1] = PRESS /\ evidence[2] = CTL
      BY <2>2 DEF Symbols, Tokens
    <3>2. 1..2 = {1, 2}
      OBVIOUS
    <3> QED
      BY <3>1, <3>2 DEF In
  <2>3. CASE evidence = <<TEXT, CTL, UBOOTBANNER>>
    <3>1. /\ evidence \in Seq(Symbols) /\ Len(evidence) = 3
          /\ evidence[1] = TEXT /\ evidence[2] = CTL /\ evidence[3] = UBOOTBANNER
      BY <2>3 DEF Symbols, Tokens, Lines
    <3>2. 1..3 = {1, 2, 3}
      OBVIOUS
    <3> QED
      BY <3>1, <3>2 DEF In
  <2>4. CASE evidence = <<>>
    BY <2>4, InEmpty
  <2> QED
    BY <2>1, <2>2, <2>3, <2>4
<1> HIDE DEF line, begin
<1>6. out' \in Seq(Symbols) /\ In(out') \subseteq {TEXT, CTL, RESETTING, PRESS, UBOOTBANNER}
  <2>1. begin \o evidence \in Seq(Symbols) /\ In(begin \o evidence) = In(begin) \cup In(evidence)
    BY <1>4, <1>5, InConcat
  <2> QED
    BY <1>1, <1>4, <1>5, <2>1
<1>7. UBOOT \notin In(out') /\ NAK \notin In(out') /\ CRC \notin In(out')
  BY <1>6 DEF TEXT, CTL, RESETTING, PRESS, UBOOTBANNER, UBOOT, NAK, CRC
<1>8. Closed(out')
  BY <1>7 DEF Closed, In, Closers
<1>9. /\ toBoard' = <<>> /\ UNCHANGED <<runnerVars, toHost, chatter>> /\ Current' = Current
      /\ line = Current
      /\ phase \in {"output", "crc_wait", "reset_wait", "failed"}
      /\ Running => /\ Quiet(toHost) /\ In(toHost) \cap (Closers \cup {CRC}) = {} /\ UBOOT \notin In(buffer)
  BY <1>2, <1>3, TakeFacts
<1>10. phase \in {"reset_wait", "failed"}
  BY <1>3, <1>9 DEF Placed
<1>11. UNCHANGED <<phase, buffer, toHost, sizes, pos>>
  BY <1>9 DEF runnerVars
<1>12. TypeOK'
  BY <1>2, <1>6, <1>9 DEF TypeOK, Symbols, runnerVars
<1>13. Placed'
  BY <1>2, <1>3, <1>9, <1>10, <1>11 DEF Placed
<1>14. Own' /\ Verified' /\ ConfirmedMeansDone'
  BY <1>2, <1>3, <1>9, <1>11, EventsUnchanged DEF Own, Verified, runnerVars
<1>15. Wire'
  BY <1>2, <1>7, <1>8, <1>9, <1>10, <1>11 DEF Wire, Running, Closers
<1> QED
  BY <1>12, <1>13, <1>14, <1>15
-----------------------------------------------------------------------------
(* What a run is worth that finds U-Boot waiting at its prompt *)

\* U-Boot prints nothing when the program starts.
QuietSpec == Spec /\ pending = <<>>

\* Every step of the program keeps the invariant.
LEMMA RunnerKeeps ==
    ASSUME QuietInv, Runner
    PROVE  QuietInv'
  BY PrepareKeeps, WakePromptKeeps, SendCommandKeeps, SendFailsKeeps, ReadDataKeeps, ReadOnKeeps, ReadFailsKeeps,
     PromptSeenKeeps, CommandDoneKeeps, CrcReadyKeeps, DataSentKeeps, DataFailsKeeps, WriteEotKeeps,
     EotAckedKeeps, EotNakedKeeps, EotTimesOutKeeps, EotFailsKeeps, LoadxDoneKeeps, ResetSeenKeeps
     DEF Runner

\* Every step of the board keeps it.
LEMMA BoardKeeps ==
    ASSUME QuietInv, Board
    PROVE  QuietInv'
  BY TransmitKeeps, ChatterKeeps, TakeWakeKeeps, TakePrintenvKeeps, TakeEraseKeeps, TakeLoadxKeeps,
     TakeWriteKeeps, TakeFailsKeeps, TakeEotKeeps, TakeResetKeeps DEF Board

\* Every step keeps it.
LEMMA QuietStep ==
    ASSUME QuietInv, [Next]_vars
    PROVE  QuietInv'
<1>1. CASE UNCHANGED vars
  <2>1. TypeOK' /\ Placed' /\ Wire' /\ Own' /\ Verified' /\ ConfirmedMeansDone'
    BY <1>1 DEF vars, QuietInv, TypeOK, Placed, Wire, Own, Verified, ConfirmedMeansDone, Running, Current
  <2> QED
    BY <2>1 DEF QuietInv
<1> QED
  BY <1>1, RunnerKeeps, BoardKeeps DEF Next

\* It holds when U-Boot is silent at its prompt as the program starts.
LEMMA QuietInit ==
    ASSUME Init, pending = <<>>
    PROVE  QuietInv
<1>1. /\ sizes \in SizeChoices /\ phase = "prepare" /\ pos = 1 /\ buffer = <<>> /\ cursor = 0 /\ attempts = 0
      /\ excused = FALSE /\ events = <<>> /\ result = "running" /\ toHost = <<>> /\ toBoard = <<>> /\ out = <<>>
      /\ mode = "shell" /\ ram = "none" /\ filesize = "unset"
      /\ mmc = [b \in 0..DeviceBlocks - 1 |-> "old"]
  BY DEF Init
<1>2. Current.op = "loadaddr"
  BY <1>1, CurrentFacts
<1>3. TypeOK
  <2>1. Len(Script) = 9
    BY ScriptFacts
  <2>2. /\ buffer \in Seq(Tokens \cup Lines) /\ cursor \in 0..Len(buffer) /\ events \in Seq(EventPayload)
        /\ toHost \in Seq(Tokens \cup Lines \cup Answers) /\ out \in Seq(Tokens \cup Lines \cup Answers)
    BY <1>1
  <2>3. attempts \in 0..EotRetryLimit /\ pos \in 1..Len(Script)
    BY <1>1, <2>1, FlashAssumption
  <2> QED
    BY <1>1, <2>2, <2>3 DEF TypeOK, Results
<1>4. Placed /\ Verified /\ Own
  BY <1>1, <1>2 DEF Placed, Verified, Own
<1>5. Wire
  BY <1>1, InEmpty DEF Wire
<1>6. ConfirmedMeansDone
  BY <1>1 DEF ConfirmedMeansDone
<1> QED
  BY <1>3, <1>4, <1>5, <1>6 DEF QuietInv

\* What U-Boot was printing when the program started does not change.
LEMMA PendingKept ==
    ASSUME [Next]_vars
    PROVE  pending' = pending /\ sizes' = sizes
<1>1. CASE Board
  BY <1>1 DEF Board, Transmit, Chatter, LogOn, boardVars, Take, TakeWake, TakePrintenv, TakeErase, TakeLoadx,
              TakeWrite, TakeFails, TakeEot, TakeReset, runnerVars
<1> QED
  BY <1>1, RunnerKeepsSizes DEF Next, vars, given

\* The invariant holds throughout such a run.
THEOREM QuietRuns == QuietSpec => []QuietInv
<1>1. Init /\ pending = <<>> => QuietInv
  BY QuietInit
<1>2. QuietInv /\ [Next]_vars => QuietInv'
  BY QuietStep
<1> QED
  BY <1>1, <1>2, PTL DEF QuietSpec, Spec

\* A command is judged by its own output if U-Boot was at its prompt when the program started:
\* each command waits for the prompt that closes the one before it (run_command of uboot.rs).
THEOREM QuietStartsJudgeRight == Spec => []QuietStartJudgesRight
<1> DEFINE J == pending = <<>> => QuietInv
<1>1. Init => J
  BY QuietInit
<1>2. J /\ [Next]_vars => J'
  BY QuietStep, PendingKept
<1>3. J => QuietStartJudgesRight
  <2> SUFFICES ASSUME QuietInv, phase = "output", Match # NoMatch
               PROVE  toBoard = <<>> /\ \A rest \in {out, toHost} : \A i \in 1..Len(rest) : rest[i] \in {SPACE, TEXT}
    BY DEF QuietStartJudgesRight, JudgedByOwnOutput
  <2>1. UBOOT \in In(buffer)
    BY MatchFacts, TypeFacts
  <2>2. Quiet(out) /\ Quiet(toHost) /\ toBoard = <<>>
    BY <2>1 DEF QuietInv, Wire, Running
  <2> QED
    BY <2>2 DEF Quiet, In, QuietTokens
<1> HIDE DEF J
<1> QED
  BY <1>1, <1>2, <1>3, PTL DEF Spec

\* A completion event is evidence: U-Boot has carried that command out (require_output,
\* capture_hex_value and verify_filesize of flash.rs, and the wait after reset).
THEOREM CompletionsAreTrue == QuietSpec => []ConfirmedMeansDone
<1>1. QuietInv => ConfirmedMeansDone
  BY DEF QuietInv
<1> QED
  BY <1>1, QuietRuns, PTL

\* Every variable of runner, wire and board keeps its type.
THEOREM QuietRunsAreTyped == QuietSpec => []TypeOK
<1>1. QuietInv => TypeOK
  BY DEF QuietInv
<1> QED
  BY <1>1, QuietRuns, PTL

\* What a block holds comes to be an image only when U-Boot carries out the write of it.
LEMMA OnlyWritesWrite ==
    ASSUME QuietInv, [Next]_vars, NEW image \in Images, BeginsToHold(image)
    PROVE  TakeWrite /\ Current = Command("write", image)
<1>1. PICK b \in DOMAIN mmc : mmc[b] # image /\ mmc'[b] = image
  BY DEF BeginsToHold
<1>2. image # "erased" /\ image # "torn"
  BY DEF Images
<1>3. \A range, content : Overwrite(range, content)[b] \in {mmc[b], content}
  BY DEF Overwrite
<1>4. mmc' # mmc
  BY <1>1
<1>5. ~Runner /\ ~UNCHANGED vars
  BY <1>4 DEF Runner, PrepareStagePayloads, WakePrompt, SendCommand, SendFails, ReadData, ReadOn, ReadFails, PromptSeen,
              CommandDone, CrcReady, DataSent, DataFails, WriteEot, EotAcked, EotNaked, EotTimesOut, EotFails,
              LoadxDone, ResetSeen, boardVars, vars
<1>6. ~TakeErase /\ ~TakeFails
  BY <1>1, <1>2, <1>3 DEF TakeErase, TakeFails
<1>7. TakeWrite
  BY <1>4, <1>5, <1>6 DEF Next, Board, Transmit, Chatter, LogOn, boardVars, TakeWake, TakePrintenv, TakeLoadx, TakeEot, TakeReset
<1>8. PICK written \in Images : Take(Command("write", written)) /\ mmc' = Overwrite(PlannedWrite(written), ram)
  BY <1>7 DEF TakeWrite
<1> DEFINE line == Command("write", written)
<1>9. line # Wake /\ line # EOT /\ line.op = "write" /\ line.image = written
  BY DEF Command, Wake, EOT
<1> HIDE DEF line
<1>10. line = Current
  BY <1>8, <1>9, TakeFacts DEF line
<1>11. ram = written
  BY <1>9, <1>10 DEF QuietInv, Placed
<1>12. written = image
  BY <1>1, <1>3, <1>8, <1>11
<1> QED
  BY <1>7, <1>10, <1>12 DEF line

\* Nothing is written to flash unless U-Boot has counted as many bytes as the image has
\* (verify_filesize, and the order of the commands in flash_stage).
THEOREM WritesAreVerified == QuietSpec => OnlyVerifiedIsWritten
<1>1. ASSUME QuietInv, [Next]_vars, NEW image \in Images, BeginsToHold(image)
      PROVE  filesize = image \/ (SameSize /\ filesize \in Images)
  <2>1. Current = Command("write", image)
    BY <1>1, OnlyWritesWrite
  <2>2. Current.op = "write" /\ Current.image = image
    BY <2>1 DEF Command
  <2> QED
    BY <1>1, <2>2 DEF QuietInv, Verified
<1>2. QuietInv /\ [Next]_vars =>
          [\A image \in Images : BeginsToHold(image) => filesize = image \/ (SameSize /\ filesize \in Images)]_vars
  BY <1>1
<1> QED
  BY <1>2, QuietRuns, PTL DEF QuietSpec, Spec, OnlyVerifiedIsWritten


-----------------------------------------------------------------------------
(* Images that do not fit *)

Misfit == \E image \in Images : ~(sizes[image] \in 1..MaxBytes(Plan[image]))
Untouched == \A b \in DOMAIN mmc : mmc[b] = "old"

\* The strengthening of MisfitTouchesNothing: a run with a misfit never gets past
\* prepare_stage_payloads, so that U-Boot has no line to carry out.
Inv ==
    /\ sizes \in SizeChoices
    /\ Misfit => phase \in {"prepare", "failed"} /\ toBoard = <<>> /\ Untouched

\* The limit of an image is a number of bytes (WriteStage::max_bytes).
LEMMA MaxBytesType ==
    ASSUME NEW image \in Images
    PROVE  MaxBytes(Plan[image]) \in Nat
<1>1. BlockSize \in Nat /\ Defaults[image].count \in Nat
  BY LayoutAssumption DEF Images
<1>2. Args.preloaderCount \in Nat \cup {Absent} /\ Args.fipCount \in Nat \cup {Absent}
  BY FlashAssumption
<1>3. Plan[image].count \in Nat
  <2>1. CASE image = "preloader"
    BY <1>1, <1>2, <2>1 DEF Plan, Requested, Range32, OrDefault
  <2>2. CASE image = "fip"
    BY <1>1, <1>2, <2>2 DEF Plan, Requested, Range32, OrDefault
  <2> QED
    BY <2>1, <2>2 DEF Images
<1> QED
  BY <1>1, <1>3 DEF MaxBytes

\* validate_image_size accepts no misfit.
LEMMA MisfitIsRefused ==
    ASSUME sizes \in SizeChoices, \A image \in Images : SizeFits(Plan[image], sizes[image])
    PROVE  ~Misfit
<1> SUFFICES ASSUME NEW image \in Images PROVE sizes[image] \in 1..MaxBytes(Plan[image])
  BY DEF Misfit
<1>1. sizes[image] \in Nat /\ MaxBytes(Plan[image]) \in Nat
  BY FlashAssumption, MaxBytesType
<1> QED
  BY <1>1 DEF SizeFits

\* U-Boot carries nothing out that it was not sent.
LEMMA BoardIsIdle ==
    ASSUME toBoard = <<>>, Board
    PROVE  mmc' = mmc /\ toBoard' = toBoard /\ UNCHANGED runnerVars
<1> USE DEF runnerVars
<1>1. \A line : ~Take(line)
  BY DEF Take
<1>2. CASE Transmit
  BY <1>2 DEF Transmit
<1>3. CASE Chatter \/ LogOn
  BY <1>3 DEF Chatter, LogOn, boardVars
<1>4. ~TakeWake /\ ~TakePrintenv /\ ~TakeErase /\ ~TakeLoadx /\ ~TakeWrite /\ ~TakeFails /\ ~TakeEot /\ ~TakeReset
  BY <1>1 DEF TakeWake, TakePrintenv, TakeErase, TakeLoadx, TakeWrite, TakeFails, TakeEot, TakeReset
<1> QED
  BY <1>2, <1>3, <1>4 DEF Board

\* Before the images are prepared, and after a failure, the runner sends nothing; it is the
\* preparation that fails for a misfit.
LEMMA MisfitStopsTheRunner ==
    ASSUME Inv, Misfit, Runner
    PROVE  phase' = "failed" /\ toBoard' = toBoard /\ mmc' = mmc
<1>1. phase \in {"prepare", "failed"}
  BY DEF Inv
<1>2. PrepareStagePayloads
  BY <1>1 DEF Runner, WakePrompt, SendCommand, SendFails, ReadData, ReadOn, ReadFails, Waits, PromptSeen,
              CommandDone, CrcReady, DataSent, DataFails, WriteEot, EotAcked, EotNaked, EotTimesOut,
              EotFails, LoadxDone, ResetSeen
<1>3. ~ \A image \in Images : SizeFits(Plan[image], sizes[image])
  BY MisfitIsRefused DEF Inv
<1> QED
  BY <1>2, <1>3 DEF PrepareStagePayloads, Fail, boardVars

\* Every step keeps the invariant.
LEMMA StepKeepsInv ==
    ASSUME Inv, [Next]_vars
    PROVE  Inv'
<1>1. CASE Runner
  <2>1. sizes' = sizes
    BY <1>1, RunnerKeepsSizes DEF given
  <2>2. Misfit' <=> Misfit
    BY <2>1 DEF Misfit, Plan
  <2>3. CASE Misfit
    BY <1>1, <2>1, <2>3, MisfitStopsTheRunner DEF Inv, Untouched
  <2>4. CASE ~Misfit
    BY <2>1, <2>2, <2>4 DEF Inv
  <2> QED
    BY <2>3, <2>4
<1>2. CASE Board
  <2>1. sizes' = sizes
    BY <1>2 DEF Board, Transmit, Chatter, LogOn, boardVars, Take, TakeWake, TakePrintenv, TakeErase, TakeLoadx,
                TakeWrite, TakeFails, TakeEot, TakeReset, runnerVars
  <2>2. Misfit' <=> Misfit
    BY <2>1 DEF Misfit, Plan
  <2>3. CASE Misfit
    BY <1>2, <2>1, <2>3, BoardIsIdle DEF Inv, Untouched, runnerVars
  <2>4. CASE ~Misfit
    BY <2>1, <2>2, <2>4 DEF Inv
  <2> QED
    BY <2>3, <2>4
<1>3. CASE UNCHANGED vars
  BY <1>3 DEF vars, Inv, Misfit, Untouched, Plan
<1> QED
  BY <1>1, <1>2, <1>3 DEF Next

\* An image that does not fit its range is found out before the device is touched
\* (prepare_stage_payloads, called before ensure_prompt in flash_from_uboot).
THEOREM MisfitsTouchNothing == Spec => []MisfitTouchesNothing
<1>1. Init => Inv
  BY DEF Init, Inv, Untouched
<1>2. Inv /\ [Next]_vars => Inv'
  BY StepKeepsInv
<1>3. Inv => MisfitTouchesNothing
  BY DEF Inv, MisfitTouchesNothing, Misfit, Untouched
<1> QED
  BY <1>1, <1>2, <1>3, PTL DEF Spec

-----------------------------------------------------------------------------
(* The device, under a plan whose ranges do not overlap *)

\* run_flash refuses a plan that is not PlanAccepted; it does not look at the rest.
SoundPlan ==
    /\ PlanAccepted(Args)
    /\ \A name \in {"erase", "preloader", "fip"} : Blocks(Plan[name]) \subseteq 0..DeviceBlocks - 1
    /\ Blocks(Plan["preloader"]) \cap Blocks(Plan["fip"]) = {}

\* Without overrides the plan is the layout of the one target, which is sound on every device
\* that reaches to its end.
LEMMA DefaultPlanIsSound ==
    ASSUME Defaults = AN7581, \A flag \in DOMAIN Args : Args[flag] = Absent, DeviceBlocks >= 2048, U32 > 2048
    PROVE  SoundPlan
<1>1. U32 \in Nat /\ DeviceBlocks \in Nat
  BY LayoutAssumption, FlashAssumption
<1>2. /\ Args.eraseCount = Absent /\ Args.preloaderStart = Absent /\ Args.preloaderCount = Absent
      /\ Args.fipStart = Absent /\ Args.fipCount = Absent
  BY FlashAssumption
<1>3. /\ Plan["erase"] = Range32(0, 2048) /\ Plan["preloader"] = Range32(4, 252)
      /\ Plan["fip"] = Range32(256, 1792)
  BY <1>2 DEF Plan, Requested, OrDefault, AN7581, Range32
<1>4. PlanAccepted(Args)
  BY <1>1, <1>3 DEF PlanAccepted, Plan, FitsU32, RangeFits, Range32
<1> QED
  BY <1>1, <1>3, <1>4 DEF SoundPlan, Blocks, Range32

\* What the commands before this one have made of the device.
Erased == \A b \in Blocks(Plan["erase"]) : mmc[b] \in {"erased"} \cup Images
Prepared(p) ==
    /\ p <= 2 => \A b \in DOMAIN mmc : mmc[b] = "old"
    /\ p >= 3 => Erased
    /\ p >= 6 => Holds("preloader")
    /\ p >= 9 => Holds("fip")

\* What the program may still hear of the command that is running.
Heard == (In(buffer) \cup In(toHost) \cup In(out)) \cap Evident(Current.op)
Changing == Current.op \in {"erase", "write"}

\* The device is as the commands so far have made it, or the one that changes it has been taken
\* and is not yet judged; its own line tells that it was carried out.
Device ==
    /\ result = "running" <=> Running
    /\ result = "ok" <=> phase = "done"
    /\ phase \notin {"prepare", "failed"} \/ pos >= 2 =>
          \A image \in Images : SizeFits(Plan[image], sizes[image])
    /\ Prepared(pos) \/ (Changing /\ toBoard = <<>> /\ phase \in {"output", "failed"})
    /\ phase = "output" /\ Changing /\ Heard # {} => Prepared(pos + 1)

\* The ranges of the plan are ranges of block numbers.
LEMMA PlanType ==
    ASSUME PlanAccepted(Args), NEW name \in {"erase", "preloader", "fip"}
    PROVE  Plan[name] \in [start : Nat, count : Nat] /\ FitsU32(Plan[name].count)
<1>1. /\ U32 \in Nat \ {0}
      /\ \A n \in {"erase", "preloader", "fip"} : Defaults[n].start \in Nat /\ Defaults[n].count \in Nat
  BY LayoutAssumption
<1>2. /\ Args.eraseCount \in Nat \cup {Absent}
      /\ Args.preloaderStart \in Nat \cup {Absent} /\ Args.preloaderCount \in Nat \cup {Absent}
      /\ Args.fipStart \in Nat \cup {Absent} /\ Args.fipCount \in Nat \cup {Absent}
  BY FlashAssumption
<1>3. Plan[name] \in [start : Nat, count : Nat]
  <2>1. CASE name = "erase"
    BY <1>1, <1>2, <2>1 DEF Plan, Requested, Range32, OrDefault
  <2>2. CASE name = "preloader"
    BY <1>1, <1>2, <2>2 DEF Plan, Requested, Range32, OrDefault
  <2>3. CASE name = "fip"
    BY <1>1, <1>2, <2>3 DEF Plan, Requested, Range32, OrDefault
  <2> QED
    BY <2>1, <2>2, <2>3
<1>4. FitsU32(Plan[name].count)
  BY DEF PlanAccepted, Plan
<1> QED
  BY <1>3, <1>4

\* An image is written inside its range of the plan, and so inside the device.
LEMMA WritesStayInside ==
    ASSUME SoundPlan, QuietInv, \A image \in Images : SizeFits(Plan[image], sizes[image]), NEW image \in Images
    PROVE  /\ Blocks(PlannedWrite(image)) \subseteq Blocks(Plan[image])
           /\ Blocks(PlannedWrite(image)) \subseteq DOMAIN mmc
<1>1. Plan[image] \in [start : Nat, count : Nat] /\ FitsU32(Plan[image].count)
  BY PlanType DEF SoundPlan, Images
<1>2. sizes[image] \in Nat
  BY FlashAssumption DEF QuietInv, Placed
<1>3. /\ PlannedWrite(image).start = Plan[image].start
      /\ PlannedWrite(image).count \in Nat /\ PlannedWrite(image).count <= Plan[image].count
  BY <1>1, <1>2, FittingImageIsWritten DEF PlannedWrite
<1>4. Blocks(PlannedWrite(image)) \subseteq Blocks(Plan[image])
  BY <1>1, <1>3 DEF Blocks
<1>5. Blocks(Plan[image]) \subseteq DOMAIN mmc
  BY DEF SoundPlan, QuietInv, TypeOK, Images
<1> QED
  BY <1>4, <1>5

\* Steps that leave the device alone, and go on with the same command.
LEMMA DeviceStays ==
    ASSUME Device, UNCHANGED <<mmc, sizes, pos>>, phase # "failed" \/ phase' = "failed",
           result' = "running" <=> Running', result' = "ok" <=> phase' = "done",
           phase \in {"output", "failed"} /\ toBoard = <<>> => phase' \in {"output", "failed"} /\ toBoard' = <<>>,
           phase' = "output" /\ Changing => (phase = "output" /\ Heard' \subseteq Heard) \/ Heard' = {},
           phase = "prepare" => phase' \in {"prepare", "failed"}
                                \/ \A image \in Images : SizeFits(Plan[image], sizes[image])
    PROVE  Device'
<1>1. /\ Changing' <=> Changing
      /\ \A p : Prepared(p)' <=> Prepared(p)
      /\ (\A image \in Images : SizeFits(Plan[image], sizes[image])')
            <=> \A image \in Images : SizeFits(Plan[image], sizes[image])
  BY DEF Changing, Current, Prepared, Erased, Holds, PlannedWrite, Plan
<1>2. Prepared(pos)' <=> Prepared(pos)
  BY DEF Prepared, Erased, Holds, PlannedWrite, Plan
<1>3. Prepared(pos + 1)' <=> Prepared(pos + 1)
  BY DEF Prepared, Erased, Holds, PlannedWrite, Plan
<1> QED
  BY <1>1, <1>2, <1>3 DEF Device

\* A command is accepted: what it was to make of the device is made.
LEMMA AcceptPrepares ==
    ASSUME QuietInv, Device, NEW more, Accept(more), UNCHANGED <<mmc, toBoard, toHost, out>>,
           phase \in {"output", "loadx_wait"},
           Changing => phase = "output" /\ Heard # {}
    PROVE  Device'
<1>1. phase' = "send" /\ pos' = pos + 1 /\ UNCHANGED <<sizes, result>> /\ pos \in 1..9
  BY TypeFacts DEF Accept, given
<1>2. Current.op # "reset"
  BY DEF QuietInv, Placed
<1>3. pos \in 1..8 /\ (Changing <=> pos \in {2, 5, 8})
  BY <1>1, <1>2, CurrentFacts DEF Changing
<1>4. Prepared(pos + 1)
  <2>1. CASE Changing
    BY <2>1 DEF Device
  <2>2. CASE ~Changing
    <3>1. Prepared(pos)
      BY <2>2 DEF Device
    <3> QED
      BY <1>3, <2>2, <3>1 DEF Prepared
  <2> QED
    BY <2>1, <2>2
<1>5. Prepared(pos)' <=> Prepared(pos + 1)
  BY <1>1 DEF Prepared, Erased, Holds, PlannedWrite, Plan
<1>6. \A image \in Images : SizeFits(Plan[image], sizes[image])'
  BY <1>1 DEF Device, Plan
<1> QED
  BY <1>1, <1>4, <1>5, <1>6 DEF Device, Running

\* The program changes the device only by telling the board to.
LEMMA RunnerKeepsDevice ==
    ASSUME QuietInv, Device, Runner
    PROVE  Device'
<1>1. CASE PrepareStagePayloads
  BY <1>1, DeviceStays DEF PrepareStagePayloads, Fail, boardVars, Device, Running, given
<1>2. CASE WakePrompt \/ PromptSeen \/ CrcReady \/ WriteEot \/ EotAcked
  BY <1>2, DeviceStays DEF WakePrompt, PromptSeen, CrcReady, WriteEot, EotAcked, boardVars, Device, Running, given
<1>3. CASE DataSent \/ EotNaked \/ EotTimesOut
  BY <1>3, DeviceStays DEF DataSent, EotNaked, EotTimesOut, ExcuseEot, boardVars, Device, Running, given
<1>4. CASE SendFails \/ ReadFails \/ DataFails \/ EotFails
  BY <1>4, DeviceStays DEF SendFails, ReadFails, DataFails, EotFails, Fail, Waits, boardVars, Device, Running, given
<1>5. CASE ResetSeen
  BY <1>5, DeviceStays DEF ResetSeen, boardVars, Device, Running, given
<1>6. CASE SendCommand
  <2>1. /\ phase = "send" /\ buffer' = <<>> /\ phase' \in {"crc_wait", "reset_wait", "output"}
        /\ UNCHANGED <<mmc, sizes, pos, result, toHost, out>> /\ Current' = Current
    BY <1>6 DEF SendCommand, boardVars, given, Current
  <2>2. In(buffer') = {}
    BY <2>1, InEmpty
  <2>3. In(toHost) \cap Evident(Current.op) = {} /\ In(out) \cap Evident(Current.op) = {}
    BY <2>1, EvidentIsLoud DEF QuietInv, Wire, Running, Quiet
  <2>4. Heard' = {}
    BY <2>1, <2>2, <2>3 DEF Heard
  <2> QED
    BY <2>1, <2>4, DeviceStays DEF Device, Running
<1>10. CASE ReadOn
  <2>1. UNCHANGED <<phase, mmc, sizes, pos, result, toBoard, out, buffer>> /\ Current' = Current /\ toHost' = <<>>
    BY <1>10 DEF ReadOn, runnerVars, boardVars, Current
  <2>2. Heard' \subseteq Heard
    BY <2>1, InEmpty DEF Heard
  <2> QED
    BY <2>1, <2>2, DeviceStays DEF Device, Running
<1>7. CASE ReadData
  <2>1. UNCHANGED <<phase, mmc, sizes, pos, result, toBoard, out>> /\ Current' = Current
    BY <1>7 DEF ReadData, boardVars, given, Current
  <2>2. /\ \A t \in In(buffer') : t \in In(buffer) \/ t \in In(toHost) \/ t = CTL
        /\ In(toHost') \subseteq In(toHost)
    BY <1>7, ReadFacts, TypeFacts
  <2>3. Heard' \subseteq Heard
    BY <2>1, <2>2, EvidentIsLoud DEF Heard
  <2> QED
    BY <2>1, <2>3, DeviceStays DEF Device, Running
<1>8. CASE CommandDone
  <2>1. phase = "output" /\ UNCHANGED <<toHost, toBoard, mmc, out>>
    BY <1>8 DEF CommandDone, boardVars
  <2>2. ASSUME NEW error \in {"Protocol", "VerificationMismatch"}, Fail(error)
        PROVE  Device'
    BY <2>1, <2>2, DeviceStays DEF Fail, Device, Running, given
  <2>3. ASSUME NEW kind, Require(kind), kind \subseteq Evident(Current.op)
        PROVE  Device'
    <3>1. CASE Reports(buffer, kind)
      <4>1. Heard # {}
        BY <2>3, <3>1, ReportFacts, TypeFacts DEF Heard
      <4> QED
        BY <2>1, <2>3, <3>1, <4>1, AcceptPrepares DEF Require
    <3>2. CASE ~Reports(buffer, kind)
      BY <2>2, <2>3, <3>2 DEF Require
    <3> QED
      BY <3>1, <3>2
  <2>4. CASE Current.op = "filesize" /\ VerifyFilesize
    <3>1. ~Changing
      BY <2>4 DEF Changing
    <3> QED
      BY <2>1, <2>2, <2>4, <3>1, AcceptPrepares DEF VerifyFilesize
  <2> QED
    BY <1>8, <2>3, <2>4 DEF CommandDone, Evident
<1>9. CASE LoadxDone
  <2>1. phase = "loadx_wait" /\ UNCHANGED <<toHost, toBoard, mmc, out>> /\ ~Changing
    BY <1>9 DEF LoadxDone, boardVars, QuietInv, Placed, Changing
  <2>2. ASSUME NEW error \in {"Protocol", "VerificationMismatch"}, phase' = "failed", result' = error,
               UNCHANGED <<sizes, pos>>
        PROVE  Device'
    BY <2>1, <2>2, DeviceStays DEF Device, Running
  <2>3. ASSUME NEW more, Accept(more)
        PROVE  Device'
    BY <2>1, <2>3, AcceptPrepares
  <2> QED
    BY <1>9, <2>2, <2>3 DEF LoadxDone, given
<1> QED
  BY <1>1, <1>2, <1>3, <1>4, <1>5, <1>6, <1>7, <1>8, <1>9, <1>10 DEF Runner

\* The board does something that leaves the device alone.
LEMMA BoardStays ==
    ASSUME Device, UNCHANGED <<runnerVars, mmc>>, toBoard' = toBoard \/ toBoard' = <<>>,
           phase = "output" /\ Changing => Heard' \subseteq Heard
    PROVE  Device'
<1>1. UNCHANGED <<phase, pos, sizes, result>>
  BY DEF runnerVars
<1> QED
  BY <1>1, DeviceStays DEF Device, Running

\* What has been heard when the board takes a line is no evidence of it.
LEMMA TakenUnheard ==
    ASSUME QuietInv, NEW line, Take(line), phase = "output", NEW t,
           In(out') \subseteq {TEXT, CTL, t, UBOOT, SPACE}
    PROVE  Heard' \subseteq {t} \cap Evident(Current.op)
<1>1. Quiet(toHost) /\ Quiet(buffer) /\ UNCHANGED <<buffer, toHost>> /\ Current' = Current
  BY TakeFacts DEF Running, runnerVars
<1>2. In(buffer) \cap Evident(Current.op) = {} /\ In(toHost) \cap Evident(Current.op) = {}
  BY <1>1, EvidentIsLoud DEF Quiet
<1>3. {TEXT, CTL, UBOOT, SPACE} \cap Evident(Current.op) = {}
  BY EvidentIsLoud DEF QuietTokens
<1> QED
  BY <1>1, <1>2, <1>3 DEF Heard

\* The board changes the device only by the command that is running.
LEMMA BoardKeepsDevice ==
    ASSUME SoundPlan, QuietInv, Device, Board
    PROVE  Device'
<1>0. UNCHANGED <<phase, buffer, pos, sizes, result>> /\ Current' = Current
  BY DEF Board, Transmit, Chatter, LogOn, boardVars, Take, TakeWake, TakePrintenv, TakeErase, TakeLoadx, TakeWrite, TakeFails,
         TakeEot, TakeReset, runnerVars, Current
<1>1. CASE Transmit
  <2>1. UNCHANGED <<runnerVars, mmc, toBoard>> /\ out # <<>> /\ toHost' = Append(toHost, Head(out)) /\ out' = Tail(out)
    BY <1>1 DEF Transmit
  <2>2. toHost \in Seq(Symbols) /\ out \in Seq(Symbols)
    BY TypeFacts
  <2>3. In(toHost') = In(toHost) \cup {Head(out)} /\ Head(out) \in In(out) /\ In(out') \subseteq In(out)
    BY <2>1, <2>2, InAppend, InTail
  <2>4. Heard' \subseteq Heard
    BY <1>0, <2>3 DEF Heard
  <2> QED
    BY <2>1, <2>4, BoardStays
<1>2. CASE Chatter \/ LogOn
  <2>1. UNCHANGED <<runnerVars, mmc, toBoard, out>> /\ toHost' = Append(toHost, TEXT)
    BY <1>2 DEF Chatter, LogOn, boardVars
  <2>2. In(toHost') = In(toHost) \cup {TEXT}
    BY <2>1, TypeFacts, InAppend
  <2>3. Heard' \subseteq Heard
    BY <1>0, <2>2, EvidentIsLoud DEF Heard, QuietTokens
  <2> QED
    BY <2>1, <2>3, BoardStays
<1>3. ASSUME NEW line, Take(line), mmc' = mmc, line.op \notin {"erase", "write"}
      PROVE  Device'
  <2>1. toBoard' = <<>> /\ UNCHANGED runnerVars
    BY <1>3, TakeFacts
  <2>2. phase = "output" /\ Changing => FALSE
    BY <1>3, TakeFacts DEF Changing
  <2> QED
    BY <1>3, <2>1, <2>2, BoardStays
<1>4. CASE TakeWake \/ TakeEot \/ TakePrintenv \/ TakeLoadx \/ TakeReset
  <2>1. mmc' = mmc /\ \A op, image : Command(op, image).op = op
    BY <1>4 DEF TakeWake, TakeEot, TakePrintenv, TakeLoadx, TakeReset, Command
  <2>2. \/ Take(Wake) \/ Take(EOT) \/ Take(Command("loadaddr", "none")) \/ Take(Command("reset", "none"))
        \/ \E image \in Images : Take(Command("filesize", image)) \/ Take(Command("loadx", image))
    BY <1>4 DEF TakeWake, TakeEot, TakePrintenv, TakeLoadx, TakeReset
  <2>3. Wake.op = "wake" /\ EOT.op = "EOT"
    BY DEF Wake, EOT, Command
  <2> QED
    BY <1>3, <2>1, <2>2, <2>3
<1>5. ASSUME NEW line, Take(line), line.op \in {"erase", "write"}
      PROVE  /\ line = Current /\ Changing /\ toBoard' = <<>> /\ phase \in {"output", "failed"}
             /\ Prepared(pos) /\ pos \in {2, 5, 8}
             /\ \A image \in Images : SizeFits(Plan[image], sizes[image])
  <2>1. line # Wake /\ line # EOT
    BY <1>5 DEF Wake, EOT, Command
  <2>2. /\ line = Current /\ toBoard # <<>> /\ toBoard' = <<>>
        /\ phase \in {"output", "crc_wait", "reset_wait", "failed"}
    BY <1>5, <2>1, TakeFacts
  <2>3. Changing /\ phase \in {"output", "failed"}
    BY <1>5, <2>2 DEF Changing, QuietInv, Placed
  <2>4. pos \in {2, 5, 8}
    BY <2>3, TypeFacts, CurrentFacts DEF Changing
  <2> QED
    BY <2>2, <2>3, <2>4 DEF Device
<1>6. ASSUME NEW line, Take(line), line.op \in {"erase", "write"}, Heard' # {} => Prepared(pos + 1)'
      PROVE  Device'
  <2>1. Changing' /\ toBoard' = <<>> /\ phase \in {"output", "failed"}
    BY <1>0, <1>5, <1>6 DEF Changing
  <2>2. (\A image \in Images : SizeFits(Plan[image], sizes[image]))'
    BY <1>0, <1>5, <1>6 DEF Plan
  <2> QED
    BY <1>0, <1>6, <2>1, <2>2 DEF Device, Running
<1>7. CASE TakeErase
  <2> DEFINE line == Command("erase", "none")
  <2>1. Take(line) /\ mmc' = Overwrite(Plan["erase"], "erased") /\ line.op = "erase"
    BY <1>7 DEF TakeErase, Command
  <2> HIDE DEF line
  <2>2. Current.op = "erase" /\ pos = 2
    BY <1>5, <2>1, CurrentFacts
  <2>3. Erased'
    BY <2>1 DEF Erased, Overwrite, SoundPlan, QuietInv, TypeOK, Plan
  <2>4. Prepared(pos + 1)'
    BY <1>0, <2>2, <2>3 DEF Prepared
  <2> QED
    BY <1>6, <2>1, <2>4
<1>8. CASE TakeWrite
  <2>1. PICK image \in Images : Take(Command("write", image)) /\ mmc' = Overwrite(PlannedWrite(image), ram)
    BY <1>8 DEF TakeWrite
  <2> DEFINE line == Command("write", image)
  <2>2. Take(line) /\ line.op = "write" /\ line.image = image
    BY <2>1 DEF Command
  <2> HIDE DEF line
  <2>3. /\ Current.op = "write" /\ Current.image = image /\ Prepared(pos) /\ pos \in 1..9
        /\ \A i \in Images : SizeFits(Plan[i], sizes[i])
    BY <1>5, <2>2
  <2>4. ram = image /\ pos \in {5, 8} /\ (image = "preloader" <=> pos = 5) /\ (image = "fip" <=> pos = 8)
    BY <2>3, CurrentFacts DEF QuietInv, Placed
  <2>5. \A i \in Images : Blocks(PlannedWrite(i)) \subseteq Blocks(Plan[i]) /\ Blocks(PlannedWrite(i)) \subseteq DOMAIN mmc
    BY <2>3, WritesStayInside
  <2>6. Erased'
    BY <2>1, <2>3, <2>4 DEF Prepared, Erased, Overwrite, SoundPlan, QuietInv, TypeOK, Plan
  <2>7. Holds(image)'
    BY <1>0, <2>1, <2>4, <2>5 DEF Holds, Overwrite, PlannedWrite, Plan
  <2>8. image = "fip" => Holds("preloader")'
    <3> SUFFICES ASSUME image = "fip" PROVE Holds("preloader")'
      OBVIOUS
    <3>1. Holds("preloader")
      BY <2>3, <2>4 DEF Prepared
    <3>2. Blocks(PlannedWrite("preloader")) \cap Blocks(PlannedWrite("fip")) = {}
      BY <2>5 DEF SoundPlan, Images
    <3>3. \A b \in Blocks(PlannedWrite("preloader")) : b \in DOMAIN mmc
      BY <2>5 DEF Images
    <3> QED
      BY <1>0, <2>1, <3>1, <3>2, <3>3 DEF Holds, Overwrite, PlannedWrite, Plan
  <2>9. Prepared(pos + 1)'
    BY <1>0, <2>4, <2>6, <2>7, <2>8 DEF Prepared
  <2> QED
    BY <1>6, <2>2, <2>9
<1>9. CASE TakeFails
  <2>1. PICK line \in {Script[p] : p \in 1..Len(Script)} :
           /\ Take(line)
           /\ mmc' \in {mmc} \cup (IF line.op = "write" THEN {Overwrite(PlannedWrite(line.image), "torn")} ELSE {})
                             \cup (IF line.op = "erase" THEN {Overwrite(Plan["erase"], "torn")} ELSE {})
    BY <1>9 DEF TakeFails
  <2>2. CASE line.op \notin {"erase", "write"}
    BY <1>3, <2>1, <2>2
  <2>3. CASE line.op \in {"erase", "write"} /\ phase = "output"
    <3>1. In(out') = {TEXT, CTL, UBOOT, SPACE}
      BY <1>9, ReplyFacts, PlainLines DEF TakeFails
    <3>2. Heard' \subseteq {TEXT} \cap Evident(Current.op)
      BY <2>1, <2>3, <3>1, TakenUnheard
    <3>3. Heard' = {}
      BY <3>2, EvidentIsLoud DEF QuietTokens
    <3> QED
      BY <1>6, <2>1, <2>3, <3>3
  <2>4. CASE line.op \in {"erase", "write"} /\ phase # "output"
    <3>1. /\ Changing' /\ toBoard' = <<>> /\ phase = "failed" /\ phase' = "failed"
          /\ (\A image \in Images : SizeFits(Plan[image], sizes[image]))'
      BY <1>0, <1>5, <2>1, <2>4 DEF Changing, Plan
    <3> QED
      BY <1>0, <3>1 DEF Device, Running
  <2> QED
    BY <2>2, <2>3, <2>4
<1> QED
  BY <1>1, <1>2, <1>4, <1>7, <1>8, <1>9 DEF Board

\* Every step keeps what is known of the device.
LEMMA DeviceStep ==
    ASSUME SoundPlan, QuietInv, Device, [Next]_vars
    PROVE  Device'
<1>1. CASE UNCHANGED vars
  <2>1. Heard' = Heard /\ UNCHANGED runnerVars /\ UNCHANGED <<mmc, toBoard>>
    BY <1>1 DEF vars, runnerVars, Heard, Current
  <2> QED
    BY <2>1, BoardStays
<1> QED
  BY <1>1, RunnerKeepsDevice, BoardKeepsDevice DEF Next

\* At first the device is as it was.
LEMMA DeviceInit ==
    ASSUME Init
    PROVE  Device
<1>1. /\ phase = "prepare" /\ pos = 1 /\ result = "running" /\ mmc = [b \in 0..DeviceBlocks - 1 |-> "old"]
  BY DEF Init
<1>2. \A b \in DOMAIN mmc : mmc[b] = "old"
  BY <1>1
<1> QED
  BY <1>1, <1>2 DEF Device, Prepared, Running

\* Under a sound plan, success means that both images are in flash, whole, and that the board
\* was reset, whatever the board and the line do (flash_from_uboot).
THEOREM SuccessIsFlashed ==
    ASSUME SoundPlan
    PROVE  QuietSpec => []SuccessMeansFlashed
<1>1. Init /\ pending = <<>> => QuietInv /\ Device
  BY QuietInit, DeviceInit
<1>2. QuietInv /\ Device /\ [Next]_vars => (QuietInv /\ Device)'
  BY QuietStep, DeviceStep
<1>3. QuietInv /\ Device => SuccessMeansFlashed
  <2> SUFFICES ASSUME QuietInv, Device, result = "ok"
               PROVE  mode = "reset" /\ Holds("preloader") /\ Holds("fip")
    BY DEF SuccessMeansFlashed, Images
  <2>1. phase = "done" /\ mode = "reset" /\ Current.op = "reset"
    BY DEF Device, QuietInv, Placed
  <2>2. pos = 9
    BY <2>1, TypeFacts, CurrentFacts
  <2>3. Prepared(pos)
    BY <2>1 DEF Device
  <2> QED
    BY <2>1, <2>2, <2>3 DEF Prepared
<1> QED
  BY <1>1, <1>2, <1>3, PTL DEF QuietSpec, Spec

\* A step that keeps these is a stuttering step of FlashUpdate.
LEMMA UpdateStutters ==
    ASSUME UNCHANGED <<sizes, mmc, result>>
    PROVE  UNCHANGED Update!vars
  BY DEF Update!vars, PlannedWrite, Plan

\* The runner ends the update, and does nothing else to it.
LEMMA RunnerUpdates ==
    ASSUME QuietInv, Device, QuietInv', Device', Runner
    PROVE  [Update!Next]_(Update!vars)
<1>1. mmc' = mmc /\ sizes' = sizes /\ Running
  <2>1. mmc' = mmc
    BY DEF Runner, PrepareStagePayloads, WakePrompt, SendCommand, SendFails, ReadData, ReadOn, ReadFails, PromptSeen,
           CommandDone, CrcReady, DataSent, DataFails, WriteEot, EotAcked, EotNaked, EotTimesOut, EotFails,
           LoadxDone, ResetSeen, boardVars, runnerVars
  <2>2. Running
    BY DEF Runner, PrepareStagePayloads, WakePrompt, SendCommand, SendFails, ReadData, ReadOn, ReadFails, PromptSeen,
           CommandDone, CrcReady, DataSent, DataFails, WriteEot, EotAcked, EotNaked, EotTimesOut, EotFails,
           LoadxDone, ResetSeen, Waits, Running
  <2> QED
    BY <2>1, <2>2, RunnerKeepsSizes DEF given
<1>2. result = "running"
  BY <1>1 DEF Device
<1>3. /\ Blocks(Plan["erase"])' = Blocks(Plan["erase"])
      /\ [image \in Images |-> Blocks(PlannedWrite(image))]' = [image \in Images |-> Blocks(PlannedWrite(image))]
  BY <1>1 DEF PlannedWrite, Plan
<1>4. CASE result' = "running"
  BY <1>1, <1>2, <1>4, UpdateStutters
<1>5. CASE result' = "ok"
  <2>1. phase' = "done"
    BY <1>5 DEF Device
  <2>2. phase = "reset_wait"
    BY <2>1 DEF Runner, PrepareStagePayloads, WakePrompt, SendCommand, SendFails, ReadData, ReadOn, ReadFails, Waits,
                PromptSeen, CommandDone, Require, VerifyFilesize, Accept, CrcReady, DataSent, DataFails, WriteEot,
                EotAcked, EotNaked, EotTimesOut, ExcuseEot, EotFails, LoadxDone, ResetSeen, Fail, runnerVars
  <2>3. Current.op = "reset" /\ pos = 9
    BY <2>2, TypeFacts, CurrentFacts DEF QuietInv, Placed
  <2>4. Prepared(pos)
    BY <2>2 DEF Device
  <2>5. \A image \in Images : Holds(image)
    BY <2>3, <2>4 DEF Prepared, Images
  <2>6. Update!Succeed
    BY <1>1, <1>2, <1>5, <2>5 DEF Update!Succeed, Update!Holds, Update!Images, Images, Holds
  <2> QED
    BY <1>3, <2>6 DEF Update!Next
<1>6. CASE result' \notin {"running", "ok"}
  <2>1. Update!Fail
    BY <1>1, <1>2, <1>6 DEF Update!Fail
  <2> QED
    BY <1>3, <2>1 DEF Update!Next
<1> QED
  BY <1>4, <1>5, <1>6

\* So does the board with everything but the lines that erase and write.
LEMMA BoardUpdates ==
    ASSUME SoundPlan, QuietInv, Device, Board
    PROVE  [Update!Next]_(Update!vars)
<1>1. UNCHANGED <<sizes, result>>
  BY DEF Board, Transmit, Chatter, LogOn, boardVars, Take, TakeWake, TakePrintenv, TakeErase, TakeLoadx, TakeWrite, TakeFails,
         TakeEot, TakeReset, runnerVars
<1>2. /\ Blocks(Plan["erase"])' = Blocks(Plan["erase"])
      /\ [image \in Images |-> Blocks(PlannedWrite(image))]' = [image \in Images |-> Blocks(PlannedWrite(image))]
  BY <1>1 DEF PlannedWrite, Plan
<1>3. CASE mmc' = mmc
  BY <1>1, <1>3, UpdateStutters
<1>4. ASSUME NEW line, Take(line), line.op \in {"erase", "write"}
      PROVE  /\ line = Current /\ Prepared(pos)
             /\ line.op = "erase" => pos = 2
             /\ line.op = "write" => pos \in {5, 8}
             /\ pos = 5 => line.image = "preloader"
             /\ pos = 8 => line.image = "fip"
  <2>1. line # Wake /\ line # EOT
    BY <1>4 DEF Wake, EOT, Command
  <2>2. line = Current /\ toBoard # <<>>
    BY <1>4, <2>1, TakeFacts
  <2> QED
    BY <1>4, <2>2, TypeFacts, CurrentFacts DEF Device
<1>5. ASSUME NEW content \in {"erased", "torn"}, NEW line, Take(line), line.op = "erase",
             mmc' = Overwrite(Plan["erase"], content)
      PROVE  Update!Next
  <2>1. \A b \in DOMAIN mmc : mmc[b] = "old"
    BY <1>4, <1>5 DEF Prepared
  <2>2. mmc' = Update!Fill(Blocks(Plan["erase"]), content)
    BY <1>5 DEF Overwrite, Update!Fill
  <2>3. Update!Erase
    BY <1>1, <2>1, <2>2 DEF Update!Erase
  <2> QED
    BY <1>2, <2>3 DEF Update!Next
<1>6. ASSUME NEW image \in Images, NEW content \in {image, "torn"}, NEW line, Take(line), line.op = "write",
             line.image = image, mmc' = Overwrite(PlannedWrite(image), content)
      PROVE  Update!Next
  <2>1. Prepared(pos) /\ pos \in {5, 8} /\ (image = "fip" => pos = 8)
    BY <1>4, <1>6
  <2>2. Erased /\ (image = "fip" => Holds("preloader"))
    BY <2>1 DEF Prepared
  <2>3. mmc' = Update!Fill(Blocks(PlannedWrite(image)), content)
    BY <1>6 DEF Overwrite, Update!Fill
  <2>4. Update!Write(image)
    BY <1>1, <1>6, <2>2, <2>3 DEF Update!Write, Update!Holds, Update!Images, Erased, Holds, Images
  <2> QED
    BY <1>2, <1>6, <2>4 DEF Update!Next, Update!Images, Images
<1>7. CASE TakeErase
  <2>1. Take(Command("erase", "none")) /\ mmc' = Overwrite(Plan["erase"], "erased") /\ Command("erase", "none").op = "erase"
    BY <1>7 DEF TakeErase, Command
  <2> QED
    BY <1>5, <2>1
<1>8. CASE TakeWrite
  <2>1. PICK image \in Images : Take(Command("write", image)) /\ mmc' = Overwrite(PlannedWrite(image), ram)
    BY <1>8 DEF TakeWrite
  <2> DEFINE line == Command("write", image)
  <2>2. Take(line) /\ line.op = "write" /\ line.image = image
    BY <2>1 DEF Command
  <2> HIDE DEF line
  <2>3. ram = image
    BY <1>4, <2>2 DEF QuietInv, Placed
  <2> QED
    BY <1>6, <2>1, <2>2, <2>3
<1>9. CASE TakeFails
  <2>1. PICK line \in {Script[p] : p \in 1..Len(Script)} :
           /\ Take(line)
           /\ mmc' \in {mmc} \cup (IF line.op = "write" THEN {Overwrite(PlannedWrite(line.image), "torn")} ELSE {})
                             \cup (IF line.op = "erase" THEN {Overwrite(Plan["erase"], "torn")} ELSE {})
    BY <1>9 DEF TakeFails
  <2>2. CASE line.op = "erase" /\ mmc' = Overwrite(Plan["erase"], "torn")
    BY <1>5, <2>1, <2>2
  <2>3. CASE line.op = "write" /\ mmc' = Overwrite(PlannedWrite(line.image), "torn")
    <3>1. line.image \in Images
      BY <1>4, <2>1, <2>3 DEF Images
    <3> QED
      BY <1>6, <2>1, <2>3, <3>1
  <2> QED
    BY <1>3, <2>1, <2>2, <2>3
<1>10. CASE Transmit \/ Chatter \/ LogOn \/ TakeWake \/ TakePrintenv \/ TakeLoadx \/ TakeEot \/ TakeReset
  BY <1>3, <1>10 DEF Transmit, Chatter, LogOn, boardVars, TakeWake, TakePrintenv, TakeLoadx, TakeEot, TakeReset
<1> QED
  BY <1>7, <1>8, <1>9, <1>10 DEF Board

\* Under a sound plan the program does what FlashUpdate promises of the device: erased before
\* anything is written, the preloader whole before the FIP is begun, no image outside its range.
THEOREM FlashRefines ==
    ASSUME SoundPlan
    PROVE  QuietSpec => ImplementsFlashUpdate
<1>1. Init /\ pending = <<>> => QuietInv /\ Device /\ Update!Init
  <2>1. Init => Update!Init
    BY DEF Init, Update!Init
  <2> QED
    BY <2>1, QuietInit, DeviceInit
<1>2. QuietInv /\ Device /\ [Next]_vars => (QuietInv /\ Device)'
  BY QuietStep, DeviceStep
<1>3. QuietInv /\ Device /\ QuietInv' /\ Device' /\ [Next]_vars => [Update!Next]_(Update!vars)
  <2>1. ASSUME UNCHANGED vars PROVE UNCHANGED Update!vars
    BY <2>1, UpdateStutters DEF vars
  <2> QED
    BY <2>1, RunnerUpdates, BoardUpdates DEF Next
<1> QED
  BY <1>1, <1>2, <1>3, PTL DEF QuietSpec, Spec, ImplementsFlashUpdate, Update!Spec

-----------------------------------------------------------------------------
(* The line of progress *)

\* While a command's output is read, the latest event says that it was started; and a run that has
\* failed is over.
Told ==
    /\ phase = "failed" => result # "running"
    /\ phase = "output" => events # <<>> /\ events[Len(events)] = <<"UBootCommandStarted", Current>>

LEMMA ToldStep ==
    ASSUME QuietInv, Told, [Next]_vars
    PROVE  Told'
<1> USE DEF Fail, Accept, ExcuseEot
<1>0. events \in Seq(EventPayload)
  BY TypeFacts
<1>1. CASE SendCommand
  <2>1. events' = Append(events, <<"UBootCommandStarted", Current>>) /\ Current' = Current /\ phase = "send"
        /\ phase' # "failed"
    BY <1>1 DEF SendCommand, Emit, Current
  <2>2. events' # <<>> /\ events'[Len(events')] = <<"UBootCommandStarted", Current>>
    BY <1>0, <2>1
  <2> QED
    BY <2>1, <2>2 DEF Told
<1>2. CASE ReadData \/ ReadOn
  BY <1>2 DEF ReadData, ReadOn, Told, given, runnerVars, Current
<1>3. CASE PrepareStagePayloads \/ WakePrompt \/ SendFails \/ ReadFails \/ PromptSeen
  <2>1. phase' # "output" /\ (phase' = "failed" => result' # "running")
    BY <1>3 DEF PrepareStagePayloads, WakePrompt, SendFails, ReadFails, PromptSeen
  <2> QED
    BY <2>1 DEF Told
<1>4. CASE CommandDone
  <2>1. phase' # "output" /\ (phase' = "failed" => result' # "running")
    BY <1>4 DEF CommandDone, Require, VerifyFilesize
  <2> QED
    BY <2>1 DEF Told
<1>5. CASE CrcReady \/ DataSent \/ DataFails \/ WriteEot \/ EotAcked \/ EotNaked \/ EotTimesOut \/ EotFails
  <2>1. phase' # "output" /\ (phase' = "failed" => result' # "running")
    BY <1>5 DEF CrcReady, DataSent, DataFails, WriteEot, EotAcked, EotNaked, EotTimesOut, EotFails
  <2> QED
    BY <2>1 DEF Told
<1>6. CASE LoadxDone \/ ResetSeen
  <2>1. phase' # "output" /\ (phase' = "failed" => result' # "running")
    BY <1>6 DEF LoadxDone, ResetSeen
  <2> QED
    BY <2>1 DEF Told
<1>7. CASE UNCHANGED runnerVars
  BY <1>7 DEF runnerVars, Told, Current
<1>8. Board => UNCHANGED runnerVars
  BY DEF Board, Transmit, Chatter, LogOn, boardVars, Take, TakeWake, TakePrintenv, TakeErase, TakeLoadx,
         TakeWrite, TakeFails, TakeEot, TakeReset, runnerVars
<1> QED
  BY <1>1, <1>2, <1>3, <1>4, <1>5, <1>6, <1>7, <1>8 DEF Next, Runner, vars, runnerVars

\* The line shows the last event, if that one has a message.
LEMMA LineShowsLast ==
    ASSUME NEW told \in Seq(EventPayload), told # <<>>, Message(told[Len(told)], TRUE) # Unchanged
    PROVE  Line(told, TRUE, TRUE) = Message(told[Len(told)], TRUE)
<1> DEFINE last == Len(told)
           passing == {i \in 1..last : Message(told[i], TRUE) # Unchanged}
           chosen == CHOOSE i \in passing : \A j \in passing : j <= i
<1>1. last \in Nat /\ last >= 1
  OBVIOUS
<1>2. last \in passing /\ passing # {} /\ \A j \in passing : j <= last /\ j \in Nat
  <2>1. last \in 1..last /\ \A j \in 1..last : j <= last /\ j \in Nat
    BY <1>1
  <2>2. Message(told[last], TRUE) # Unchanged
    OBVIOUS
  <2> HIDE DEF last
  <2> QED
    BY <2>1, <2>2
<1>3. chosen = last
  <2> HIDE DEF passing, last
  <2>1. \E i \in passing : \A j \in passing : j <= i
    BY <1>2
  <2>2. chosen \in passing /\ \A j \in passing : j <= chosen
    BY <2>1
  <2> HIDE DEF chosen
  <2>3. chosen <= last /\ last <= chosen /\ chosen \in Nat
    BY <1>2, <2>2
  <2> QED
    BY <1>1, <2>3
<1>4. told[last] # <<"none">>
  <2>1. told[last] \in EventPayload
    BY <1>1
  <2>2. <<"none">> \notin EventPayload
    BY DEF EventPayload
  <2> QED
    BY <2>1, <2>2
<1>5. Line(told, TRUE, TRUE) =
         IF (IF passing = {} THEN <<"none">> ELSE told[chosen]) = <<"none">>
         THEN FirstMessage(TRUE)
         ELSE Message(IF passing = {} THEN <<"none">> ELSE told[chosen], TRUE)
  BY DEF Line, Latest
<1> HIDE DEF passing, last, chosen
<1>6. Line(told, TRUE, TRUE) = Message(told[last], TRUE)
  BY <1>2, <1>3, <1>4, <1>5
<1> QED
  BY <1>6 DEF last

\* What the line shows of a command that changes the device.
LEMMA ChangesAreNamed ==
    ASSUME NEW command \in UBootCommand, command.op \in {"erase", "write"}
    PROVE  Message(<<"UBootCommandStarted", command>>, TRUE) =
               IF command.op = "erase" THEN "Erasing persistent flash" ELSE "Writing image to flash"
<1> DEFINE event == <<"UBootCommandStarted", command>>
<1>1. Kind(event) = "UBootCommandStarted" /\ event[2] = command
  BY DEF Kind
<1> HIDE DEF event
<1>2. Message(event, TRUE) = CommandMessage[event[2].op]
  BY <1>1 DEF Message
<1>3. CommandMessage["erase"] = "Erasing persistent flash" /\ CommandMessage["write"] = "Writing image to flash"
  BY DEF CommandMessage
<1> QED
  BY <1>1, <1>2, <1>3 DEF event

\* The device changes only by the erase or the write that the program is waiting for.
LEMMA ChangesAreAwaited ==
    ASSUME QuietInv, Told, [Next]_vars, mmc' # mmc, result = "running"
    PROVE  phase = "output" /\ Current.op \in {"erase", "write"}
<1>0. pos \in 1..9 /\ Current \in UBootCommand
  BY TypeFacts
<1>1. ~Runner /\ ~UNCHANGED vars
  BY DEF Runner, PrepareStagePayloads, WakePrompt, SendCommand, SendFails, ReadData, ReadOn, ReadFails, PromptSeen,
         CommandDone, CrcReady, DataSent, DataFails, WriteEot, EotAcked, EotNaked, EotTimesOut, EotFails,
         LoadxDone, ResetSeen, boardVars, vars
<1>2. TakeErase \/ TakeWrite \/ TakeFails
  BY <1>1 DEF Next, Board, Transmit, Chatter, LogOn, boardVars, TakeWake, TakePrintenv, TakeLoadx, TakeEot, TakeReset
<1>3. PICK line : Take(line) /\ line.op \in {"erase", "write"}
  <2>1. CASE TakeErase
    BY <2>1 DEF TakeErase, Command
  <2>2. CASE TakeWrite
    BY <2>2 DEF TakeWrite, Command
  <2>3. CASE TakeFails
    <3>1. PICK line \in {Script[p] : p \in 1..Len(Script)} :
             /\ Take(line)
             /\ mmc' \in {mmc} \cup (IF line.op = "write" THEN {Overwrite(PlannedWrite(line.image), "torn")} ELSE {})
                               \cup (IF line.op = "erase" THEN {Overwrite(Plan["erase"], "torn")} ELSE {})
      BY <2>3 DEF TakeFails
    <3> QED
      BY <3>1
  <2> QED
    BY <1>2, <2>1, <2>2, <2>3
<1>4. Wake.op = "wake" /\ EOT.op = "EOT"
  BY DEF Wake, EOT, Command
<1>5. line = Current /\ phase \in {"output", "crc_wait", "reset_wait", "failed"}
  BY <1>3, <1>4, TakeFacts
<1>6. phase # "failed"
  BY DEF Told
<1>7. phase # "crc_wait" /\ phase # "reset_wait"
  BY <1>3, <1>5 DEF QuietInv, Placed
<1> QED
  BY <1>3, <1>5, <1>6, <1>7

\* The operator is told what changes the device while it changes (the UBootCommandStarted of
\* run_uboot_command, as FancyProgressRenderer::observe shows it).
THEOREM LineTellsTheChange == QuietSpec => BarTellsTheChange
<1>1. Init => Told
  BY DEF Init, Told
<1>2. QuietInv /\ Told /\ [Next]_vars => Told'
  BY ToldStep
<1>3. ASSUME QuietInv, Told, [Next]_vars, mmc' # mmc, result = "running"
      PROVE  Bar = IF Current.op = "erase" THEN "Erasing persistent flash" ELSE "Writing image to flash"
  <2> DEFINE message == Message(<<"UBootCommandStarted", Current>>, TRUE)
  <2>1. phase = "output" /\ Current.op \in {"erase", "write"} /\ Current \in UBootCommand /\ events \in Seq(EventPayload)
    BY <1>3, ChangesAreAwaited, TypeFacts
  <2>2. events # <<>> /\ events[Len(events)] = <<"UBootCommandStarted", Current>>
    BY <1>3, <2>1 DEF Told
  <2>3. message = IF Current.op = "erase" THEN "Erasing persistent flash" ELSE "Writing image to flash"
    BY <2>1, ChangesAreNamed
  <2>4. Message(events[Len(events)], TRUE) # Unchanged
    BY <2>2, <2>3 DEF Unchanged
  <2>5. Bar = message
    BY <2>1, <2>2, <2>4, LineShowsLast DEF Bar
  <2> HIDE DEF message
  <2> QED
    BY <2>3, <2>5
<1>4. QuietInv /\ Told /\ [Next]_vars
        => [mmc' # mmc /\ result = "running" =>
               Bar = IF Current.op = "erase" THEN "Erasing persistent flash" ELSE "Writing image to flash"]_vars
  BY <1>3
<1> QED
  BY <1>1, <1>2, <1>4, QuietRuns, PTL DEF QuietSpec, Spec, BarTellsTheChange

-----------------------------------------------------------------------------
(* How much U-Boot says *)

\* run_command gives up on output that is longer than any reply with all chatter of a run, and the
\* board prints for ever only once it was reset, when no command is awaited any more.
ReplyFits == Endless \subseteq {"reset"} /\ MaxChatter + 7 <= OutputLimit

\* A prompt is followed by one space at most.
Ending(s) == \A p \in 1..Len(s) : s[p] = UBOOT => Len(s) <= p + 1

\* What is under way behind a prompt, and how long the output of a command can be.
Behind ==
    /\ chatter \in 0..MaxChatter
    /\ Running =>
        /\ Ending(out)
        /\ \A p \in 1..Len(toHost) : toHost[p] = UBOOT => Len(toHost) + Len(out) <= p + chatter + 1
        /\ UBOOT \in In(buffer) \/ phase \in {"prepare", "wake", "send"} =>
              Len(toHost) + Len(out) <= chatter + 1
        /\ phase = "output" => Len(buffer) + Len(toHost) + Len(out) <= chatter + 7
        /\ phase = "output" /\ toBoard # <<>> => Len(buffer) + Len(toHost) + Len(out) <= chatter + 1

\* Output that ends in the shell's prompt.
LEMMA PromptEnds ==
    ASSUME NEW s \in Seq(Symbols), UBOOT \notin In(s)
    PROVE  Ending(s \o ShellPrompt) /\ Len(s \o ShellPrompt) = Len(s) + 2
<1> DEFINE c == s \o ShellPrompt
<1>1. ShellPrompt \in Seq(Symbols) /\ Len(ShellPrompt) = 2
  BY DEF ShellPrompt, Symbols, Tokens
<1>2. Len(c) = Len(s) + Len(ShellPrompt) /\ \A i \in 1..Len(s) : c[i] = s[i]
  BY <1>1, ConcatFacts
<1> HIDE DEF c
<1>3. Len(s) \in Nat /\ Len(c) = Len(s) + 2
  BY <1>1, <1>2
<1>4. ASSUME NEW p \in 1..Len(c), c[p] = UBOOT
      PROVE  Len(c) <= p + 1
  <2>1. p \notin 1..Len(s)
    BY <1>2, <1>4 DEF In
  <2> QED
    BY <1>3, <2>1
<1> QED
  BY <1>3, <1>4 DEF Ending, c

\* Output without a prompt.
LEMMA NoPromptEnds ==
    ASSUME NEW s, UBOOT \notin In(s)
    PROVE  Ending(s)
  BY DEF Ending, In

\* Every answer of the shell ends with its prompt.
LEMMA ReplyEnds ==
    ASSUME NEW line \in Tokens \cup Lines, line # UBOOT
    PROVE  Ending(Reply(<<line>>)) /\ Len(Reply(<<line>>)) = 6
<1> DEFINE start == <<TEXT, CTL>>
           told == <<line>>
           close == <<CTL>>
           s == (start \o told) \o close
           reply == Reply(<<line>>)
<1>1. /\ start \in Seq(Symbols) /\ told \in Seq(Symbols) /\ close \in Seq(Symbols)
      /\ Len(start) = 2 /\ Len(told) = 1 /\ Len(close) = 1
      /\ In(start) = {TEXT, CTL} /\ In(told) = {line} /\ In(close) = {CTL}
  <2>1. /\ start \in Seq(Symbols) /\ told \in Seq(Symbols) /\ close \in Seq(Symbols)
        /\ Len(start) = 2 /\ Len(told) = 1 /\ Len(close) = 1 /\ start[1] = TEXT /\ start[2] = CTL /\ 1..2 = {1, 2}
    BY DEF Symbols, Tokens
  <2>2. In(told) = {line} /\ In(close) = {CTL}
    BY InOne
  <2> HIDE DEF start
  <2> QED
    BY <2>1, <2>2 DEF In
<1>2. reply = s \o ShellPrompt
  BY DEF Reply
<1> HIDE DEF start, told, close, reply
<1> DEFINE both == start \o told
<1>3. both \in Seq(Symbols) /\ Len(both) = 3 /\ In(both) = {TEXT, CTL, line}
  <2>1. both \in Seq(Symbols) /\ Len(both) = Len(start) + Len(told)
    BY <1>1, ConcatFacts
  <2>2. In(both) = In(start) \cup In(told)
    BY <1>1, InConcat
  <2> HIDE DEF both
  <2> QED
    BY <1>1, <2>1, <2>2
<1>4. s \in Seq(Symbols) /\ Len(s) = 4 /\ In(s) = {TEXT, CTL, line}
  <2> HIDE DEF both
  <2>1. both \o close \in Seq(Symbols) /\ Len(both \o close) = Len(both) + Len(close)
    BY <1>1, <1>3, ConcatFacts
  <2>2. In(both \o close) = In(both) \cup In(close)
    BY <1>1, <1>3, InConcat
  <2>3. s = both \o close
    BY DEF both
  <2> HIDE DEF s
  <2> QED
    BY <1>1, <1>3, <2>1, <2>2, <2>3
<1>5. UBOOT \notin In(s)
  BY <1>4 DEF TEXT, CTL, UBOOT
<1> HIDE DEF s
<1>6. Ending(s \o ShellPrompt) /\ Len(s \o ShellPrompt) = Len(s) + 2
  BY <1>4, <1>5, PromptEnds
<1>7. Ending(reply) /\ Len(reply) = 6
  <2> HIDE DEF Ending
  <2> QED
    BY <1>2, <1>4, <1>6
<1> QED
  BY <1>7 DEF reply

\* What one read moves, token by token.
LEMMA ReadMoves ==
    ASSUME buffer \in Seq(Tokens \cup Lines), toHost \in Seq(Symbols), ReadData
    PROVE  \E n \in 1..Len(toHost) :
              /\ Len(buffer') = Len(buffer) + n /\ Len(toHost') = Len(toHost) - n
              /\ \A i \in 1..Len(buffer) : buffer'[i] = buffer[i]
              /\ \A i \in 1..n : toHost[i] \notin Answers => buffer'[Len(buffer) + i] = toHost[i]
              /\ \A i \in 1..n : buffer'[Len(buffer) + i] = UBOOT => toHost[i] = UBOOT
              /\ \A i \in 1..Len(toHost) - n : toHost'[i] = toHost[i + n]
<1>1. PICK n \in 1..Len(toHost) :
         /\ buffer' = buffer \o [i \in 1..n |-> IF toHost[i] \in Answers THEN CTL ELSE toHost[i]]
         /\ toHost' = SubSeq(toHost, n + 1, Len(toHost))
  BY DEF ReadData
<1> DEFINE heard == [i \in 1..n |-> IF toHost[i] \in Answers THEN CTL ELSE toHost[i]]
<1>2. Len(toHost) \in Nat /\ Len(buffer) \in Nat /\ n \in Nat /\ \A i \in 1..Len(toHost) : toHost[i] \in Symbols
  OBVIOUS
<1>3. \A i \in 1..n : heard[i] \in Tokens \cup Lines
  BY <1>2 DEF Symbols, Tokens
<1>4. heard \in Seq(Tokens \cup Lines) /\ Len(heard) = n
  BY <1>2, <1>3
<1>5. \A i \in 1..n : /\ toHost[i] \notin Answers => heard[i] = toHost[i]
                      /\ heard[i] = UBOOT => toHost[i] = UBOOT
  BY DEF CTL, UBOOT
<1>6. buffer' = buffer \o heard
  BY <1>1
<1> HIDE DEF heard
<1>7. /\ Len(buffer') = Len(buffer) + n
      /\ \A i \in 1..Len(buffer) : buffer'[i] = buffer[i]
      /\ \A i \in 1..n : buffer'[Len(buffer) + i] = heard[i]
  BY <1>4, <1>6, ConcatFacts
<1>8. Len(toHost') = Len(toHost) - n /\ \A i \in 1..Len(toHost) - n : toHost'[i] = toHost[i + n]
  BY <1>1, <1>2
<1> QED
  BY <1>5, <1>7, <1>8

\* Nothing is sent, read or printed.
LEMMA BehindStays ==
    ASSUME Behind, UNCHANGED <<toHost, out, buffer, chatter>>, phase' \notin {"failed", "done"} => Running,
           phase' \in {"prepare", "wake", "send"} => phase \in {"prepare", "wake", "send"} \/ UBOOT \in In(buffer),
           phase' = "output" => phase = "output" /\ (toBoard' = toBoard \/ toBoard' = <<>>)
    PROVE  Behind'
  BY DEF Behind, Running

\* The run ends.
LEMMA BehindEnds ==
    ASSUME Behind, chatter' = chatter, phase' \in {"failed", "done"}
    PROVE  Behind'
  BY DEF Behind, Running

\* An answer of XMODEM is read.
LEMMA BehindAnswers ==
    ASSUME QuietInv, Behind, UNCHANGED <<out, buffer, chatter>>, toHost # <<>>, toHost' = Tail(toHost),
           phase = "eot_wait", phase' \in {"eot_write", "loadx_wait"}
    PROVE  Behind'
<1> DEFINE n == Len(toHost)
           m == Len(out)
<1>1. n \in Nat \ {0} /\ m \in Nat /\ chatter \in Nat /\ MaxChatter \in Nat
  BY TypeFacts, TailFacts, FlashAssumption DEF Behind
<1>2. Len(toHost') = n - 1 /\ \A i \in 1..n - 1 : toHost'[i] = toHost[i + 1]
  BY TypeFacts, TailFacts
<1>3. Running
  BY DEF Running
<1>4. \A p \in 1..n : toHost[p] = UBOOT => n + m <= p + chatter + 1
  BY <1>3 DEF Behind
<1>5. UBOOT \in In(buffer) => n + m <= chatter + 1
  BY <1>3 DEF Behind
<1> HIDE DEF n
<1>6. \A p \in 1..n - 1 : toHost'[p] = UBOOT => (n - 1) + m <= p + chatter + 1
  <2> SUFFICES ASSUME NEW p \in 1..n - 1, toHost[p + 1] = UBOOT PROVE (n - 1) + m <= p + chatter + 1
    BY <1>2
  <2>1. p + 1 \in 1..n /\ p \in Nat
    BY <1>1
  <2>2. n + m <= (p + 1) + chatter + 1
    BY <1>4, <2>1
  <2> HIDE DEF m
  <2> QED
    BY <1>1, <2>1, <2>2
<1>7. UBOOT \in In(buffer') => (n - 1) + m <= chatter + 1
  <2> HIDE DEF m
  <2> QED
    BY <1>1, <1>5
<1>8. Ending(out')
  BY <1>3 DEF Behind, Ending
<1>9. Len(out') = m
  OBVIOUS
<1> HIDE DEF m
<1> QED
  BY <1>2, <1>6, <1>7, <1>8, <1>9 DEF Behind

\* Output is read.
LEMMA BehindReads ==
    ASSUME QuietInv, Behind, ReadData
    PROVE  Behind'
<1> DEFINE n == Len(toHost)
           m == Len(out)
           b == Len(buffer)
<1>1. n \in Nat /\ m \in Nat /\ b \in Nat /\ chatter \in Nat /\ MaxChatter \in Nat
  BY TypeFacts, FlashAssumption DEF Behind
<1>2. UNCHANGED <<phase, toBoard, out, chatter>> /\ phase \in Waits
  BY DEF ReadData, boardVars
<1>3. Running
  BY <1>2 DEF Running, Waits
<1>4. PICK k \in 1..n :
         /\ Len(buffer') = b + k /\ Len(toHost') = n - k
         /\ \A i \in 1..b : buffer'[i] = buffer[i]
         /\ \A i \in 1..k : buffer'[b + i] = UBOOT => toHost[i] = UBOOT
         /\ \A i \in 1..n - k : toHost'[i] = toHost[i + k]
  BY TypeFacts, ReadMoves
<1>5. /\ \A p \in 1..n : toHost[p] = UBOOT => n + m <= p + chatter + 1
      /\ UBOOT \in In(buffer) => n + m <= chatter + 1
      /\ phase = "output" => b + n + m <= chatter + 7
      /\ phase = "output" /\ toBoard # <<>> => b + n + m <= chatter + 1
  BY <1>3 DEF Behind
<1>6. k \in Nat /\ k >= 1 /\ k <= n /\ Len(out') = m /\ chatter' = chatter
  BY <1>1, <1>2
<1>7. Ending(out')
  BY <1>2, <1>3 DEF Behind, Ending
<1>8. UBOOT \in In(buffer') => UBOOT \in In(buffer) \/ \E i \in 1..k : toHost[i] = UBOOT
  <2> SUFFICES ASSUME NEW j \in 1..b + k, buffer'[j] = UBOOT
               PROVE  UBOOT \in In(buffer) \/ \E i \in 1..k : toHost[i] = UBOOT
    BY <1>4 DEF In
  <2>1. CASE j \in 1..b
    BY <1>4, <2>1 DEF In
  <2>2. CASE j \notin 1..b
    <3>1. j - b \in 1..k /\ j = b + (j - b)
      <4> HIDE DEF b
      <4> QED
        BY <1>1, <1>6, <2>2
    <3> QED
      BY <1>4, <3>1
  <2> QED
    BY <2>1, <2>2
<1> HIDE DEF n, m, b
<1>9. \A p \in 1..n - k : toHost'[p] = UBOOT => (n - k) + m <= p + chatter + 1
  <2> SUFFICES ASSUME NEW p \in 1..n - k, toHost[p + k] = UBOOT PROVE (n - k) + m <= p + chatter + 1
    BY <1>4
  <2>1. p + k \in 1..n /\ p \in Nat
    BY <1>1, <1>6
  <2>2. n + m <= (p + k) + chatter + 1
    BY <1>5, <2>1
  <2> QED
    BY <1>1, <1>6, <2>1, <2>2
<1>10. UBOOT \in In(buffer') => (n - k) + m <= chatter + 1
  <2>1. CASE UBOOT \in In(buffer)
    BY <1>1, <1>5, <1>6, <2>1
  <2>2. ASSUME NEW i \in 1..k, toHost[i] = UBOOT
        PROVE  (n - k) + m <= chatter + 1
    <3>1. i \in 1..n /\ i <= k /\ i \in Nat
      BY <1>1, <1>6
    <3>2. n + m <= i + chatter + 1
      BY <1>5, <2>2, <3>1
    <3> QED
      BY <1>1, <1>6, <3>1, <3>2
  <2> QED
    BY <1>8, <2>1, <2>2
<1>11. (b + k) + (n - k) + m = b + n + m
  BY <1>1, <1>6
<1>12. phase \notin {"prepare", "wake", "send"}
  BY <1>2 DEF Waits
<1>13. /\ chatter' \in 0..MaxChatter /\ Ending(out')
       /\ \A p \in 1..Len(toHost') : toHost'[p] = UBOOT => Len(toHost') + Len(out') <= p + chatter' + 1
       /\ UBOOT \in In(buffer') => Len(toHost') + Len(out') <= chatter' + 1
       /\ phase' = "output" => Len(buffer') + Len(toHost') + Len(out') <= chatter' + 7
       /\ phase' = "output" /\ toBoard' # <<>> => Len(buffer') + Len(toHost') + Len(out') <= chatter' + 1
  <2>1. chatter' \in 0..MaxChatter
    BY <1>2 DEF Behind
  <2> QED
    BY <1>2, <1>4, <1>5, <1>6, <1>7, <1>9, <1>10, <1>11, <2>1
<1> QED
  BY <1>2, <1>12, <1>13 DEF Behind

\* A command is sent.
LEMMA BehindSends ==
    ASSUME QuietInv, Behind, SendCommand
    PROVE  Behind'
<1>1. phase = "send" /\ buffer' = <<>> /\ UNCHANGED <<toHost, out, chatter>> /\ phase' \in {"crc_wait", "reset_wait", "output"}
  BY DEF SendCommand, boardVars
<1>2. Running /\ UBOOT \notin In(buffer') /\ Len(buffer') = 0
  BY <1>1, InEmpty DEF Running
<1> DEFINE n == Len(toHost)
           m == Len(out)
<1>3. n \in Nat /\ m \in Nat /\ chatter \in Nat
  BY TypeFacts, FlashAssumption DEF Behind
<1>4. n + m <= chatter + 1 /\ \A p \in 1..n : toHost[p] = UBOOT => n + m <= p + chatter + 1
  BY <1>1, <1>2 DEF Behind
<1>5. chatter' \in 0..MaxChatter /\ Ending(out')
  BY <1>1, <1>2 DEF Behind, Ending
<1>6. Len(toHost') = n /\ Len(out') = m /\ toHost' = toHost /\ chatter' = chatter
  BY <1>1
<1> HIDE DEF n, m
<1>7. 0 + n + m <= chatter + 1 /\ 0 + n + m <= chatter + 7
  BY <1>3, <1>4
<1>8. phase' \notin {"prepare", "wake", "send"}
  BY <1>1
<1> QED
  BY <1>2, <1>4, <1>5, <1>6, <1>7, <1>8 DEF Behind

\* A token leaves the board.
LEMMA BehindTransmits ==
    ASSUME QuietInv, Behind, Transmit
    PROVE  Behind'
<1> DEFINE n == Len(toHost)
           m == Len(out)
           b == Len(buffer)
<1>0. CASE ~Running
  BY <1>0 DEF Transmit, runnerVars, Running, Behind
<1> SUFFICES ASSUME Running PROVE Behind'
  BY <1>0
<1>1. /\ out # <<>> /\ toHost' = Append(toHost, Head(out)) /\ out' = Tail(out)
      /\ UNCHANGED <<phase, buffer, toBoard, chatter>>
  BY DEF Transmit, runnerVars
<1>2. toHost \in Seq(Symbols) /\ out \in Seq(Symbols) /\ n \in Nat /\ b \in Nat /\ chatter \in Nat
  BY TypeFacts, FlashAssumption DEF Behind
<1>3. /\ m \in Nat \ {0} /\ Head(out) = out[1] /\ Head(out) \in Symbols /\ Len(out') = m - 1
      /\ \A i \in 1..m - 1 : out'[i] = out[i + 1]
  BY <1>1, <1>2, TailFacts
<1>4. Len(toHost') = n + 1 /\ toHost'[n + 1] = out[1] /\ \A i \in 1..n : toHost'[i] = toHost[i]
  BY <1>1, <1>2, <1>3
<1>5. /\ \A p \in 1..m : out[p] = UBOOT => m <= p + 1
      /\ \A p \in 1..n : toHost[p] = UBOOT => n + m <= p + chatter + 1
      /\ UBOOT \in In(buffer) \/ phase \in {"prepare", "wake", "send"} => n + m <= chatter + 1
      /\ phase = "output" => b + n + m <= chatter + 7
      /\ phase = "output" /\ toBoard # <<>> => b + n + m <= chatter + 1
      /\ chatter \in 0..MaxChatter
  BY DEF Behind, Ending
<1>6. Len(buffer') = b
  BY <1>1
<1> HIDE DEF n, m, b
<1>7. (n + 1) + (m - 1) = n + m /\ b + (n + 1) + (m - 1) = b + n + m
  BY <1>2, <1>3
<1>8. \A p \in 1..m - 1 : out'[p] = UBOOT => m - 1 <= p + 1
  <2> SUFFICES ASSUME NEW p \in 1..m - 1, out[p + 1] = UBOOT PROVE m - 1 <= p + 1
    BY <1>3
  <2>1. p + 1 \in 1..m /\ p \in Nat
    BY <1>3
  <2>2. m <= (p + 1) + 1
    BY <1>5, <2>1
  <2> QED
    BY <1>3, <2>1, <2>2
<1>9. \A p \in 1..n + 1 : toHost'[p] = UBOOT => n + m <= p + chatter + 1
  <2> SUFFICES ASSUME NEW p \in 1..n + 1, toHost'[p] = UBOOT PROVE n + m <= p + chatter + 1
    OBVIOUS
  <2>1. CASE p \in 1..n
    BY <1>4, <1>5, <2>1
  <2>2. CASE p = n + 1
    <3>1. out[1] = UBOOT /\ 1 \in 1..m
      BY <1>3, <1>4, <2>2
    <3>2. m <= 1 + 1
      BY <1>5, <3>1
    <3> QED
      BY <1>2, <1>3, <2>2, <3>2
  <2> QED
    BY <1>2, <2>1, <2>2
<1>10. Ending(out')
  BY <1>3, <1>8 DEF Ending
<1> QED
  BY <1>1, <1>3, <1>4, <1>5, <1>6, <1>7, <1>9, <1>10 DEF Behind

\* U-Boot prints a line of its own.
LEMMA BehindChatters ==
    ASSUME QuietInv, Behind, Chatter
    PROVE  Behind'
<1> DEFINE n == Len(toHost)
           m == Len(out)
           b == Len(buffer)
<1>1. /\ toHost' = Append(toHost, TEXT) /\ chatter < MaxChatter /\ chatter' = chatter + 1
      /\ UNCHANGED <<phase, buffer, toBoard, out>>
  BY DEF Chatter, runnerVars
<1>2. toHost \in Seq(Symbols) /\ n \in Nat /\ b \in Nat /\ m \in Nat /\ chatter \in Nat /\ MaxChatter \in Nat
  BY TypeFacts, FlashAssumption DEF Behind
<1>3. chatter + 1 \in 0..MaxChatter
  BY <1>1, <1>2
<1>4. Len(toHost') = n + 1 /\ toHost'[n + 1] = TEXT /\ \A i \in 1..n : toHost'[i] = toHost[i]
  BY <1>1, <1>2
<1>5. Running =>
      /\ Ending(out)
      /\ \A p \in 1..n : toHost[p] = UBOOT => n + m <= p + chatter + 1
      /\ UBOOT \in In(buffer) \/ phase \in {"prepare", "wake", "send"} => n + m <= chatter + 1
      /\ phase = "output" => b + n + m <= chatter + 7
      /\ phase = "output" /\ toBoard # <<>> => b + n + m <= chatter + 1
  BY DEF Behind
<1>6. Len(buffer') = b /\ Len(out') = m /\ (Ending(out) => Ending(out'))
  BY <1>1 DEF Ending
<1>7. TEXT # UBOOT
  BY DEF TEXT, UBOOT
<1> HIDE DEF n, m, b
<1>8. /\ Running => \A p \in 1..n + 1 : toHost'[p] = UBOOT => (n + 1) + m <= p + (chatter + 1) + 1
      /\ n + m <= chatter + 1 => (n + 1) + m <= (chatter + 1) + 1
      /\ b + n + m <= chatter + 7 => b + (n + 1) + m <= (chatter + 1) + 7
      /\ b + n + m <= chatter + 1 => b + (n + 1) + m <= (chatter + 1) + 1
  <2>1. ASSUME Running, NEW p \in 1..n + 1, toHost'[p] = UBOOT
        PROVE  (n + 1) + m <= p + (chatter + 1) + 1
    <3>1. p # n + 1
      BY <1>4, <1>7, <2>1
    <3>2. p \in 1..n /\ p \in Nat
      BY <1>2, <3>1
    <3>3. n + m <= p + chatter + 1
      BY <1>4, <1>5, <2>1, <3>2
    <3> QED
      BY <1>2, <3>2, <3>3
  <2> QED
    BY <1>2, <2>1
<1>9. Running' <=> Running
  BY <1>1 DEF Running
<1> QED
  BY <1>1, <1>3, <1>4, <1>5, <1>6, <1>8, <1>9 DEF Behind

\* The board takes a line, and answers it.
LEMMA BehindTakes ==
    ASSUME QuietInv, Behind, NEW line, Take(line), out' \in Seq(Symbols), Ending(out'),
           phase = "output" => Len(out') = 6
    PROVE  Behind'
<1> DEFINE n == Len(toHost)
           m == Len(out')
           b == Len(buffer)
<1>1. /\ toBoard' = <<>> /\ toBoard # <<>> /\ out = <<>> /\ UNCHANGED <<phase, buffer, toHost, chatter>>
      /\ phase \in {"wake_wait", "output", "crc_wait", "reset_wait", "eot_wait", "loadx_wait", "failed"}
      /\ Running => UBOOT \notin In(toHost) /\ UBOOT \notin In(buffer)
  BY TakeFacts DEF runnerVars, Closers
<1>2. n \in Nat /\ b \in Nat /\ m \in Nat /\ chatter \in Nat /\ Len(out) = 0
  BY <1>1, TypeFacts, FlashAssumption DEF Behind
<1>3. chatter' \in 0..MaxChatter
  BY <1>1 DEF Behind
<1>4. Running /\ phase = "output" => b + n + 0 <= chatter + 1
  BY <1>1, <1>2 DEF Behind
<1>5. Running => \A p \in 1..n : toHost[p] # UBOOT
  BY <1>1 DEF In
<1>6. Len(toHost') = n /\ Len(buffer') = b /\ toHost' = toHost
  BY <1>1
<1> HIDE DEF n, m, b
<1>7. Running /\ phase = "output" => b + n + m <= chatter + 7
  <2>1. phase = "output" => m = 6
    BY DEF m
  <2> QED
    BY <1>2, <1>4, <2>1
<1>8. Running' => Running
  BY <1>1 DEF Running
<1> QED
  BY <1>1, <1>3, <1>5, <1>6, <1>7, <1>8 DEF Behind, m

\* What runs after the reset goes on.
LEMMA BehindLogs ==
    ASSUME ReplyFits, QuietInv, Behind, LogOn
    PROVE  Behind'
<1>1. /\ UNCHANGED <<phase, buffer, toBoard, chatter>> /\ phase \in {"reset_wait", "done", "failed"}
      /\ out = <<>> /\ out' = <<>>
  BY DEF LogOn, ReplyFits, QuietInv, Placed, runnerVars, boardVars
<1>2. toHost' = <<TEXT>>
  BY DEF LogOn
<1>3. Len(out') = 0 /\ Len(toHost') = 1 /\ toHost'[1] = TEXT /\ 1..1 = {1} /\ TEXT # UBOOT
  BY <1>1, <1>2 DEF TEXT, UBOOT
<1>4. Ending(out')
  BY <1>3 DEF Ending
<1>5. chatter \in Nat
  BY FlashAssumption DEF Behind
<1>6. Len(toHost') + Len(out') <= chatter + 1 /\ \A p \in 1..Len(toHost') : toHost'[p] # UBOOT
  BY <1>3, <1>5
<1> QED
  BY <1>1, <1>4, <1>6 DEF Behind, Running

\* Every step of the board.
LEMMA BoardBehind ==
    ASSUME ReplyFits, QuietInv, Behind, Board
    PROVE  Behind'
<1>1. CASE TakeWake
  <2>1. Take(Wake) /\ out' = <<CTL>> \o ShellPrompt
    BY <1>1 DEF TakeWake
  <2> DEFINE s == <<CTL>>
  <2>2. s \in Seq(Symbols) /\ In(s) = {CTL}
    BY InOne DEF Symbols, Tokens
  <2>3. out' = s \o ShellPrompt
    BY <2>1
  <2>4. UBOOT # CTL
    BY DEF UBOOT, CTL
  <2> HIDE DEF s
  <2>5. Ending(s \o ShellPrompt)
    BY <2>2, <2>4, PromptEnds
  <2>6. s \o ShellPrompt \in Seq(Symbols)
    BY <2>2, InConcat DEF ShellPrompt, Symbols, Tokens
  <2>7. Ending(out')
    BY <2>3, <2>5 DEF Ending
  <2>8. phase # "output"
    BY <2>1, TakeFacts, TypeFacts, CurrentFacts
  <2> QED
    BY <2>1, <2>3, <2>6, <2>7, <2>8, BehindTakes
<1>2. ASSUME NEW line, Take(line), NEW told \in {LOADADDR, ERASED, WRITTEN, TEXT} \cup FilesizeLines,
             out' = Reply(<<told>>)
      PROVE  Behind'
  <2>1. told \in Tokens \cup Lines /\ told # UBOOT
    BY LineSets DEF Tokens, Lines, LOADADDR, ERASED, WRITTEN, TEXT, UBOOT
  <2>2. Ending(out') /\ Len(out') = 6
    <3>1. Ending(Reply(<<told>>)) /\ Len(Reply(<<told>>)) = 6
      BY <2>1, ReplyEnds
    <3> QED
      BY <1>2, <3>1 DEF Ending
  <2>3. out' \in Seq(Symbols)
    BY <1>2, <2>1, ReplyFacts
  <2> QED
    BY <1>2, <2>2, <2>3, BehindTakes
<1>3. CASE TakePrintenv
  <2>1. CASE Take(Command("loadaddr", "none")) /\ out' = Reply(<<LOADADDR>>)
    BY <1>2, <2>1
  <2>2. ASSUME NEW image \in Images, Take(Command("filesize", image)), filesize # "unset",
               out' = Reply(<<FilesizeOf[filesize]>>)
        PROVE  Behind'
    <3>1. filesize \in {"preloader", "fip", "other"}
      BY <2>2 DEF QuietInv, TypeOK, Images
    <3>2. FilesizeOf[filesize] \in FilesizeLines
      BY <3>1, LineSets
    <3> QED
      BY <1>2, <2>2, <3>2
  <2> QED
    BY <1>3, <2>1, <2>2 DEF TakePrintenv
<1>4. CASE TakeErase \/ TakeWrite \/ TakeFails
  BY <1>2, <1>4 DEF TakeErase, TakeWrite, TakeFails
<1>5. CASE TakeLoadx
  <2>1. PICK image \in Images : Take(Command("loadx", image))
    BY <1>5 DEF TakeLoadx
  <2> DEFINE ready == <<TEXT, CTL, CRC, CRC, CRC>>
             line == Command("loadx", image)
  <2>2. out' = ready /\ Take(line) /\ line.op = "loadx"
    BY <1>5, <2>1 DEF TakeLoadx, Command
  <2>3. /\ ready \in Seq(Symbols) /\ Len(ready) = 5
        /\ ready[1] = TEXT /\ ready[2] = CTL /\ ready[3] = CRC /\ ready[4] = CRC /\ ready[5] = CRC
    BY DEF Symbols, Tokens
  <2>4. 1..5 = {1, 2, 3, 4, 5} /\ TEXT # UBOOT /\ CTL # UBOOT /\ CRC # UBOOT
    BY DEF TEXT, CTL, CRC, UBOOT
  <2> HIDE DEF ready, line
  <2>5. UBOOT \notin In(ready)
    BY <2>3, <2>4 DEF In
  <2>6. out' \in Seq(Symbols) /\ Ending(out')
    BY <2>2, <2>3, <2>5, NoPromptEnds
  <2>7. line # Wake /\ line # EOT
    BY <2>2 DEF Wake, EOT, Command
  <2>8. line = Current
    BY <2>2, <2>7, TakeFacts
  <2>9. phase # "output"
    BY <2>2, <2>8 DEF QuietInv, Placed
  <2> QED
    BY <2>2, <2>6, <2>9, BehindTakes
<1>6. CASE TakeReset
  <2>1. Take(Command("reset", "none"))
    BY <1>6 DEF TakeReset
  <2>2. PICK evidence \in {<<>>, <<RESETTING>>, <<PRESS, CTL>>, <<TEXT, CTL, UBOOTBANNER>>} :
           out' = <<TEXT, CTL, TEXT, CTL>> \o evidence
    BY <1>6 DEF TakeReset
  <2> DEFINE start == <<TEXT, CTL, TEXT, CTL>>
             line == Command("reset", "none")
             Harmless == {TEXT, CTL, RESETTING, PRESS, UBOOTBANNER}
  <2>3. start \in Seq(Harmless) /\ evidence \in Seq(Harmless)
    <3>1. /\ start \in Seq(Harmless) /\ <<>> \in Seq(Harmless) /\ <<RESETTING>> \in Seq(Harmless)
          /\ <<PRESS, CTL>> \in Seq(Harmless)
      OBVIOUS
    <3>2. <<TEXT, CTL, UBOOTBANNER>> \in Seq(Harmless)
      OBVIOUS
    <3> HIDE DEF start, Harmless
    <3> QED
      BY <2>2, <3>1, <3>2
  <2>4. out' = start \o evidence
    BY <2>2
  <2>5. Harmless \subseteq Symbols /\ UBOOT \notin Harmless
    BY DEF Symbols, Tokens, Lines, TEXT, CTL, RESETTING, PRESS, UBOOTBANNER, UBOOT
  <2>6. line.op = "reset" /\ line # Wake /\ line # EOT /\ Take(line)
    BY <2>1 DEF Command, Wake, EOT
  <2> HIDE DEF start, Harmless, line
  <2>7. out' \in Seq(Harmless)
    BY <2>3, <2>4
  <2>8. out' \in Seq(Symbols) /\ UBOOT \notin In(out')
    BY <2>5, <2>7 DEF In
  <2>9. line = Current
    BY <2>6, TakeFacts
  <2>10. phase # "output"
    BY <2>6, <2>9 DEF QuietInv, Placed
  <2>11. Ending(out')
    BY <2>8, NoPromptEnds
  <2> QED
    BY <2>6, <2>8, <2>10, <2>11, BehindTakes
<1>7. CASE TakeEot
  <2>1. Take(EOT) /\ mode = "receive"
    BY <1>7 DEF TakeEot
  <2>2. phase # "output"
    BY <2>1 DEF QuietInv, Placed
  <2>3. CASE out' = <<NAK>>
    <3>1. <<NAK>> \in Seq(Symbols) /\ In(<<NAK>>) = {NAK}
      BY InOne DEF Symbols, Answers
    <3>2. UBOOT # NAK
      BY DEF UBOOT, NAK
    <3>3. out' \in Seq(Symbols) /\ Ending(out')
      BY <2>3, <3>1, <3>2, NoPromptEnds
    <3> QED
      BY <2>1, <2>2, <3>3, BehindTakes
  <2>4. ASSUME NEW s \in Seq(Symbols), UBOOT \notin In(s), out' = s \o ShellPrompt
        PROVE  Behind'
    <3>1. Ending(s \o ShellPrompt)
      BY <2>4, PromptEnds
    <3>2. Ending(out')
      BY <2>4, <3>1 DEF Ending
    <3>3. ShellPrompt \in Seq(Symbols)
      BY DEF ShellPrompt, Symbols, Tokens
    <3>4. out' \in Seq(Symbols)
      BY <2>4, <3>3, InConcat
    <3> QED
      BY <2>1, <2>2, <3>2, <3>4, BehindTakes
  <2>5. CASE out' = <<TEXT, CTL>> \o ShellPrompt
    <3> DEFINE s == <<TEXT, CTL>>
    <3>1. s \in Seq(Symbols) /\ Len(s) = 2 /\ s[1] = TEXT /\ s[2] = CTL /\ 1..2 = {1, 2}
      BY DEF Symbols, Tokens
    <3>2. TEXT # UBOOT /\ CTL # UBOOT /\ out' = s \o ShellPrompt
      BY <2>5 DEF TEXT, CTL, UBOOT
    <3> HIDE DEF s
    <3>3. UBOOT \notin In(s)
      BY <3>1, <3>2 DEF In
    <3> QED
      BY <2>4, <3>1, <3>2, <3>3
  <2>6. ASSUME NEW answer \in {<<>>, <<ACK>>}, NEW loaded \in {ram} \cup (IF Faulty THEN {"other"} ELSE {}),
               NEW summary \in {<<>>, <<TotalOf[loaded]>>} \cup (IF Faulty THEN {<<MALFORMED>>} ELSE {}),
               out' = answer \o summary \o <<CTL>> \o ShellPrompt
        PROVE  Behind'
    <3> DEFINE close == <<CTL>>
               s == (answer \o summary) \o close
    <3>1. loaded \in {"preloader", "fip", "other"}
      BY <2>1, TypeFacts, CurrentFacts DEF QuietInv, Placed
    <3>2. TotalOf[loaded] \in TotalLines
      BY <3>1, LineSets
    <3>3. summary \in {<<>>, <<TotalOf[loaded]>>, <<MALFORMED>>}
      OBVIOUS
    <3>4. ACK # UBOOT /\ CTL # UBOOT /\ MALFORMED # UBOOT /\ TotalOf[loaded] # UBOOT
      BY <3>2, LineSets DEF ACK, CTL, MALFORMED, UBOOT
    <3>5. ASSUME NEW e \in Symbols, e # UBOOT
          PROVE  <<e>> \in Seq(Symbols) /\ UBOOT \notin In(<<e>>)
      <4>1. <<e>> \in Seq(Symbols)
        OBVIOUS
      <4>2. In(<<e>>) = {e}
        BY InOne
      <4> QED
        BY <3>5, <4>1, <4>2
    <3>6. <<>> \in Seq(Symbols) /\ UBOOT \notin In(<<>>)
      BY InEmpty
    <3>7. {ACK, CTL, MALFORMED, TotalOf[loaded]} \subseteq Symbols
      BY <3>2 DEF Symbols, Tokens, Lines, Answers
    <3>8. answer \in Seq(Symbols) /\ UBOOT \notin In(answer)
      BY <3>4, <3>5, <3>6, <3>7
    <3>9. summary \in Seq(Symbols) /\ UBOOT \notin In(summary)
      BY <3>3, <3>4, <3>5, <3>6, <3>7
    <3>10. close \in Seq(Symbols) /\ UBOOT \notin In(close)
      BY <3>4, <3>5, <3>7
    <3>11. out' = s \o ShellPrompt
      BY <2>6
    <3> DEFINE both == answer \o summary
    <3>12. both \in Seq(Symbols) /\ UBOOT \notin In(both)
      BY <3>8, <3>9, InConcat
    <3>13. s = both \o close
      OBVIOUS
    <3> HIDE DEF close, both, s
    <3>14. s \in Seq(Symbols) /\ UBOOT \notin In(s)
      BY <3>10, <3>12, <3>13, InConcat
    <3> QED
      BY <2>4, <3>11, <3>14
  <2> QED
    BY <1>7, <2>3, <2>5, <2>6 DEF TakeEot
<1> QED
  BY <1>1, <1>3, <1>4, <1>5, <1>6, <1>7, BehindTransmits, BehindChatters, BehindLogs DEF Board

\* Every step of the program.
LEMMA RunnerBehind ==
    ASSUME QuietInv, Behind, Runner
    PROVE  Behind'
<1> USE DEF Fail, Accept, ExcuseEot
<1>1. CASE PrepareStagePayloads \/ WakePrompt
  <2>1. /\ UNCHANGED <<toHost, out, buffer, chatter>> /\ phase \in {"prepare", "wake"}
        /\ phase' \in {"wake", "wake_wait", "failed"}
    BY <1>1 DEF PrepareStagePayloads, WakePrompt, boardVars
  <2> QED
    BY <2>1, BehindStays DEF Running
<1>2. CASE SendFails \/ ReadFails \/ DataFails \/ EotFails \/ ResetSeen
  <2>1. chatter' = chatter /\ phase' \in {"failed", "done"}
    BY <1>2 DEF SendFails, ReadFails, DataFails, EotFails, ResetSeen, boardVars
  <2> QED
    BY <2>1, BehindEnds
<1>3. CASE PromptSeen
  <2>1. /\ UNCHANGED <<toHost, out, buffer, chatter>> /\ phase = "wake_wait" /\ phase' = "send" /\ Match # NoMatch
    BY <1>3 DEF PromptSeen, boardVars
  <2>2. UBOOT \in In(buffer)
    BY <2>1, MatchFacts, TypeFacts
  <2> QED
    BY <2>1, <2>2, BehindStays DEF Running
<1>4. CASE CommandDone
  <2>1. /\ UNCHANGED <<toHost, out, buffer, chatter>> /\ phase = "output" /\ phase' \in {"send", "failed"} /\ Match # NoMatch
    BY <1>4 DEF CommandDone, Require, VerifyFilesize, boardVars
  <2>2. UBOOT \in In(buffer)
    BY <2>1, MatchFacts, TypeFacts
  <2> QED
    BY <2>1, <2>2, BehindStays DEF Running
<1>5. CASE LoadxDone
  <2>1. /\ UNCHANGED <<toHost, out, buffer, chatter>> /\ phase = "loadx_wait" /\ phase' \in {"send", "failed"}
        /\ Match # NoMatch
    BY <1>5 DEF LoadxDone, boardVars
  <2>2. UBOOT \in In(buffer)
    BY <2>1, MatchFacts, TypeFacts
  <2> QED
    BY <2>1, <2>2, BehindStays DEF Running
<1>6. CASE CrcReady \/ DataSent \/ WriteEot \/ EotTimesOut
  <2>1. /\ UNCHANGED <<toHost, out, buffer, chatter>> /\ phase \in {"crc_wait", "data", "eot_write", "eot_wait"}
        /\ phase' \in {"data", "eot_write", "eot_wait", "loadx_wait"}
    BY <1>6 DEF CrcReady, DataSent, WriteEot, EotTimesOut, boardVars
  <2> QED
    BY <2>1, BehindStays DEF Running
<1>7. CASE EotAcked \/ EotNaked
  <2>1. /\ UNCHANGED <<out, buffer, chatter>> /\ toHost # <<>> /\ toHost' = Tail(toHost) /\ phase = "eot_wait"
        /\ phase' \in {"eot_write", "loadx_wait"}
    BY <1>7 DEF EotAcked, EotNaked, boardVars
  <2> QED
    BY <2>1, BehindAnswers
<1>8. CASE ReadOn
  <2>1. toHost' = <<>> /\ UNCHANGED <<out, buffer, chatter, phase, toBoard>> /\ toHost = <<TEXT>>
    BY <1>8 DEF ReadOn, GoesOn, runnerVars, boardVars
  <2> DEFINE m == Len(out)
             b == Len(buffer)
  <2>2. m \in Nat /\ b \in Nat /\ chatter \in Nat
    BY TypeFacts, FlashAssumption DEF Behind
  <2>3. Len(toHost) = 1 /\ Len(toHost') = 0
    BY <2>1
  <2>4. /\ m + 1 <= chatter + 1 => 0 + m <= chatter + 1
        /\ 1 + m <= chatter + 1 => 0 + m <= chatter + 1
        /\ b + 1 + m <= chatter + 7 => b + 0 + m <= chatter + 7
        /\ b + 1 + m <= chatter + 1 => b + 0 + m <= chatter + 1
    <3> HIDE DEF m, b
    <3> QED
      BY <2>2
  <2>5. Ending(out') <=> Ending(out)
    BY <2>1 DEF Ending
  <2> QED
    BY <2>1, <2>3, <2>4, <2>5 DEF Behind, Running
<1> QED
  BY <1>1, <1>2, <1>3, <1>4, <1>5, <1>6, <1>7, <1>8, BehindSends, BehindReads DEF Runner

LEMMA BehindStep ==
    ASSUME ReplyFits, QuietInv, Behind, [Next]_vars
    PROVE  Behind'
<1>1. CASE UNCHANGED vars
  BY <1>1 DEF vars, Behind, Running, Ending
<1> QED
  BY <1>1, RunnerBehind, BoardBehind DEF Next

LEMMA BehindInit ==
    ASSUME Init, pending = <<>>
    PROVE  Behind
<1>1. /\ chatter = 0 /\ out = <<>> /\ toHost = <<>> /\ buffer = <<>> /\ phase = "prepare"
      /\ Len(out) = 0 /\ Len(toHost) = 0
  BY DEF Init
<1>2. MaxChatter \in Nat
  BY FlashAssumption
<1>3. Ending(out)
  BY <1>1 DEF Ending
<1> QED
  BY <1>1, <1>2, <1>3 DEF Behind

-----------------------------------------------------------------------------
(* What was done is not denied *)

\* Commands are carried out in their order, each once, after they were sent; an erase or a write
\* that was carried out has said so; and what is reported as refused was taken, and not carried out.
Fresh ==
    /\ Running => result = "running"
    /\ \A p \in 1..9 : p > pos => Script[p] \notin did
    /\ phase \in {"prepare", "wake", "wake_wait", "send"} \/ toBoard = <<Current>> => Current \notin did
    /\ phase = "output" /\ Changing /\ Current \in did => Heard # {}
    /\ result = "Protocol" /\ Changing => Current \notin did /\ toBoard = <<>>

\* No command is run twice.
LEMMA ScriptDiffers ==
    ASSUME NEW p \in 1..9, NEW q \in 1..9, p # q
    PROVE  Script[p] # Script[q]
<1> QED
  BY ScriptFacts

\* What the board does to `did`.
LEMMA BoardDoes ==
    ASSUME QuietInv, Board
    PROVE  /\ UNCHANGED runnerVars /\ Current' = Current
           /\ toBoard' = toBoard \/ (toBoard' = <<>> /\ toBoard # <<>>)
           /\ \/ did' = did /\ Heard \subseteq Heard'
              \/ /\ did' = did \cup {Current} /\ toBoard # <<>> /\ toBoard' = <<>>
                 /\ phase \in {"output", "crc_wait", "reset_wait", "eot_wait", "loadx_wait", "failed"}
                 /\ Changing => Heard' # {}
<1>1. UNCHANGED runnerVars /\ Current' = Current /\ UNCHANGED buffer
  BY DEF Board, Transmit, Chatter, LogOn, boardVars, Take, TakeWake, TakePrintenv, TakeErase, TakeLoadx, TakeWrite,
         TakeFails, TakeEot, TakeReset, runnerVars, Current
<1>2. CASE Transmit
  <2>1. UNCHANGED <<did, toBoard>> /\ out # <<>> /\ toHost' = Append(toHost, Head(out)) /\ out' = Tail(out)
    BY <1>2 DEF Transmit
  <2>2. toHost \in Seq(Symbols) /\ out \in Seq(Symbols)
    BY TypeFacts
  <2>3. In(toHost') = In(toHost) \cup {Head(out)}
    BY <2>1, <2>2, InAppend
  <2>4. In(out) \subseteq {Head(out)} \cup In(out')
    <3>1. /\ Len(out) \in Nat \ {0} /\ Head(out) = out[1] /\ Len(out') = Len(out) - 1
          /\ \A i \in 1..Len(out) - 1 : out'[i] = out[i + 1]
      BY <2>1, <2>2, TailFacts
    <3>2. ASSUME NEW i \in 1..Len(out), i # 1
          PROVE  out[i] \in In(out')
      <4>1. i - 1 \in 1..Len(out') /\ (i - 1) + 1 = i
        BY <3>1, <3>2
      <4>2. out'[i - 1] = out[i]
        BY <3>1, <4>1
      <4> QED
        BY <4>1, <4>2 DEF In
    <3> QED
      BY <3>1, <3>2 DEF In
  <2>5. Heard \subseteq Heard'
    BY <1>1, <2>3, <2>4 DEF Heard
  <2> QED
    BY <1>1, <2>1, <2>5
<1>3. CASE Chatter \/ LogOn
  <2>1. UNCHANGED <<did, toBoard, out>> /\ toHost' = Append(toHost, TEXT)
    BY <1>3 DEF Chatter, LogOn, boardVars
  <2>2. In(toHost') = In(toHost) \cup {TEXT}
    BY <2>1, TypeFacts, InAppend
  <2>3. Heard \subseteq Heard'
    BY <1>1, <2>1, <2>2 DEF Heard
  <2> QED
    BY <1>1, <2>1, <2>3
<1>4. ASSUME NEW line, Take(line)
      PROVE  /\ toBoard' = <<>> /\ toBoard # <<>> /\ Heard \subseteq Heard'
             /\ line \notin {Wake, EOT} => line = Current /\ phase \in {"output", "crc_wait", "reset_wait", "failed"}
             /\ line = EOT => phase \in {"eot_wait", "loadx_wait", "failed"}
  <2>1. /\ toBoard' = <<>> /\ toBoard # <<>> /\ out = <<>> /\ UNCHANGED toHost
        /\ line \notin {Wake, EOT} => line = Current /\ phase \in {"output", "crc_wait", "reset_wait", "failed"}
        /\ line = EOT => phase \in {"eot_wait", "loadx_wait", "failed"}
    BY <1>4, TakeFacts, TypeFacts, CurrentFacts
  <2>2. In(out) = {}
    BY <2>1, InEmpty
  <2>3. Heard \subseteq Heard'
    BY <1>1, <2>1, <2>2 DEF Heard
  <2> QED
    BY <2>1, <2>3
<1>5. CASE TakeWake \/ TakeLoadx \/ TakeFails
  <2>1. did' = did /\ \E line : Take(line)
    BY <1>5 DEF TakeWake, TakeLoadx, TakeFails
  <2> QED
    BY <1>1, <1>4, <2>1
<1>6. ASSUME NEW line, Take(line), line \notin {Wake, EOT}, did' = did \cup {line}, Changing => Heard' # {}
      PROVE  /\ did' = did \cup {Current} /\ toBoard # <<>> /\ toBoard' = <<>>
             /\ phase \in {"output", "crc_wait", "reset_wait", "eot_wait", "loadx_wait", "failed"}
             /\ Changing => Heard' # {}
  BY <1>4, <1>6
<1>7. CASE TakePrintenv \/ TakeReset
  <2>1. PICK line : Take(line) /\ line.op \in {"loadaddr", "filesize", "reset"} /\ did' = did \cup {line}
    BY <1>7 DEF TakePrintenv, TakeReset, Succeeds, Command
  <2>2. line \notin {Wake, EOT}
    BY <2>1 DEF Wake, EOT, Command
  <2>3. ~Changing
    BY <1>4, <2>1, <2>2 DEF Changing
  <2> QED
    BY <1>1, <1>6, <2>1, <2>2, <2>3
<1>8. CASE TakeErase
  <2> DEFINE line == Command("erase", "none")
  <2>1. Take(line) /\ line.op = "erase" /\ did' = did \cup {line} /\ out' = Reply(<<ERASED>>)
    BY <1>8 DEF TakeErase, Succeeds, Command
  <2>2. line \notin {Wake, EOT}
    BY <2>1 DEF Wake, EOT, Command
  <2> HIDE DEF line
  <2>3. Current.op = "erase"
    BY <1>4, <2>1, <2>2
  <2>4. ERASED \in In(out')
    BY <2>1, ReplyFacts, PlainLines
  <2>5. ERASED \in Evident(Current.op)
    BY <2>3 DEF Evident
  <2>6. Heard' # {}
    BY <1>1, <2>4, <2>5 DEF Heard
  <2> QED
    BY <1>1, <1>6, <2>1, <2>2, <2>6
<1>9. CASE TakeWrite
  <2>1. PICK image \in Images : Take(Command("write", image)) /\ Succeeds(Command("write", image))
    BY <1>9 DEF TakeWrite
  <2> DEFINE line == Command("write", image)
  <2>2. Take(line) /\ line.op = "write" /\ did' = did \cup {line} /\ out' = Reply(<<WRITTEN>>)
    BY <1>9, <2>1 DEF TakeWrite, Succeeds, Command
  <2>3. line \notin {Wake, EOT}
    BY <2>2 DEF Wake, EOT, Command
  <2> HIDE DEF line
  <2>4. Current.op = "write"
    BY <1>4, <2>2, <2>3
  <2>5. WRITTEN \in In(out')
    BY <2>2, ReplyFacts, PlainLines
  <2>6. WRITTEN \in Evident(Current.op)
    BY <2>4 DEF Evident
  <2>7. Heard' # {}
    BY <1>1, <2>5, <2>6 DEF Heard
  <2> QED
    BY <1>1, <1>6, <2>2, <2>3, <2>7
<1>10. CASE TakeEot
  <2>1. Take(EOT) /\ mode = "receive" /\ (did' = did \/ did' = did \cup {Command("loadx", ram)})
    BY <1>10 DEF TakeEot, Succeeds
  <2>2. Current.op = "loadx" /\ ram = Current.image
    BY <2>1 DEF QuietInv, Placed
  <2>3. Command("loadx", ram) = Current
    BY <2>2, TypeFacts, ScriptFacts DEF Current
  <2>4. ~Changing
    BY <2>2 DEF Changing
  <2>5. toBoard' = <<>> /\ toBoard # <<>> /\ Heard \subseteq Heard' /\ phase \in {"eot_wait", "loadx_wait", "failed"}
    BY <1>4, <2>1
  <2> QED
    BY <1>1, <2>1, <2>3, <2>4, <2>5
<1> QED
  BY <1>2, <1>3, <1>5, <1>7, <1>8, <1>9, <1>10 DEF Board

\* Every step of the board.
LEMMA BoardFresh ==
    ASSUME QuietInv, Fresh, Board
    PROVE  Fresh'
<1>1. /\ UNCHANGED <<phase, pos, result>> /\ Current' = Current /\ (Changing' <=> Changing) /\ (Running' <=> Running)
      /\ toBoard' = toBoard \/ (toBoard' = <<>> /\ toBoard # <<>>)
  BY BoardDoes DEF runnerVars, Changing, Running
<1>2. pos \in 1..9
  BY TypeFacts
<1>3. CASE did' = did /\ Heard \subseteq Heard'
  <2>1. toBoard' = <<Current'>> => toBoard = <<Current>>
    BY <1>1
  <2> QED
    BY <1>1, <1>3, <2>1 DEF Fresh
<1>4. CASE /\ did' = did \cup {Current} /\ toBoard # <<>> /\ toBoard' = <<>>
           /\ phase \in {"output", "crc_wait", "reset_wait", "eot_wait", "loadx_wait", "failed"}
           /\ Changing => Heard' # {}
  <2>1. \A p \in 1..9 : p > pos => Script[p] # Current
    BY <1>2, ScriptDiffers DEF Current
  <2>2. toBoard' # <<Current'>>
    BY <1>4
  <2> QED
    BY <1>1, <1>4, <2>1, <2>2 DEF Fresh
<1> QED
  BY <1>3, <1>4, BoardDoes

\* A command is accepted.
LEMMA AcceptFresh ==
    ASSUME QuietInv, QuietInv', Fresh, Running, NEW more, Accept(more), UNCHANGED <<did, toBoard>>
    PROVE  Fresh'
<1>1. pos' = pos + 1 /\ phase' = "send" /\ result' = result
  BY DEF Accept
<1>2. pos \in 1..9 /\ pos' \in 1..9
  <2>1. pos' \in 1..Len(Script)
    BY DEF QuietInv, TypeOK
  <2> QED
    BY <2>1, TypeFacts, ScriptFacts
<1>3. \A p \in 1..9 : p > pos' => p > pos
  BY <1>1, <1>2
<1>4. Current' = Script[pos'] /\ pos' > pos
  BY <1>1, <1>2 DEF Current
<1>5. result = "running"
  BY DEF Fresh
<1> QED
  BY <1>1, <1>2, <1>3, <1>4, <1>5 DEF Fresh, Running

\* A run ends, and nothing is said to be refused.
LEMMA FailureFresh ==
    ASSUME QuietInv, Fresh, UNCHANGED <<pos, did>>, phase' \in {"failed", "done"},
           toBoard' = toBoard \/ phase \in {"wake", "send"} \/ toBoard' = <<EOT>>,
           result' # "Protocol" \/ ~Changing
    PROVE  Fresh'
<1>1. Current' = Current /\ (Changing' <=> Changing)
  BY DEF Current, Changing
<1>2. Current # EOT
  BY TypeFacts, CurrentFacts
<1> QED
  BY <1>1, <1>2 DEF Fresh, Running

\* A command was refused: U-Boot has taken it, and what it said is no success.
LEMMA RequireFresh ==
    ASSUME QuietInv, QuietInv', Fresh, NEW kind, Require(kind), UNCHANGED <<did, toBoard>>, phase = "output",
           UBOOT \in In(buffer), Changing => kind = Evident(Current.op)
    PROVE  Fresh'
<1>1. CASE Reports(buffer, kind)
  BY <1>1, AcceptFresh DEF Require, Running
<1>2. CASE ~Reports(buffer, kind)
  <2>1. UNCHANGED <<pos, did, toBoard>> /\ phase' = "failed"
    BY <1>2 DEF Require, Fail
  <2>2. Quiet(toHost) /\ Quiet(out) /\ toBoard = <<>>
    BY DEF QuietInv, Wire, Running
  <2>3. ASSUME Changing
        PROVE  Current \notin did
    <3>1. In(buffer) \cap Evident(Current.op) = {}
      BY <1>2, <2>3 DEF Reports, LinesOf, In
    <3>2. Heard = {}
      BY <2>2, <3>1, EvidentIsLoud DEF Heard, Quiet
    <3> QED
      BY <2>3, <3>2 DEF Fresh
  <2>4. Current' = Current /\ (Changing' <=> Changing)
    BY <2>1 DEF Current, Changing
  <2> QED
    BY <2>1, <2>2, <2>3, <2>4 DEF Fresh, Running
<1> QED
  BY <1>1, <1>2

\* What a read takes from the wire it puts in the buffer.
LEMMA ReadKeepsHeard ==
    ASSUME QuietInv, ReadData, Changing
    PROVE  Heard \subseteq Heard'
<1>1. UNCHANGED out /\ Current' = Current
  BY DEF ReadData, boardVars, Current
<1>2. PICK n \in 1..Len(toHost) :
         /\ Len(buffer') = Len(buffer) + n /\ Len(toHost') = Len(toHost) - n
         /\ \A i \in 1..Len(buffer) : buffer'[i] = buffer[i]
         /\ \A i \in 1..n : toHost[i] \notin Answers => buffer'[Len(buffer) + i] = toHost[i]
         /\ \A i \in 1..Len(toHost) - n : toHost'[i] = toHost[i + n]
  BY TypeFacts, ReadMoves
<1>3. Len(buffer) \in Nat /\ Len(toHost) \in Nat /\ n \in Nat
  BY TypeFacts
<1>4. In(buffer) \subseteq In(buffer')
  <2>1. 1..Len(buffer) \subseteq 1..Len(buffer')
    BY <1>2, <1>3
  <2> QED
    BY <1>2, <2>1 DEF In
<1>5. ASSUME NEW i \in 1..Len(toHost), toHost[i] \notin Answers
      PROVE  toHost[i] \in In(buffer') \cup In(toHost')
  <2>1. CASE i \in 1..n
    <3>1. Len(buffer) + i \in 1..Len(buffer')
      BY <1>2, <1>3, <2>1
    <3>2. buffer'[Len(buffer) + i] = toHost[i]
      BY <1>2, <1>5, <2>1
    <3> QED
      BY <3>1, <3>2 DEF In
  <2>2. CASE i \notin 1..n
    <3>1. i - n \in 1..Len(toHost') /\ (i - n) + n = i
      BY <1>2, <1>3, <2>2
    <3>2. toHost'[i - n] = toHost[i]
      BY <1>2, <3>1
    <3> QED
      BY <3>1, <3>2 DEF In
  <2> QED
    BY <2>1, <2>2
<1>6. Evident(Current.op) \cap Answers = {}
  <2>1. Current.op \in {"erase", "write"}
    BY DEF Changing
  <2>2. Evident(Current.op) \subseteq {ERASED, WRITTEN}
    BY <2>1 DEF Evident
  <2>3. {ERASED, WRITTEN} \cap Answers = {}
    BY DEF ERASED, WRITTEN, Answers, ACK, NAK, CAN
  <2> QED
    BY <2>2, <2>3
<1>7. In(toHost) \cap Evident(Current.op) \subseteq In(buffer') \cup In(toHost')
  BY <1>5, <1>6 DEF In
<1> QED
  BY <1>1, <1>4, <1>7 DEF Heard

\* Every step of the program.
LEMMA RunnerFresh ==
    ASSUME ReplyFits, QuietInv, QuietInv', Behind, Fresh, Runner
    PROVE  Fresh'
<1> USE DEF Fail, ExcuseEot
<1>0. pos \in 1..9
  BY TypeFacts
<1>1. CASE PrepareStagePayloads
  <2>1. /\ UNCHANGED <<pos, did, toBoard>> /\ phase = "prepare" /\ phase' \in {"wake", "failed"}
        /\ phase' = "failed" => result' # "Protocol"
        /\ phase' = "wake" => result' = result
    BY <1>1 DEF PrepareStagePayloads, boardVars
  <2>2. CASE phase' = "failed"
    BY <2>1, <2>2, FailureFresh
  <2>3. CASE phase' = "wake"
    BY <2>1, <2>3 DEF Fresh, Running, Current, Changing
  <2> QED
    BY <2>1, <2>2, <2>3
<1>2. CASE WakePrompt
  <2>1. /\ UNCHANGED <<pos, did, result>> /\ phase = "wake" /\ phase' = "wake_wait" /\ Current' = Current
    BY <1>2 DEF WakePrompt, boardVars, Current
  <2>2. result = "running" /\ Current \notin did
    BY <2>1 DEF Fresh, Running
  <2> QED
    BY <2>1, <2>2 DEF Fresh, Running
<1>3. CASE SendCommand
  <2>1. /\ UNCHANGED <<pos, did, result>> /\ phase = "send" /\ phase' # "done" /\ Current' = Current
        /\ phase' \in {"crc_wait", "reset_wait", "output"}
    BY <1>3 DEF SendCommand, boardVars, Current
  <2>2. result = "running" /\ Current \notin did
    BY <2>1 DEF Fresh, Running
  <2> QED
    BY <2>1, <2>2 DEF Fresh, Running
<1>4. CASE ReadData
  <2>1. UNCHANGED <<phase, pos, did, toBoard, result>> /\ Current' = Current /\ (Changing' <=> Changing)
    BY <1>4 DEF ReadData, boardVars, Current, Changing
  <2>2. Changing => Heard \subseteq Heard'
    BY <1>4, ReadKeepsHeard
  <2> QED
    BY <2>1, <2>2 DEF Fresh, Running
<1>5. CASE SendFails \/ DataFails \/ EotFails
  <2>1. /\ UNCHANGED <<pos, did>> /\ phase' = "failed" /\ result' # "Protocol"
        /\ toBoard' = toBoard \/ phase \in {"wake", "send"} \/ toBoard' = <<EOT>>
    BY <1>5 DEF SendFails, DataFails, EotFails, boardVars, QuietInv, Placed
  <2> QED
    BY <2>1, FailureFresh
<1>6. CASE ReadFails
  <2>1. UNCHANGED <<pos, did, toBoard>> /\ phase' = "failed" /\ (result' = "Protocol" => TooLong)
    BY <1>6 DEF ReadFails, boardVars
  <2>2. ~TooLong
    <3> SUFFICES ASSUME phase = "output" PROVE ~(Len(buffer) > OutputLimit)
      BY DEF TooLong
    <3> DEFINE b == Len(buffer)
               n == Len(toHost)
               m == Len(out)
    <3>1. b + n + m <= chatter + 7
      BY DEF Behind, Running
    <3>2. b \in Nat /\ n \in Nat /\ m \in Nat
      BY TypeFacts
    <3>3. chatter \in 0..MaxChatter /\ MaxChatter \in Nat /\ OutputLimit \in Nat /\ MaxChatter + 7 <= OutputLimit
      BY FlashAssumption, UBootAssumption DEF Behind, ReplyFits
    <3> HIDE DEF b, n, m
    <3>4. ~(b > OutputLimit)
      BY <3>1, <3>2, <3>3
    <3> QED
      BY <3>4 DEF b
  <2> QED
    BY <2>1, <2>2, FailureFresh
<1>7. CASE PromptSeen
  <2>1. /\ UNCHANGED <<pos, did, result, toBoard>> /\ phase = "wake_wait" /\ phase' = "send" /\ Current' = Current
    BY <1>7 DEF PromptSeen, boardVars, Current
  <2>2. result = "running" /\ Current \notin did
    BY <2>1 DEF Fresh, Running
  <2> QED
    BY <2>1, <2>2 DEF Fresh, Running
<1>8. CASE CommandDone
  <2>1. phase = "output" /\ Match # NoMatch /\ UNCHANGED <<did, toBoard>>
    BY <1>8 DEF CommandDone, boardVars
  <2>2. UBOOT \in In(buffer)
    BY <2>1, MatchFacts, TypeFacts
  <2>3. CASE Current.op = "loadaddr" /\ Require({LOADADDR})
    BY <2>1, <2>2, <2>3, RequireFresh DEF Changing
  <2>4. CASE Current.op = "erase" /\ Require({ERASED})
    <3>1. Evident(Current.op) = {ERASED}
      BY <2>4 DEF Evident
    <3> QED
      BY <2>1, <2>2, <2>4, <3>1, RequireFresh
  <2>5. CASE Current.op = "filesize" /\ VerifyFilesize
    <3>1. \/ /\ UNCHANGED <<pos, buffer>> /\ phase' = "failed"
          \/ Accept(<<<<"ImageVerified", Current.image>>, Completed>>)
      BY <2>5 DEF VerifyFilesize
    <3>2. ~Changing
      BY <2>5 DEF Changing
    <3> DEFINE more == <<<<"ImageVerified", Current.image>>, Completed>>
    <3>3. CASE Accept(more)
      <4> HIDE DEF more
      <4> QED
        BY <2>1, <3>3, AcceptFresh DEF Running
    <3> QED
      BY <2>1, <3>1, <3>2, <3>3, FailureFresh
  <2>6. CASE Current.op = "write" /\ Require({WRITTEN})
    <3>1. Evident(Current.op) = {WRITTEN}
      BY <2>6 DEF Evident
    <3> QED
      BY <2>1, <2>2, <2>6, <3>1, RequireFresh
  <2> QED
    BY <1>8, <2>3, <2>4, <2>5, <2>6 DEF CommandDone
<1>9. CASE CrcReady \/ DataSent \/ EotAcked \/ EotNaked \/ EotTimesOut
  <2>1. /\ UNCHANGED <<pos, did, result, toBoard>> /\ phase \in {"crc_wait", "data", "eot_write", "eot_wait"}
        /\ phase' \in {"data", "eot_write", "eot_wait", "loadx_wait"} /\ Current' = Current
    BY <1>9 DEF CrcReady, DataSent, EotAcked, EotNaked, EotTimesOut, boardVars, Current
  <2>2. result = "running"
    BY <2>1 DEF Fresh, Running
  <2> QED
    BY <2>1, <2>2 DEF Fresh, Running
<1>10. CASE WriteEot
  <2>1. /\ UNCHANGED <<pos, did, result>> /\ phase = "eot_write" /\ phase' = "eot_wait" /\ Current' = Current
        /\ toBoard' = Append(toBoard, EOT)
    BY <1>10 DEF WriteEot, boardVars, Current
  <2>2. result = "running" /\ toBoard = <<>>
    BY <2>1 DEF Fresh, Running, QuietInv, Placed
  <2>3. toBoard' = <<EOT>> /\ EOT # Current
    BY <1>0, <2>1, <2>2, CurrentFacts
  <2>4. toBoard' # <<Current'>>
    BY <2>1, <2>3
  <2> QED
    BY <2>1, <2>2, <2>4 DEF Fresh, Running
<1>11. CASE LoadxDone
  <2>1. phase = "loadx_wait" /\ UNCHANGED <<did, toBoard>>
    BY <1>11 DEF LoadxDone, boardVars
  <2>2. ~Changing
    BY <2>1 DEF Changing, QuietInv, Placed
  <2>3. \/ UNCHANGED pos /\ phase' = "failed"
        \/ \E more : Accept(more)
    BY <1>11 DEF LoadxDone
  <2> QED
    BY <2>1, <2>2, <2>3, FailureFresh, AcceptFresh DEF Running
<1>12. CASE ResetSeen
  <2>1. UNCHANGED <<pos, did, toBoard>> /\ phase' = "done" /\ result' # "Protocol"
    BY <1>12 DEF ResetSeen, boardVars
  <2> QED
    BY <2>1, FailureFresh
<1>13. CASE ReadOn
  <2>1. UNCHANGED <<phase, pos, did, toBoard, result>> /\ phase # "output"
    BY <1>13 DEF ReadOn, GoesOn, runnerVars, boardVars
  <2>2. Current' = Current /\ (Changing' <=> Changing)
    BY <2>1 DEF Current, Changing
  <2> QED
    BY <2>1, <2>2 DEF Fresh, Running
<1> QED
  BY <1>1, <1>2, <1>3, <1>4, <1>5, <1>6, <1>7, <1>8, <1>9, <1>10, <1>11, <1>12, <1>13 DEF Runner

\* An erase or a write that U-Boot carried out is never reported as refused, as long as the limit
\* on a command's output leaves room for its answer (run_command and require_output).
THEOREM DoneStaysDone ==
    ASSUME ReplyFits
    PROVE  Spec => []DoneIsNotDenied
<1> DEFINE J == pending = <<>> => QuietInv /\ Behind /\ Fresh
<1>1. Init => J
  <2> SUFFICES ASSUME Init, pending = <<>> PROVE QuietInv /\ Behind /\ Fresh
    OBVIOUS
  <2>1. Fresh
    BY DEF Init, Fresh, Running
  <2> QED
    BY <2>1, QuietInit, BehindInit
<1>2. J /\ [Next]_vars => J'
  <2> SUFFICES ASSUME QuietInv, Behind, Fresh, [Next]_vars PROVE QuietInv' /\ Behind' /\ Fresh'
    BY PendingKept
  <2>1. QuietInv' /\ Behind'
    BY QuietStep, BehindStep
  <2>2. CASE UNCHANGED vars
    <3>1. UNCHANGED <<phase, pos, result, toBoard, did, Current, Heard>>
      BY <2>2 DEF vars, Current, Heard, In
    <3>2. Fresh'
      BY <3>1 DEF Fresh, Running, Changing
    <3> QED
      BY <2>1, <3>2
  <2> QED
    BY <2>1, <2>2, RunnerFresh, BoardFresh DEF Next
<1>3. J => DoneIsNotDenied
  BY DEF DoneIsNotDenied, Fresh, Changing
<1> HIDE DEF J
<1> QED
  BY <1>1, <1>2, <1>3, PTL DEF Spec

-----------------------------------------------------------------------------
(* The error of a transfer *)

\* What an event makes of the transfer that is under way.
LEMMA UnderWayAppended ==
    ASSUME NEW S, NEW told \in Seq(S), NEW event \in S
    PROVE  /\ Append(told, event) \in Seq(S)
           /\ Kind(event) = "XmodemStarted" => TransferUnderWay(Append(told, event))
           /\ Kind(event) = "XmodemCompleted" => ~TransferUnderWay(Append(told, event))
           /\ Kind(event) \notin {"XmodemStarted", "XmodemCompleted"} =>
                  (TransferUnderWay(Append(told, event)) <=> TransferUnderWay(told))
<1> DEFINE more == Append(told, event)
<1>1. /\ more \in Seq(S) /\ Len(told) \in Nat /\ Len(more) = Len(told) + 1 /\ more[Len(more)] = event
      /\ \A i \in 1..Len(told) : more[i] = told[i]
  OBVIOUS
<1> HIDE DEF more
<1>2. ASSUME Kind(event) = "XmodemStarted"
      PROVE  TransferUnderWay(more)
  <2>1. Len(more) \in 1..Len(more) /\ Len(more) + 1..Len(more) = {}
    BY <1>1
  <2> QED
    BY <1>1, <1>2, <2>1 DEF TransferUnderWay
<1>3. ASSUME Kind(event) = "XmodemCompleted"
      PROVE  ~TransferUnderWay(more)
  <2>1. SUFFICES ASSUME NEW i \in 1..Len(more), Kind(more[i]) = "XmodemStarted",
                        \A j \in i + 1..Len(more) : Kind(more[j]) # "XmodemCompleted"
                 PROVE  FALSE
    BY DEF TransferUnderWay
  <2>2. i # Len(more)
    BY <1>1, <1>3, <2>1
  <2>3. Len(more) \in i + 1..Len(more)
    BY <1>1, <2>2
  <2> QED
    BY <1>1, <1>3, <2>1, <2>3
<1>4. ASSUME Kind(event) \notin {"XmodemStarted", "XmodemCompleted"}
      PROVE  TransferUnderWay(more) <=> TransferUnderWay(told)
  <2>1. ASSUME NEW i \in 1..Len(more)
        PROVE  /\ i \in 1..Len(told) => more[i] = told[i]
               /\ i \notin 1..Len(told) => more[i] = event
    BY <1>1
  <2>2. ASSUME TransferUnderWay(more)
        PROVE  TransferUnderWay(told)
    <3>1. PICK i \in 1..Len(more) : /\ Kind(more[i]) = "XmodemStarted"
                                    /\ \A j \in i + 1..Len(more) : Kind(more[j]) # "XmodemCompleted"
      BY <2>2 DEF TransferUnderWay
    <3>2. i \in 1..Len(told)
      BY <1>4, <2>1, <3>1
    <3>3. \A j \in i + 1..Len(told) : j \in i + 1..Len(more) /\ more[j] = told[j]
      BY <1>1, <3>2
    <3> QED
      BY <2>1, <3>1, <3>2, <3>3 DEF TransferUnderWay
  <2>3. ASSUME TransferUnderWay(told)
        PROVE  TransferUnderWay(more)
    <3>1. PICK i \in 1..Len(told) : /\ Kind(told[i]) = "XmodemStarted"
                                    /\ \A j \in i + 1..Len(told) : Kind(told[j]) # "XmodemCompleted"
      BY <2>3 DEF TransferUnderWay
    <3>2. i \in 1..Len(more) /\ more[i] = told[i]
      BY <1>1
    <3>3. ASSUME NEW j \in i + 1..Len(more)
          PROVE  Kind(more[j]) # "XmodemCompleted"
      <4>1. CASE j \in i + 1..Len(told)
        BY <1>1, <3>1, <4>1
      <4>2. CASE j \notin i + 1..Len(told)
        <5>1. j = Len(more)
          BY <1>1, <4>2
        <5> QED
          BY <1>1, <1>4, <5>1
      <4> QED
        BY <4>1, <4>2
    <3> QED
      BY <3>1, <3>2, <3>3 DEF TransferUnderWay
  <2> QED
    BY <2>2, <2>3
<1> QED
  BY <1>1, <1>2, <1>3, <1>4 DEF more

\* A sequence, of whatever it is.
Sequence(s) == \E S : s \in Seq(S)

LEMMA UnderWayGoesOn ==
    ASSUME NEW told, Sequence(told), NEW event
    PROVE  /\ Sequence(Append(told, event))
           /\ Kind(event) = "XmodemStarted" => TransferUnderWay(Append(told, event))
           /\ Kind(event) = "XmodemCompleted" => ~TransferUnderWay(Append(told, event))
           /\ Kind(event) \notin {"XmodemStarted", "XmodemCompleted"} =>
                  (TransferUnderWay(Append(told, event)) <=> TransferUnderWay(told))
<1>1. PICK S : told \in Seq(S)
  BY DEF Sequence
<1>2. told \in Seq(S \cup {event}) /\ event \in S \cup {event}
  BY <1>1
<1> QED
  BY <1>2, UnderWayAppended DEF Sequence

\* Events that are told at once are told one after the other.
LEMMA OneByOne ==
    ASSUME NEW told, Sequence(told), NEW a, NEW b, NEW c
    PROVE  /\ told \o <<a>> = Append(told, a)
           /\ told \o <<a, b>> = Append(Append(told, a), b)
           /\ told \o <<a, b, c>> = Append(Append(Append(told, a), b), c)
<1>1. PICK S : told \in Seq(S)
  BY DEF Sequence
<1> DEFINE T == S \cup {a, b, c}
<1>2. told \in Seq(T) /\ a \in T /\ b \in T /\ c \in T
  BY <1>1
<1> HIDE DEF T
<1>3. told \o <<a>> = Append(told, a)
  BY <1>2
<1>4. told \o <<a, b>> = Append(Append(told, a), b)
  BY <1>2
<1>5. told \o <<a, b, c>> = Append(Append(Append(told, a), b), c)
  BY <1>2
<1> QED
  BY <1>3, <1>4, <1>5

\* Short sequences, one after the other.
LEMMA ShortLists ==
    ASSUME NEW a, NEW b, NEW c
    PROVE  /\ <<>> \o <<b>> = <<b>>
           /\ <<a>> \o <<b>> = <<a, b>>
           /\ <<a>> \o <<b>> \o <<c>> = <<a, b, c>>
<1>1. Sequence(<<>>) /\ Sequence(<<a>>) /\ Sequence(<<a, b>>)
  <2>1. <<>> \in Seq({}) /\ <<a>> \in Seq({a}) /\ <<a, b>> \in Seq({a, b})
    OBVIOUS
  <2> QED
    BY <2>1 DEF Sequence
<1>2. <<>> \o <<b>> = Append(<<>>, b) /\ <<a>> \o <<b>> = Append(<<a>>, b) /\ <<a, b>> \o <<c>> = Append(<<a, b>>, c)
  BY <1>1, OneByOne
<1>3. Append(<<>>, b) = <<b>> /\ Append(<<a>>, b) = <<a, b>> /\ Append(<<a, b>>, c) = <<a, b, c>>
  <2> DEFINE T == {a, b, c}
  <2>1. ASSUME NEW s \in Seq(T), NEW t \in Seq(T), Len(s) = Len(t), \A i \in 1..Len(s) : s[i] = t[i]
        PROVE  s = t
    BY <2>1
  <2>2. /\ <<>> \in Seq(T) /\ <<a>> \in Seq(T) /\ <<a, b>> \in Seq(T) /\ <<a, b, c>> \in Seq(T)
        /\ a \in T /\ b \in T /\ c \in T
    OBVIOUS
  <2> DEFINE pair == Append(<<a>>, b)
             triple == Append(<<a, b>>, c)
  <2>3. pair \in Seq(T) /\ Len(pair) = 2 /\ pair[1] = a /\ pair[2] = b
    BY <2>2
  <2>4. triple \in Seq(T) /\ Len(triple) = 3 /\ triple[1] = a /\ triple[2] = b /\ triple[3] = c
    BY <2>2
  <2>5. Append(<<>>, b) = <<b>>
    BY <2>2
  <2> HIDE DEF T, pair, triple
  <2>6. pair = <<a, b>>
    <3>1. Len(<<a, b>>) = 2 /\ \A i \in 1..2 : pair[i] = <<a, b>>[i]
      BY <2>3
    <3> QED
      BY <2>1, <2>2, <2>3, <3>1
  <2>7. triple = <<a, b, c>>
    <3>1. Len(<<a, b, c>>) = 3 /\ \A i \in 1..3 : triple[i] = <<a, b, c>>[i]
      BY <2>4
    <3> QED
      BY <2>1, <2>2, <2>4, <3>1
  <2> QED
    BY <2>5, <2>6, <2>7 DEF pair, triple
<1> QED
  BY <1>2, <1>3

\* While the run goes on a transfer is under way from its first block until it is reported
\* complete, whether the handshake completed it or the wait that excuses it is still on.
Transferring == phase \in {"data", "eot_write", "eot_wait"} \/ (phase = "loadx_wait" /\ excused)

ErrorKept ==
    /\ Sequence(events) /\ excused \in BOOLEAN
    /\ phase \notin {"done", "failed"} =>
           result = "running" /\ (TransferUnderWay(events) <=> Transferring) /\ (excused => phase = "loadx_wait")
    /\ phase = "done" => result = "ok"
    /\ phase = "failed" => (result = "Xmodem" <=> TransferUnderWay(events))

LEMMA ErrorKeptStays ==
    ASSUME ErrorKept, UNCHANGED <<events, result, excused>>, phase \notin {"done", "failed"},
           phase' \notin {"done", "failed"}, excused => phase' = phase, Transferring' <=> Transferring
    PROVE  ErrorKept'
  BY DEF ErrorKept

\* An error during a transfer is the transfer's.
LEMMA ErrorKeptFails ==
    ASSUME ErrorKept, NEW error, Fail(error), phase \notin {"done", "failed"},
           ~excused => (error = "Xmodem" <=> Transferring)
    PROVE  ErrorKept'
<1>1. phase' = "failed" /\ events' = events /\ excused' = excused
      /\ result' = IF excused THEN "Xmodem" ELSE error
  BY DEF Fail
<1>2. result' = "Xmodem" <=> Transferring
  BY <1>1 DEF ErrorKept, Transferring
<1> QED
  BY <1>1, <1>2 DEF ErrorKept

\* A command is told, and its transfer is complete.
LEMMA ErrorKeptAccepts ==
    ASSUME Sequence(events'), ~TransferUnderWay(events'), phase' = "send", excused' = FALSE, result' = "running"
    PROVE  ErrorKept'
  BY DEF ErrorKept, Transferring

LEMMA LoadxErrorKept ==
    ASSUME ErrorKept, LoadxDone
    PROVE  ErrorKept'
<1> DEFINE late == <<"XmodemCompleted", Transfer, TRUE>>
           prompt == <<"UBootPromptSeen">>
           done == Completed
           seen == (IF excused THEN <<late>> ELSE <<>>) \o <<prompt>>
<1>1. phase = "loadx_wait" /\ result = "running" /\ Sequence(events) /\ excused \in BOOLEAN
      /\ (TransferUnderWay(events) <=> excused)
  BY DEF LoadxDone, ErrorKept, Transferring
<1>2. /\ excused' = FALSE
      /\ \/ /\ phase' = "failed" /\ result' \in {"VerificationMismatch", "Protocol"}
            /\ events' = events \o seen
         \/ /\ phase' = "send" /\ result' = result
            /\ events' = events \o (seen \o <<done>>)
  BY DEF LoadxDone, Accept
<1>3. /\ Kind(late) = "XmodemCompleted"
      /\ Kind(prompt) \notin {"XmodemStarted", "XmodemCompleted"}
      /\ Kind(done) \notin {"XmodemStarted", "XmodemCompleted"}
  BY DEF Kind, Completed
<1> HIDE DEF late, prompt, done
<1> DEFINE before == IF excused THEN Append(events, late) ELSE events
           then == Append(before, prompt)
<1>4. Sequence(before) /\ ~TransferUnderWay(before)
  BY <1>1, <1>3, UnderWayGoesOn
<1>5. events \o seen = then
  <2>1. CASE excused
    <3>1. seen = <<late, prompt>>
      BY <2>1, ShortLists
    <3> QED
      BY <1>1, <2>1, <3>1, OneByOne
  <2>2. CASE ~excused
    <3>1. seen = <<prompt>>
      BY <2>2, ShortLists
    <3> QED
      BY <1>1, <2>2, <3>1, OneByOne
  <2> QED
    BY <2>1, <2>2
<1>6. events \o (seen \o <<done>>) = Append(then, done)
  <2>1. CASE excused
    <3>1. seen = <<late>> \o <<prompt>>
      BY <2>1
    <3> HIDE DEF seen
    <3>2. seen \o <<done>> = <<late, prompt, done>>
      BY <3>1, ShortLists
    <3>3. events \o <<late, prompt, done>> = Append(Append(Append(events, late), prompt), done)
      BY <1>1, OneByOne
    <3> QED
      BY <2>1, <3>2, <3>3
  <2>2. CASE ~excused
    <3>1. seen = <<prompt>>
      BY <2>2, ShortLists
    <3>2. seen \o <<done>> = <<prompt, done>>
      BY <3>1, ShortLists
    <3> QED
      BY <1>1, <2>2, <3>2, OneByOne
  <2> QED
    BY <2>1, <2>2
<1> HIDE DEF before
<1>7. Sequence(then) /\ ~TransferUnderWay(then)
  BY <1>3, <1>4, UnderWayGoesOn
<1> HIDE DEF then, seen
<1>8. Sequence(Append(then, done)) /\ ~TransferUnderWay(Append(then, done))
  BY <1>3, <1>7, UnderWayGoesOn
<1>9. CASE phase' = "failed"
  BY <1>2, <1>5, <1>7, <1>9 DEF ErrorKept
<1>10. CASE phase' = "send"
  <2>1. events' = Append(then, done) /\ result' = "running" /\ excused' = FALSE
    BY <1>1, <1>2, <1>6, <1>10
  <2> QED
    BY <1>8, <1>10, <2>1, ErrorKeptAccepts
<1> QED
  BY <1>2, <1>9, <1>10

\* A command's output is judged.
LEMMA CommandErrorKept ==
    ASSUME ErrorKept, CommandDone
    PROVE  ErrorKept'
<1> DEFINE verified == <<"ImageVerified", Current.image>>
           done == Completed
<1>1. phase = "output" /\ result = "running" /\ Sequence(events) /\ excused = FALSE
      /\ ~TransferUnderWay(events) /\ ~Transferring
  BY DEF CommandDone, ErrorKept, Transferring
<1>2. Kind(verified) \notin {"XmodemStarted", "XmodemCompleted"} /\ Kind(done) \notin {"XmodemStarted", "XmodemCompleted"}
  BY DEF Kind, Completed
<1>3. \/ \E error \in {"Protocol", "VerificationMismatch"} : Fail(error)
      \/ Accept(<<done>>)
      \/ Accept(<<verified, done>>)
  BY DEF CommandDone, Require, VerifyFilesize
<1> HIDE DEF verified, done
<1>4. CASE \E error \in {"Protocol", "VerificationMismatch"} : Fail(error)
  BY <1>1, <1>4, ErrorKeptFails
<1>5. CASE Accept(<<done>>)
  <2>1. events' = Append(events, done) /\ phase' = "send" /\ excused' = FALSE /\ result' = "running"
    BY <1>1, <1>5, OneByOne DEF Accept
  <2> QED
    BY <1>1, <1>2, <2>1, UnderWayGoesOn, ErrorKeptAccepts
<1>6. CASE Accept(<<verified, done>>)
  <2> DEFINE then == Append(events, verified)
  <2>1. events' = Append(then, done) /\ phase' = "send" /\ excused' = FALSE /\ result' = "running"
    BY <1>1, <1>6, OneByOne DEF Accept
  <2>2. Sequence(then) /\ ~TransferUnderWay(then)
    BY <1>1, <1>2, UnderWayGoesOn
  <2> HIDE DEF then
  <2> QED
    BY <1>2, <2>1, <2>2, UnderWayGoesOn, ErrorKeptAccepts
<1> QED
  BY <1>3, <1>4, <1>5, <1>6

LEMMA RunnerErrorKept ==
    ASSUME ErrorKept, Runner
    PROVE  ErrorKept'
<1>1. CASE PrepareStagePayloads
  <2>1. CASE Fail("BadInput")
    BY <1>1, <2>1, ErrorKeptFails DEF PrepareStagePayloads, ErrorKept, Transferring
  <2>2. CASE ~Fail("BadInput")
    BY <1>1, <2>2 DEF PrepareStagePayloads, ErrorKept, Transferring
  <2> QED
    BY <2>1, <2>2
<1>2. CASE WakePrompt
  BY <1>2 DEF WakePrompt, ErrorKept, Transferring
<1>3. CASE SendCommand
  <2> DEFINE started == <<"UBootCommandStarted", Current>>
  <2>1. /\ phase = "send" /\ phase' \in {"crc_wait", "reset_wait", "output"} /\ UNCHANGED <<excused, result>>
        /\ events' = Append(events, started)
    BY <1>3 DEF SendCommand, Emit
  <2>2. Kind(started) \notin {"XmodemStarted", "XmodemCompleted"}
    BY DEF Kind
  <2> HIDE DEF started
  <2>3. Sequence(events') /\ (TransferUnderWay(events') <=> TransferUnderWay(events))
    BY <2>1, <2>2, UnderWayGoesOn DEF ErrorKept
  <2> QED
    BY <2>1, <2>3 DEF ErrorKept, Transferring
<1>4. CASE SendFails
  <2> DEFINE started == <<"UBootCommandStarted", Current>>
  <2>1. /\ phase \in {"wake", "send"} /\ phase' = "failed" /\ result' = "Serial" /\ excused' = excused
        /\ events' \in {events, Append(events, started)}
    BY <1>4 DEF SendFails, Emit
  <2>2. Kind(started) \notin {"XmodemStarted", "XmodemCompleted"}
    BY DEF Kind
  <2> HIDE DEF started
  <2>3. Sequence(events') /\ (TransferUnderWay(events') <=> TransferUnderWay(events))
    BY <2>1, <2>2, UnderWayGoesOn DEF ErrorKept
  <2> QED
    BY <2>1, <2>3 DEF ErrorKept, Transferring
<1>5. CASE ReadData
  BY <1>5 DEF ReadData, Waits, ErrorKept, Transferring
<1>6. CASE ReadOn
  BY <1>6 DEF ReadOn, Waits, runnerVars, ErrorKept, Transferring
<1>7. CASE ReadFails
  <2>1. PICK error \in {"Timeout", "Serial", "Protocol"} : Fail(error)
    BY <1>7 DEF ReadFails
  <2>2. phase \in Waits
    BY <1>7 DEF ReadFails
  <2> QED
    BY <2>1, <2>2, ErrorKeptFails DEF Waits, Transferring
<1>8. CASE PromptSeen
  <2> DEFINE prompt == <<"UBootPromptSeen">>
  <2>1. phase = "wake_wait" /\ phase' = "send" /\ UNCHANGED <<excused, result>> /\ events' = Append(events, prompt)
    BY <1>8 DEF PromptSeen, Emit
  <2>2. Kind(prompt) \notin {"XmodemStarted", "XmodemCompleted"}
    BY DEF Kind
  <2> HIDE DEF prompt
  <2>3. Sequence(events') /\ (TransferUnderWay(events') <=> TransferUnderWay(events))
    BY <2>1, <2>2, UnderWayGoesOn DEF ErrorKept
  <2> QED
    BY <2>1, <2>3 DEF ErrorKept, Transferring
<1>9. CASE CommandDone
  BY <1>9, CommandErrorKept
<1>10. CASE CrcReady
  <2> DEFINE ready == <<"CrcReady", Transfer>>
             started == <<"XmodemStarted", Transfer>>
             then == Append(events, ready)
  <2>1. /\ phase = "crc_wait" /\ phase' = "data" /\ UNCHANGED <<excused, result>>
        /\ events' = events \o <<ready, started>>
    BY <1>10 DEF CrcReady
  <2>2. Kind(started) = "XmodemStarted"
    BY DEF Kind
  <2> HIDE DEF ready, started
  <2>3. events' = Append(then, started)
    BY <2>1, OneByOne DEF ErrorKept
  <2>4. Sequence(then)
    BY UnderWayGoesOn DEF ErrorKept
  <2> HIDE DEF then
  <2>5. Sequence(events') /\ TransferUnderWay(events')
    BY <2>2, <2>3, <2>4, UnderWayGoesOn
  <2> QED
    BY <2>1, <2>5 DEF ErrorKept, Transferring
<1>11. CASE DataSent
  BY <1>11 DEF DataSent, ErrorKept, Transferring
<1>12. CASE DataFails \/ EotFails
  <2>1. Fail("Xmodem") /\ phase \in {"data", "eot_write", "eot_wait"}
    BY <1>12 DEF DataFails, EotFails
  <2> QED
    BY <2>1, ErrorKeptFails DEF Transferring
<1>13. CASE WriteEot
  BY <1>13 DEF WriteEot, ErrorKept, Transferring
<1>14. CASE EotAcked
  <2> DEFINE completed == <<"XmodemCompleted", Transfer, FALSE>>
  <2>1. /\ phase = "eot_wait" /\ phase' = "loadx_wait" /\ UNCHANGED <<excused, result>>
        /\ events' = Append(events, completed)
    BY <1>14 DEF EotAcked, Emit
  <2>2. Kind(completed) = "XmodemCompleted"
    BY DEF Kind
  <2> HIDE DEF completed
  <2>3. Sequence(events') /\ ~TransferUnderWay(events')
    BY <2>1, <2>2, UnderWayGoesOn DEF ErrorKept
  <2> QED
    BY <2>1, <2>3 DEF ErrorKept, Transferring
<1>15. CASE EotNaked \/ EotTimesOut
  <2>1. /\ phase = "eot_wait" /\ UNCHANGED <<events, result>>
        /\ \/ phase' = "loadx_wait" /\ excused' = TRUE
           \/ phase' = "eot_write" /\ excused' = excused
    BY <1>15 DEF EotNaked, EotTimesOut, ExcuseEot
  <2>2. Sequence(events') /\ result' = "running" /\ TransferUnderWay(events') /\ excused = FALSE
    BY <2>1 DEF ErrorKept, Transferring
  <2>3. CASE phase' = "loadx_wait" /\ excused' = TRUE
    BY <2>2, <2>3 DEF ErrorKept, Transferring
  <2>4. CASE phase' = "eot_write" /\ excused' = excused
    BY <2>2, <2>4 DEF ErrorKept, Transferring
  <2> QED
    BY <2>1, <2>3, <2>4
<1>16. CASE LoadxDone
  BY <1>16, LoadxErrorKept
<1>17. CASE ResetSeen
  <2> DEFINE seen == <<"ResetSeen">>
             ready == <<"HandoffReady", FALSE>>
  <2>1. phase' = "done" /\ result' = "ok" /\ excused' = excused /\ events' = events \o <<seen, ready>>
    BY <1>17 DEF ResetSeen
  <2> HIDE DEF seen, ready
  <2>2. events' = Append(Append(events, seen), ready)
    BY <2>1, OneByOne DEF ErrorKept
  <2>3. Sequence(Append(events, seen))
    BY UnderWayGoesOn DEF ErrorKept
  <2>4. Sequence(events')
    BY <2>2, <2>3, UnderWayGoesOn
  <2> QED
    BY <2>1, <2>4 DEF ErrorKept
<1> QED
  BY <1>1, <1>2, <1>3, <1>4, <1>5, <1>6, <1>7, <1>8, <1>9, <1>10, <1>11, <1>12, <1>13, <1>14, <1>15,
     <1>16, <1>17 DEF Runner

\* A run that fails between a transfer's first block and the event that completes it reports the
\* transfer's error, whatever came of the wait for the prompt that was to excuse it, and no other
\* run does (flash_stage and xmodem_failure).
THEOREM TransferErrorsAreKept == Spec => []TransferErrorIsKept
<1>1. Init => ErrorKept
  <2>1. SUFFICES ASSUME Init PROVE ErrorKept
    OBVIOUS
  <2>2. events = <<>> /\ phase = "prepare" /\ excused = FALSE /\ result = "running"
    BY <2>1 DEF Init
  <2>3. events \in Seq({}) /\ ~TransferUnderWay(events)
    BY <2>2 DEF TransferUnderWay
  <2> QED
    BY <2>2, <2>3 DEF ErrorKept, Sequence, Transferring
<1>2. ErrorKept /\ [Next]_vars => ErrorKept'
  <2>1. ASSUME ErrorKept, Board \/ UNCHANGED vars
        PROVE  ErrorKept'
    <3>1. UNCHANGED <<phase, excused, events, result>>
      BY <2>1 DEF Board, Transmit, Chatter, LogOn, Take, TakeWake, TakePrintenv, TakeErase, TakeLoadx, TakeWrite,
                  TakeFails, TakeEot, TakeReset, runnerVars, vars
    <3>2. (Transferring <=> Transferring') /\ (Sequence(events) <=> Sequence(events'))
      BY <3>1 DEF Transferring, Sequence
    <3> QED
      BY <2>1, <3>1, <3>2 DEF ErrorKept
  <2> QED
    BY <2>1, RunnerErrorKept DEF Next
<1>3. ErrorKept => TransferErrorIsKept
  <2>1. SUFFICES ASSUME ErrorKept, result \notin {"running", "ok"} PROVE result = "Xmodem" <=> TransferUnderWay(events)
    BY DEF TransferErrorIsKept
  <2>2. phase = "failed"
    BY <2>1 DEF ErrorKept
  <2> QED
    BY <2>1, <2>2 DEF ErrorKept
<1> QED
  BY <1>1, <1>2, <1>3, PTL DEF Spec
=============================================================================
