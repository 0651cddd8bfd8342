------------------------------ MODULE Recovery ------------------------------
(***************************************************************************)
(* `recover_to_uboot` of crates/unbrk-core/src/recovery.rs with the board  *)
(* it talks to: two rounds of prompt, x, readiness, transfer, and the      *)
(* U-Boot prompt at the end.  The console is shared by all waits, which    *)
(* consume it through one cursor.                                          *)
(*                                                                         *)
(* A transfer is a number of blocks exchanged in order, as Xmodem.tla      *)
(* shows of `send_crc`; the EOT handshake, whose failure the runner may    *)
(* excuse, is kept step by step.  The board is not in the repository: it   *)
(* is modelled from the fixtures and from what the runner expects of it.   *)
(***************************************************************************)
EXTENDS Prompt, Integers, Progress

CONSTANTS
    Blocks,          \* blocks of each image
    PromptTimeout,   \* RecoveryConfig.prompt_timeout, in heartbeat intervals
    EotRetryLimit,   \* XmodemConfig.eot_retry_limit, normalized
    MaxExtraC,       \* bound: readiness bytes beyond the third, per stage
    InitialBoards,   \* what the board may be doing when the program starts
    AnswersEot,      \* whether the board answers EOT before it goes on
    Chatters         \* whether the firmware on the board may print for ever

ASSUME RecoveryAssumption ==
    /\ Blocks \in Nat \ {0}
    /\ PromptTimeout \in Nat
    /\ EotRetryLimit \in Nat \ {0}
    /\ MaxExtraC \in Nat
    /\ InitialBoards \subseteq {"off", "shell", "bl2"}
    /\ AnswersEot \in BOOLEAN /\ Chatters \in BOOLEAN

VARIABLES
    state,      \* the RecoveryState last pushed
    step,       \* where send_transfer is: "idle", "data", "eot_write", "eot_wait"
    sent,       \* blocks acknowledged in the current transfer
    attempts,   \* EOT writes of the current transfer
    excused,    \* the current wait follows an excused EOT failure
    console,    \* everything read outside transfers
    cursor,     \* how much of it the waits have consumed
    waited,     \* reads without data in the current wait
    events,     \* the events emitted (heartbeats left out: see Told)
    result,     \* "running", "ok" or the error returned
    toHost,     \* tokens and answers on the wire
    toBoard,    \* x and EOT on the wire
    stage,      \* the program the board runs
    mode,       \* what that program is doing
    output,     \* what the board has still to print
    extra,      \* readiness bytes beyond the third
    stored      \* image blocks received: pairs of an image and the stage it reached

runnerVars == <<state, step, sent, attempts, excused, console, cursor, waited, events, result>>
boardVars == <<stage, mode, output, extra, stored>>
vars == <<state, step, sent, attempts, excused, console, cursor, waited, events, result,
          toHost, toBoard, stage, mode, output, extra, stored>>

HeartbeatSeconds == 2      \* DEFAULT_HEARTBEAT_INTERVAL

ACK == "ACK"
NAK == "NAK"
CAN == "CAN"
Answers == {ACK, NAK, CAN}

States == {"WaitForInitialPrompt", "SendXForPreloader", "WaitForXmodemCrcPreloader", "SendPreloader",
           "WaitForFipPrompt", "SendXForFip", "WaitForXmodemCrcFip", "SendFip",
           "WaitForUbootPrompt", "Complete"}
PromptWaits == {"WaitForInitialPrompt", "WaitForFipPrompt", "WaitForUbootPrompt"}
CrcWaits == {"WaitForXmodemCrcPreloader", "WaitForXmodemCrcFip"}
Sends == {"SendPreloader", "SendFip"}

After == [WaitForInitialPrompt |-> "SendXForPreloader", SendXForPreloader |-> "WaitForXmodemCrcPreloader",
          WaitForXmodemCrcPreloader |-> "SendPreloader", SendPreloader |-> "WaitForFipPrompt",
          WaitForFipPrompt |-> "SendXForFip", SendXForFip |-> "WaitForXmodemCrcFip",
          WaitForXmodemCrcFip |-> "SendFip", SendFip |-> "WaitForUbootPrompt",
          WaitForUbootPrompt |-> "Complete"]

\* What a board program prints before it waits for input: chatter, perhaps, and its prompt.
Banner == [shell   |-> {<<UBOOT, SPACE>>},
           bootrom |-> {<<PRESS, CTL>>, <<TEXT, PRESS, CTL>>},
           bl2     |-> {<<PRESS, LOAD, CTL>>, <<TEXT, CTL, PRESS, LOAD, CTL>>},
           uboot   |-> {<<TEXT, CTL, UBOOT, SPACE>>}]
NextStage == [bootrom |-> "bl2", bl2 |-> "uboot"]
BoardStages == {"off", "shell", "bootrom", "bl2", "uboot"}

Init ==
    /\ state = "WaitForInitialPrompt"
    /\ step = "idle" /\ sent = 0 /\ attempts = 0 /\ excused = FALSE
    /\ console = <<>> /\ cursor = 0 /\ waited = 0
    /\ events = <<>>
    /\ result = "running"
    /\ toHost = <<>> /\ toBoard = <<>>
    /\ stage \in InitialBoards
    /\ mode = IF stage = "off" THEN "silent" ELSE "prompt"
    /\ output \in IF stage = "off" THEN {<<>>} ELSE Banner[stage]
    /\ extra = 0
    /\ stored = {}

-----------------------------------------------------------------------------
(* The runner *)

Running == result = "running"
Waiting == Running /\ state \in PromptWaits \cup CrcWaits

Match ==
    CASE state = "WaitForInitialPrompt" -> FindPrompt(console, cursor, InitialRecovery, FALSE)
      [] state = "WaitForFipPrompt" -> FindPrompt(console, cursor, SecondStage, FALSE)
      [] state = "WaitForUbootPrompt" -> FindPrompt(console, cursor, UBootShell, TRUE)
      [] OTHER -> FindCrcReady(console, cursor)

\* The stage a wait or an input is reported with, and the transfer of a state.
Stage == CASE state \in {"WaitForInitialPrompt", "SendXForPreloader", "WaitForXmodemCrcPreloader"} -> "PreloaderPrompt"
           [] state \in {"WaitForFipPrompt", "SendXForFip", "WaitForXmodemCrcFip"} -> "FipPrompt"
           [] OTHER -> "UBoot"
Transfer == IF state \in {"WaitForXmodemCrcPreloader", "SendPreloader", "WaitForFipPrompt"}
            THEN "Preloader" ELSE "Fip"

PromptEvent == IF Stage = "UBoot" THEN <<"UBootPromptSeen">> ELSE <<"PromptSeen", Stage>>

FailOfTheWait(error) ==                                      \* mutant: the excused failure is forgotten
    /\ result' = error
    /\ UNCHANGED <<state, step, sent, attempts, excused, console, cursor, waited, events>>
\* An error ends the run.  After an excused EOT failure every error is reported as the
\* transfer's (xmodem_failure).  UnbrkError::Xmodem is split in two here, to tell what ended
\* the run: an I/O error, or the protocol.
Fail(error) ==
    /\ result' = IF excused THEN (IF error = "Serial" THEN "XmodemIo" ELSE "Xmodem") ELSE error
    /\ UNCHANGED <<state, step, sent, attempts, excused, console, cursor, waited, events>>

PromptFoundSilently ==                                       \* mutant: an excused transfer never completes
    /\ Running /\ state \in PromptWaits /\ Match # NoMatch
    /\ cursor' = AdvancedTo(cursor, Match)
    /\ events' = Emit(events, PromptEvent)
    /\ state' = After[state]
    /\ result' = IF state = "WaitForUbootPrompt" THEN "ok" ELSE result
    /\ excused' = FALSE
    /\ UNCHANGED <<step, sent, attempts, console, waited, toHost, toBoard, boardVars>>

\* A wait finds its prompt.  After an excused EOT failure this completes the transfer.
PromptFound ==
    /\ Running /\ state \in PromptWaits /\ Match # NoMatch
    /\ cursor' = AdvancedTo(cursor, Match)
    /\ events' = Emit(IF excused THEN Emit(events, <<"XmodemCompleted", Transfer, TRUE>>) ELSE events,
                      PromptEvent)
    /\ state' = After[state]
    /\ result' = IF state = "WaitForUbootPrompt" THEN "ok" ELSE result
    /\ excused' = FALSE
    /\ UNCHANGED <<step, sent, attempts, console, waited, toHost, toBoard, boardVars>>

\* send_literal_input.
SendX ==
    /\ Running /\ state \in {"SendXForPreloader", "SendXForFip"}
    /\ toBoard' = Append(toBoard, "x")
    /\ events' = Emit(events, <<"InputSent", Stage>>)
    /\ state' = After[state]
    /\ waited' = 0
    /\ UNCHANGED <<step, sent, attempts, excused, console, cursor, result, toHost, boardVars>>

CrcFound ==
    /\ Running /\ state \in CrcWaits /\ Match # NoMatch
    /\ cursor' = AdvancedTo(cursor, Match)
    /\ events' = events \o <<<<"CrcReady", Transfer>>, <<"XmodemStarted", Transfer>>>>
    /\ state' = After[state]
    /\ step' = "data" /\ sent' = 0 /\ attempts' = 0
    /\ UNCHANGED <<excused, console, waited, result, toHost, toBoard, boardVars>>

\* Printable text that goes on is the same token: no scanner tells one TEXT from two.
Joined(text, more) ==
    IF text # <<>> /\ text[Len(text)] = TEXT /\ Head(more) = TEXT THEN text \o Tail(more) ELSE text \o more

\* read_or_heartbeat: one read returns part of what has arrived ...
ReadData ==
    /\ Waiting /\ Match = NoMatch
    /\ \E n \in 1..Len(toHost) :
          /\ console' = Joined(console, [i \in 1..n |-> IF toHost[i] \in Answers THEN CTL ELSE toHost[i]])
          /\ toHost' = SubSeq(toHost, n + 1, Len(toHost))
    /\ UNCHANGED <<state, step, sent, attempts, excused, cursor, waited, events, result,
                   toBoard, boardVars>>

ReadNothingUncounted ==                                      \* mutant: waited is not advanced
    /\ Waiting /\ Match = NoMatch /\ toHost = <<>>
    /\ UNCHANGED vars

\* ... or nothing for a heartbeat interval: PromptWaiting, or the timeout.
ReadNothing ==
    /\ Waiting /\ Match = NoMatch /\ toHost = <<>>
    /\ IF waited + 1 >= PromptTimeout
       THEN Fail("Timeout")
       ELSE waited' = waited + 1
            /\ UNCHANGED <<state, step, sent, attempts, excused, console, cursor, events, result>>
    /\ UNCHANGED <<toHost, toBoard, boardVars>>

\* A read, a write or set_timeout fails.  (A wait sets its timeout before it looks at the
\* console, so this may come before a prompt that is already there.)
SerialFails ==
    /\ Running
    /\ Fail(IF state \in Sends THEN "XmodemIo" ELSE "Serial")
    /\ UNCHANGED <<toHost, toBoard, boardVars>>

SameImage == "preloader"                                     \* mutant: the second round's image
Image == IF state = "SendPreloader" THEN "preloader" ELSE "fip"

\* A block is written, stored and acknowledged, and progress reported.
BlockSent ==
    /\ Running /\ step = "data" /\ toHost = <<>>
    /\ stage \in {"bootrom", "bl2"} /\ mode \in {"ready", "receive"} /\ output = <<>>
    /\ mode' = "receive"
    /\ stored' = stored \cup {<<Image, stage>>}
    /\ sent' = sent + 1
    /\ events' = Emit(events, <<"XmodemProgress", Transfer, sent + 1>>)
    /\ step' = IF sent + 1 = Blocks THEN "eot_write" ELSE step
    /\ UNCHANGED <<state, attempts, excused, console, cursor, waited, result,
                   toHost, toBoard, stage, output, extra>>

\* A block fails for good: retries exhausted, timeout, cancelled, or an answer that is none.
BlockFails ==
    /\ Running /\ step = "data"
    /\ Fail("Xmodem")
    /\ toHost' = IF toHost = <<>> THEN toHost ELSE Tail(toHost)
    /\ UNCHANGED <<toBoard, boardVars>>

\* finish_eot_handshake.
WriteEot ==
    /\ Running /\ step = "eot_write"
    /\ toBoard' = Append(toBoard, "EOT")
    /\ attempts' = attempts + 1
    /\ step' = "eot_wait"
    /\ UNCHANGED <<state, sent, excused, console, cursor, waited, events, result, toHost, boardVars>>

EotAcked ==
    /\ Running /\ step = "eot_wait" /\ toHost # <<>> /\ Head(toHost) = ACK
    /\ toHost' = Tail(toHost)
    /\ events' = Emit(events, <<"XmodemCompleted", Transfer, FALSE>>)
    /\ state' = After[state]
    /\ step' = "idle"
    /\ waited' = 0
    /\ UNCHANGED <<sent, attempts, excused, console, cursor, result, toBoard, boardVars>>

\* permits_prompt_completion_recovery: look for the next prompt before giving up.
ExcuseEot ==
    /\ state' = After[state]
    /\ step' = "idle"
    /\ excused' = TRUE
    /\ waited' = 0
    /\ UNCHANGED <<sent, attempts, console, cursor, events, result, toBoard, boardVars>>

EotNaked ==
    /\ Running /\ step = "eot_wait" /\ toHost # <<>> /\ Head(toHost) = NAK
    /\ toHost' = Tail(toHost)
    /\ IF attempts < EotRetryLimit
       THEN step' = "eot_write"
            /\ UNCHANGED <<state, sent, attempts, excused, console, cursor, waited, events, result,
                           toBoard, boardVars>>
       ELSE ExcuseEot

EotTimesOut ==
    /\ Running /\ step = "eot_wait" /\ toHost = <<>>
    /\ ExcuseEot
    /\ UNCHANGED toHost

\* CAN, or a byte that is no answer: not excused.
EotRejected ==
    /\ Running /\ step = "eot_wait" /\ toHost # <<>> /\ Head(toHost) \notin {ACK, NAK}
    /\ toHost' = Tail(toHost)
    /\ Fail("Xmodem")
    /\ UNCHANGED <<toBoard, boardVars>>

Runner == \/ PromptFound \/ SendX \/ CrcFound \/ ReadData \/ ReadNothing
          \/ BlockSent \/ BlockFails \/ WriteEot \/ EotAcked \/ EotNaked \/ EotTimesOut \/ EotRejected

-----------------------------------------------------------------------------
(* The board *)

Boot(newStage) ==
    /\ stage' = newStage
    /\ mode' = IF newStage = "uboot" THEN "shell" ELSE "prompt"
    /\ extra' = 0
    /\ UNCHANGED stored

\* The operator's one controlled reset, while the program waits for the initial prompt.
PowerOn ==
    /\ stage \in {"off", "shell"} /\ state = "WaitForInitialPrompt"
    /\ Boot("bootrom")
    /\ output' \in Banner["bootrom"]
    /\ UNCHANGED <<runnerVars, toHost, toBoard>>

Transmit ==
    /\ output # <<>>
    /\ toHost' = Append(toHost, Head(output))
    /\ output' = Tail(output)
    /\ UNCHANGED <<runnerVars, toBoard, stage, mode, extra, stored>>

\* Firmware may log for as long as it runs; it waits for the line.
LogOn ==
    /\ Chatters /\ stage \in {"shell", "uboot"} /\ output = <<>> /\ toHost = <<>>
    /\ toHost' = <<TEXT>>
    /\ UNCHANGED <<runnerVars, toBoard, boardVars>>

\* A program that waits at its prompt echoes the x and asks for the image.
TakeX ==
    /\ toBoard # <<>> /\ Head(toBoard) = "x"
    /\ toBoard' = Tail(toBoard)
    /\ IF mode = "prompt" /\ stage \in {"bootrom", "bl2"}
       THEN mode' = "ready" /\ output' = output \o <<TEXT, CRC, CRC, CRC>>
       ELSE UNCHANGED <<mode, output>>
    /\ UNCHANGED <<runnerVars, toHost, stage, extra, stored>>

\* It repeats C until the first block arrives.
RepeatC ==
    /\ mode = "ready" /\ output = <<>> /\ extra < MaxExtraC
    /\ output' = <<CRC>>
    /\ extra' = extra + 1
    /\ UNCHANGED <<runnerVars, toHost, toBoard, stage, mode, stored>>

\* EOT: rejected, or accepted with an answer or without one, and the image is started.
TakeEot ==
    /\ toBoard # <<>> /\ Head(toBoard) = "EOT"
    /\ toBoard' = Tail(toBoard)
    /\ \/ /\ mode = "receive"
          /\ output' = Append(output, NAK)
          /\ UNCHANGED <<stage, mode, extra, stored>>
       \/ /\ mode = "receive"
          /\ Boot(NextStage[stage])
          /\ \E banner \in Banner[NextStage[stage]] :
                \/ output' = output \o <<ACK>> \o banner
                \/ ~AnswersEot /\ output' = output \o banner
       \/ mode # "receive" /\ UNCHANGED boardVars
    /\ UNCHANGED <<runnerVars, toHost>>

Board == PowerOn \/ Transmit \/ LogOn \/ TakeX \/ RepeatC \/ TakeEot

Next == Runner \/ SerialFails \/ Board

Spec == Init /\ [][Next]_vars

\* Reads return within their timeout, so the runner always goes on; a board that has something
\* to print prints it.  Nothing makes the board answer or the operator reset it.
FairSpec == Spec /\ WF_vars(Runner) /\ WF_vars(Transmit)

-----------------------------------------------------------------------------
(* Properties *)

Results == {"running", "ok", "Timeout", "Serial", "Xmodem", "XmodemIo"}
Images == {<<"preloader", "bootrom">>, <<"fip", "bl2">>}

\* The type invariant of RecoveryRunner, the wire and the board.
TypeOK ==
    /\ state \in States
    /\ step \in {"idle", "data", "eot_write", "eot_wait"}
    /\ sent \in 0..Blocks /\ attempts \in 0..EotRetryLimit
    /\ excused \in BOOLEAN
    /\ console \in Seq(Tokens) /\ cursor \in 0..Len(console)
    /\ waited \in 0..PromptTimeout
    /\ events \in Seq(EventPayload)
    /\ result \in Results
    /\ toHost \in Seq(Tokens \cup Answers) /\ toBoard \in Seq({"x", "EOT"})
    /\ stage \in BoardStages
    /\ mode \in {"silent", "prompt", "ready", "receive", "shell"}
    /\ output \in Seq(Tokens \cup Answers)
    /\ extra \in 0..MaxExtraC
    /\ stored \subseteq {"preloader", "fip"} \X BoardStages

\* Each image goes to the boot stage it is meant for, whatever stale output the console holds.
ImagesReachTheirStage == stored \subseteq Images

\* A transfer starts only when the board has asked for it in this stage: readiness left over
\* from the stage before does not count (recovery.rs, one cursor for all waits).
TransferFollowsReadiness ==
    /\ state = "SendPreloader" /\ step = "data" => stage = "bootrom" /\ mode \in {"ready", "receive"}
    /\ state = "SendFip" /\ step = "data" => stage = "bl2" /\ mode \in {"ready", "receive"}

\* Success is declared only for a board that runs the U-Boot it was sent, not for an AN7581>
\* prompt left in the console by the firmware that ran before the reset.
SuccessMeansUBoot == result = "ok" => stage = "uboot" /\ stored = Images

\* The events in the order in which recover_to_uboot emits them, heartbeats left out.
Round(prompt, transfer, recovered) ==
    <<<<"PromptSeen", prompt>>, <<"InputSent", prompt>>, <<"CrcReady", transfer>>, <<"XmodemStarted", transfer>>>>
    \o [n \in 1..Blocks |-> <<"XmodemProgress", transfer, n>>]
    \o <<<<"XmodemCompleted", transfer, recovered>>>>
Flow(first, second) ==
    Round("PreloaderPrompt", "Preloader", first) \o Round("FipPrompt", "Fip", second) \o <<<<"UBootPromptSeen">>>>

\* Both ways through the EOT handshake emit the same events in the same order, each once, under
\* the stage and the transfer they are about, and a run that succeeds has emitted them all.
EventsFollowFlow ==
    \E first, second \in BOOLEAN :
        LET flow == Flow(first, second)
        IN  /\ Len(events) <= Len(flow)
            /\ events = SubSeq(flow, 1, Len(events))
            /\ (result = "ok") = (Len(events) = Len(flow))

\* A run that fails during a transfer reports the transfer's error, whatever came of the wait that
\* was to excuse it (xmodem_failure), and no other run does.
TransferErrorIsKept ==
    result \notin {"running", "ok"} => (result \in {"Xmodem", "XmodemIo"} <=> TransferUnderWay(events))

Awaited ==
    CASE state = "WaitForInitialPrompt" -> stage = "bootrom" /\ mode = "prompt"
      [] state = "WaitForFipPrompt" -> stage = "bl2" /\ mode = "prompt"
      [] state = "WaitForUbootPrompt" -> stage = "uboot"
      [] state \in CrcWaits -> mode = "ready"
      [] OTHER -> FALSE
\* No wait gives up on a prompt, or on readiness, that has reached the host.
NoPromptMissed ==
    result \in {"Timeout", "Xmodem"} /\ Awaited => output # <<>> \/ toHost # <<>>

\* Every run ends, whatever the board and the operator do, unless firmware prints for ever: a
\* wait counts only the reads that return nothing, so a board that keeps talking keeps it waiting
\* (recovery.rs, read_or_heartbeat).
Termination == <>(result # "running") \/ []<><<LogOn>>_vars

\* What observers have been told: a wait that has read nothing has emitted heartbeats.
Told == IF Waiting /\ waited > 0 THEN Emit(events, <<"PromptWaiting", Stage, waited * HeartbeatSeconds>>)
        ELSE events
Bar == Line(Told, FALSE, FALSE)

\* The states of the runner that a line of progress may accompany.
Accompanies == [s \in States |->
    CASE s = "WaitForInitialPrompt" -> {PowerCycle, WaitingFor["PreloaderPrompt"]}
      [] s = "SendXForPreloader" -> {"Sending x for preloader"}
      [] s = "WaitForXmodemCrcPreloader" ->
            {"Waiting for preloader XMODEM", WaitingFor["PreloaderPrompt"], PowerCycle}
      [] s = "SendPreloader" -> {"Uploading preloader"}
      [] s = "WaitForFipPrompt" -> {"Uploading preloader", "Waiting for stage 2 prompt", WaitingFor["FipPrompt"]}
      [] s = "SendXForFip" -> {"Sending x for FIP"}
      [] s = "WaitForXmodemCrcFip" -> {"Waiting for FIP XMODEM", WaitingFor["FipPrompt"]}
      [] s = "SendFip" -> {"Uploading FIP"}
      [] s = "WaitForUbootPrompt" -> {"Uploading FIP", "Waiting for live U-Boot prompt", WaitingFor["UBoot"]}
      [] s = "Complete" -> {Finished}]

\* The operator is told what the run is waiting for: the line, which shows the latest event that
\* has a message, is never about a state that is behind, and an upload is called complete only
\* when the board has the image.  (An excused transfer is shown as going on; what a heartbeat
\* shows while readiness is awaited is the subject of PowerCycleIsAskedFirst.)
BarTellsTheWait ==
    Running \/ result = "ok" =>
        /\ Bar \in Accompanies[state]
        /\ Bar = "Waiting for stage 2 prompt" => <<"preloader", "bootrom">> \in stored
        /\ Bar = "Waiting for live U-Boot prompt" => stored = Images

\* The operator is asked to power-cycle the board only while the initial prompt is awaited
\* (FancyProgressRenderer: only the initial prompt stages need the hint).
PowerCycleIsAskedFirst == Running /\ Bar = PowerCycle => state = "WaitForInitialPrompt"

\* The text of the stage 2 prompt never satisfies the wait for the stage 1 prompt.
ShortPromptStandsAlone ==
    state = "SendXForPreloader" =>
        LET rest == SubSeq(console, cursor + 1, Len(console)) \o toHost \o output
        IN  rest = <<>> \/ Head(rest) # LOAD

\* A transfer does not fail at EOT once the board has gone on to the next stage.
ForwardProgressExcusesEot ==
    result = "Xmodem" /\ step = "eot_wait" => stage = (IF state = "SendPreloader" THEN "bootrom" ELSE "bl2")
=============================================================================
