-------------------------------- MODULE Flash --------------------------------
(***************************************************************************)
(* `flash_from_uboot` of crates/unbrk-core/src/flash.rs with the U-Boot it *)
(* commands: wake the prompt, read loadaddr, erase, load, verify and write *)
(* each image, reset.  Commands go through `run_command` of uboot.rs.      *)
(*                                                                         *)
(* The data blocks of a transfer are one step, as Xmodem.tla shows of      *)
(* `send_crc`; its EOT handshake is kept.  A wait starts a fresh buffer:   *)
(* the code moves its cursor to the end of the console after each command. *)
(* The board is not in the repository: it is modelled from the flash tests *)
(* and the recorded session of docs/valyrian-end-to-end.log.               *)
(***************************************************************************)
EXTENDS UBoot, FlashLayout, Progress

CONSTANTS
    Args,            \* the overrides of the flash plan
    SizeChoices,     \* the sizes the images may have
    DeviceBlocks,    \* blocks of the MMC device
    EotRetryLimit,   \* XmodemConfig.eot_retry_limit, normalized
    Pending,         \* what U-Boot may be printing when the program starts
    MaxChatter,      \* bound: lines U-Boot prints on its own
    Endless,         \* the modes of the board in which it may print for ever
    Faulty           \* whether commands may fail on the board

ASSUME FlashAssumption ==
    /\ DeviceBlocks \in Nat
    /\ SizeChoices \subseteq [Images -> Nat]
    /\ Args \in [{"eraseCount", "preloaderStart", "preloaderCount", "fipStart", "fipCount"} -> Nat \cup {Absent}]
    /\ EotRetryLimit \in Nat \ {0}
    /\ MaxChatter \in Nat
    /\ Endless \subseteq {"shell", "ready", "receive", "reset"} /\ Faulty \in BOOLEAN

VARIABLES
    sizes,      \* sizes of the images read
    pending,    \* what U-Boot was printing when the program started
    phase,      \* where flash_from_uboot is
    pos,        \* the command being run
    buffer,     \* output read since the wait started
    cursor,     \* how much of it the wait has consumed
    attempts,   \* EOT writes of the current transfer
    excused,    \* the wait for the prompt follows an excused EOT failure
    events,     \* the events emitted (XmodemProgress left out)
    result,     \* "running", "ok" or the error returned
    toHost,     \* output on the wire
    toBoard,    \* command lines and EOTs on the wire
    out,        \* what U-Boot has still to print
    mode,       \* "shell", "ready" and "receive" in loadx, "reset"
    chatter,    \* lines it has printed on its own
    ram,        \* the image at $loadaddr: "none", one of Images, "part" of one
    filesize,   \* its environment variable: "unset" or the image last loaded, or "other"
    mmc,        \* what each block holds
    did         \* the commands U-Boot has carried out

given == <<sizes, pending>>
runnerVars == <<sizes, pending, phase, pos, buffer, cursor, attempts, excused, events, result>>
boardVars == <<out, mode, chatter, ram, filesize, mmc, did>>
vars == <<sizes, pending, phase, pos, buffer, cursor, attempts, excused, events, result, toHost, toBoard,
          out, mode, chatter, ram, filesize, mmc, did>>

Command(op, image) == [op |-> op, image |-> image]
StageScript(image) ==
    <<Command("loadx", image), Command("filesize", image), Command("write", image)>>
ScriptLateErase ==                                           \* mutant: erased after the preloader
    <<Command("loadaddr", "none")>> \o StageScript("preloader") \o <<Command("erase", "none")>>
    \o StageScript("fip") \o <<Command("reset", "none")>>
Script == <<Command("loadaddr", "none"), Command("erase", "none")>>
          \o StageScript("preloader") \o StageScript("fip") \o <<Command("reset", "none")>>
Wake == Command("wake", "none")
EOT == Command("EOT", "none")
Current == Script[pos]
Transfer == IF Current.image = "preloader" THEN "LoadxPreloader" ELSE "LoadxFip"

Plan == Requested(Args)
PlannedWrite(image) == Written(Plan[image], sizes[image])

ACK == "ACK"
NAK == "NAK"
CAN == "CAN"
Answers == {ACK, NAK, CAN}

Init ==
    /\ sizes \in SizeChoices
    /\ phase = "prepare" /\ pos = 1
    /\ buffer = <<>> /\ cursor = 0
    /\ attempts = 0 /\ excused = FALSE
    /\ events = <<>>
    /\ result = "running"
    /\ toHost = <<>> /\ toBoard = <<>>
    /\ pending \in Pending /\ out = pending
    /\ mode = "shell" /\ chatter = 0
    /\ ram = "none" /\ filesize = "unset"
    /\ mmc = [b \in 0..DeviceBlocks - 1 |-> "old"]
    /\ did = {}

-----------------------------------------------------------------------------
(* The runner *)

\* An error ends the run; after an excused EOT failure it is reported as the transfer's.
Fail(error) ==
    /\ phase' = "failed"
    /\ result' = IF excused THEN "Xmodem" ELSE error
    /\ UNCHANGED <<given, pos, buffer, cursor, attempts, excused, events>>

\* prepare_stage_payloads, before any byte is sent.
PrepareStagePayloads ==
    /\ phase = "prepare"
    /\ IF \A image \in Images : SizeFits(Plan[image], sizes[image])
       THEN phase' = "wake" /\ UNCHANGED <<given, pos, buffer, cursor, attempts, excused, events, result>>
       ELSE Fail("BadInput")
    /\ UNCHANGED <<toHost, toBoard, boardVars>>

WakePromptTwice ==                                           \* mutant: two carriage returns
    /\ phase = "wake"
    /\ toBoard' = toBoard \o <<Wake, Wake>>
    /\ phase' = "wake_wait"
    /\ UNCHANGED <<given, pos, buffer, cursor, attempts, excused, events, result, toHost, boardVars>>

\* ensure_prompt writes a carriage return ...
WakePrompt ==
    /\ phase = "wake"
    /\ toBoard' = Append(toBoard, Wake)
    /\ phase' = "wake_wait"
    /\ UNCHANGED <<given, pos, buffer, cursor, attempts, excused, events, result, toHost, boardVars>>

\* ... and run_uboot_command, start_loadx and reset_and_wait the command's line.
SendCommand ==
    /\ phase = "send"
    /\ toBoard' = Append(toBoard, Current)
    /\ events' = Emit(events, <<"UBootCommandStarted", Current>>)
    /\ buffer' = <<>> /\ cursor' = 0
    /\ phase' = CASE Current.op = "loadx" -> "crc_wait"
                  [] Current.op = "reset" -> "reset_wait"
                  [] OTHER -> "output"
    /\ UNCHANGED <<given, pos, attempts, excused, result, toHost, boardVars>>

\* The write or the flush of it fails, when the command has been announced; the line may have
\* been sent all the same.
SendFails ==
    /\ phase \in {"wake", "send"}
    /\ phase' = "failed" /\ result' = "Serial"
    /\ events' = IF phase = "send" THEN Emit(events, <<"UBootCommandStarted", Current>>) ELSE events
    /\ \/ UNCHANGED toBoard
       \/ toBoard' = Append(toBoard, IF phase = "wake" THEN Wake ELSE Current)
    /\ UNCHANGED <<given, pos, buffer, cursor, attempts, excused, toHost, boardVars>>

Waits == {"wake_wait", "output", "crc_wait", "loadx_wait", "reset_wait"}

\* Where the wait's goal ends in the buffer, or NoMatch.
EvidenceEnd ==
    LET seen == {i \in cursor + 1..Len(buffer) : buffer[i] \in Evidence}
    IN  IF seen = {} THEN NoMatch ELSE CHOOSE i \in seen : \A j \in seen : i <= j
Match ==
    CASE phase \in {"wake_wait", "loadx_wait"} -> FindPrompt(buffer, cursor, UBootShell, TRUE)
      [] phase = "crc_wait" -> FindCrcReady(buffer, cursor)
      [] phase = "reset_wait" -> EvidenceEnd
      [] phase = "output" -> IF CommandComplete(buffer) THEN Len(buffer) ELSE NoMatch

TooLong == phase = "output" /\ Len(buffer) > OutputLimit

\* Printable text that goes on tells the scanners nothing: only run_command, which counts what it
\* reads, has more of it in the buffer.
GoesOn == phase # "output" /\ toHost = <<TEXT>> /\ buffer # <<>> /\ buffer[Len(buffer)] = TEXT

\* One read returns part of what has arrived ...
ReadData ==
    /\ phase \in Waits /\ Match = NoMatch /\ ~TooLong /\ ~GoesOn
    /\ \E n \in 1..Len(toHost) :
          /\ buffer' = buffer \o [i \in 1..n |-> IF toHost[i] \in Answers THEN CTL ELSE toHost[i]]
          /\ toHost' = SubSeq(toHost, n + 1, Len(toHost))
    /\ UNCHANGED <<given, phase, pos, cursor, attempts, excused, events, result, toBoard, boardVars>>

\* ... or more of the same text ...
ReadOn ==
    /\ phase \in Waits /\ Match = NoMatch /\ GoesOn
    /\ toHost' = <<>>
    /\ UNCHANGED <<runnerVars, toBoard, boardVars>>

\* ... or nothing for the whole timeout, or an error, or too much.
ReadFails ==
    /\ phase \in Waits
    /\ \/ Match = NoMatch /\ ~TooLong /\ toHost = <<>> /\ Fail("Timeout")
       \/ Match = NoMatch /\ ~TooLong /\ Fail("Serial")
       \/ TooLong /\ Fail("Protocol")
    /\ UNCHANGED <<toHost, toBoard, boardVars>>

PromptSeen ==
    /\ phase = "wake_wait" /\ Match # NoMatch
    /\ cursor' = AdvancedTo(cursor, Match)
    /\ events' = Emit(events, <<"UBootPromptSeen">>)
    /\ phase' = "send"
    /\ UNCHANGED <<given, pos, buffer, attempts, excused, result, toHost, toBoard, boardVars>>

Completed == <<"UBootCommandCompleted", Current>>

\* A command is accepted: its events are emitted and the next one is due.
Accept(milestones) ==
    /\ events' = events \o milestones
    /\ pos' = pos + 1
    /\ phase' = "send"
    /\ excused' = FALSE
    /\ UNCHANGED <<given, buffer, cursor, attempts, result>>

RequireNothing(kind) == Accept(<<Completed>>)                \* mutant: the echo is success enough
\* require_output, capture_hex_value.
Require(kind) == IF Reports(buffer, kind) THEN Accept(<<Completed>>) ELSE Fail("Protocol")

\* parse_filesize and verify_filesize.
VerifyFilesize ==
    IF ~Reports(buffer, FilesizeLines) THEN Fail("Protocol")
    ELSE IF SizeMatches(Reported(buffer, FilesizeLines), FilesizeOf, Current.image)
    THEN Accept(<<<<"ImageVerified", Current.image>>, Completed>>)
    ELSE Fail("VerificationMismatch")

CommandDone ==
    /\ phase = "output" /\ Match # NoMatch /\ ~TooLong
    /\ \/ Current.op = "loadaddr" /\ Require({LOADADDR})
       \/ Current.op = "erase" /\ Require({ERASED})
       \/ Current.op = "filesize" /\ VerifyFilesize
       \/ Current.op = "write" /\ Require({WRITTEN})
    /\ UNCHANGED <<toHost, toBoard, boardVars>>

CrcReady ==
    /\ phase = "crc_wait" /\ Match # NoMatch
    /\ cursor' = AdvancedTo(cursor, Match)
    /\ events' = events \o <<<<"CrcReady", Transfer>>, <<"XmodemStarted", Transfer>>>>
    /\ phase' = "data" /\ attempts' = 0
    /\ UNCHANGED <<given, pos, buffer, excused, result, toHost, toBoard, boardVars>>

\* Every block is written, stored and acknowledged.
DataSent ==
    /\ phase = "data" /\ toHost = <<>> /\ out = <<>> /\ mode = "ready"
    /\ mode' = "receive" /\ ram' = Current.image
    /\ phase' = "eot_write"
    /\ UNCHANGED <<given, pos, buffer, cursor, attempts, excused, events, result, toHost, toBoard,
                   out, chatter, filesize, mmc, did>>

\* A block fails for good, with what was loaded before partly overwritten or not.
DataFails ==
    /\ phase = "data"
    /\ Fail("Xmodem")
    /\ ram' \in {ram, "part"}
    /\ UNCHANGED <<toHost, toBoard, out, mode, chatter, filesize, mmc, did>>

WriteEotUncounted ==                                         \* mutant: attempts is not advanced
    /\ phase = "eot_write"
    /\ toBoard' = Append(toBoard, EOT)
    /\ phase' = "eot_wait"
    /\ UNCHANGED <<given, pos, buffer, cursor, attempts, excused, events, result, toHost, boardVars>>

WriteEot ==
    /\ phase = "eot_write"
    /\ toBoard' = Append(toBoard, EOT)
    /\ attempts' = attempts + 1
    /\ phase' = "eot_wait"
    /\ UNCHANGED <<given, pos, buffer, cursor, excused, events, result, toHost, boardVars>>

EotAcked ==
    /\ phase = "eot_wait" /\ toHost # <<>> /\ Head(toHost) = ACK
    /\ toHost' = Tail(toHost)
    /\ events' = Emit(events, <<"XmodemCompleted", Transfer, FALSE>>)
    /\ phase' = "loadx_wait"
    /\ UNCHANGED <<given, pos, buffer, cursor, attempts, excused, result, toBoard, boardVars>>

\* permits_prompt_completion_recovery: look for the prompt before giving up.
ExcuseEot ==
    /\ phase' = "loadx_wait"
    /\ excused' = TRUE
    /\ UNCHANGED <<given, pos, buffer, cursor, attempts, events, result>>

EotNaked ==
    /\ phase = "eot_wait" /\ toHost # <<>> /\ Head(toHost) = NAK
    /\ toHost' = Tail(toHost)
    /\ IF attempts < EotRetryLimit
       THEN phase' = "eot_write"
            /\ UNCHANGED <<given, pos, buffer, cursor, attempts, excused, events, result>>
       ELSE ExcuseEot
    /\ UNCHANGED <<toBoard, boardVars>>

EotTimesOut ==
    /\ phase = "eot_wait" /\ toHost = <<>>
    /\ ExcuseEot
    /\ UNCHANGED <<toHost, toBoard, boardVars>>

\* Any other byte, or an I/O error, is not excused.  An EOT whose write fails may have been sent.
EotFails ==
    /\ Fail("Xmodem")
    /\ \/ /\ phase = "eot_write"
          /\ toBoard' \in {toBoard, Append(toBoard, EOT)} /\ UNCHANGED toHost
       \/ /\ phase = "eot_wait"
          /\ toHost' \in {toHost, IF toHost = <<>> THEN toHost ELSE Tail(toHost)} /\ UNCHANGED toBoard
    /\ UNCHANGED boardVars

\* The prompt after loadx: the transfer is complete, and verify_total_size looks at what came with it.
LoadxDone ==
    /\ phase = "loadx_wait" /\ Match # NoMatch
    /\ LET seen == (IF excused THEN <<<<"XmodemCompleted", Transfer, TRUE>>>> ELSE <<>>)
                   \o <<<<"UBootPromptSeen">>>>
           FailAfter(error) ==
               /\ phase' = "failed" /\ result' = error
               /\ events' = events \o seen
               /\ excused' = FALSE
               /\ UNCHANGED <<given, pos, buffer, cursor, attempts>>
           told == Reports(buffer, TotalLines)
       IN  CASE told /\ ~SizeMatches(Reported(buffer, TotalLines), TotalOf, Current.image) ->
                   FailAfter("VerificationMismatch")
             [] ~told /\ Reports(buffer, {MALFORMED}) -> FailAfter("Protocol")
             [] OTHER -> Accept(seen \o <<Completed>>)
    /\ UNCHANGED <<toHost, toBoard, boardVars>>

ResetSeen ==
    /\ phase = "reset_wait" /\ Match # NoMatch
    /\ cursor' = Match
    /\ events' = events \o <<<<"ResetSeen">>, <<"HandoffReady", FALSE>>>>
    /\ phase' = "done" /\ result' = "ok"
    /\ UNCHANGED <<given, pos, buffer, attempts, excused, toHost, toBoard, boardVars>>

Runner == \/ PrepareStagePayloads \/ WakePrompt \/ SendCommand \/ SendFails \/ ReadData \/ ReadOn \/ ReadFails
          \/ PromptSeen \/ CommandDone \/ CrcReady \/ DataSent \/ DataFails
          \/ WriteEot \/ EotAcked \/ EotNaked \/ EotTimesOut \/ EotFails \/ LoadxDone \/ ResetSeen

-----------------------------------------------------------------------------
(* The board *)

ShellPrompt == <<UBOOT, SPACE>>
Reply(lines) == <<TEXT, CTL>> \o lines \o <<CTL>> \o ShellPrompt

Transmit ==
    /\ out # <<>>
    /\ toHost' = Append(toHost, Head(out))
    /\ out' = Tail(out)
    /\ UNCHANGED <<runnerVars, toBoard, mode, chatter, ram, filesize, mmc, did>>

Chatter ==
    /\ out # <<>> /\ chatter < MaxChatter
    /\ toHost' = Append(toHost, TEXT)
    /\ chatter' = chatter + 1
    /\ UNCHANGED <<runnerVars, toBoard, out, mode, ram, filesize, mmc, did>>

\* What runs on the board may log for as long as it runs; it waits for the line.
LogOn ==
    /\ mode \in Endless /\ out = <<>> /\ toHost = <<>>
    /\ toHost' = Append(toHost, TEXT)
    /\ UNCHANGED <<runnerVars, toBoard, boardVars>>

\* The shell takes a line when it has printed everything, echoes it and carries it out.
Take(line) ==
    /\ out = <<>> /\ toBoard # <<>>
    /\ Head(toBoard) = line
    /\ toBoard' = Tail(toBoard)
    /\ UNCHANGED <<runnerVars, toHost, chatter>>

Succeeds(line) == did' = did \cup {line}

TakeWake ==
    /\ mode = "shell" /\ Take(Wake)
    /\ out' = <<CTL>> \o ShellPrompt
    /\ UNCHANGED <<mode, ram, filesize, mmc, did>>

TakePrintenv ==
    /\ mode = "shell"
    /\ \/ /\ Take(Command("loadaddr", "none"))
          /\ out' = Reply(<<LOADADDR>>) /\ Succeeds(Command("loadaddr", "none"))
       \/ \E image \in Images :
             /\ Take(Command("filesize", image))
             /\ filesize # "unset"
             /\ out' = Reply(<<FilesizeOf[filesize]>>) /\ Succeeds(Command("filesize", image))
    /\ UNCHANGED <<mode, ram, filesize, mmc>>

Overwrite(range, content) == [b \in DOMAIN mmc |-> IF b \in Blocks(range) THEN content ELSE mmc[b]]

TakeErase ==
    /\ mode = "shell" /\ Take(Command("erase", "none"))
    /\ mmc' = Overwrite(Plan["erase"], "erased")
    /\ out' = Reply(<<ERASED>>) /\ Succeeds(Command("erase", "none"))
    /\ UNCHANGED <<mode, ram, filesize>>

TakeLoadx ==
    /\ mode = "shell"
    /\ \E image \in Images : Take(Command("loadx", image))
    /\ mode' = "ready"
    /\ out' = <<TEXT, CTL, CRC, CRC, CRC>>
    /\ UNCHANGED <<ram, filesize, mmc, did>>

TakeWrite ==
    /\ mode = "shell"
    /\ \E image \in Images :
          /\ Take(Command("write", image))
          /\ mmc' = Overwrite(PlannedWrite(image), ram)
          /\ Succeeds(Command("write", image))
    /\ out' = Reply(<<WRITTEN>>)
    /\ UNCHANGED <<mode, ram, filesize>>

\* A command that fails prints something else; an erase or a write may have been begun.
TakeFails ==
    /\ Faulty /\ mode = "shell"
    /\ \E line \in {Script[p] : p \in 1..Len(Script)} :
          /\ Take(line)
          /\ mmc' \in {mmc} \cup (IF line.op = "write" THEN {Overwrite(PlannedWrite(line.image), "torn")} ELSE {})
                            \cup (IF line.op = "erase" THEN {Overwrite(Plan["erase"], "torn")} ELSE {})
    /\ out' = Reply(<<TEXT>>)
    /\ UNCHANGED <<mode, ram, filesize, did>>

\* loadx ends: the environment tells the size, a summary may tell it too.
TakeEot ==
    /\ mode = "receive" /\ Take(EOT)
    /\ \/ /\ out' = <<NAK>>
          /\ UNCHANGED <<mode, filesize, did>>
       \/ \E answer \in {<<>>, <<ACK>>}, loaded \in {ram} \cup (IF Faulty THEN {"other"} ELSE {}) :
             /\ filesize' = loaded
             /\ \E summary \in {<<>>, <<TotalOf[loaded]>>} \cup (IF Faulty THEN {<<MALFORMED>>} ELSE {}) :
                   out' = answer \o summary \o <<CTL>> \o ShellPrompt
             /\ mode' = "shell"
             /\ Succeeds(Command("loadx", ram))
       \/ /\ Faulty                        \* loadx gives up: what it has received is not counted
          /\ out' = <<TEXT, CTL>> \o ShellPrompt
          /\ mode' = "shell"
          /\ UNCHANGED <<filesize, did>>
    /\ UNCHANGED <<ram, mmc>>

\* The board starts anew; what it prints then need not be what the program knows.
TakeReset ==
    /\ mode = "shell" /\ Take(Command("reset", "none"))
    /\ mode' = "reset"
    /\ \E evidence \in {<<>>, <<RESETTING>>, <<PRESS, CTL>>, <<TEXT, CTL, UBOOTBANNER>>} :
          out' = <<TEXT, CTL, TEXT, CTL>> \o evidence
    /\ Succeeds(Command("reset", "none"))
    /\ UNCHANGED <<ram, filesize, mmc>>

Board == \/ Transmit \/ Chatter \/ LogOn \/ TakeWake \/ TakePrintenv \/ TakeErase \/ TakeLoadx \/ TakeWrite
         \/ TakeFails \/ TakeEot \/ TakeReset

Next == Runner \/ Board

Spec == Init /\ [][Next]_vars

\* Every read of the runner ends within its timeout, so it always goes on.  Nothing makes the board
\* print or answer.
FairSpec == Spec /\ WF_vars(Runner)

-----------------------------------------------------------------------------
(* Properties *)

Results == {"running", "ok", "BadInput", "Timeout", "Serial", "Protocol", "Xmodem", "VerificationMismatch"}
Lines == {LOADADDR, ERASED, WRITTEN, MALFORMED, RESETTING, UBOOTBANNER} \cup FilesizeLines \cup TotalLines

\* The type invariant of FlashRunner, the wire and the board.
TypeOK ==
    /\ phase \in Waits \cup {"prepare", "wake", "send", "data", "eot_write", "eot_wait", "done", "failed"}
    /\ pos \in 1..Len(Script)
    /\ buffer \in Seq(Tokens \cup Lines) /\ cursor \in 0..Len(buffer)
    /\ attempts \in 0..EotRetryLimit
    /\ excused \in BOOLEAN
    /\ events \in Seq(EventPayload)
    /\ result \in Results
    /\ toHost \in Seq(Tokens \cup Lines \cup Answers) /\ out \in Seq(Tokens \cup Lines \cup Answers)
    /\ mode \in {"shell", "ready", "receive", "reset"}
    /\ ram \in Images \cup {"none", "part"} /\ filesize \in Images \cup {"unset", "other"}
    /\ mmc \in [0..DeviceBlocks - 1 -> Images \cup {"old", "erased", "torn"}]

Holds(image) == \A b \in Blocks(PlannedWrite(image)) : mmc[b] = image

\* Success means that both images are in flash, whole, and that the board was reset.
SuccessMeansFlashed == result = "ok" => mode = "reset" /\ \A image \in Images : Holds(image)

\* An image that does not fit its range is found out before the device is touched
\* (initial-plan.md, step 15).
MisfitTouchesNothing ==
    (\E image \in Images : ~(sizes[image] \in 1..MaxBytes(Plan[image]))) =>
        \A b \in DOMAIN mmc : mmc[b] = "old"

\* A completion event is evidence: U-Boot has carried out that very command, whatever
\* prompts, echoes and stale lines the output held.  (Not so for loadx, whose completion only
\* says that the prompt is back; the ImageVerified that follows is its evidence.)
ConfirmedMeansDone ==
    \A p \in {q \in 1..Len(Script) : Script[q].op # "loadx"} :
        (\E i \in 1..Len(events) : events[i] = <<"UBootCommandCompleted", Script[p]>>) => Script[p] \in did

BeginsToHold(image) == \E b \in DOMAIN mmc : mmc[b] # image /\ mmc'[b] = image
\* Nothing is written to flash unless U-Boot counted as many bytes as the image has
\* (testing.md: a mismatch stops the run before any write).
OnlyVerifiedIsWritten ==
    [][\A image \in Images : BeginsToHold(image) => filesize = image \/ (SameSize /\ filesize \in Images)]_vars

\* A command is judged by its own output: when the closing prompt is found, U-Boot has taken
\* the command's line and printed all there is (initial-plan.md: stale prompt text cannot
\* satisfy a later state).
JudgedByOwnOutput ==
    phase = "output" /\ Match # NoMatch =>
        toBoard = <<>> /\ \A rest \in {out, toHost} : \A i \in 1..Len(rest) : rest[i] \in {SPACE, TEXT}

\* So it is when U-Boot was waiting at its prompt as the program started, whatever it prints later.
QuietStartJudgesRight == pending = <<>> => JudgedByOwnOutput

\* Whatever U-Boot was printing: a prompt left over from before, which the echo of the command
\* follows on its line, does not close the command (prompt_search_cursor).
StalePromptIsSkipped == buffer # <<>> /\ buffer[1] = UBOOT => JudgedByOwnOutput

\* When U-Boot was waiting at its prompt as the program started, an erase or a write that it
\* carried out is never reported as refused.
DoneIsNotDenied ==
    pending = <<>> /\ result = "Protocol" /\ Current.op \in {"erase", "write"} => Current \notin did

\* A run that fails during a transfer reports the transfer's error, whatever came of the wait that
\* was to excuse it (xmodem_failure), and no other run does.
TransferErrorIsKept ==
    result \notin {"running", "ok"} => (result = "Xmodem" <=> TransferUnderWay(events))

Bar == Line(events, TRUE, TRUE)
\* While the run goes on the device changes only as the operator is told: it is being erased, or
\* an image is being written, and it is the erase or the write that changes it.
BarTellsTheChange ==
    [][mmc' # mmc /\ result = "running" =>
          Bar = IF Current.op = "erase" THEN "Erasing persistent flash" ELSE "Writing image to flash"]_vars


\* Every run ends, whatever the board does, unless it prints for ever: the waits for a prompt, for
\* readiness and for the evidence of a reset bound each read, not the whole wait.  The output of a
\* command, which run_command limits, is no such exception.
Termination == <>(result # "running") \/ ([]<><<LogOn>>_vars /\ <>[](phase \in Waits \ {"output"}))

Update == INSTANCE FlashUpdate WITH
    eraseRange <- Blocks(Plan["erase"]),
    ranges <- [image \in Images |-> Blocks(PlannedWrite(image))],
    outcome <- IF result \in {"running", "ok"} THEN result ELSE "failed"
\* The device is erased, then written image by image, and success means that both are there.
ImplementsFlashUpdate == Update!Spec
=============================================================================
