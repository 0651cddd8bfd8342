--------------------------------- MODULE Cli --------------------------------
(***************************************************************************)
(* `unbrk recover` of crates/unbrk-cli/src/lib.rs: the command line is     *)
(* validated, the port opened, the board recovered and perhaps flashed,    *)
(* the console handed over, and the outcome told three times: by events,   *)
(* by what is printed and by the exit code.                                *)
(*                                                                         *)
(* Recovery.tla and Flash.tla model what happens on the wire and           *)
(* Console.tla the handoff; here they are a sequence of milestones that    *)
(* may stop at each point with one of the errors found there.  The reader  *)
(* of stdout or stderr may go away at any time, and files may fail to open *)
(* or to be written.                                                       *)
(***************************************************************************)
EXTENDS Events, FiniteSets

CONSTANT Invocations   \* command lines, with the terminal the program is started in

Commandline == [json: BOOLEAN, progress: {"unset", "plain", "fancy", "off"}, port: BOOLEAN,
                preloader: BOOLEAN, fip: BOOLEAN, nonInteractive: BOOLEAN,
                noConsole: {"unset", "true", "false"}, resume: BOOLEAN, flash: BOOLEAN,
                ubootPrompt: {"default", "valid", "invalid"},
                layout: {"default", "fits", "overflows"}, log: BOOLEAN, transcript: BOOLEAN,
                stdinTty: BOOLEAN, stdoutTty: BOOLEAN]

ASSUME CliAssumption == Invocations \subseteq Commandline

VARIABLES
    args,         \* the command line
    phase,        \* where run_recover is
    done,         \* milestones of the current part that are behind
    events,       \* the events recorded, the k-th with sequence number k
    outputError,  \* ProgressReporter.output_error is set
    execution,    \* "none", "recovered", "flashed" or the class of the error
    shown,        \* kinds of text written to stdout for a human
    stream,       \* the events written to stdout
    hint,         \* the remedy written to stderr
    log,          \* the events in the log file
    stdoutOpen, stderrOpen,
    exit          \* "running", "Success" or the class of the error the program ends with

vars == <<args, phase, done, events, outputError, execution, shown, stream, hint, log,
          stdoutOpen, stderrOpen, exit>>
streams == <<stdoutOpen, stderrOpen>>

Init ==
    /\ args \in Invocations
    /\ phase = "parse" /\ done = 0
    /\ events = <<>> /\ outputError = FALSE
    /\ execution = "none"
    /\ shown = {} /\ stream = <<>> /\ hint = "none" /\ log = <<>>
    /\ stdoutOpen = TRUE /\ stderrOpen = TRUE
    /\ exit = "running"

-----------------------------------------------------------------------------
(* The command line *)

NoConsoleByFlag(a) == a.noConsole = "true"                   \* mutant: --json does not imply it
NoConsole(a) == IF a.noConsole = "unset" THEN a.json ELSE a.noConsole = "true"

ConsoleHandoffAllowed(a) ==
    ~a.flash /\ ~a.nonInteractive /\ ~NoConsole(a) /\ a.stdinTty /\ a.stdoutTty

ProgressMode(a) ==
    IF a.json THEN "off"
    ELSE IF a.progress # "unset" THEN a.progress
    ELSE IF a.stdoutTty THEN "fancy" ELSE "plain"

HasFlashLayoutOverrides(a) == a.layout # "default"

Valid(a) ==
    /\ a.json => a.progress = "unset" /\ a.noConsole # "false"
    /\ a.nonInteractive => a.port
    /\ ~a.resume \/ a.flash => a.preloader /\ a.fip
    /\ a.ubootPrompt # "invalid"
    /\ HasFlashLayoutOverrides(a) => a.flash

Exit(outcome) == phase' = "exit" /\ exit' = outcome

ValidateRecover ==
    /\ phase = "parse"
    /\ IF Valid(args) THEN phase' = "start" /\ UNCHANGED exit ELSE Exit("BadInput")
    /\ UNCHANGED <<args, done, events, outputError, execution, shown, stream, hint, log, streams>>

-----------------------------------------------------------------------------
(* The session *)

\* A line for the human: only the plain renderer notices that nobody reads it.
Progress == IF ProgressMode(args) = "off" \/ ~stdoutOpen THEN {} ELSE {"progress"}
LostLine == ProgressMode(args) = "plain" /\ ~stdoutOpen

\* PlainProgressRenderer::render_event: the events that print no line.
HasLine(event) == Kind(event) \notin {"SessionStarted", "PortOpened", "UBootCommandCompleted"}

\* push_event and push_existing_event: an event of the core is numbered anew, as the next one.
Push(event) == events' = Append(events, event)

\* ProgressReporter::observe.
Observe(event) ==
    /\ outputError' = (outputError \/ (HasLine(event) /\ LostLine))
    /\ shown' = IF HasLine(event) THEN shown \cup Progress ELSE shown

\* record_local_event and record_core_event.
Record(event) == Push(event) /\ Observe(event)

\* A serial port, by what is_plausible_recovery_port looks at: its type, and whether its name is
\* one of a modem or of Bluetooth, or one of a USB adapter.
SerialPort == [type : {"Usb", "Bluetooth", "Other"}, name : {"modem", "usb", "other"}]
IsPlausibleRecoveryPort(port) ==
    port.type # "Bluetooth" /\ port.name # "modem" /\ (port.type = "Usb" \/ port.name = "usb")

\* select_recover_port: the one plausible port.
SelectRecoverPort(ports) ==
    IF Cardinality({port \in ports : IsPlausibleRecoveryPort(port)}) = 1 THEN "found" ELSE "BadInput"
Selections == {SelectRecoverPort(ports) : ports \in SUBSET SerialPort}

\* recover_port; the ports may also fail to be listed (discover_ports).
RecoverPort(a) ==
    IF a.port THEN {"found"}
    ELSE IF a.stdinTty /\ a.stdoutTty THEN Selections \cup {"Serial"} ELSE {"BadInput"}

\* The warning of a resumed run, the port and the banner.
StartSession ==
    /\ phase = "start"
    /\ \/ args.resume /\ ~stderrOpen /\ Exit("Io") /\ UNCHANGED <<events, outputError, shown>>
       \/ /\ args.resume => stderrOpen
          /\ \E port \in RecoverPort(args) :
                IF port # "found" \/ LostLine
                THEN /\ Exit(IF port = "found" THEN "Io" ELSE port)
                     /\ UNCHANGED <<events, outputError, shown>>
                ELSE /\ Push(<<"SessionStarted">>)
                     /\ shown' = shown \cup Progress     \* the startup banner
                     /\ phase' = "open" /\ UNCHANGED <<outputError, exit>>
    /\ UNCHANGED <<args, done, execution, stream, hint, log, streams>>

\* The serial port and the transcript file; an error ends the run at once.
OpenTransport ==
    /\ phase = "open"
    /\ \/ /\ Exit("Serial") \/ (args.transcript /\ Exit("BadInput"))
          /\ UNCHANGED <<events, outputError, shown>>
       \/ /\ Record(<<"PortOpened">>)
          /\ phase' = IF ~args.resume THEN "images" ELSE IF args.flash THEN "plan" ELSE "prompt"
          /\ UNCHANGED exit
    /\ UNCHANGED <<args, done, execution, stream, hint, log, streams>>

-----------------------------------------------------------------------------
(* execute_recover *)

\* What recover_to_uboot and flash_from_uboot get through, by the arms of timeout_hint.
RecoveryMilestones == <<<<"PromptSeen", "PreloaderPrompt">>, <<"XmodemStarted", "Preloader">>,
                        <<"PromptSeen", "FipPrompt">>, <<"XmodemStarted", "Fip">>,
                        <<"UBootPromptSeen">>>>
Erase == [op |-> "erase", image |-> "none"]
FlashMilestones == <<<<"UBootPromptSeen">>, <<"UBootCommandStarted", Erase>>,
                     <<"XmodemStarted", "LoadxPreloader">>, <<"ImageVerified", "preloader">>,
                     <<"ResetSeen">>, <<"HandoffReady", FALSE>>>>
RecoveryErrors == {"Serial", "Timeout", "Protocol", "Xmodem"}
FlashErrors == RecoveryErrors \cup {"VerificationMismatch"}

Finish(outcome) == phase' = "executed" /\ execution' = outcome

ReadImages ==
    /\ phase = "images"
    /\ \/ phase' = "recover" /\ UNCHANGED execution
       \/ Finish("BadInput")
    /\ UNCHANGED <<args, done, events, outputError, shown, stream, hint, log, streams, exit>>

RecoverToUboot ==
    /\ phase = "recover" /\ done < Len(RecoveryMilestones)
    /\ \/ /\ Record(RecoveryMilestones[done + 1])
          /\ done' = done + 1
          /\ UNCHANGED <<phase, execution>>
       \/ /\ \E error \in RecoveryErrors : Finish(error)
          /\ UNCHANGED <<done, events, outputError, shown>>
    /\ UNCHANGED <<args, stream, hint, log, streams, exit>>

ReadyBeforeFlash ==                                          \* mutant: announced before the flash as well
    /\ phase = "recover" /\ done = Len(RecoveryMilestones)
    /\ done' = 0
    /\ Record(<<"HandoffReady", ConsoleHandoffAllowed(args)>>)
    /\ IF args.flash THEN phase' = "plan" /\ UNCHANGED execution ELSE Finish("recovered")
    /\ UNCHANGED <<args, stream, hint, log, streams, exit>>
RecoveryDone ==
    /\ phase = "recover" /\ done = Len(RecoveryMilestones)
    /\ done' = 0
    /\ IF args.flash
       THEN phase' = "plan" /\ UNCHANGED <<execution, events, outputError, shown>>
       ELSE Record(<<"HandoffReady", ConsoleHandoffAllowed(args)>>) /\ Finish("recovered")
    /\ UNCHANGED <<args, stream, hint, log, streams, exit>>

\* wait_for_uboot_prompt of a resumed run.
WaitForUbootPrompt ==
    /\ phase = "prompt"
    /\ \/ /\ done = 0 /\ done' = 1
          /\ Record(<<"UBootPromptSeen">>)
          /\ UNCHANGED <<phase, execution>>
       \/ /\ done = 0
          /\ \E error \in {"Serial", "Timeout"} : Finish(error)
          /\ UNCHANGED <<done, events, outputError, shown>>
       \/ /\ done = 1 /\ done' = 0
          /\ Record(<<"HandoffReady", ConsoleHandoffAllowed(args)>>)
          /\ Finish("recovered")
    /\ UNCHANGED <<args, stream, hint, log, streams, exit>>

\* build_flash_plan (FlashPlan.tla), only now that the board is at its prompt.
BuildFlashPlan ==
    /\ phase = "plan"
    /\ IF args.layout = "overflows" THEN Finish("BadInput") ELSE phase' = "flash" /\ UNCHANGED execution
    /\ UNCHANGED <<args, done, events, outputError, shown, stream, hint, log, streams, exit>>

\* The images are read anew, before the first byte is sent.
FlashFromUboot ==
    /\ phase = "flash" /\ done < Len(FlashMilestones)
    /\ \/ /\ Record(FlashMilestones[done + 1])
          /\ done' = done + 1
          /\ UNCHANGED <<phase, execution>>
       \/ /\ done < 5
          /\ \E error \in FlashErrors \cup (IF done = 0 THEN {"BadInput"} ELSE {}) : Finish(error)
          /\ UNCHANGED <<done, events, outputError, shown>>
    /\ UNCHANGED <<args, stream, hint, log, streams, exit>>

FlashDone ==
    /\ phase = "flash" /\ done = Len(FlashMilestones)
    /\ Finish("flashed")
    /\ UNCHANGED <<args, done, events, outputError, shown, stream, hint, log, streams, exit>>

-----------------------------------------------------------------------------
(* The outcome *)

Failed == execution \in FailureClass

CheckOutputInTerminal ==                                     \* mutant: hands over in any terminal
    /\ phase = "executed"
    /\ IF outputError THEN Exit("Io")
       ELSE /\ phase' = CASE Failed -> "report"
                          [] execution = "recovered" /\ args.stdinTty /\ args.stdoutTty -> "handoff"
                          [] OTHER -> "log"
            /\ UNCHANGED exit
    /\ UNCHANGED <<args, done, events, outputError, execution, shown, stream, hint, log, streams>>
\* output_result: a lost line ends the run here, whatever came of it.
CheckOutput ==
    /\ phase = "executed"
    /\ IF outputError THEN Exit("Io")
       ELSE /\ phase' = CASE Failed -> "report"
                          [] execution = "recovered" /\ ConsoleHandoffAllowed(args) -> "handoff"
                          [] OTHER -> "log"
            /\ UNCHANGED exit
    /\ UNCHANGED <<args, done, events, outputError, execution, shown, stream, hint, log, streams>>

HandoffConsole ==
    /\ phase = "handoff"
    /\ \/ /\ stdoutOpen
          /\ shown' = shown \cup {"console"}
          /\ phase' = "relay" /\ UNCHANGED execution
       \/ /\ ~stdoutOpen
          /\ execution' = "Io"
          /\ phase' = "report" /\ UNCHANGED shown
    /\ UNCHANGED <<args, done, events, outputError, stream, hint, log, streams, exit>>

RelayErrorUnreported ==                                      \* mutant: no Failure event for it
    /\ phase = "relay"
    /\ \/ stdoutOpen /\ phase' = "log" /\ UNCHANGED execution
       \/ \E error \in {"Io", "Serial"} : execution' = error /\ phase' = "log"
    /\ UNCHANGED <<args, done, events, outputError, shown, stream, hint, log, streams, exit>>
\* The console is left by a key or at the end of the port; or the terminal, the port or stdout fails.
RelayConsoleHandoff ==
    /\ phase = "relay"
    /\ \/ stdoutOpen /\ phase' = "log" /\ UNCHANGED execution
       \/ \E error \in {"Io", "Serial"} : execution' = error /\ phase' = "report"
    /\ UNCHANGED <<args, done, events, outputError, shown, stream, hint, log, streams, exit>>

\* timeout_hint: the remedy for the last event that names a phase.
HintOf(event) ==
    CASE event = <<"PromptSeen", "PreloaderPrompt">> -> "recovery mode"
      [] event = <<"XmodemStarted", "Preloader">> -> "stage 2 never appeared"
      [] event \in {<<"PromptSeen", "FipPrompt">>, <<"XmodemStarted", "Fip">>} ->
            "FIP path stalled before a live U-Boot prompt"
      [] Kind(event) \in {"UBootCommandStarted", "ImageVerified"} -> "persistent flash"
      [] OTHER -> "none"
Remedies == {i \in 1..Len(events) : HintOf(events[i]) # "none"}
TimeoutHintOldest ==                                         \* mutant: the events are searched forwards
    IF Remedies = {} THEN "UART access"
    ELSE HintOf(events[CHOOSE i \in Remedies : \A j \in Remedies : i <= j])
TimeoutHint ==
    LET HasRemedy(event) == HintOf(event) # "none"
    IN  IF Remedies = {} THEN "UART access" ELSE HintOf(Latest(events, HasRemedy))

ReportFailure ==
    /\ phase = "report"
    /\ Record(<<"Failure", execution>>)
    /\ CASE outputError' -> Exit("Io") /\ UNCHANGED hint
         [] ~outputError' /\ args.json -> phase' = "log" /\ UNCHANGED <<exit, hint>>
         [] ~outputError' /\ ~args.json /\ stderrOpen ->
               /\ hint' = IF execution = "Timeout" THEN TimeoutHint ELSE hint
               /\ phase' = "log" /\ UNCHANGED exit
         [] OTHER -> Exit("Io") /\ UNCHANGED hint
    /\ UNCHANGED <<args, done, execution, stream, log, streams>>

WriteLogIgnored ==                                           \* mutant: its errors are ignored
    /\ phase = "log"
    /\ \E n \in 0..Len(events) : log' = IF args.log THEN SubSeq(events, 1, n) ELSE <<>>
    /\ phase' = "output"
    /\ UNCHANGED <<args, done, events, outputError, execution, shown, stream, hint, streams, exit>>
\* The log file: an error replaces the outcome, and nothing more is written.
WriteLog ==
    /\ phase = "log"
    /\ \/ /\ log' = IF args.log THEN events ELSE <<>>
          /\ phase' = "output" /\ UNCHANGED exit
       \/ args.log /\ Exit("BadInput") /\ UNCHANGED log
       \/ /\ args.log /\ Exit("Io")
          /\ \E n \in 0..Len(events) - 1 : log' = SubSeq(events, 1, n)
    /\ UNCHANGED <<args, done, events, outputError, execution, shown, stream, hint, streams>>

\* write_events_and_flush: whole, or what was taken before the reader left.
WriteStream ==
    \/ stdoutOpen /\ stream' = events /\ Exit(IF Failed THEN execution ELSE "Success")
    \/ /\ ~stdoutOpen /\ Exit("Io")
       /\ \E n \in 0..Len(events) - 1 : stream' = SubSeq(events, 1, n)

\* write_recover_summary of a run that succeeded; one that failed has told so on stderr.
WriteSummary ==
    IF Failed THEN Exit(execution) /\ UNCHANGED shown
    ELSE \/ stdoutOpen /\ shown' = shown \cup {"summary"} /\ Exit("Success")
         \/ ~stdoutOpen /\ Exit("Io") /\ UNCHANGED shown

\* The JSON stream or the summary, and the exit code.
WriteOutcome ==
    /\ phase = "output"
    /\ IF args.json THEN WriteStream /\ UNCHANGED shown ELSE WriteSummary /\ UNCHANGED stream
    /\ UNCHANGED <<args, done, events, outputError, execution, hint, log, streams>>

\* The reader of an output goes away.
ReaderLeaves ==
    /\ phase # "exit"
    /\ \/ stdoutOpen /\ stdoutOpen' = FALSE /\ UNCHANGED stderrOpen
       \/ stderrOpen /\ stderrOpen' = FALSE /\ UNCHANGED stdoutOpen
    /\ UNCHANGED <<args, phase, done, events, outputError, execution, shown, stream, hint, log, exit>>

Run == \/ ValidateRecover \/ StartSession \/ OpenTransport \/ ReadImages \/ RecoverToUboot
       \/ RecoveryDone \/ WaitForUbootPrompt \/ BuildFlashPlan \/ FlashFromUboot \/ FlashDone
       \/ CheckOutput \/ HandoffConsole \/ RelayConsoleHandoff \/ ReportFailure \/ WriteLog
       \/ WriteOutcome

Next == Run \/ ReaderLeaves

Spec == Init /\ [][Next]_vars

-----------------------------------------------------------------------------
(* Properties *)

Seen(kind) == \E i \in 1..Len(events) : Kind(events[i]) = kind
Trace == {events[i] : i \in 1..Len(events)}
LogLost == args.log /\ log # events

\* Exit code 0 promises everything that was asked for: the recovery or the flash, the whole log,
\* the whole stream or the summary.
SuccessIsComplete ==
    exit = "Success" =>
        /\ execution = IF args.flash THEN "flashed" ELSE "recovered"
        /\ ~LogLost /\ ~Seen("Failure")
        /\ IF args.json THEN stream = events ELSE "summary" \in shown

\* Once the port is open, a run that fails ends with a Failure event of the class its exit code
\* tells, unless an output was lost.
FailureIsTold ==
    exit \in FailureClass /\ Seen("PortOpened") /\ stdoutOpen /\ stderrOpen /\ ~LogLost =>
        events[Len(events)] = <<"Failure", exit>>

\* With --json nothing but events reaches stdout (initial-plan.md: rather than mixing NDJSON
\* with a live console stream).
StreamIsPure == args.json => shown = {}

\* The session opens with its schema version and its port, a handoff is announced once, after the
\* prompt, and nothing but a failure follows it.
EventsAreOrdered ==
    \A i \in 1..Len(events) :
        /\ Kind(events[i]) = "SessionStarted" <=> i = 1
        /\ Kind(events[i]) = "PortOpened" <=> i = 2
        /\ Kind(events[i]) = "Failure" => i = Len(events)
        /\ Kind(events[i]) = "HandoffReady" =>
              /\ \E j \in 1..i - 1 : events[j] = <<"UBootPromptSeen">>
              /\ \A j \in i + 1..Len(events) : Kind(events[j]) = "Failure"

\* The console opens if and only if an event announced it: two places decide it.
ConsoleAsAnnounced ==
    LET announced == \E i \in 1..Len(events) : events[i] = <<"HandoffReady", TRUE>>
    IN  /\ "console" \in shown => announced
        /\ exit = "Success" /\ announced => "console" \in shown

\* The remedy printed for a timeout is not about a phase that is already behind
\* (timeout_hint_points_to_the_stalled_phase).  The one for the FIP transfer is left out: it is
\* also printed when the prompt reached by recovery does not answer the flash.
HintIsNotStale ==
    /\ hint = "UART access" => events[Len(events) - 1] \in {<<"PortOpened">>, <<"UBootPromptSeen">>}
    /\ hint = "recovery mode" => ~Seen("XmodemStarted")
    /\ hint = "stage 2 never appeared" => ~Seen("UBootPromptSeen") /\ <<"PromptSeen", "FipPrompt">> \notin Trace
    /\ hint = "persistent flash" => Seen("UBootCommandStarted") /\ ~Seen("ResetSeen")
=============================================================================
