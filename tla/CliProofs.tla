------------------------------ MODULE CliProofs ------------------------------
(***************************************************************************)
(* Of `unbrk recover`, proved for every set of command lines and           *)
(* terminals: with --json stdout carries events and nothing else, exit     *)
(* code 0 promises all that was asked for, a failure is told wherever the  *)
(* outcome is, the events are those of the course of a run in their order, *)
(* and the hint of a timeout is about the step that timed out.             *)
(***************************************************************************)
EXTENDS Cli, TLAPS

\* The strengthening of StreamIsPure: the option that would mix console and stream was refused when
\* the command line was validated, and the handoff is not reached without it.
Inv ==
    /\ args \in Commandline
    /\ phase \in {"parse", "exit"} \/ Valid(args)
    /\ args.json => shown = {} /\ phase \notin {"handoff", "relay"}

\* With --json the renderer is off, so that no event gives a line (ProgressMode::resolve).
LEMMA JsonShowsNoProgress ==
    ASSUME Inv, args.json
    PROVE  Progress = {}
  BY DEF Inv, Progress, ProgressMode

\* With --json no console is handed over (validate_recover).
LEMMA JsonKeepsTheConsole ==
    ASSUME Inv, phase # "parse", phase # "exit", args.json
    PROVE  ~ConsoleHandoffAllowed(args)
<1>1. args.noConsole # "false"
  BY DEF Inv, Valid
<1>2. args.noConsole \in {"unset", "true", "false"} /\ args.json \in BOOLEAN
  BY DEF Inv, Commandline
<1> QED
  BY <1>1, <1>2 DEF ConsoleHandoffAllowed, NoConsole

\* Recording an event shows nothing (ProgressReporter::observe).
LEMMA RecordShowsNothing ==
    ASSUME Inv, NEW event, Record(event), args.json
    PROVE  shown' = {}
<1>1. Progress = {} /\ shown = {}
  BY JsonShowsNoProgress DEF Inv
<1> QED
  BY <1>1 DEF Record, Observe

\* No step writes anything but events to stdout.
LEMMA StepKeepsTheStream ==
    ASSUME Inv, [Next]_vars
    PROVE  Inv'
<1> USE DEF streams, Exit, Finish
<1>1. CASE ValidateRecover
  BY <1>1 DEF ValidateRecover, Inv
<1>2. CASE StartSession
  BY <1>2, JsonShowsNoProgress DEF StartSession, Inv
<1>3. CASE OpenTransport
  BY <1>3, RecordShowsNothing DEF OpenTransport, Inv
<1>4. CASE ReadImages
  BY <1>4 DEF ReadImages, Inv
<1>5. CASE RecoverToUboot
  BY <1>5, RecordShowsNothing DEF RecoverToUboot, Inv
<1>6. CASE RecoveryDone
  BY <1>6, RecordShowsNothing DEF RecoveryDone, Inv
<1>7. CASE WaitForUbootPrompt
  BY <1>7, RecordShowsNothing DEF WaitForUbootPrompt, Inv
<1>8. CASE BuildFlashPlan
  BY <1>8 DEF BuildFlashPlan, Inv
<1>9. CASE FlashFromUboot
  BY <1>9, RecordShowsNothing DEF FlashFromUboot, Inv
<1>10. CASE FlashDone
  BY <1>10 DEF FlashDone, Inv
<1>11. CASE CheckOutput
  BY <1>11, JsonKeepsTheConsole DEF CheckOutput, Inv
<1>12. CASE HandoffConsole
  BY <1>12 DEF HandoffConsole, Inv
<1>13. CASE RelayConsoleHandoff
  BY <1>13 DEF RelayConsoleHandoff, Inv
<1>14. CASE ReportFailure
  BY <1>14, RecordShowsNothing DEF ReportFailure, Inv
<1>15. CASE WriteLog
  BY <1>15 DEF WriteLog, Inv
<1>16. CASE WriteOutcome
  BY <1>16 DEF WriteOutcome, WriteStream, WriteSummary, Inv
<1>17. CASE ReaderLeaves
  BY <1>17 DEF ReaderLeaves, Inv
<1>18. CASE UNCHANGED vars
  BY <1>18 DEF vars, Inv
<1> QED
  BY <1>1, <1>2, <1>3, <1>4, <1>5, <1>6, <1>7, <1>8, <1>9, <1>10, <1>11, <1>12, <1>13, <1>14, <1>15,
     <1>16, <1>17, <1>18 DEF Next, Run

\* With --json nothing but events reaches stdout, for every command line, terminal and failure
\* (run_recover and everything it calls).
THEOREM StreamStaysPure == Spec => []StreamIsPure
<1>1. Init => Inv
  BY CliAssumption DEF Init, Inv
<1>2. Inv /\ [Next]_vars => Inv'
  BY StepKeepsTheStream
<1>3. Inv => StreamIsPure
  BY DEF Inv, StreamIsPure
<1> QED
  BY <1>1, <1>2, <1>3, PTL DEF Spec

-----------------------------------------------------------------------------
(* Exit code 0 *)

\* The strengthening of SuccessIsComplete.  The outcome of a run is settled before anything is
\* written, it is the one that was asked for, a Failure event comes with an outcome that failed,
\* and the log is whole when the stream or the summary is written.
Outcomes ==
    /\ execution \in {"none", "recovered", "flashed"} \cup FailureClass
    /\ execution = "recovered" => ~args.flash
    /\ execution = "flashed" => args.flash
    /\ phase = "prompt" => ~args.flash
    /\ phase \in {"plan", "flash"} => args.flash
    /\ phase \in {"executed", "handoff", "relay", "log", "output"} => execution # "none"
    /\ phase = "report" => Failed
Told ==
    /\ Seen("Failure") => Failed /\ phase \in {"log", "output", "exit"}
    /\ phase # "exit" => exit = "running"
    /\ phase = "output" => ~LogLost
    /\ phase = "exit" => SuccessIsComplete

CompleteInv ==
    /\ args \in Commandline /\ done \in Nat /\ events \in Seq(EventPayload)
    /\ Outcomes /\ Told

\* What execute_recover records on the way is an event, and no Failure.
Milestone(event) == event \in EventPayload /\ Kind(event) # "Failure"

LEMMA MilestonesAreEvents ==
    /\ \A i \in 1..Len(RecoveryMilestones) : Milestone(RecoveryMilestones[i])
    /\ \A i \in 1..Len(FlashMilestones) : Milestone(FlashMilestones[i])
    /\ \A allowed \in BOOLEAN : Milestone(<<"HandoffReady", allowed>>)
    /\ Milestone(<<"SessionStarted">>) /\ Milestone(<<"PortOpened">>) /\ Milestone(<<"UBootPromptSeen">>)
<1> USE DEF Milestone, Kind
<1>1. Milestone(<<"SessionStarted">>) /\ Milestone(<<"PortOpened">>) /\ Milestone(<<"UBootPromptSeen">>)
      /\ Milestone(<<"ResetSeen">>)
  BY DEF EventPayload
<1>2. \A stage \in RecoveryStage : Milestone(<<"PromptSeen", stage>>)
  BY DEF EventPayload
<1>3. \A transfer \in TransferStage : Milestone(<<"XmodemStarted", transfer>>)
  BY DEF EventPayload
<1>4. \A image \in ImageKind : Milestone(<<"ImageVerified", image>>)
  BY DEF EventPayload
<1>5. \A allowed \in BOOLEAN : Milestone(<<"HandoffReady", allowed>>)
  BY DEF EventPayload
<1>6. Milestone(<<"UBootCommandStarted", Erase>>)
  <2>1. Erase \in UBootCommand
    BY DEF Erase, UBootCommand
  <2> QED
    BY <2>1 DEF EventPayload
<1> USE DEF RecoveryStage, TransferStage, ImageKind
<1> HIDE DEF Milestone
<1>7. \A i \in 1..Len(RecoveryMilestones) : Milestone(RecoveryMilestones[i])
  BY <1>1, <1>2, <1>3 DEF RecoveryMilestones
<1>8. \A i \in 1..Len(FlashMilestones) : Milestone(FlashMilestones[i])
  <2>1. Milestone(<<"XmodemStarted", "LoadxPreloader">>) /\ Milestone(<<"ImageVerified", "preloader">>)
        /\ Milestone(<<"HandoffReady", FALSE>>)
    BY <1>3, <1>4, <1>5
  <2> DEFINE m == FlashMilestones
  <2>2. /\ Len(m) = 6
        /\ m[1] = <<"UBootPromptSeen">> /\ m[2] = <<"UBootCommandStarted", Erase>>
        /\ m[3] = <<"XmodemStarted", "LoadxPreloader">> /\ m[4] = <<"ImageVerified", "preloader">>
        /\ m[5] = <<"ResetSeen">> /\ m[6] = <<"HandoffReady", FALSE>>
    BY DEF FlashMilestones
  <2> HIDE DEF m
  <2> SUFFICES ASSUME NEW i \in 1..6 PROVE Milestone(m[i])
    BY <2>2 DEF m
  <2>3. i \in {1, 2, 3, 4, 5, 6}
    OBVIOUS
  <2> QED
    BY <1>1, <1>6, <2>1, <2>2, <2>3
<1> QED
  BY <1>1, <1>5, <1>7, <1>8

\* Such an event may be recorded: the events stay events, and a Failure is not among them unless it
\* was before (push_event).
LEMMA MilestoneRecorded ==
    ASSUME events \in Seq(EventPayload), NEW event, Milestone(event), Push(event)
    PROVE  events' \in Seq(EventPayload) /\ (Seen("Failure")' <=> Seen("Failure"))
<1>1. events' = Append(events, event) /\ event \in EventPayload /\ Kind(event) # "Failure"
  BY DEF Push, Milestone
<1>2. events' \in Seq(EventPayload) /\ Len(events') = Len(events) + 1 /\ Len(events) \in Nat
  BY <1>1
<1>3. events'[Len(events) + 1] = event /\ \A i \in 1..Len(events) : events'[i] = events[i]
  BY <1>1
<1> QED
  BY <1>1, <1>2, <1>3 DEF Seen

\* A Failure is an event as well (record_local_event in run_recover).
LEMMA FailureRecorded ==
    ASSUME events \in Seq(EventPayload), Failed, Push(<<"Failure", execution>>)
    PROVE  events' \in Seq(EventPayload)
<1>1. <<"Failure", execution>> \in EventPayload
  BY DEF Failed, EventPayload
<1> QED
  BY <1>1 DEF Push

\* A step that records a milestone, or nothing, keeps what is said of the events.
LEMMA QuietStep ==
    ASSUME CompleteInv, phase \notin {"log", "output", "exit"},
           UNCHANGED events \/ \E event : Milestone(event) /\ Push(event)
    PROVE  events' \in Seq(EventPayload) /\ ~Seen("Failure")'
<1>1. events \in Seq(EventPayload) /\ ~Seen("Failure")
  BY DEF CompleteInv, Told
<1>2. CASE UNCHANGED events
  BY <1>1, <1>2 DEF Seen
<1>3. CASE \E event : Milestone(event) /\ Push(event)
  BY <1>1, <1>3, MilestoneRecorded
<1> QED
  BY <1>2, <1>3

\* A port that was not found ends the run with the class of its error (recover_port).
LEMMA PortOutcomes ==
    ASSUME NEW a
    PROVE  RecoverPort(a) \subseteq {"found", "BadInput", "Serial"}
  BY DEF RecoverPort, Selections, SelectRecoverPort

LEMMA ErrorsAreFailures == RecoveryErrors \subseteq FailureClass /\ FlashErrors \subseteq FailureClass
                           /\ {"Io", "Serial", "BadInput", "Timeout"} \subseteq FailureClass
                           /\ {"Success", "running", "none", "recovered", "flashed"} \cap FailureClass = {}
  BY DEF RecoveryErrors, FlashErrors, FailureClass

\* Every step keeps the strengthened invariant.
LEMMA StepKeepsThePromise ==
    ASSUME CompleteInv, [Next]_vars
    PROVE  CompleteInv'
<1> USE ErrorsAreFailures DEF streams, Exit, Finish, CompleteInv, Outcomes, Told, Failed, LogLost
<1>0. ASSUME UNCHANGED events \/ (\E event : Milestone(event) /\ Push(event)),
             phase \notin {"log", "output", "exit"}
      PROVE  events' \in Seq(EventPayload) /\ ~Seen("Failure")'
  BY <1>0, QuietStep
<1>1. CASE ValidateRecover
  BY <1>1 DEF ValidateRecover, Seen, SuccessIsComplete
<1>2. CASE StartSession
  <2>1. UNCHANGED events \/ \E event : Milestone(event) /\ Push(event)
    BY <1>2, MilestonesAreEvents DEF StartSession
  <2>2. events' \in Seq(EventPayload) /\ ~Seen("Failure")'
    BY <1>0, <1>2, <2>1 DEF StartSession
  <2>3. exit' # "Success" /\ ((phase' = "open" /\ exit' = exit) \/ phase' = "exit")
    BY <1>2, PortOutcomes DEF StartSession
  <2> QED
    BY <1>2, <2>2, <2>3 DEF StartSession, SuccessIsComplete
<1>3. CASE OpenTransport
  <2>1. UNCHANGED events \/ \E event : Milestone(event) /\ Push(event)
    BY <1>3, MilestonesAreEvents DEF OpenTransport, Record
  <2>2. events' \in Seq(EventPayload) /\ ~Seen("Failure")'
    BY <1>0, <1>3, <2>1 DEF OpenTransport
  <2> QED
    BY <1>3, <2>2 DEF OpenTransport, SuccessIsComplete
<1>4. CASE ReadImages
  BY <1>4 DEF ReadImages, Seen
<1>5. CASE RecoverToUboot
  <2>0. done + 1 \in 1..Len(RecoveryMilestones)
    BY <1>5 DEF RecoverToUboot, RecoveryMilestones
  <2>1. UNCHANGED events \/ \E event : Milestone(event) /\ Push(event)
    BY <1>5, <2>0, MilestonesAreEvents DEF RecoverToUboot, Record
  <2>2. events' \in Seq(EventPayload) /\ ~Seen("Failure")'
    BY <1>0, <1>5, <2>1 DEF RecoverToUboot
  <2> QED
    BY <1>5, <2>2 DEF RecoverToUboot
<1>6. CASE RecoveryDone
  <2>0. ConsoleHandoffAllowed(args) \in BOOLEAN
    BY DEF ConsoleHandoffAllowed
  <2>1. UNCHANGED events \/ \E event : Milestone(event) /\ Push(event)
    BY <1>6, MilestonesAreEvents, <2>0 DEF RecoveryDone, Record
  <2>2. events' \in Seq(EventPayload) /\ ~Seen("Failure")'
    BY <1>0, <1>6, <2>1 DEF RecoveryDone
  <2> QED
    BY <1>6, <2>2 DEF RecoveryDone
<1>7. CASE WaitForUbootPrompt
  <2>0. ConsoleHandoffAllowed(args) \in BOOLEAN
    BY DEF ConsoleHandoffAllowed
  <2>1. UNCHANGED events \/ \E event : Milestone(event) /\ Push(event)
    BY <1>7, MilestonesAreEvents, <2>0 DEF WaitForUbootPrompt, Record
  <2>2. events' \in Seq(EventPayload) /\ ~Seen("Failure")'
    BY <1>0, <1>7, <2>1 DEF WaitForUbootPrompt
  <2> QED
    BY <1>7, <2>2 DEF WaitForUbootPrompt
<1>8. CASE BuildFlashPlan
  BY <1>8 DEF BuildFlashPlan, Seen
<1>9. CASE FlashFromUboot
  <2>0. done + 1 \in 1..Len(FlashMilestones)
    BY <1>9 DEF FlashFromUboot, FlashMilestones
  <2>1. UNCHANGED events \/ \E event : Milestone(event) /\ Push(event)
    BY <1>9, <2>0, MilestonesAreEvents DEF FlashFromUboot, Record
  <2>2. events' \in Seq(EventPayload) /\ ~Seen("Failure")'
    BY <1>0, <1>9, <2>1 DEF FlashFromUboot
  <2> QED
    BY <1>9, <2>2 DEF FlashFromUboot
<1>10. CASE FlashDone
  BY <1>10 DEF FlashDone, Seen
<1>11. CASE CheckOutput
  BY <1>11 DEF CheckOutput, Seen, SuccessIsComplete
<1>12. CASE HandoffConsole
  BY <1>12 DEF HandoffConsole, Seen
<1>13. CASE RelayConsoleHandoff
  BY <1>13 DEF RelayConsoleHandoff, Seen
<1>14. CASE ReportFailure
  <2>1. events' \in Seq(EventPayload)
    BY <1>14, FailureRecorded DEF ReportFailure, Record
  <2>2. exit' # "Success" /\ ((phase' = "log" /\ exit' = exit) \/ phase' = "exit")
    BY <1>14 DEF ReportFailure
  <2> QED
    BY <1>14, <2>1, <2>2 DEF ReportFailure, SuccessIsComplete
<1>15. CASE WriteLog
  BY <1>15 DEF WriteLog, Seen, SuccessIsComplete
<1>16. CASE WriteOutcome
  BY <1>16 DEF WriteOutcome, WriteStream, WriteSummary, Seen, SuccessIsComplete
<1>17. CASE ReaderLeaves
  BY <1>17 DEF ReaderLeaves, Seen
<1>18. CASE UNCHANGED vars
  BY <1>18 DEF vars, Seen, SuccessIsComplete
<1> QED
  BY <1>1, <1>2, <1>3, <1>4, <1>5, <1>6, <1>7, <1>8, <1>9, <1>10, <1>11, <1>12, <1>13, <1>14, <1>15,
     <1>16, <1>17, <1>18 DEF Next, Run

\* Exit code 0 promises the recovery or the flash, whichever was asked for, the whole log, and the
\* whole stream or the summary, for every command line, terminal and failure (run_recover).
THEOREM SuccessPromisesAll == Spec => []SuccessIsComplete
<1>1. Init => CompleteInv
  BY CliAssumption DEF Init, CompleteInv, Outcomes, Told, Seen
<1>2. CompleteInv /\ [Next]_vars => CompleteInv'
  BY StepKeepsThePromise
<1>3. CompleteInv => SuccessIsComplete
  BY DEF CompleteInv, Told, SuccessIsComplete
<1> QED
  BY <1>1, <1>2, <1>3, PTL DEF Spec

-----------------------------------------------------------------------------
(* The console *)

TheAnnouncement == <<"HandoffReady", TRUE>>
Announced == \E i \in 1..Len(events) : events[i] = TheAnnouncement

\* The strengthening of ConsoleAsAnnounced: the announcement is made where recovery ends, for the
\* reasons run_recover opens the console for, and a run that goes on after it has opened the console.
ConsoleInv ==
    /\ Announced =>
          /\ ConsoleHandoffAllowed(args)
          /\ phase \in {"executed", "handoff", "relay", "report", "log", "output", "exit"}
    /\ phase = "executed" /\ execution = "recovered" /\ ConsoleHandoffAllowed(args) => Announced
    /\ phase \in {"handoff", "relay"} => Announced
    /\ phase = "relay" => "console" \in shown
    /\ "console" \in shown => Announced
    /\ Announced /\ phase \in {"log", "output"} => "console" \in shown \/ Failed
    /\ Announced /\ exit = "Success" => "console" \in shown

\* Recording another event announces nothing and opens no console.
LEMMA OtherEventRecorded ==
    ASSUME events \in Seq(EventPayload), NEW event, event # TheAnnouncement, Push(event)
    PROVE  Announced' <=> Announced
<1>1. events' = Append(events, event) /\ Len(events') = Len(events) + 1 /\ Len(events) \in Nat
  BY DEF Push
<1>2. events'[Len(events) + 1] = event /\ \A i \in 1..Len(events) : events'[i] = events[i]
  BY <1>1
<1> QED
  BY <1>1, <1>2 DEF Announced

\* The announcement itself is found afterwards.
LEMMA AnnouncementRecorded ==
    ASSUME events \in Seq(EventPayload), Push(TheAnnouncement)
    PROVE  Announced'
<1>1. events' = Append(events, TheAnnouncement) /\ Len(events') = Len(events) + 1 /\ Len(events) \in Nat
  BY DEF Push
<1>2. events'[Len(events) + 1] = TheAnnouncement
  BY <1>1
<1> QED
  BY <1>1, <1>2 DEF Announced

\* The milestones of recovery and flash are none of them the announcement.
LEMMA MilestonesAnnounceNothing ==
    /\ \A i \in 1..Len(RecoveryMilestones) : RecoveryMilestones[i] # TheAnnouncement
    /\ \A i \in 1..Len(FlashMilestones) : FlashMilestones[i] # TheAnnouncement
<1>1. TheAnnouncement[1] = "HandoffReady" /\ TheAnnouncement[2] = TRUE
  BY DEF TheAnnouncement
<1>2. \A i \in 1..Len(RecoveryMilestones) : RecoveryMilestones[i] # TheAnnouncement
  <2> DEFINE m == RecoveryMilestones
  <2>1. /\ Len(m) = 5
        /\ m[1][1] # "HandoffReady" /\ m[2][1] # "HandoffReady" /\ m[3][1] # "HandoffReady"
        /\ m[4][1] # "HandoffReady" /\ m[5][1] # "HandoffReady"
    BY DEF RecoveryMilestones
  <2> HIDE DEF m
  <2> SUFFICES ASSUME NEW i \in 1..5 PROVE m[i] # TheAnnouncement
    BY <2>1 DEF m
  <2>2. i \in {1, 2, 3, 4, 5}
    OBVIOUS
  <2> QED
    BY <1>1, <2>1, <2>2
<1>3. \A i \in 1..Len(FlashMilestones) : FlashMilestones[i] # TheAnnouncement
  <2> DEFINE m == FlashMilestones
  <2>1. /\ Len(m) = 6
        /\ m[1][1] # "HandoffReady" /\ m[2][1] # "HandoffReady" /\ m[3][1] # "HandoffReady"
        /\ m[4][1] # "HandoffReady" /\ m[5][1] # "HandoffReady" /\ m[6][2] = FALSE
    BY DEF FlashMilestones
  <2> HIDE DEF m
  <2> SUFFICES ASSUME NEW i \in 1..6 PROVE m[i] # TheAnnouncement
    BY <2>1 DEF m
  <2>2. i \in {1, 2, 3, 4, 5, 6}
    OBVIOUS
  <2> QED
    BY <1>1, <2>1, <2>2
<1> QED
  BY <1>2, <1>3

\* An observed event shows the line of the renderer, never the console.
LEMMA ObservedIsNoConsole ==
    ASSUME NEW event, Record(event)
    PROVE  "console" \in shown' <=> "console" \in shown
  BY DEF Record, Observe, Progress

\* The HandoffReady of a recovery says whether the console will open.
LEMMA HandoffIsAnnounced ==
    ASSUME CompleteInv, ConsoleInv, phase \in {"recover", "prompt"},
           Record(<<"HandoffReady", ConsoleHandoffAllowed(args)>>), Finish("recovered"), UNCHANGED <<args, exit>>
    PROVE  ConsoleInv'
<1>1. events \in Seq(EventPayload) /\ ~Announced /\ exit = "running" /\ "console" \notin shown'
  BY ObservedIsNoConsole DEF CompleteInv, Told, ConsoleInv
<1>2. CASE ConsoleHandoffAllowed(args)
  <2>1. ConsoleHandoffAllowed(args) = TRUE
    BY <1>2 DEF ConsoleHandoffAllowed
  <2>2. Announced'
    BY <1>1, <2>1, AnnouncementRecorded DEF Record, TheAnnouncement
  <2> QED
    BY <1>1, <1>2, <2>2 DEF ConsoleInv, Finish, ConsoleHandoffAllowed, NoConsole
<1>3. CASE ~ConsoleHandoffAllowed(args)
  <2>1. <<"HandoffReady", ConsoleHandoffAllowed(args)>> # TheAnnouncement
    BY <1>3 DEF TheAnnouncement
  <2>2. ~Announced'
    BY <1>1, <2>1, OtherEventRecorded DEF Record
  <2> QED
    BY <1>1, <1>3, <2>2 DEF ConsoleInv, Finish, ConsoleHandoffAllowed, NoConsole
<1> QED
  BY <1>2, <1>3

\* Every step keeps the strengthened invariant.
LEMMA StepKeepsTheConsole ==
    ASSUME CompleteInv, ConsoleInv, [Next]_vars
    PROVE  ConsoleInv'
<1> USE ErrorsAreFailures DEF streams, Exit, Finish, ConsoleInv, Failed, ConsoleHandoffAllowed, NoConsole
<1>a. events \in Seq(EventPayload) /\ done \in Nat /\ Outcomes /\ (phase # "exit" => exit = "running")
  BY DEF CompleteInv, Told
<1>b. \A k \in {"SessionStarted", "PortOpened", "UBootPromptSeen"} : <<k>> # TheAnnouncement
  BY DEF TheAnnouncement
<1>1. CASE ValidateRecover
  BY <1>1 DEF ValidateRecover, Announced
<1>2. CASE StartSession
  <2>1. Announced' <=> Announced
    BY <1>2, <1>a, <1>b, OtherEventRecorded DEF StartSession, Announced
  <2>2. exit' # "Success" /\ (phase' = "open" \/ phase' = "exit") /\ ("console" \in shown' <=> "console" \in shown)
    BY <1>2, <1>a, PortOutcomes DEF StartSession, Progress
  <2> QED
    BY <1>2, <2>1, <2>2 DEF StartSession
<1>3. CASE OpenTransport
  <2>1. Announced' <=> Announced
    BY <1>3, <1>a, <1>b, OtherEventRecorded DEF OpenTransport, Record, Announced
  <2>2. exit' # "Success" /\ ("console" \in shown' <=> "console" \in shown)
    BY <1>3, <1>a, ObservedIsNoConsole DEF OpenTransport
  <2> QED
    BY <1>3, <2>1, <2>2 DEF OpenTransport
<1>4. CASE ReadImages
  BY <1>4, <1>a DEF ReadImages, Announced
<1>5. CASE RecoverToUboot
  <2>1. done + 1 \in 1..Len(RecoveryMilestones)
    BY <1>5, <1>a DEF RecoverToUboot, RecoveryMilestones
  <2>2. Announced' <=> Announced
    BY <1>5, <1>a, <2>1, OtherEventRecorded, MilestonesAnnounceNothing DEF RecoverToUboot, Record, Announced
  <2>3. "console" \in shown' <=> "console" \in shown
    BY <1>5, ObservedIsNoConsole DEF RecoverToUboot
  <2> QED
    BY <1>5, <1>a, <2>2, <2>3 DEF RecoverToUboot
<1>6. CASE RecoveryDone
  <2>1. CASE args.flash
    BY <1>6, <1>a, <2>1 DEF RecoveryDone, Announced
  <2>2. CASE ~args.flash
    BY <1>6, <2>2, <1>a, HandoffIsAnnounced DEF RecoveryDone
  <2> QED
    BY <2>1, <2>2
<1>7. CASE WaitForUbootPrompt
  <2>1. CASE done = 0
    <3>1. Announced' <=> Announced
      BY <1>7, <2>1, <1>a, <1>b, OtherEventRecorded DEF WaitForUbootPrompt, Record, Announced
    <3>2. "console" \in shown' <=> "console" \in shown
      BY <1>7, <2>1, ObservedIsNoConsole DEF WaitForUbootPrompt
    <3> QED
      BY <1>7, <2>1, <1>a, <3>1, <3>2 DEF WaitForUbootPrompt
  <2>2. CASE done = 1
    BY <1>7, <2>2, <1>a, HandoffIsAnnounced DEF WaitForUbootPrompt
  <2> QED
    BY <1>7, <2>1, <2>2 DEF WaitForUbootPrompt
<1>8. CASE BuildFlashPlan
  BY <1>8, <1>a DEF BuildFlashPlan, Announced
<1>9. CASE FlashFromUboot
  <2>1. done + 1 \in 1..Len(FlashMilestones)
    BY <1>9, <1>a DEF FlashFromUboot, FlashMilestones
  <2>2. Announced' <=> Announced
    BY <1>9, <1>a, <2>1, OtherEventRecorded, MilestonesAnnounceNothing DEF FlashFromUboot, Record, Announced
  <2>3. "console" \in shown' <=> "console" \in shown
    BY <1>9, ObservedIsNoConsole DEF FlashFromUboot
  <2> QED
    BY <1>9, <1>a, <2>2, <2>3 DEF FlashFromUboot
<1>10. CASE FlashDone
  BY <1>10, <1>a DEF FlashDone, Announced
<1>11. CASE CheckOutput
  BY <1>11, <1>a DEF CheckOutput, Announced, Outcomes
<1>12. CASE HandoffConsole
  BY <1>12, <1>a DEF HandoffConsole, Announced
<1>13. CASE RelayConsoleHandoff
  BY <1>13, <1>a DEF RelayConsoleHandoff, Announced
<1>14. CASE ReportFailure
  <2>1. <<"Failure", execution>> # TheAnnouncement
    BY DEF TheAnnouncement
  <2>2. Announced' <=> Announced
    BY <1>14, <1>a, <2>1, OtherEventRecorded DEF ReportFailure, Record
  <2>3. exit' # "Success" /\ (phase' = "log" \/ phase' = "exit") /\ ("console" \in shown' <=> "console" \in shown)
    BY <1>14, <1>a, ObservedIsNoConsole DEF ReportFailure
  <2> QED
    BY <1>14, <1>a, <2>2, <2>3 DEF ReportFailure, Outcomes
<1>15. CASE WriteLog
  BY <1>15, <1>a DEF WriteLog, Announced
<1>16. CASE WriteOutcome
  BY <1>16, <1>a DEF WriteOutcome, WriteStream, WriteSummary, Announced
<1>17. CASE ReaderLeaves
  BY <1>17 DEF ReaderLeaves, Announced
<1>18. CASE UNCHANGED vars
  BY <1>18 DEF vars, Announced
<1> QED
  BY <1>1, <1>2, <1>3, <1>4, <1>5, <1>6, <1>7, <1>8, <1>9, <1>10, <1>11, <1>12, <1>13, <1>14, <1>15,
     <1>16, <1>17, <1>18 DEF Next, Run

\* The console opens if and only if an event announced it: execute_recover, which announces it, and
\* run_recover, which opens it, decide alike for every command line, terminal and failure.
THEOREM ConsoleIsAnnounced == Spec => []ConsoleAsAnnounced
<1>1. Init => CompleteInv /\ ConsoleInv
  BY CliAssumption DEF Init, CompleteInv, Outcomes, Told, Seen, ConsoleInv, Announced
<1>2. CompleteInv /\ ConsoleInv /\ [Next]_vars => (CompleteInv /\ ConsoleInv)'
  BY StepKeepsThePromise, StepKeepsTheConsole
<1>3. CompleteInv /\ ConsoleInv => ConsoleAsAnnounced
  BY DEF ConsoleInv, ConsoleAsAnnounced, Announced, TheAnnouncement
<1> QED
  BY <1>1, <1>2, <1>3, PTL DEF Spec

-----------------------------------------------------------------------------
(* The events and the failure *)

\* What an invocation records when nothing fails: how the session opens, what recovery, the prompt of
\* a resumed run and the flash go through, and the handoff (execute_recover).
Before == IF args.resume THEN 2 ELSE 7
Length == IF args.flash THEN Before + 6 ELSE IF args.resume THEN 4 ELSE 8
Expected(i) ==
    CASE i = 1 -> <<"SessionStarted">>
      [] i = 2 -> <<"PortOpened">>
      [] ~args.resume /\ i \in 3..7 -> RecoveryMilestones[i - 2]
      [] args.resume /\ ~args.flash /\ i = 3 -> <<"UBootPromptSeen">>
      [] args.flash /\ i \in Before + 1..Before + 6 -> FlashMilestones[i - Before]
      [] OTHER -> <<"HandoffReady", ConsoleHandoffAllowed(args)>>

\* The events but for a Failure.
Passed == IF Seen("Failure") THEN Len(events) - 1 ELSE Len(events)

\* They are a beginning of that course, and where the run is tells of what length.
OnCourse ==
    /\ Passed \in 0..Length /\ \A i \in 1..Passed : events[i] = Expected(i)
    /\ Seen("Failure") => Passed >= 2 /\ events[Len(events)] = <<"Failure", execution>>
    /\ phase \in {"parse", "start", "open", "images", "plan"} => done = 0
    /\ phase \in {"parse", "start"} => Passed = 0
    /\ phase = "open" => Passed = 1
    /\ phase \in {"images", "recover"} => ~args.resume /\ done <= 5 /\ Passed = 2 + done
    /\ phase = "prompt" => args.resume /\ done <= 1 /\ Passed = 2 + done
    /\ phase \in {"plan", "flash"} => done <= 6 /\ Passed = Before + done
    /\ phase \in {"executed", "handoff", "relay", "report", "log", "output"} => Passed >= 2
    /\ phase \in {"parse", "start", "open", "images", "recover", "prompt", "plan", "flash"} =>
          execution = "none"
    /\ execution \in {"recovered", "flashed"} => Passed = Length
    /\ execution = "Timeout" => Passed <= Length - 2

\* What an output that is lost leaves behind, and when a failure has been reported.
Accounted ==
    /\ outputError => ~stdoutOpen
    /\ phase \notin {"output", "exit"} => log = <<>>
    /\ phase \notin {"log", "output", "exit"} => hint = "none"
    /\ phase \in {"handoff", "relay"} => ~Failed
    /\ phase \in {"log", "output"} /\ Failed => Seen("Failure")
    /\ phase = "exit" => FailureIsTold

\* The invariant of this part, on top of CompleteInv.
CourseInv == OnCourse /\ Accounted /\ HintIsNotStale

\* The length of the course is that of one of the four ways to invoke the program.
LEMMA LengthIs ==
    ASSUME args \in Commandline
    PROVE  /\ args.resume \in BOOLEAN /\ args.flash \in BOOLEAN
           /\ Length \in Nat /\ Length >= 4 /\ Before \in {2, 7}
           /\ args.resume <=> Before = 2
           /\ args.flash => Length = Before + 6
           /\ ~args.flash /\ args.resume => Length = 4
           /\ ~args.flash /\ ~args.resume => Length = 8
  BY DEF Commandline, Length, Before

\* Where each part of the run stands in the course.
LEMMA CourseIs ==
    ASSUME args \in Commandline
    PROVE  /\ Expected(1) = <<"SessionStarted">> /\ Expected(2) = <<"PortOpened">>
           /\ ~args.resume => \A k \in 1..5 : Expected(2 + k) = RecoveryMilestones[k]
           /\ args.resume /\ ~args.flash => Expected(3) = <<"UBootPromptSeen">>
           /\ args.flash => \A k \in 1..6 : Expected(Before + k) = FlashMilestones[k]
           /\ ~args.flash => Expected(Length) = <<"HandoffReady", ConsoleHandoffAllowed(args)>>
<1> USE LengthIs
<1>1. Expected(1) = <<"SessionStarted">>
  BY DEF Expected, Before
<1>2. Expected(2) = <<"PortOpened">>
  BY DEF Expected, Before
<1>3. ASSUME ~args.resume, NEW k \in 1..5 PROVE Expected(2 + k) = RecoveryMilestones[k]
  <2>1. 2 + k \in 3..7 /\ 2 + k # 1 /\ 2 + k # 2 /\ (2 + k) - 2 = k /\ Before = 7
    BY <1>3
  <2>2. ~(args.flash /\ 2 + k \in Before + 1..Before + 6)
    BY <2>1
  <2> QED
    BY <1>3, <2>1, <2>2 DEF Expected
<1>4. ASSUME args.resume, ~args.flash PROVE Expected(3) = <<"UBootPromptSeen">>
  BY <1>4 DEF Expected
<1>5. ASSUME args.flash, NEW k \in 1..6 PROVE Expected(Before + k) = FlashMilestones[k]
  <2>1. Before + k # 1 /\ Before + k # 2 /\ (Before + k) - Before = k /\ Before + k \in Before + 1..Before + 6
    OBVIOUS
  <2>2. ~(~args.resume /\ Before + k \in 3..7)
    OBVIOUS
  <2> QED
    BY <1>5, <2>1, <2>2 DEF Expected
<1>6. ASSUME ~args.flash PROVE Expected(Length) = <<"HandoffReady", ConsoleHandoffAllowed(args)>>
  <2>1. Length # 1 /\ Length # 2 /\ ~(~args.resume /\ Length \in 3..7) /\ ~(args.resume /\ Length = 3)
    BY <1>6
  <2> QED
    BY <1>6, <2>1 DEF Expected
<1> QED
  BY <1>1, <1>2, <1>3, <1>4, <1>5, <1>6

\* Each place of the course is in one of its parts.
LEMMA PartOfCourse ==
    ASSUME args \in Commandline, NEW i \in 1..Length
    PROVE  \/ i \in {1, 2}
           \/ ~args.resume /\ \E k \in 1..5 : i = 2 + k
           \/ args.resume /\ ~args.flash /\ i = 3
           \/ args.flash /\ \E k \in 1..6 : i = Before + k
           \/ ~args.flash /\ i = Length
<1> USE LengthIs
<1>1. CASE i \in {1, 2}
  BY <1>1
<1>2. CASE i >= 3 /\ i <= Before
  <2>1. ~args.resume /\ i = 2 + (i - 2) /\ i - 2 \in 1..5
    BY <1>2
  <2> QED
    BY <2>1
<1>3. CASE i > Before /\ args.flash
  <2>1. i = Before + (i - Before) /\ i - Before \in 1..6
    BY <1>3
  <2> QED
    BY <1>3, <2>1
<1>4. CASE i > Before /\ ~args.flash
  BY <1>4
<1> QED
  BY <1>1, <1>2, <1>3, <1>4

\* The kinds of the milestones, by the arms of timeout_hint.
LEMMA MilestoneKinds ==
    /\ Len(RecoveryMilestones) = 5 /\ Len(FlashMilestones) = 6
    /\ \A k \in 1..5 : Kind(RecoveryMilestones[k]) \in {"PromptSeen", "XmodemStarted", "UBootPromptSeen"}
    /\ \A k \in 1..5 : Kind(RecoveryMilestones[k]) = "UBootPromptSeen" <=> k = 5
    /\ RecoveryMilestones[5] = <<"UBootPromptSeen">> /\ FlashMilestones[1] = <<"UBootPromptSeen">>
    /\ \A k \in 1..6 :
          /\ Kind(FlashMilestones[k]) \in {"UBootPromptSeen", "UBootCommandStarted", "XmodemStarted",
                                           "ImageVerified", "ResetSeen", "HandoffReady"}
          /\ Kind(FlashMilestones[k]) = "HandoffReady" <=> k = 6
          /\ Kind(FlashMilestones[k]) = "ResetSeen" <=> k = 5
          /\ Kind(FlashMilestones[k]) = "UBootCommandStarted" <=> k = 2
<1> DEFINE r == RecoveryMilestones
           f == FlashMilestones
<1>1. /\ Len(r) = 5
      /\ r[1][1] = "PromptSeen" /\ r[2][1] = "XmodemStarted" /\ r[3][1] = "PromptSeen"
      /\ r[4][1] = "XmodemStarted" /\ r[5][1] = "UBootPromptSeen" /\ r[5] = <<"UBootPromptSeen">>
  BY DEF RecoveryMilestones
<1>2. /\ Len(f) = 6 /\ f[1] = <<"UBootPromptSeen">>
      /\ f[1][1] = "UBootPromptSeen" /\ f[2][1] = "UBootCommandStarted" /\ f[3][1] = "XmodemStarted"
      /\ f[4][1] = "ImageVerified" /\ f[5][1] = "ResetSeen" /\ f[6][1] = "HandoffReady"
  BY DEF FlashMilestones
<1> HIDE DEF r, f
<1>3. \A k \in 1..5 : k \in {1, 2, 3, 4, 5}
  OBVIOUS
<1>4. \A k \in 1..6 : k \in {1, 2, 3, 4, 5, 6}
  OBVIOUS
<1>5. /\ \A k \in 1..5 : Kind(r[k]) \in {"PromptSeen", "XmodemStarted", "UBootPromptSeen"}
      /\ \A k \in 1..5 : Kind(r[k]) = "UBootPromptSeen" <=> k = 5
  BY <1>1, <1>3 DEF Kind
<1>6. \A k \in 1..6 : Kind(f[k]) \in {"UBootPromptSeen", "UBootCommandStarted", "XmodemStarted",
                                      "ImageVerified", "ResetSeen", "HandoffReady"}
  BY <1>2, <1>4 DEF Kind
<1>7. \A k \in 1..6 : Kind(f[k]) = "HandoffReady" <=> k = 6
  BY <1>2, <1>4 DEF Kind
<1>8. \A k \in 1..6 : Kind(f[k]) = "ResetSeen" <=> k = 5
  BY <1>2, <1>4 DEF Kind
<1>9. \A k \in 1..6 : Kind(f[k]) = "UBootCommandStarted" <=> k = 2
  BY <1>2, <1>4 DEF Kind
<1> QED
  BY <1>1, <1>2, <1>5, <1>6, <1>7, <1>8, <1>9 DEF r, f

\* The course opens with the session and its port, has no Failure, and ends with the one handoff.
LEMMA CourseKinds ==
    ASSUME args \in Commandline, NEW i \in 1..Length
    PROVE  /\ Kind(Expected(i)) = "SessionStarted" <=> i = 1
           /\ Kind(Expected(i)) = "PortOpened" <=> i = 2
           /\ Kind(Expected(i)) # "Failure"
           /\ Kind(Expected(i)) = "HandoffReady" <=> i = Length
<1> USE LengthIs, CourseIs, MilestoneKinds
<1>1. CASE i = 1
  BY <1>1 DEF Kind
<1>2. CASE i = 2
  BY <1>2 DEF Kind
<1>3. ASSUME ~args.resume, NEW k \in 1..5, i = 2 + k
      PROVE  Kind(Expected(i)) \in {"PromptSeen", "XmodemStarted", "UBootPromptSeen"} /\ i # 1 /\ i # 2 /\ i # Length
  BY <1>3
<1>4. CASE args.resume /\ ~args.flash /\ i = 3
  BY <1>4 DEF Kind
<1>5. ASSUME args.flash, NEW k \in 1..6, i = Before + k
      PROVE  /\ Kind(Expected(i)) \notin {"SessionStarted", "PortOpened", "Failure"} /\ i # 1 /\ i # 2
             /\ Kind(Expected(i)) = "HandoffReady" <=> i = Length
  BY <1>5
<1>6. CASE ~args.flash /\ i = Length
  BY <1>6 DEF Kind
<1> QED
  BY <1>1, <1>2, <1>3, <1>4, <1>5, <1>6, PartOfCourse

\* Before the handoff a prompt of U-Boot was seen.
LEMMA PromptBeforeHandoff ==
    ASSUME args \in Commandline
    PROVE  \E j \in 1..Length - 1 : Expected(j) = <<"UBootPromptSeen">>
<1> USE LengthIs, CourseIs, MilestoneKinds
<1>1. CASE ~args.resume
  <2>1. Expected(7) = <<"UBootPromptSeen">> /\ 7 \in 1..Length - 1
    <3>1. Expected(2 + 5) = <<"UBootPromptSeen">> /\ 2 + 5 = 7
      BY <1>1
    <3> QED
      BY <1>1, <3>1
  <2> QED
    BY <2>1
<1>2. CASE args.resume
  <2>1. Expected(3) = <<"UBootPromptSeen">> /\ 3 \in 1..Length - 1
    <3>1. CASE args.flash
      <4>1. Expected(Before + 1) = <<"UBootPromptSeen">> /\ Before + 1 = 3
        BY <1>2, <3>1
      <4> QED
        BY <1>2, <3>1, <4>1
    <3>2. CASE ~args.flash
      BY <1>2, <3>2
    <3> QED
      BY <3>1, <3>2
  <2> QED
    BY <2>1
<1> QED
  BY <1>1, <1>2

\* What the events are, when they are on course.
LEMMA EventsAre ==
    ASSUME CompleteInv, OnCourse
    PROVE  /\ Len(events) \in Nat /\ Passed \in 0..Length
           /\ \A i \in 1..Passed : events[i] = Expected(i)
           /\ ~Seen("Failure") => Len(events) = Passed
           /\ Seen("Failure") => Len(events) = Passed + 1 /\ Passed >= 2
                                 /\ events[Len(events)] = <<"Failure", execution>>
<1>1. Len(events) \in Nat
  BY DEF CompleteInv
<1> QED
  BY <1>1 DEF OnCourse, Passed

\* A course is in order.
LEMMA CourseIsOrdered ==
    ASSUME CompleteInv, OnCourse
    PROVE  EventsAreOrdered
<1> USE EventsAre
<1>0. args \in Commandline
  BY DEF CompleteInv
<1> SUFFICES ASSUME NEW i \in 1..Len(events)
             PROVE  /\ Kind(events[i]) = "SessionStarted" <=> i = 1
                    /\ Kind(events[i]) = "PortOpened" <=> i = 2
                    /\ Kind(events[i]) = "Failure" => i = Len(events)
                    /\ Kind(events[i]) = "HandoffReady" =>
                          /\ \E j \in 1..i - 1 : events[j] = <<"UBootPromptSeen">>
                          /\ \A j \in i + 1..Len(events) : Kind(events[j]) = "Failure"
  BY DEF EventsAreOrdered
<1>1. CASE i \in 1..Passed
  <2>1. events[i] = Expected(i) /\ i \in 1..Length
    BY <1>0, <1>1, LengthIs
  <2>2. ASSUME Kind(events[i]) = "HandoffReady"
        PROVE  /\ \E j \in 1..i - 1 : events[j] = <<"UBootPromptSeen">>
               /\ \A j \in i + 1..Len(events) : Kind(events[j]) = "Failure"
    <3>1. i = Length /\ Passed = Length
      BY <1>0, <1>1, <2>1, <2>2, CourseKinds, LengthIs
    <3>2. PICK j \in 1..Length - 1 : Expected(j) = <<"UBootPromptSeen">>
      BY <1>0, PromptBeforeHandoff
    <3>3. j \in 1..i - 1 /\ events[j] = <<"UBootPromptSeen">>
      BY <1>0, <3>1, <3>2, LengthIs
    <3>4. ASSUME NEW l \in i + 1..Len(events) PROVE Kind(events[l]) = "Failure"
      <4>1. Seen("Failure") /\ l = Len(events)
        BY <3>1
      <4> QED
        BY <4>1 DEF Kind
    <3> QED
      BY <3>3, <3>4
  <2> QED
    BY <1>0, <2>1, <2>2, CourseKinds
<1>2. CASE i \notin 1..Passed
  <2>1. Seen("Failure") /\ i = Len(events) /\ i >= 3
    BY <1>2
  <2>2. Kind(events[i]) = "Failure"
    BY <2>1 DEF Kind
  <2> QED
    BY <2>1, <2>2
<1> QED
  BY <1>1, <1>2

\* The course is settled by the command line.
LEMMA SameCourse ==
    ASSUME UNCHANGED args
    PROVE  (\A i : Expected(i)' = Expected(i)) /\ Length' = Length /\ Before' = Before
<1>1. \A i : Expected(i)' = Expected(i)
  BY DEF Expected, ConsoleHandoffAllowed, NoConsole, Before
<1> QED
  BY <1>1 DEF Length, Before

\* A run that has not failed records the next event of the course (push_event), and is on course.
LEMMA NextRecorded ==
    ASSUME CompleteInv, OnCourse, ~Seen("Failure"), Passed < Length,
           Push(Expected(Passed + 1)), UNCHANGED args
    PROVE  /\ ~Seen("Failure")' /\ Passed' = Passed + 1
           /\ Passed' \in 0..Length' /\ \A i \in 1..Passed' : events'[i] = Expected(i)'
           /\ Length' = Length /\ Before' = Before
<1> USE EventsAre
<1>0. args \in Commandline /\ events \in Seq(EventPayload)
  BY DEF CompleteInv
<1>1. Length \in Nat /\ Passed + 1 \in 1..Length /\ Len(events) = Passed
  BY <1>0, LengthIs
<1>2. Kind(Expected(Passed + 1)) # "Failure"
  BY <1>0, <1>1, CourseKinds
<1>3. /\ events' = Append(events, Expected(Passed + 1)) /\ Len(events') = Len(events) + 1
      /\ events'[Len(events) + 1] = Expected(Passed + 1)
      /\ \A i \in 1..Len(events) : events'[i] = events[i]
  <2>1. events' = Append(events, Expected(Passed + 1))
    BY DEF Push
  <2> DEFINE e == Expected(Passed + 1)
  <2>2. events' = Append(events, e)
    BY <2>1
  <2> HIDE DEF e
  <2>3. Len(events') = Len(events) + 1 /\ events'[Len(events) + 1] = e
        /\ \A i \in 1..Len(events) : events'[i] = events[i]
    BY <1>0, <2>2
  <2> QED
    BY <2>1, <2>3 DEF e
<1>4. ~Seen("Failure")'
  BY <1>1, <1>2, <1>3 DEF Seen
<1>5. Passed' = Passed + 1
  BY <1>1, <1>3, <1>4 DEF Passed
<1>6. \A i : Expected(i)' = Expected(i)
  BY SameCourse
<1>7. Length' = Length /\ Before' = Before
  BY SameCourse
<1>8. ASSUME NEW i \in 1..Passed' PROVE events'[i] = Expected(i)'
  <2>1. CASE i = Passed + 1
    BY <1>1, <1>3, <1>6, <2>1
  <2>2. CASE i # Passed + 1
    BY <1>1, <1>3, <1>5, <1>6, <2>2
  <2> QED
    BY <2>1, <2>2
<1> QED
  BY <1>1, <1>4, <1>5, <1>7, <1>8

\* A step that records nothing leaves what is said of the events as it was.
LEMMA NothingRecorded ==
    ASSUME OnCourse, UNCHANGED <<args, events>>
    PROVE  /\ Seen("Failure")' = Seen("Failure") /\ Passed' = Passed
           /\ Passed' \in 0..Length' /\ \A i \in 1..Passed' : events'[i] = Expected(i)'
           /\ Length' = Length /\ Before' = Before
<1>1. \A i : Expected(i)' = Expected(i)
  BY SameCourse
<1>2. Length' = Length /\ Before' = Before
  BY SameCourse
<1>3. Seen("Failure")' = Seen("Failure")
  BY DEF Seen
<1>4. Passed' = Passed
  BY <1>3 DEF Passed
<1> QED
  BY <1>1, <1>2, <1>3, <1>4 DEF OnCourse

\* A Failure follows what was recorded (record_local_event in run_recover).
LEMMA FailureFollows ==
    ASSUME events \in Seq(EventPayload), Push(<<"Failure", execution>>), Len(events) \in Nat
    PROVE  /\ Len(events') = Len(events) + 1 /\ events'[Len(events')] = <<"Failure", execution>>
           /\ \A i \in 1..Len(events) : events'[i] = events[i]
           /\ Seen("Failure")'
<1>1. events' = Append(events, <<"Failure", execution>>)
  BY DEF Push
<1> DEFINE e == <<"Failure", execution>>
<1>2. Kind(e) = "Failure" /\ events' = Append(events, e)
  BY <1>1 DEF Kind
<1> HIDE DEF e
<1>3. Len(events') = Len(events) + 1 /\ events'[Len(events')] = e
      /\ \A i \in 1..Len(events) : events'[i] = events[i]
  BY <1>2
<1>4. Seen("Failure")'
  BY <1>2, <1>3 DEF Seen
<1> QED
  BY <1>3, <1>4 DEF e

\* No step leaves the course.
LEMMA StepStaysOnCourse ==
    ASSUME CompleteInv, OnCourse, [Next]_vars
    PROVE  OnCourse'
<1> USE ErrorsAreFailures, LengthIs, EventsAre DEF streams, Exit, Finish
<1>0. /\ args \in Commandline /\ done \in Nat /\ events \in Seq(EventPayload)
      /\ phase \notin {"log", "output", "exit"} => ~Seen("Failure")
      /\ Outcomes
  BY DEF CompleteInv, Told
<1>a. ASSUME UNCHANGED <<args, events>>
      PROVE  /\ Seen("Failure")' = Seen("Failure") /\ Passed' = Passed
             /\ Passed' \in 0..Length' /\ \A i \in 1..Passed' : events'[i] = Expected(i)'
             /\ Length' = Length /\ Before' = Before
  BY <1>a, NothingRecorded
<1>b. ASSUME phase \notin {"log", "output", "exit"}, Passed < Length, Push(Expected(Passed + 1)), UNCHANGED args
      PROVE  /\ ~Seen("Failure")' /\ Passed' = Passed + 1
             /\ Passed' \in 0..Length' /\ \A i \in 1..Passed' : events'[i] = Expected(i)'
             /\ Length' = Length /\ Before' = Before
  BY <1>0, <1>b, NextRecorded
<1>1. CASE ValidateRecover
  BY <1>0, <1>1, <1>a DEF ValidateRecover, OnCourse
<1>2. CASE StartSession
  <2>1. CASE UNCHANGED events
    <3>1. phase' = "exit" \/ Push(<<"SessionStarted">>)
      BY <1>2, <2>1 DEF StartSession
    <3>2. Push(<<"SessionStarted">>) => FALSE
      BY <1>0, <2>1 DEF Push
    <3> QED
      BY <1>0, <1>2, <1>a, <2>1, <3>1, <3>2 DEF StartSession, OnCourse
  <2>2. CASE Push(<<"SessionStarted">>) /\ phase' = "open"
    <3>1. Passed = 0 /\ Passed + 1 = 1 /\ Expected(1) = <<"SessionStarted">>
      BY <1>0, <1>2, CourseIs DEF StartSession, OnCourse
    <3> QED
      BY <1>0, <1>2, <1>b, <2>2, <3>1 DEF StartSession, OnCourse
  <2> QED
    BY <1>2, <2>1, <2>2 DEF StartSession
<1>3. CASE OpenTransport
  <2>1. CASE UNCHANGED events /\ phase' = "exit"
    BY <1>0, <1>3, <1>a, <2>1 DEF OpenTransport, OnCourse
  <2>2. CASE Push(<<"PortOpened">>)
             /\ phase' = (IF ~args.resume THEN "images" ELSE IF args.flash THEN "plan" ELSE "prompt")
    <3>1. Passed = 1 /\ Passed + 1 = 2 /\ Expected(2) = <<"PortOpened">>
      BY <1>0, <1>3, CourseIs DEF OpenTransport, OnCourse
    <3> QED
      BY <1>0, <1>3, <1>b, <2>2, <3>1 DEF OpenTransport, OnCourse
  <2> QED
    BY <1>3, <2>1, <2>2 DEF OpenTransport, Record
<1>4. CASE ReadImages
  BY <1>0, <1>4, <1>a DEF ReadImages, OnCourse
<1>5. CASE RecoverToUboot
  <2>0. Passed = 2 + done /\ ~args.resume /\ done < 5
    BY <1>5, MilestoneKinds DEF RecoverToUboot, OnCourse
  <2>1. CASE Push(RecoveryMilestones[done + 1]) /\ done' = done + 1 /\ UNCHANGED <<phase, execution>>
    <3>1. Expected(2 + (done + 1)) = RecoveryMilestones[done + 1] /\ Passed + 1 = 2 + (done + 1)
      BY <1>0, <2>0, CourseIs
    <3> QED
      BY <1>0, <1>5, <1>b, <2>0, <2>1, <3>1 DEF RecoverToUboot, OnCourse
  <2>2. CASE UNCHANGED <<done, events>> /\ \E error \in RecoveryErrors : Finish(error)
    BY <1>0, <1>5, <1>a, <2>0, <2>2 DEF RecoverToUboot, OnCourse
  <2> QED
    BY <1>5, <2>1, <2>2 DEF RecoverToUboot, Record
<1>6. CASE RecoveryDone
  <2>0. Passed = 7 /\ ~args.resume /\ done' = 0
    BY <1>6, MilestoneKinds DEF RecoveryDone, OnCourse
  <2>1. CASE args.flash
    BY <1>0, <1>6, <1>a, <2>0, <2>1 DEF RecoveryDone, OnCourse
  <2>2. CASE ~args.flash
    <3>1. Passed + 1 = Length
      BY <1>0, <2>0, <2>2
    <3>2. Expected(Passed + 1) = <<"HandoffReady", ConsoleHandoffAllowed(args)>>
      BY <1>0, <2>2, <3>1, CourseIs
    <3>3. Push(Expected(Passed + 1))
      BY <1>6, <2>2, <3>2 DEF RecoveryDone, Record
    <3> QED
      BY <1>0, <1>6, <1>b, <2>0, <2>2, <3>1, <3>3 DEF RecoveryDone, OnCourse
  <2> QED
    BY <2>1, <2>2
<1>7. CASE WaitForUbootPrompt
  <2>0. Passed = 2 + done /\ args.resume /\ ~args.flash
    BY <1>0, <1>7 DEF WaitForUbootPrompt, OnCourse, Outcomes
  <2>1. CASE done = 0 /\ done' = 1 /\ Push(<<"UBootPromptSeen">>) /\ UNCHANGED <<phase, execution>>
    <3>1. Push(Expected(Passed + 1)) /\ Passed < Length
      BY <1>0, <2>0, <2>1, CourseIs
    <3> QED
      BY <1>0, <1>7, <1>b, <2>0, <2>1, <3>1 DEF WaitForUbootPrompt, OnCourse
  <2>2. CASE done = 0 /\ UNCHANGED <<done, events>> /\ \E error \in {"Serial", "Timeout"} : Finish(error)
    BY <1>0, <1>7, <1>a, <2>0, <2>2 DEF WaitForUbootPrompt, OnCourse
  <2>3. CASE done = 1 /\ done' = 0 /\ Push(<<"HandoffReady", ConsoleHandoffAllowed(args)>>) /\ Finish("recovered")
    <3>1. Push(Expected(Passed + 1)) /\ Passed + 1 = Length
      BY <1>0, <2>0, <2>3, CourseIs
    <3> QED
      BY <1>0, <1>7, <1>b, <2>0, <2>3, <3>1 DEF WaitForUbootPrompt, OnCourse
  <2> QED
    BY <1>7, <2>1, <2>2, <2>3 DEF WaitForUbootPrompt, Record
<1>8. CASE BuildFlashPlan
  BY <1>0, <1>8, <1>a DEF BuildFlashPlan, OnCourse
<1>9. CASE FlashFromUboot
  <2>0. Passed = Before + done /\ args.flash /\ done < 6
    BY <1>0, <1>9, MilestoneKinds DEF FlashFromUboot, OnCourse, Outcomes
  <2>1. CASE Push(FlashMilestones[done + 1]) /\ done' = done + 1 /\ UNCHANGED <<phase, execution>>
    <3>1. Expected(Before + (done + 1)) = FlashMilestones[done + 1] /\ Passed + 1 = Before + (done + 1)
      <4>1. done + 1 \in 1..6
        BY <1>0, <2>0
      <4>2. Expected(Before + (done + 1)) = FlashMilestones[done + 1]
        BY <1>0, <2>0, <4>1, CourseIs
      <4>3. Before \in Nat
        BY DEF Before
      <4> QED
        BY <1>0, <2>0, <4>2, <4>3
    <3>2. phase = "flash" /\ UNCHANGED args /\ Push(Expected(Passed + 1)) /\ Passed < Length
      BY <1>0, <1>9, <2>0, <2>1, <3>1 DEF FlashFromUboot
    <3>3. /\ ~Seen("Failure")' /\ Passed' = Before' + done' /\ done' \in 0..6
          /\ Passed' \in 0..Length' /\ \A i \in 1..Passed' : events'[i] = Expected(i)'
      BY <1>0, <1>b, <2>0, <2>1, <3>1, <3>2
    <3>4. execution' = "none"
      BY <2>1, <3>2 DEF OnCourse
    <3> QED
      BY <2>1, <3>2, <3>3, <3>4 DEF OnCourse
  <2>2. CASE done < 5 /\ UNCHANGED <<done, events>>
             /\ \E error \in FlashErrors \cup {"BadInput"} : Finish(error)
    BY <1>0, <1>9, <1>a, <2>0, <2>2 DEF FlashFromUboot, OnCourse
  <2> QED
    BY <1>9, <2>1, <2>2 DEF FlashFromUboot, Record
<1>10. CASE FlashDone
  BY <1>0, <1>10, <1>a, MilestoneKinds DEF FlashDone, OnCourse, Outcomes
<1>11. CASE CheckOutput
  BY <1>0, <1>11, <1>a DEF CheckOutput, OnCourse
<1>12. CASE HandoffConsole
  BY <1>0, <1>12, <1>a DEF HandoffConsole, OnCourse
<1>13. CASE RelayConsoleHandoff
  BY <1>0, <1>13, <1>a DEF RelayConsoleHandoff, OnCourse
<1>14. CASE ReportFailure
  <2>1. Push(<<"Failure", execution>>) /\ phase = "report" /\ UNCHANGED <<args, done, execution>>
        /\ phase' \in {"log", "exit"}
    BY <1>14 DEF ReportFailure, Record
  <2>2. Seen("Failure")' /\ Passed' = Passed /\ events'[Len(events')] = <<"Failure", execution>>
        /\ \A i \in 1..Passed : events'[i] = events[i]
    BY <1>0, <2>1, FailureFollows DEF Passed
  <2>3. (\A i : Expected(i)' = Expected(i)) /\ Length' = Length /\ Before' = Before
    BY <2>1, SameCourse
  <2>4. Passed' \in 0..Length' /\ \A i \in 1..Passed' : events'[i] = Expected(i)'
    BY <1>0, <2>2, <2>3
  <2> QED
    BY <1>0, <2>1, <2>2, <2>3, <2>4 DEF OnCourse
<1>15. CASE WriteLog
  BY <1>0, <1>15, <1>a DEF WriteLog, OnCourse
<1>16. CASE WriteOutcome
  BY <1>0, <1>16, <1>a DEF WriteOutcome, WriteStream, WriteSummary, OnCourse
<1>17. CASE ReaderLeaves
  BY <1>0, <1>17, <1>a DEF ReaderLeaves, OnCourse
<1>18. CASE UNCHANGED vars
  BY <1>0, <1>18, <1>a DEF vars, OnCourse
<1> QED
  BY <1>1, <1>2, <1>3, <1>4, <1>5, <1>6, <1>7, <1>8, <1>9, <1>10, <1>11, <1>12, <1>13, <1>14, <1>15,
     <1>16, <1>17, <1>18 DEF Next, Run

\* The remedies the events of the course stand for (timeout_hint).
LEMMA RemediesOfMilestones ==
    /\ HintOf(<<"SessionStarted">>) = "none" /\ HintOf(<<"PortOpened">>) = "none"
    /\ HintOf(<<"UBootPromptSeen">>) = "none"
    /\ HintOf(RecoveryMilestones[1]) = "recovery mode"
    /\ HintOf(RecoveryMilestones[2]) = "stage 2 never appeared"
    /\ HintOf(RecoveryMilestones[3]) = "FIP path stalled before a live U-Boot prompt"
    /\ HintOf(RecoveryMilestones[4]) = "FIP path stalled before a live U-Boot prompt"
    /\ HintOf(RecoveryMilestones[5]) = "none"
    /\ HintOf(FlashMilestones[1]) = "none"
    /\ HintOf(FlashMilestones[2]) = "persistent flash"
    /\ HintOf(FlashMilestones[3]) = "none"
    /\ HintOf(FlashMilestones[4]) = "persistent flash"
<1> USE DEF Kind
<1>1. \A k \in {"SessionStarted", "PortOpened", "UBootPromptSeen"} : HintOf(<<k>>) = "none"
  BY DEF HintOf
<1>2. HintOf(<<"PromptSeen", "PreloaderPrompt">>) = "recovery mode"
  BY DEF HintOf
<1>3. HintOf(<<"XmodemStarted", "Preloader">>) = "stage 2 never appeared"
  BY DEF HintOf
<1>4. HintOf(<<"PromptSeen", "FipPrompt">>) = "FIP path stalled before a live U-Boot prompt"
  BY DEF HintOf
<1>5. HintOf(<<"XmodemStarted", "Fip">>) = "FIP path stalled before a live U-Boot prompt"
  BY DEF HintOf
<1>6. HintOf(<<"UBootCommandStarted", Erase>>) = "persistent flash"
  BY DEF HintOf, Erase
<1>7. HintOf(<<"XmodemStarted", "LoadxPreloader">>) = "none"
  BY DEF HintOf
<1>8. HintOf(<<"ImageVerified", "preloader">>) = "persistent flash"
  BY DEF HintOf
<1>9. /\ RecoveryMilestones[1] = <<"PromptSeen", "PreloaderPrompt">>
      /\ RecoveryMilestones[2] = <<"XmodemStarted", "Preloader">>
      /\ RecoveryMilestones[3] = <<"PromptSeen", "FipPrompt">>
      /\ RecoveryMilestones[4] = <<"XmodemStarted", "Fip">>
      /\ RecoveryMilestones[5] = <<"UBootPromptSeen">>
  BY DEF RecoveryMilestones
<1>10. /\ FlashMilestones[1] = <<"UBootPromptSeen">>
       /\ FlashMilestones[2] = <<"UBootCommandStarted", Erase>>
       /\ FlashMilestones[3] = <<"XmodemStarted", "LoadxPreloader">>
       /\ FlashMilestones[4] = <<"ImageVerified", "preloader">>
  BY DEF FlashMilestones
<1> HIDE DEF Kind
<1> QED
  BY <1>1, <1>2, <1>3, <1>4, <1>5, <1>6, <1>7, <1>8, <1>9, <1>10

\* The hint is the remedy of the last event that has one, whatever event that is.
LEMMA HintIsTheLast ==
    ASSUME Len(events) \in Nat, NEW m \in 1..Len(events), HintOf(events[m]) # "none",
           \A j \in m + 1..Len(events) : HintOf(events[j]) = "none"
    PROVE  TimeoutHint = HintOf(events[m])
<1>1. m \in Remedies /\ \A j \in Remedies : j <= m
  BY DEF Remedies
<1> DEFINE last == CHOOSE i \in Remedies : \A j \in Remedies : j <= i
<1>2. last = m
  <2>1. last \in Remedies /\ \A j \in Remedies : j <= last
    BY <1>1
  <2>2. last \in Nat /\ m \in Nat /\ last <= m /\ m <= last
    BY <1>1, <2>1 DEF Remedies
  <2> QED
    BY <2>2
<1> HIDE DEF last
<1>3. Remedies = {i \in 1..Len(events) : HintOf(events[i]) # "none"}
  BY DEF Remedies
<1>4. TimeoutHint = HintOf(events[last])
  BY <1>1, <1>3 DEF TimeoutHint, Latest, last
<1> QED
  BY <1>2, <1>4

\* Without one it is the general advice.
LEMMA HintWithoutRemedy ==
    ASSUME \A j \in 1..Len(events) : HintOf(events[j]) = "none"
    PROVE  TimeoutHint = "UART access"
  BY DEF TimeoutHint, Remedies

\* The phase a timeout's remedy is about is the one the run is in.
LEMMA HintIsTimely ==
    ASSUME CompleteInv, OnCourse, ~Seen("Failure"), 2 <= Passed, Passed <= Length - 2
    PROVE  /\ TimeoutHint = "UART access" => events[Passed] \in {<<"PortOpened">>, <<"UBootPromptSeen">>}
           /\ TimeoutHint = "recovery mode" => Passed = 3 /\ ~args.resume
           /\ TimeoutHint = "stage 2 never appeared" => Passed = 4 /\ ~args.resume
           /\ TimeoutHint = "persistent flash" => args.flash /\ Passed \in Before + 2..Before + 4
<1> DEFINE fip == "FIP path stalled before a live U-Boot prompt"
           remedy == [j \in 1..Passed |-> HintOf(events[j])]
<1>1. /\ args \in Commandline /\ Len(events) = Passed /\ Passed \in Nat
      /\ \A i \in 1..Passed : events[i] = Expected(i)
  BY EventsAre DEF CompleteInv
<1>2. remedy[1] = "none" /\ remedy[2] = "none" /\ events[2] = <<"PortOpened">>
  <2>1. 1 \in 1..Passed /\ 2 \in 1..Passed
    BY <1>1
  <2>2. events[1] = <<"SessionStarted">> /\ events[2] = <<"PortOpened">>
    BY <1>1, <2>1, CourseIs
  <2>3. HintOf(events[1]) = "none" /\ HintOf(events[2]) = "none"
    BY <2>2, RemediesOfMilestones
  <2> QED
    BY <2>1, <2>2, <2>3
<1>3. ASSUME ~args.resume, NEW k \in 1..5, 2 + k <= Passed PROVE remedy[2 + k] = HintOf(RecoveryMilestones[k])
  <2>1. 2 + k \in 1..Passed
    BY <1>1, <1>3
  <2> QED
    BY <1>1, <1>3, <2>1, CourseIs
<1>4. ASSUME args.flash, NEW k \in 1..6, Before + k <= Passed
      PROVE  remedy[Before + k] = HintOf(FlashMilestones[k]) /\ events[Before + k] = FlashMilestones[k]
  <2>1. Before + k \in 1..Passed
    BY <1>1, <1>4, LengthIs
  <2> QED
    BY <1>1, <1>4, <2>1, CourseIs
<1>5. ASSUME NEW m \in 1..Passed, remedy[m] # "none", \A j \in m + 1..Passed : remedy[j] = "none"
      PROVE  TimeoutHint = remedy[m]
  <2>1. m \in 1..Len(events) /\ HintOf(events[m]) # "none" /\ remedy[m] = HintOf(events[m])
    BY <1>1, <1>5
  <2>2. \A j \in m + 1..Len(events) : HintOf(events[j]) = "none"
    <3> SUFFICES ASSUME NEW j \in m + 1..Len(events) PROVE HintOf(events[j]) = "none"
      OBVIOUS
    <3>1. j \in 1..Passed /\ j \in m + 1..Passed
      BY <1>1
    <3> QED
      BY <1>5, <3>1
  <2>3. TimeoutHint = HintOf(events[m])
    BY <1>1, <2>1, <2>2, HintIsTheLast
  <2> QED
    BY <2>1, <2>3
<1>6. ASSUME \A j \in 1..Passed : remedy[j] = "none" PROVE TimeoutHint = "UART access"
  BY <1>1, <1>6, HintWithoutRemedy
<1> HIDE DEF remedy
<1>7. CASE Passed = 2
  <2>0. \A j \in 1..2 : j = 1 \/ j = 2
    OBVIOUS
  <2>1. \A j \in 1..Passed : remedy[j] = "none"
    BY <1>2, <1>7, <2>0
  <2>2. TimeoutHint = "UART access"
    BY <1>6, <2>1
  <2>3. events[Passed] = <<"PortOpened">>
    BY <1>2, <1>7
  <2> QED
    BY <2>2, <2>3
<1>8. CASE ~args.resume /\ 3 <= Passed /\ Passed <= 8
  <2>1. remedy[3] = "recovery mode"
    <3>1. remedy[2 + 1] = HintOf(RecoveryMilestones[1]) /\ 2 + 1 = 3
      BY <1>1, <1>3, <1>8
    <3> QED
      BY <3>1, RemediesOfMilestones
  <2>2. Passed >= 4 => remedy[4] = "stage 2 never appeared"
    <3>1. Passed >= 4 => remedy[2 + 2] = HintOf(RecoveryMilestones[2]) /\ 2 + 2 = 4
      BY <1>1, <1>3, <1>8
    <3> QED
      BY <3>1, RemediesOfMilestones
  <2>3. Passed >= 5 => remedy[5] = fip
    <3>1. Passed >= 5 => remedy[2 + 3] = HintOf(RecoveryMilestones[3]) /\ 2 + 3 = 5
      BY <1>1, <1>3, <1>8
    <3> QED
      BY <3>1, RemediesOfMilestones
  <2>4. Passed >= 6 => remedy[6] = fip
    <3>1. Passed >= 6 => remedy[2 + 4] = HintOf(RecoveryMilestones[4]) /\ 2 + 4 = 6
      BY <1>1, <1>3, <1>8
    <3> QED
      BY <3>1, RemediesOfMilestones
  <2>5. Passed >= 7 => remedy[7] = "none"
    <3>1. Passed >= 7 => remedy[2 + 5] = HintOf(RecoveryMilestones[5]) /\ 2 + 5 = 7
      BY <1>1, <1>3, <1>8
    <3> QED
      BY <3>1, RemediesOfMilestones
  <2>6. ASSUME Passed = 8 PROVE remedy[8] = "none"
    <3>1. args.flash /\ Before + 1 = 8
      BY <1>1, <1>8, <2>6, LengthIs
    <3>2. remedy[Before + 1] = HintOf(FlashMilestones[1])
      BY <1>4, <2>6, <3>1
    <3> QED
      BY <3>1, <3>2, RemediesOfMilestones
  <2>7. CASE Passed = 3
    <3>1. 3 \in 1..Passed /\ \A j \in 3 + 1..Passed : remedy[j] = "none"
      BY <2>7
    <3>2. TimeoutHint = "recovery mode"
      BY <1>5, <2>1, <3>1
    <3> QED
      BY <1>8, <2>7, <3>2
  <2>8. CASE Passed = 4
    <3>1. 4 \in 1..Passed /\ \A j \in 4 + 1..Passed : remedy[j] = "none"
      BY <2>8
    <3>a. Passed >= 4
      BY <2>8
    <3>b. remedy[4] = "stage 2 never appeared"
      BY <2>2, <3>a
    <3>2. TimeoutHint = "stage 2 never appeared"
      BY <1>5, <3>1, <3>b
    <3> QED
      BY <1>8, <2>8, <3>2
  <2>9. CASE Passed = 5
    <3>1. 5 \in 1..Passed /\ \A j \in 5 + 1..Passed : remedy[j] = "none"
      BY <2>9
    <3>a. Passed >= 5
      BY <2>9
    <3>b. remedy[5] = fip
      BY <2>3, <3>a
    <3>2. TimeoutHint = fip
      BY <1>5, <3>1, <3>b
    <3> QED
      BY <3>2
  <2>10. CASE Passed >= 6
    <3>1. \A j \in 6 + 1..Passed : (j = 7 \/ j = 8) /\ j <= Passed
      BY <1>1, <1>8
    <3>2. 6 \in 1..Passed /\ \A j \in 6 + 1..Passed : remedy[j] = "none"
      BY <1>1, <1>8, <2>5, <2>6, <2>10, <3>1
    <3>3. TimeoutHint = fip
      BY <1>5, <2>4, <2>10, <3>2
    <3> QED
      BY <3>3
  <2>11. Passed = 3 \/ Passed = 4 \/ Passed = 5 \/ Passed >= 6
    BY <1>1, <1>8
  <2> QED
    BY <2>7, <2>8, <2>9, <2>10, <2>11
<1>9. CASE args.resume /\ Passed = 3
  <2>1. args.flash /\ Before + 1 = 3
    BY <1>1, <1>9, LengthIs
  <2>2. remedy[Before + 1] = HintOf(FlashMilestones[1]) /\ events[Before + 1] = FlashMilestones[1]
    BY <1>4, <1>9, <2>1
  <2>3. remedy[3] = "none" /\ events[3] = <<"UBootPromptSeen">>
    BY <2>1, <2>2, MilestoneKinds, RemediesOfMilestones
  <2>4. \A j \in 1..3 : j = 1 \/ j = 2 \/ j = 3
    OBVIOUS
  <2>5. \A j \in 1..Passed : remedy[j] = "none"
    BY <1>2, <1>9, <2>3, <2>4
  <2>6. TimeoutHint = "UART access"
    BY <1>6, <2>5
  <2>7. events[Passed] = <<"UBootPromptSeen">>
    BY <1>9, <2>3
  <2> QED
    BY <2>6, <2>7
<1>10. CASE args.flash /\ Passed \in Before + 2..Before + 4
  <2>0. Before \in Nat
    BY <1>1, LengthIs
  <2>1. remedy[Before + 2] = "persistent flash"
    <3>1. Before + 2 <= Passed => remedy[Before + 2] = HintOf(FlashMilestones[2])
      BY <1>1, <1>4, <1>10, <2>0
    <3>2. Before + 2 <= Passed
      BY <1>1, <1>10, <2>0
    <3> QED
      BY <3>1, <3>2, RemediesOfMilestones
  <2>2. Passed >= Before + 3 => remedy[Before + 3] = "none"
    <3>1. Passed >= Before + 3 => remedy[Before + 3] = HintOf(FlashMilestones[3])
      BY <1>1, <1>4, <1>10, <2>0
    <3>2. Before + 2 <= Passed
      BY <1>1, <1>10, <2>0
    <3> QED
      BY <3>1, <3>2, RemediesOfMilestones
  <2>3. Passed >= Before + 4 => remedy[Before + 4] = "persistent flash"
    <3>1. Passed >= Before + 4 => remedy[Before + 4] = HintOf(FlashMilestones[4])
      BY <1>1, <1>4, <1>10, <2>0
    <3>2. Before + 2 <= Passed
      BY <1>1, <1>10, <2>0
    <3> QED
      BY <3>1, <3>2, RemediesOfMilestones
  <2>4. TimeoutHint = "persistent flash"
    <3>1. CASE Passed = Before + 4
      <4>1. Passed \in 1..Passed /\ \A j \in Passed + 1..Passed : remedy[j] = "none"
        BY <1>1, <2>0, <3>1
      <4>2. remedy[Passed] = "persistent flash"
        <5>1. Passed >= Before + 4
          BY <1>1, <2>0, <3>1
        <5> QED
          BY <2>3, <3>1, <5>1
      <4> QED
        BY <1>5, <4>1, <4>2
    <3>2. CASE Passed # Before + 4
      <4>1. \A j \in Before + 2 + 1..Passed : j = Before + 3 /\ Passed >= Before + 3
        BY <1>1, <1>10, <2>0, <3>2
      <4>2. Before + 2 \in 1..Passed /\ \A j \in Before + 2 + 1..Passed : remedy[j] = "none"
        BY <1>1, <1>10, <2>0, <2>2, <4>1
      <4> QED
        BY <1>5, <2>1, <4>2
    <3> QED
      BY <3>1, <3>2
  <2> QED
    BY <1>10, <2>4
<1>11. \/ Passed = 2
       \/ ~args.resume /\ 3 <= Passed /\ Passed <= 8
       \/ args.resume /\ Passed = 3
       \/ args.flash /\ Passed \in Before + 2..Before + 4
  BY <1>1, LengthIs
<1> QED
  BY <1>7, <1>8, <1>9, <1>10, <1>11

\* What is reported with a Failure is about the phase the run failed in.
LEMMA ReportIsTimely ==
    ASSUME CompleteInv, CourseInv, ReportFailure
    PROVE  HintIsNotStale'
<1>1. /\ phase = "report" /\ Push(<<"Failure", execution>>) /\ ~Seen("Failure") /\ hint = "none"
      /\ hint' \in {"none", IF execution = "Timeout" THEN TimeoutHint ELSE "none"}
  BY DEF CompleteInv, CourseInv, Accounted, Told, ReportFailure, Record
<1>2. CASE hint' = "none"
  BY <1>2 DEF HintIsNotStale
<1>3. CASE execution = "Timeout" /\ hint' = TimeoutHint
  <2>1. /\ args \in Commandline /\ Len(events) = Passed /\ Passed \in Nat /\ 2 <= Passed /\ Passed <= Length - 2
        /\ \A i \in 1..Passed : events[i] = Expected(i)
    BY <1>1, <1>3, EventsAre DEF CompleteInv, CourseInv, OnCourse
  <2>2. /\ Len(events') = Passed + 1 /\ events'[Passed + 1] = <<"Failure", execution>>
        /\ \A i \in 1..Passed : events'[i] = Expected(i) /\ events'[i] = events[i]
    <3>1. /\ Len(events') = Len(events) + 1 /\ events'[Len(events')] = <<"Failure", execution>>
          /\ \A i \in 1..Len(events) : events'[i] = events[i]
      BY <1>1, <2>1, FailureFollows DEF CompleteInv
    <3> QED
      BY <2>1, <3>1
  <2>3. /\ hint' = "UART access" => events[Passed] \in {<<"PortOpened">>, <<"UBootPromptSeen">>}
        /\ hint' = "recovery mode" => Passed = 3 /\ ~args.resume
        /\ hint' = "stage 2 never appeared" => Passed = 4 /\ ~args.resume
        /\ hint' = "persistent flash" => args.flash /\ Passed \in Before + 2..Before + 4
    BY <1>1, <1>3, <2>1, HintIsTimely DEF CourseInv
  <2>4. ASSUME NEW kind, Seen(kind)' PROVE kind = "Failure" \/ \E i \in 1..Passed : Kind(Expected(i)) = kind
    <3>1. PICK i \in 1..Passed + 1 : Kind(events'[i]) = kind
      BY <2>2, <2>4 DEF Seen
    <3>2. CASE i = Passed + 1
      BY <2>2, <3>1, <3>2 DEF Kind
    <3>3. CASE i # Passed + 1
      BY <2>1, <2>2, <3>1, <3>3
    <3> QED
      BY <3>2, <3>3
  <2>5. hint' = "UART access" => events'[Len(events') - 1] \in {<<"PortOpened">>, <<"UBootPromptSeen">>}
    <3>1. Len(events') - 1 = Passed /\ events'[Passed] = events[Passed]
      BY <2>1, <2>2
    <3> QED
      BY <2>3, <3>1
  <2>6. ASSUME hint' = "recovery mode" PROVE ~Seen("XmodemStarted")'
    <3>0. Passed = 3 /\ ~args.resume
      BY <2>3, <2>6
    <3>1. Expected(2 + 1) = RecoveryMilestones[1]
      BY <2>1, <3>0, CourseIs
    <3>2. Kind(Expected(1)) = "SessionStarted" /\ Kind(Expected(2)) = "PortOpened"
      BY <2>1, CourseIs DEF Kind
    <3>3. Kind(Expected(3)) = "PromptSeen"
      BY <3>1 DEF Kind, RecoveryMilestones
    <3>4. \A i \in 1..3 : i = 1 \/ i = 2 \/ i = 3
      OBVIOUS
    <3> QED
      BY <2>4, <3>0, <3>2, <3>3, <3>4
  <2>7. ASSUME hint' = "stage 2 never appeared"
        PROVE  ~Seen("UBootPromptSeen")' /\ <<"PromptSeen", "FipPrompt">> \notin Trace'
    <3>0. Passed = 4 /\ ~args.resume
      BY <2>3, <2>7
    <3>1. Expected(2 + 1) = RecoveryMilestones[1] /\ Expected(2 + 2) = RecoveryMilestones[2]
      BY <2>1, <3>0, CourseIs
    <3>2. Expected(1) = <<"SessionStarted">> /\ Expected(2) = <<"PortOpened">>
      BY <2>1, CourseIs
    <3>3. Expected(3) = <<"PromptSeen", "PreloaderPrompt">> /\ Expected(4) = <<"XmodemStarted", "Preloader">>
      BY <3>1 DEF RecoveryMilestones
    <3>4. \A i \in 1..4 : i = 1 \/ i = 2 \/ i = 3 \/ i = 4
      OBVIOUS
    <3>5. ~Seen("UBootPromptSeen")'
      <4>1. /\ Kind(Expected(1)) = "SessionStarted" /\ Kind(Expected(2)) = "PortOpened"
            /\ Kind(Expected(3)) = "PromptSeen" /\ Kind(Expected(4)) = "XmodemStarted"
        BY <3>2, <3>3 DEF Kind
      <4> QED
        BY <2>4, <3>0, <3>4, <4>1
    <3>6. ASSUME NEW i \in 1..Len(events') PROVE events'[i] # <<"PromptSeen", "FipPrompt">>
      <4> DEFINE fip == <<"PromptSeen", "FipPrompt">>
      <4>1. fip[1] = "PromptSeen" /\ fip[2] = "FipPrompt"
        OBVIOUS
      <4>2. CASE i = Passed + 1
        <5>1. events'[i][1] = "Failure"
          BY <2>2, <4>2
        <5> QED
          BY <4>1, <5>1
      <4>3. CASE i # Passed + 1
        <5>1. (i = 1 \/ i = 2 \/ i = 3 \/ i = 4) /\ events'[i] = Expected(i)
          BY <2>1, <2>2, <3>0, <4>3
        <5>2. Expected(1)[1] # "PromptSeen" /\ Expected(2)[1] # "PromptSeen"
              /\ Expected(3)[2] # "FipPrompt" /\ Expected(4)[1] # "PromptSeen"
          BY <3>2, <3>3
        <5> QED
          BY <4>1, <5>1, <5>2
      <4> QED
        BY <4>2, <4>3
    <3> QED
      BY <3>5, <3>6 DEF Trace
  <2>8. ASSUME hint' = "persistent flash" PROVE Seen("UBootCommandStarted")' /\ ~Seen("ResetSeen")'
    <3>0. args.flash /\ Passed \in Before + 2..Before + 4
      BY <2>3, <2>8
    <3>1. args.flash /\ Before \in Nat /\ Before + 2 <= Passed /\ Passed <= Before + 4 /\ Length = Before + 6
      BY <2>1, <3>0, LengthIs
    <3>2. Seen("UBootCommandStarted")'
      <4>1. Before + 2 \in 1..Passed /\ Before + 2 \in 1..Len(events')
        BY <2>1, <2>2, <3>1
      <4>2. events'[Before + 2] = FlashMilestones[2]
        BY <2>1, <2>2, <3>1, <4>1, CourseIs
      <4>3. Kind(events'[Before + 2]) = "UBootCommandStarted"
        BY <4>2, MilestoneKinds
      <4> QED
        BY <4>1, <4>3 DEF Seen
    <3>3. ASSUME NEW i \in 1..Passed PROVE Kind(Expected(i)) # "ResetSeen"
      <4>1. i \in 1..Length
        BY <2>1, <3>1
      <4>2. CASE i \in {1, 2}
        BY <2>1, <4>2, CourseIs DEF Kind
      <4>3. ASSUME ~args.resume, NEW k \in 1..5, i = 2 + k PROVE Kind(Expected(i)) # "ResetSeen"
        BY <2>1, <4>3, CourseIs, MilestoneKinds
      <4>4. ASSUME NEW k \in 1..6, i = Before + k PROVE Kind(Expected(i)) # "ResetSeen"
        <5>1. k # 5 /\ Expected(Before + k) = FlashMilestones[k]
          BY <2>1, <3>1, <4>4, CourseIs
        <5> QED
          BY <4>4, <5>1, MilestoneKinds
      <4> QED
        BY <2>1, <3>1, <4>1, <4>2, <4>3, <4>4, PartOfCourse
    <3> QED
      BY <2>4, <3>2, <3>3
  <2> QED
    BY <2>5, <2>6, <2>7, <2>8 DEF HintIsNotStale
<1> QED
  BY <1>1, <1>2, <1>3

\* The remedy stays true: nothing is recorded once it is printed.
LEMMA StepKeepsTheHint ==
    ASSUME CompleteInv, CourseInv, [Next]_vars
    PROVE  HintIsNotStale'
<1>1. CASE ReportFailure
  BY <1>1, ReportIsTimely
<1>2. ASSUME UNCHANGED <<hint, events>> PROVE HintIsNotStale'
  BY <1>2 DEF CourseInv, HintIsNotStale, Seen, Trace
<1>3. ASSUME UNCHANGED hint, phase \notin {"log", "output", "exit"} PROVE HintIsNotStale'
  <2>1. hint' = "none"
    BY <1>3 DEF CourseInv, Accounted
  <2> QED
    BY <2>1 DEF HintIsNotStale
<1>4. CASE Run /\ ~ReportFailure
  BY <1>2, <1>3, <1>4 DEF Run, ValidateRecover, StartSession, OpenTransport, ReadImages, RecoverToUboot,
     RecoveryDone, WaitForUbootPrompt, BuildFlashPlan, FlashFromUboot, FlashDone, CheckOutput,
     HandoffConsole, RelayConsoleHandoff, WriteLog, WriteOutcome
<1>5. CASE ReaderLeaves
  BY <1>2, <1>5 DEF ReaderLeaves
<1>6. CASE UNCHANGED vars
  BY <1>2, <1>6 DEF vars
<1> QED
  BY <1>1, <1>4, <1>5, <1>6 DEF Next

\* What the run owes when it ends is settled by what it did before.
LEMMA StepAccounts ==
    ASSUME CompleteInv, CourseInv, [Next]_vars
    PROVE  Accounted'
<1> USE ErrorsAreFailures DEF streams, Exit, Finish, Accounted, Failed
<1>0. /\ args \in Commandline /\ events \in Seq(EventPayload) /\ Len(events) \in Nat
      /\ Outcomes /\ Accounted
      /\ phase \notin {"log", "output", "exit"} => ~Seen("Failure")
      /\ phase # "exit" => exit = "running"
      /\ phase = "output" => ~LogLost
  BY DEF CompleteInv, CourseInv, Told
<1>a. ASSUME NEW event, Observe(event), UNCHANGED stdoutOpen PROVE outputError' => ~stdoutOpen'
  BY <1>0, <1>a DEF Observe, LostLine
<1>b. ASSUME UNCHANGED events PROVE Seen("Failure")' = Seen("Failure") /\ Seen("PortOpened")' = Seen("PortOpened")
  BY <1>b DEF Seen
<1>c. ASSUME phase \in {"parse", "start", "open"} PROVE ~Seen("PortOpened")
  <2>1. Len(events) \in {0, 1} /\ \A i \in 1..Len(events) : events[i] = Expected(i)
    BY <1>0, <1>c, EventsAre DEF CourseInv, OnCourse
  <2>2. Kind(Expected(1)) # "PortOpened"
    BY <1>0, CourseIs DEF Kind
  <2>3. \A i \in 1..Len(events) : i = 1
    BY <2>1
  <2> QED
    BY <2>1, <2>2, <2>3 DEF Seen
<1>1. CASE ValidateRecover
  BY <1>0, <1>1, <1>b, <1>c DEF ValidateRecover, FailureIsTold
<1>2. CASE StartSession
  <2>1. phase' = "open" \/ UNCHANGED events
    BY <1>2 DEF StartSession
  <2> QED
    BY <1>0, <1>2, <1>b, <1>c, <2>1 DEF StartSession, FailureIsTold
<1>3. CASE OpenTransport
  <2>1. phase' # "exit" \/ UNCHANGED events
    BY <1>3 DEF OpenTransport
  <2> QED
    BY <1>0, <1>3, <1>a, <1>b, <1>c, <2>1 DEF OpenTransport, Record, FailureIsTold
<1>4. CASE ReadImages
  BY <1>0, <1>4 DEF ReadImages
<1>5. CASE RecoverToUboot
  BY <1>0, <1>5, <1>a DEF RecoverToUboot, Record
<1>6. CASE RecoveryDone
  BY <1>0, <1>6, <1>a DEF RecoveryDone, Record
<1>7. CASE WaitForUbootPrompt
  BY <1>0, <1>7, <1>a DEF WaitForUbootPrompt, Record
<1>8. CASE BuildFlashPlan
  BY <1>0, <1>8 DEF BuildFlashPlan
<1>9. CASE FlashFromUboot
  BY <1>0, <1>9, <1>a DEF FlashFromUboot, Record
<1>10. CASE FlashDone
  BY <1>0, <1>10 DEF FlashDone
<1>11. CASE CheckOutput
  BY <1>0, <1>11 DEF CheckOutput, FailureIsTold
<1>12. CASE HandoffConsole
  BY <1>0, <1>12 DEF HandoffConsole
<1>13. CASE RelayConsoleHandoff
  BY <1>0, <1>13 DEF RelayConsoleHandoff
<1>14. CASE ReportFailure
  <2>1. Seen("Failure")'
    BY <1>0, <1>14, FailureFollows DEF ReportFailure, Record
  <2>2. outputError' => ~stdoutOpen'
    BY <1>14, <1>a DEF ReportFailure, Record
  <2>3. CASE phase' = "log" /\ UNCHANGED <<log, execution>>
    <3>1. phase = "report" /\ log' = <<>>
      BY <1>0, <1>14, <2>3 DEF ReportFailure
    <3> QED
      BY <2>1, <2>2, <2>3, <3>1
  <2>4. CASE phase' = "exit" /\ (outputError' \/ ~stderrOpen')
    BY <1>14, <2>2, <2>4 DEF FailureIsTold
  <2> QED
    BY <1>0, <1>14, <2>3, <2>4 DEF ReportFailure
<1>15. CASE WriteLog
  <2>0. Len(events) >= 2 /\ log = <<>>
    BY <1>0, <1>15, EventsAre DEF WriteLog, CourseInv, OnCourse
  <2>1. CASE phase' = "output" /\ UNCHANGED <<events, execution, outputError, stdoutOpen>>
    BY <1>0, <1>15, <1>b, <2>1 DEF WriteLog
  <2>2. CASE phase' = "exit" /\ UNCHANGED <<args, events, outputError, stdoutOpen>> /\ args.log /\ UNCHANGED log
    BY <1>0, <2>0, <2>2 DEF FailureIsTold, LogLost
  <2>3. CASE /\ phase' = "exit" /\ UNCHANGED <<args, events, outputError, stdoutOpen>> /\ args.log
             /\ \E n \in 0..Len(events) - 1 : log' = SubSeq(events, 1, n)
    <3>1. log' # events
      <4>1. PICK n \in 0..Len(events) - 1 : log' = SubSeq(events, 1, n)
        BY <2>3
      <4>2. Len(log') = n /\ n # Len(events)
        BY <1>0, <4>1
      <4> QED
        BY <4>2
    <3> QED
      BY <1>0, <2>3, <3>1 DEF FailureIsTold, LogLost
  <2> QED
    BY <1>15, <2>1, <2>2, <2>3 DEF WriteLog
<1>16. CASE WriteOutcome
  <2>1. phase = "output" /\ phase' = "exit" /\ UNCHANGED <<args, events, execution, outputError, stdoutOpen, log>>
    BY <1>16 DEF WriteOutcome, WriteStream, WriteSummary
  <2>2. \/ exit' = "Success"
        \/ ~stdoutOpen
        \/ Failed /\ exit' = execution
    BY <1>16 DEF WriteOutcome, WriteStream, WriteSummary
  <2>3. Failed => events[Len(events)] = <<"Failure", execution>>
    BY <1>0, <2>1, EventsAre DEF CourseInv
  <2> QED
    BY <1>0, <2>1, <2>2, <2>3 DEF FailureIsTold
<1>17. CASE ReaderLeaves
  BY <1>0, <1>17, <1>b DEF ReaderLeaves
<1>18. CASE UNCHANGED vars
  <2>1. FailureIsTold' = FailureIsTold
    BY <1>18 DEF vars, FailureIsTold, Seen, LogLost
  <2> QED
    BY <1>0, <1>18, <1>b, <2>1 DEF vars
<1> QED
  BY <1>1, <1>2, <1>3, <1>4, <1>5, <1>6, <1>7, <1>8, <1>9, <1>10, <1>11, <1>12, <1>13, <1>14, <1>15,
     <1>16, <1>17, <1>18 DEF Next, Run

\* The invariant of this part is one.
LEMMA CourseInvariant == Spec => [](CompleteInv /\ CourseInv)
<1>1. Init => CompleteInv /\ CourseInv
  <2>1. Init => CompleteInv
    BY CliAssumption DEF Init, CompleteInv, Outcomes, Told, Seen
  <2>2. ASSUME Init PROVE CourseInv
    <3>1. Passed = 0 /\ ~Seen("Failure") /\ args \in Commandline
      BY <2>2, CliAssumption DEF Init, Passed, Seen
    <3>2. OnCourse
      BY <2>2, <3>1, LengthIs, ErrorsAreFailures DEF Init, OnCourse
    <3> QED
      BY <2>2, <3>2 DEF Init, CourseInv, Accounted, HintIsNotStale
  <2> QED
    BY <2>1, <2>2
<1>2. CompleteInv /\ CourseInv /\ [Next]_vars => (CompleteInv /\ CourseInv)'
  <2> SUFFICES ASSUME CompleteInv, CourseInv, [Next]_vars PROVE (CompleteInv /\ CourseInv)'
    OBVIOUS
  <2>1. CompleteInv' /\ OnCourse' /\ Accounted' /\ HintIsNotStale'
    BY StepKeepsThePromise, StepStaysOnCourse, StepAccounts, StepKeepsTheHint DEF CourseInv
  <2> QED
    BY <2>1 DEF CourseInv
<1> QED
  BY <1>1, <1>2, PTL DEF Spec

\* Once the port is open, a run that fails ends with a Failure event of the class its exit code
\* tells, for every command line, terminal and failure, unless an output was lost (run_recover).
THEOREM FailuresAreTold == Spec => []FailureIsTold
<1>1. CompleteInv /\ CourseInv => FailureIsTold
  <2> SUFFICES ASSUME CompleteInv, CourseInv PROVE FailureIsTold
    OBVIOUS
  <2>1. CASE phase = "exit"
    BY <2>1 DEF CourseInv, Accounted
  <2>2. CASE phase # "exit"
    BY <2>2, ErrorsAreFailures DEF CompleteInv, Told, FailureIsTold
  <2> QED
    BY <2>1, <2>2
<1> QED
  BY <1>1, CourseInvariant, PTL

\* The events of every run are in order: the session and its port first, a handoff once and after a
\* prompt, and a failure last (execute_recover and run_recover).
THEOREM EventsStayOrdered == Spec => []EventsAreOrdered
<1>1. CompleteInv /\ CourseInv => EventsAreOrdered
  BY CourseIsOrdered DEF CourseInv
<1> QED
  BY <1>1, CourseInvariant, PTL

\* The remedy printed for a timeout is about the phase that timed out, wherever the run stopped
\* (timeout_hint).
THEOREM HintStaysTrue == Spec => []HintIsNotStale
<1>1. CompleteInv /\ CourseInv => HintIsNotStale
  BY DEF CourseInv
<1> QED
  BY <1>1, CourseInvariant, PTL
=============================================================================
