------------------------------- MODULE Events -------------------------------
(***************************************************************************)
(* The events of event.rs, which every part of the program reports through *)
(* and from which the progress display, the log, the JSON stream and the   *)
(* hint for a timeout are made.                                            *)
(*                                                                         *)
(* An event is a tuple of its kind and of those fields that say what it is *)
(* about.  Texts, sizes and the time of day are left out; the sequence     *)
(* number of an event is its position.                                     *)
(***************************************************************************)
EXTENDS Errors, Sequences

RecoveryStage == {"Bootrom", "PreloaderPrompt", "FipPrompt", "UBoot", "FlashPlan"}
TransferStage == {"Preloader", "Fip", "LoadxPreloader", "LoadxFip"}
ImageKind == {"preloader", "fip"}

\* The commands flash_from_uboot runs, and the image one of them is about.
UBootCommand == [op : {"loadaddr", "erase", "loadx", "filesize", "write", "reset"},
                 image : ImageKind \cup {"none"}]

EventPayload ==
         {<<kind>> : kind \in {"SessionStarted", "PortOpened", "UBootPromptSeen", "ResetSeen"}}
    \cup {"PromptWaiting"} \X RecoveryStage \X Nat             \* elapsed_secs
    \cup {"PromptSeen", "InputSent"} \X RecoveryStage
    \cup {"CrcReady", "XmodemStarted"} \X TransferStage
    \cup {"XmodemProgress"} \X TransferStage \X Nat            \* bytes_sent, in blocks
    \cup {"XmodemCompleted"} \X TransferStage \X BOOLEAN       \* recovered_from_eot_quirk
    \cup {"UBootCommandStarted", "UBootCommandCompleted"} \X UBootCommand
    \cup {"ImageVerified"} \X ImageKind
    \cup {"HandoffReady"} \X BOOLEAN                           \* interactive_console
    \cup {"Failure"} \X FailureClass

\* EventPayload::kind.
Kind(event) == event[1]

\* EventRecorder::emit: the observer is shown the event, and it is kept.
Emit(events, payload) == Append(events, payload)

\* The event whose kind and fields satisfy Test last, if there is one.
Latest(events, Test(_)) ==
    LET passing == {i \in 1..Len(events) : Test(events[i])}
    IN  IF passing = {} THEN <<"none">> ELSE events[CHOOSE i \in passing : \A j \in passing : j <= i]

\* A transfer was started and has not been reported complete.
TransferUnderWay(events) ==
    \E i \in 1..Len(events) :
        /\ Kind(events[i]) = "XmodemStarted"
        /\ \A j \in i + 1..Len(events) : Kind(events[j]) # "XmodemCompleted"
=============================================================================
