------------------------------ MODULE Progress ------------------------------
(***************************************************************************)
(* FancyProgressRenderer of crates/unbrk-cli/src/lib.rs: the one line that *)
(* tells the operator what the program is doing, redrawn at each event it  *)
(* observes.  A message stays until an event sets another, so what stands  *)
(* on the line is the message of the latest event that has one.            *)
(***************************************************************************)
EXTENDS Events

Unchanged == "unchanged"
Finished == "finished"
PowerCycle == "Waiting for recovery prompt (power-cycle the board into recovery mode)"

\* prompt_waiting_label.
WaitingFor == [Bootrom |-> "Waiting for the bootrom prompt",
               PreloaderPrompt |-> "Waiting for the recovery prompt",
               FipPrompt |-> "Waiting for the FIP prompt",
               UBoot |-> "Waiting for the U-Boot prompt",
               FlashPlan |-> "Waiting for the flash plan prompt"]

\* A heartbeat alternates the countdown with the power-cycle instruction.
HeartbeatMessage(stage, elapsed) ==
    IF stage \in {"Bootrom", "PreloaderPrompt"} /\ elapsed % 4 >= 2 THEN PowerCycle ELSE WaitingFor[stage]

PromptSeenMessage == [PreloaderPrompt |-> "Sending x for preloader", FipPrompt |-> "Sending x for FIP"]
InputSentMissing == [stage \in {} |-> Unchanged]            \* mutant: InputSent has no message
InputSentMessage == [PreloaderPrompt |-> "Waiting for preloader XMODEM", FipPrompt |-> "Waiting for FIP XMODEM"]

\* The message at readiness; start_transfer and update_transfer add how much has been sent.
UploadMessage == [Preloader |-> "Uploading preloader", Fip |-> "Uploading FIP",
                  LoadxPreloader |-> "Uploading preloader for flash", LoadxFip |-> "Uploading FIP for flash"]

\* complete_transfer.
CompletedMessage == [Preloader |-> "Waiting for stage 2 prompt", Fip |-> "Waiting for live U-Boot prompt",
                     LoadxPreloader |-> "Verifying preloader before flash write",
                     LoadxFip |-> "Verifying FIP before flash write"]

\* mutant: every `mmc` command is taken for an erase
CommandMessageByWord ==
    [loadaddr |-> "Reading U-Boot load address", erase |-> "Erasing persistent flash",
     loadx |-> "Waiting for XMODEM after loadx", filesize |-> "Verifying transferred image size",
     write |-> "Erasing persistent flash", reset |-> "Waiting for reset after flashing"]
\* observe_command_started.
CommandMessage == [loadaddr |-> "Reading U-Boot load address", erase |-> "Erasing persistent flash",
                   loadx |-> "Waiting for XMODEM after loadx", filesize |-> "Verifying transferred image size",
                   write |-> "Writing image to flash", reset |-> "Waiting for reset after flashing"]

\* observe: what an event makes of the line; flash says whether --flash-persistent was given.
Message(event, flash) ==
    CASE Kind(event) = "PromptWaiting" -> HeartbeatMessage(event[2], event[3])
      [] Kind(event) = "PromptSeen" /\ event[2] \in DOMAIN PromptSeenMessage -> PromptSeenMessage[event[2]]
      [] Kind(event) = "InputSent" /\ event[2] \in DOMAIN InputSentMessage -> InputSentMessage[event[2]]
      [] Kind(event) \in {"CrcReady", "XmodemStarted", "XmodemProgress"} -> UploadMessage[event[2]]
      [] Kind(event) = "XmodemCompleted" -> CompletedMessage[event[2]]
      [] Kind(event) = "UBootPromptSeen" -> IF flash THEN "Preparing persistent flash" ELSE Finished
      [] Kind(event) = "UBootCommandStarted" -> CommandMessage[event[2].op]
      [] Kind(event) = "ImageVerified" -> "Verified; writing image to flash"
      [] Kind(event) = "ResetSeen" -> "Reset observed"
      [] Kind(event) \in {"HandoffReady", "Failure"} -> Finished
      [] OTHER -> Unchanged

\* FancyProgressRenderer::new.
FirstMessage(resume) == IF resume THEN "Waiting for live U-Boot prompt" ELSE PowerCycle

\* What stands on the line once these events have been observed.
Line(events, resume, flash) ==
    LET HasMessage(event) == Message(event, flash) # Unchanged
        last == Latest(events, HasMessage)
    IN  IF last = <<"none">> THEN FirstMessage(resume) ELSE Message(last, flash)
=============================================================================
