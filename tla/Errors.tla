------------------------------- MODULE Errors -------------------------------
(***************************************************************************)
(* The errors of error.rs, the failure classes of event.rs they belong to  *)
(* and the exit codes the CLI gives those (crates/unbrk-cli/src/lib.rs,    *)
(* RunError and CliExitCode).                                              *)
(***************************************************************************)
EXTENDS Naturals

FailureClass == {"Io", "Serial", "Timeout", "Protocol", "Xmodem", "UBootCommand",
                 "VerificationMismatch", "BadInput", "UserAbort"}

\* The variants of UnbrkError.
UnbrkError == {"Serial", "Timeout", "PromptMismatch", "Protocol", "Xmodem", "UBootCommand",
               "VerificationMismatch", "BadInput", "UserAbort"}

\* failure_class.
FailureClassOf(error) == IF error = "PromptMismatch" THEN "Protocol" ELSE error

StableExitCode == [Success |-> 0, IoError |-> 1, Timeout |-> 2, ProtocolError |-> 3, XmodemFailure |-> 4,
                   UBootCommandFailure |-> 5, VerificationMismatch |-> 6, BadInput |-> 7, UserAbort |-> 8]

ExitCode(class) ==
    CASE class \in {"Io", "Serial"} -> StableExitCode.IoError
      [] class = "Timeout" -> StableExitCode.Timeout
      [] class = "Protocol" -> StableExitCode.ProtocolError
      [] class = "Xmodem" -> StableExitCode.XmodemFailure
      [] class = "UBootCommand" -> StableExitCode.UBootCommandFailure
      [] class = "VerificationMismatch" -> StableExitCode.VerificationMismatch
      [] class = "BadInput" -> StableExitCode.BadInput
      [] class = "UserAbort" -> StableExitCode.UserAbort
=============================================================================
