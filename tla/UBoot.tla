-------------------------------- MODULE UBoot --------------------------------
(***************************************************************************)
(* The judgements uboot.rs makes of a command's output: when the command   *)
(* is over (`prompt_search_cursor`, `first_line_end` and the loop of       *)
(* `run_command`) and what it reported (the parse_* functions).            *)
(*                                                                         *)
(* Output is a sequence of the tokens of Prompt.tla and of the lines the   *)
(* parsers look for.  A size is told apart by the image whose size it is.  *)
(***************************************************************************)
EXTENDS Prompt

CONSTANTS
    OutputLimit,   \* MAX_COMMAND_OUTPUT_BYTES, in tokens
    SameSize       \* whether the two images have the same size

ASSUME UBootAssumption == OutputLimit \in Nat /\ SameSize \in BOOLEAN

LOADADDR == "loadaddr="
ERASED == "blocks erased: OK"
WRITTEN == "blocks written: OK"
\* `filesize=` and `Total Size = ` lines: the size of an image, or of none of them.
FilesizeOf == [preloader |-> "filesize=P", fip |-> "filesize=F", other |-> "filesize=?"]
TotalOf == [preloader |-> "Total Size = P", fip |-> "Total Size = F", other |-> "Total Size = ?"]
MALFORMED == "Total Size"       \* the label without the two numbers
RESETTING == "EcoNet System Reset"
UBOOTBANNER == "U-Boot"
EvidenceOrShell == {RESETTING, PRESS, UBOOTBANNER, UBOOT}    \* mutant: the shell's prompt is evidence
Evidence == {RESETTING, PRESS, UBOOTBANNER}

\* first_line_end: just after the first control byte and those that follow it.
FirstLineEnd(output) ==
    CHOOSE end \in 1..Len(output) :
        /\ IsControl(output[end])
        /\ end < Len(output) => ~IsControl(output[end + 1])
        /\ \A i \in 1..end - 1 : IsControl(output[i]) => IsControl(output[i + 1])

PromptSearchCursorZero(output) ==                            \* mutant: a prompt on the first line counts
    IF ~ \E i \in 1..Len(output) : IsControl(output[i]) THEN Len(output) ELSE 0
\* The search for the closing prompt skips a prompt on the first line, where U-Boot echoes
\* the command; without a complete first line there is nothing to search yet.
PromptSearchCursor(output) ==
    IF ~ \E i \in 1..Len(output) : IsControl(output[i]) THEN Len(output)
    ELSE LET first == FindPrompt(output, 0, UBootShell, TRUE)
         IN  IF first # NoMatch /\ first <= FirstLineEnd(output) THEN FirstLineEnd(output) ELSE 0

CommandCompleteAtEcho(output) ==                             \* mutant: the first line closes the command
    \E i \in 1..Len(output) : IsControl(output[i])
\* run_command is done.
CommandComplete(output) == FindPrompt(output, PromptSearchCursor(output), UBootShell, TRUE) # NoMatch

\* What the parsers find in the output: its first line of a kind, if there is one.
LinesOf(output, kind) == {i \in 1..Len(output) : output[i] \in kind}
Reports(output, kind) == LinesOf(output, kind) # {}
Reported(output, kind) ==
    LET lines == LinesOf(output, kind)
    IN  output[CHOOSE i \in lines : \A j \in lines : i <= j]

FilesizeLines == {FilesizeOf[s] : s \in DOMAIN FilesizeOf}
TotalLines == {TotalOf[s] : s \in DOMAIN TotalOf}

SizeMatchesAny(line, sizeOf, image) == TRUE                  \* mutant: the size is parsed, not compared
SizeMatches(line, sizeOf, image) == line = sizeOf[image] \/ (SameSize /\ line # sizeOf["other"])
=============================================================================
