------------------------------- MODULE Prompt -------------------------------
(***************************************************************************)
(* The scanners that every wait of the program runs over the console:      *)
(* `find_prompt_impl` of prompt.rs and `find_crc_ready` of xmodem.rs.      *)
(*                                                                         *)
(* The console is a sequence of tokens, each standing for the bytes the    *)
(* scanners tell apart: a prompt's text, its continuation, the readiness   *)
(* byte C, a control byte, a space, any other printable text.  A cursor is *)
(* the number of tokens already consumed.                                  *)
(***************************************************************************)
EXTENDS Naturals, Sequences, FiniteSets

PRESS == "Press x"
LOAD == " to load BL31 + U-Boot FIP"
UBOOT == "AN7581>"
CRC == "C"
SPACE == "SP"
TEXT == "TXT"      \* printable bytes that are part of no prompt: chatter, an echo
CTL == "CTL"       \* CR, LF, the XMODEM answers, or another control byte
Tokens == {PRESS, LOAD, UBOOT, CRC, SPACE, TEXT, CTL}

\* The regular expressions of target.rs, as the token strings they match.
InitialRecovery == <<PRESS>>
SecondStage == <<PRESS, LOAD>>
UBootShell == <<UBOOT>>

NoMatch == 0
ReadyMin == 3      \* XMODEM_CRC_READY_MIN_BYTES

IsControl(token) == token = CTL

\* The pattern occurs in buffer so that the occurrence ends at position end.
OccursAt(buffer, pattern, end) ==
    /\ end >= Len(pattern)
    /\ \A i \in 1..Len(pattern) : buffer[end - Len(pattern) + i] = pattern[i]

\* mutant: the space after U-Boot's prompt is not tolerated
TerminatedByControl(buffer, end, allowSpace) ==
    end = Len(buffer) \/ IsControl(buffer[end + 1])

\* What may follow a match: nothing yet, a control byte, for the U-Boot prompt also a space.
Terminated(buffer, end, allowSpace) ==
    \/ end = Len(buffer)
    \/ IsControl(buffer[end + 1])
    \/ allowSpace /\ buffer[end + 1] = SPACE

\* mutant: the search starts at the beginning of the console, not at the cursor
FindPromptFromStart(buffer, cursor, pattern, allowSpace) ==
    LET accepted == {end \in Len(pattern)..Len(buffer) :
                        OccursAt(buffer, pattern, end) /\ Terminated(buffer, end, allowSpace)}
    IN  IF accepted = {} THEN NoMatch
        ELSE CHOOSE end \in accepted : \A other \in accepted : end <= other

\* find_prompt_impl: the cursor after the first accepted match, or NoMatch.  Matches of one
\* pattern cannot overlap, so the first accepted one is the one that ends first.
FindPrompt(buffer, cursor, pattern, allowSpace) ==
    LET accepted == {end \in cursor + Len(pattern)..Len(buffer) :
                        OccursAt(buffer, pattern, end) /\ Terminated(buffer, end, allowSpace)}
    IN  IF accepted = {} THEN NoMatch
        ELSE CHOOSE end \in accepted : \A other \in accepted : end <= other

\* readiness_bytes_seen reaches its minimum by position end: control bytes do not count, other
\* text starts it over.
ReadyAt(buffer, cursor, end) ==
    \E first \in cursor + 1..end :
        /\ \A i \in first..end : buffer[i] = CRC \/ IsControl(buffer[i])
        /\ Cardinality({i \in first..end : buffer[i] = CRC}) >= ReadyMin

\* mutant: the search starts at the beginning of the console, not at the cursor
FindCrcReadyFromStart(buffer, cursor) ==
    LET ready == {end \in 1..Len(buffer) : ReadyAt(buffer, 0, end)}
    IN  IF ready = {} THEN NoMatch
        ELSE CHOOSE end \in ready : \A other \in ready : end <= other

\* mutant: the cursor ends up one too far
FindCrcReadyTooFar(buffer, cursor) ==
    LET ready == {end \in cursor + 1..Len(buffer) : ReadyAt(buffer, cursor, end)}
    IN  IF ready = {} THEN NoMatch
        ELSE (CHOOSE end \in ready : \A other \in ready : end <= other) + 1

\* find_crc_ready: the cursor just after the third C of a run, or NoMatch.
FindCrcReady(buffer, cursor) ==
    LET ready == {end \in cursor + 1..Len(buffer) : ReadyAt(buffer, cursor, end)}
    IN  IF ready = {} THEN NoMatch
        ELSE CHOOSE end \in ready : \A other \in ready : end <= other

\* advance_to_prompt and advance_to_crc_ready: a match is consumed, so that the waits after it
\* look at newer bytes only; without a match the cursor stays.
AdvancedTo(cursor, matched) == IF matched = NoMatch THEN cursor ELSE matched
=============================================================================
