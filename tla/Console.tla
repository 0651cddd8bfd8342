------------------------------- MODULE Console -------------------------------
(***************************************************************************)
(* handoff_console of crates/unbrk-cli/src/lib.rs: after a recovery the    *)
(* terminal is connected to the board.  One thread takes a terminal event, *)
(* writes what it stands for to the port, reads the port and shows what    *)
(* came, over and over; the transcript (Transcript.tla) records both ways. *)
(*                                                                         *)
(* The board may print for ever.  Its first MaxTracked bytes are told      *)
(* apart and kept in the histories; the ones after them are NOISE, which   *)
(* goes the same way through the program and leaves no trace here.  What   *)
(* is typed before raw mode is the terminal's business.                    *)
(***************************************************************************)
EXTENDS Transcript, SequencesExt

CONSTANTS
    TerminalEvents,   \* what the operator may type
    MaxTyped,         \* bound: terminal events
    MaxTracked,       \* bound: bytes of the board told apart
    PortLimit         \* bound: bytes waiting in the port

Characters == {"a", "b", "c", "d"}
Keys == [kind : {"Press", "Repeat", "Release"}, control : BOOLEAN,
         code : Characters \cup {"Enter", "Up", "F1"}]
Pastes == [kind : {"Paste"}, contents : Seq(Characters)]
Resize == [kind |-> "Resize"]

ASSUME ConsoleAssumption ==
    /\ \A event \in TerminalEvents : event \in Keys \/ event \in Pastes \/ event = Resize
    /\ MaxTyped \in Nat /\ MaxTracked \in Nat /\ PortLimit \in Nat \ {0}

VARIABLES
    phase,        \* where handoff_console is
    raw,          \* the terminal is in raw mode
    typed,        \* the terminal events, of which the relay has taken the first ...
    taken,        \* ... this many
    toHost,       \* bytes the board has printed that nobody has read
    printed,      \* how many tracked bytes it has printed
    atBoard,      \* the bytes that have reached it
    crossed,      \* all bytes that have been read from the port or have reached the board
    read,         \* what the last read returned
    screen,       \* what stdout has taken of the board's bytes
    lost,         \* the transcript timed out on bytes that had been read
    stdoutOpen, portOpen,
    result        \* "running", "killed", "ok" or the class of the error returned

terminalVars == <<typed, stdoutOpen>>
boardVars == <<printed, portOpen>>
vars == <<phase, raw, typed, taken, toHost, printed, atBoard, crossed, read, screen, lost,
          stdoutOpen, portOpen, result, transcript>>

NOISE == 0
Rx(byte) == <<"rx", byte>>
Tx(byte) == <<"tx", byte>>
\* The tracked bytes of a piece of the board's output, which come before its NOISE.
Traced(bytes) == SubSeq(bytes, 1, Cardinality({i \in DOMAIN bytes : bytes[i] # NOISE}))
Tagged(Tag(_), bytes) == [i \in DOMAIN bytes |-> Tag(bytes[i])]

Init ==
    /\ phase = "banner" /\ raw = FALSE
    /\ typed = <<>> /\ taken = 0
    /\ toHost = <<>> /\ printed = 0 /\ atBoard = <<>>
    /\ crossed = <<>> /\ read = <<>> /\ screen = <<>>
    /\ lost = FALSE
    /\ stdoutOpen = TRUE /\ portOpen = TRUE
    /\ result = "running"
    /\ TranscriptInit

-----------------------------------------------------------------------------
(* console_action_for_key_event, and the arm for a paste *)

Ignore == [action |-> "Ignore"]
Leave == [action |-> "Exit"]
Send(bytes) == [action |-> "Send", bytes |-> bytes]

Control == [a |-> "^A", b |-> "^B"]
Named == [Enter |-> <<"CR">>, Up |-> <<"ESC", "[", "A">>]

KeyAction(key) ==
    CASE key.control /\ key.code \in {"c", "d"} -> Leave
      [] key.control /\ key.code \in DOMAIN Control -> Send(<<Control[key.code]>>)
      [] ~key.control /\ key.code \in Characters -> Send(<<key.code>>)
      [] ~key.control /\ key.code \in DOMAIN Named -> Send(Named[key.code])
      [] OTHER -> Ignore

ActionWithReleases(event) ==                                 \* mutant: a key counts when it is let go as well
    CASE event.kind = "Paste" -> Send(event.contents)
      [] event.kind = "Resize" -> Ignore
      [] OTHER -> KeyAction(event)
ConsoleAction(event) ==
    CASE event.kind \in {"Press", "Repeat"} -> KeyAction(event)
      [] event.kind = "Paste" /\ event.contents # <<>> -> Send(event.contents)
      [] OTHER -> Ignore

-----------------------------------------------------------------------------
(* The relay *)

\* The handoff is over: the guard leaves raw mode.
End(outcome) == phase' = "ended" /\ raw' = FALSE /\ result' = outcome
\* The program is killed: neither the guard nor the buffer gets its turn.
Kill == phase' = "ended" /\ result' = "killed" /\ UNCHANGED raw

Banner ==
    /\ phase = "banner"
    /\ IF stdoutOpen THEN phase' = "raw" /\ UNCHANGED <<raw, result>> ELSE End("Io")
    /\ UNCHANGED <<terminalVars, boardVars, taken, toHost, atBoard, crossed, read, screen, lost, transcript>>

EnableRawMode ==
    /\ phase = "raw"
    /\ \/ phase' = "timeout" /\ raw' = TRUE /\ UNCHANGED result
       \/ End("Io")
    /\ UNCHANGED <<terminalVars, boardVars, taken, toHost, atBoard, crossed, read, screen, lost, transcript>>

SetTimeout ==
    /\ phase = "timeout"
    /\ \/ phase' = "poll" /\ UNCHANGED <<raw, result>>
       \/ End("Serial")
    /\ UNCHANGED <<terminalVars, boardVars, taken, toHost, atBoard, crossed, read, screen, lost, transcript>>

\* Nothing is typed for as long as the poll takes, or the terminal fails.
PollNothing ==
    /\ phase = "poll"
    /\ \/ taken = Len(typed) /\ phase' = "read" /\ UNCHANGED <<raw, result>>
       \/ End("Io")
    /\ UNCHANGED <<terminalVars, boardVars, taken, toHost, atBoard, crossed, read, screen, lost, transcript>>

\* The port takes all the bytes and they are recorded, or the recording or the flush fails; either
\* way the board has them.
Written(bytes) ==
    /\ atBoard' = atBoard \o bytes
    /\ crossed' = crossed \o Tagged(Tx, bytes)
    /\ \/ Recorded(Tagged(Tx, bytes)) /\ phase' = "read" /\ UNCHANGED <<raw, result>>
       \/ RecordFails(Tagged(Tx, bytes)) /\ (End("Serial") \/ Kill)
\* The port takes some of them and fails, or times out.
WriteFails(bytes) ==
    /\ \E n \in 0..Len(bytes) :
          /\ atBoard' = atBoard \o SubSeq(bytes, 1, n)
          /\ crossed' = crossed \o Tagged(Tx, SubSeq(bytes, 1, n))
    /\ End("Serial") \/ Kill
    /\ UNCHANGED transcript

TakeEvent ==
    /\ phase = "poll" /\ taken < Len(typed)
    /\ taken' = taken + 1
    /\ LET act == ConsoleAction(typed[taken + 1])
       IN  \/ /\ act.action = "Ignore"
              /\ phase' = "read" /\ UNCHANGED <<raw, result, atBoard, crossed, transcript>>
           \/ /\ act.action = "Exit"
              /\ phase' = "footer" /\ UNCHANGED <<raw, result, atBoard, crossed, transcript>>
           \/ /\ act.action = "Send"
              /\ Written(act.bytes) \/ WriteFails(act.bytes)
    /\ UNCHANGED <<terminalVars, boardVars, toHost, read, screen, lost>>

\* One read of the port returns part of what has arrived, and it is recorded.
ReadPort ==
    /\ phase = "read"
    /\ \E n \in 1..Len(toHost) :
          LET bytes == Traced(SubSeq(toHost, 1, n))
          IN  /\ toHost' = SubSeq(toHost, n + 1, Len(toHost))
              /\ crossed' = crossed \o Tagged(Rx, bytes)
              /\ \/ /\ Recorded(Tagged(Rx, bytes))
                    /\ read' = bytes /\ phase' = "show"
                    /\ UNCHANGED <<raw, result, lost>>
                 \/ /\ RecordFails(Tagged(Rx, bytes))
                    /\ End("Serial") \/ Kill
                    /\ UNCHANGED <<read, lost>>
                 \/ /\ RecordFails(Tagged(Rx, bytes))    \* with TimedOut, as if nothing had come
                    /\ lost' = TRUE /\ phase' = "poll"
                    /\ UNCHANGED <<raw, result, read>>
    /\ UNCHANGED <<terminalVars, boardVars, taken, atBoard, screen>>

\* Nothing comes within the timeout; or the port is at its end, or fails.
ReadNothing ==
    /\ phase = "read"
    /\ \/ toHost = <<>> /\ portOpen /\ phase' = "poll" /\ UNCHANGED <<raw, result>>
       \/ toHost = <<>> /\ ~portOpen /\ phase' = "footer" /\ UNCHANGED <<raw, result>>
       \/ End("Serial")
    /\ UNCHANGED <<terminalVars, boardVars, taken, toHost, atBoard, crossed, read, screen, lost, transcript>>

ShowDraining ==                                              \* mutant: the port is read until it is empty
    /\ phase = "show" /\ stdoutOpen
    /\ screen' = screen \o read
    /\ phase' = IF toHost = <<>> THEN "poll" ELSE "read"
    /\ UNCHANGED <<terminalVars, boardVars, raw, result, taken, toHost, atBoard, crossed, read, lost, transcript>>
ShowPartGoesOn ==                                            \* mutant: `write` in place of `write_all`
    /\ phase = "show"
    /\ \E n \in 0..Len(read) : screen' = screen \o SubSeq(read, 1, n)
    /\ phase' = "poll"
    /\ UNCHANGED <<terminalVars, boardVars, raw, result, taken, toHost, atBoard, crossed, read, lost, transcript>>
Show ==
    /\ phase = "show" /\ stdoutOpen
    /\ screen' = screen \o read
    /\ phase' = "poll"
    /\ UNCHANGED <<terminalVars, boardVars, raw, result, taken, toHost, atBoard, crossed, read, lost, transcript>>

ShowFails ==
    /\ phase = "show" /\ ~stdoutOpen
    /\ \E n \in 0..Len(read) : screen' = screen \o SubSeq(read, 1, n)
    /\ End("Io")
    /\ UNCHANGED <<terminalVars, boardVars, taken, toHost, atBoard, crossed, read, lost, transcript>>

Footer ==
    /\ phase = "footer"
    /\ End(IF stdoutOpen THEN "ok" ELSE "Io")
    /\ UNCHANGED <<terminalVars, boardVars, taken, toHost, atBoard, crossed, read, screen, lost, transcript>>

\* run_recover returns.
DropTransport ==
    /\ phase = "ended" /\ result # "killed" /\ buffer # <<>>
    /\ Dropped
    /\ UNCHANGED <<terminalVars, boardVars, phase, raw, result, taken, toHost, atBoard, crossed, read, screen, lost>>

Relay == \/ Banner \/ EnableRawMode \/ SetTimeout \/ PollNothing \/ TakeEvent \/ ReadPort
         \/ ReadNothing \/ Show \/ ShowFails \/ Footer \/ DropTransport

-----------------------------------------------------------------------------
(* The operator and the board *)

Type ==
    /\ raw /\ result = "running" /\ Len(typed) < MaxTyped
    /\ \E event \in TerminalEvents : typed' = Append(typed, event)
    /\ UNCHANGED <<boardVars, transcript, stdoutOpen, phase, raw, taken, toHost, atBoard, crossed, read,
                   screen, lost, result>>

\* The reader of stdout goes away.
StdoutCloses ==
    /\ result = "running" /\ stdoutOpen
    /\ stdoutOpen' = FALSE
    /\ UNCHANGED <<boardVars, transcript, typed, phase, raw, taken, toHost, atBoard, crossed, read,
                   screen, lost, result>>

Killed ==
    /\ result = "running" /\ Kill
    /\ UNCHANGED <<boardVars, transcript, terminalVars, taken, toHost, atBoard, crossed, read,
                   screen, lost>>

BoardPrints ==
    /\ result = "running" /\ portOpen /\ Len(toHost) < PortLimit
    /\ IF printed < MaxTracked
       THEN toHost' = Append(toHost, printed + 1) /\ printed' = printed + 1
       ELSE toHost' = Append(toHost, NOISE) /\ UNCHANGED printed
    /\ UNCHANGED <<portOpen, transcript, terminalVars, phase, raw, taken, atBoard, crossed, read,
                   screen, lost, result>>

PortCloses ==
    /\ result = "running" /\ portOpen
    /\ portOpen' = FALSE
    /\ UNCHANGED <<printed, transcript, terminalVars, phase, raw, taken, toHost, atBoard, crossed, read,
                   screen, lost, result>>

Environment == Type \/ StdoutCloses \/ Killed \/ BoardPrints \/ PortCloses

Next == Relay \/ Environment

Spec == Init /\ [][Next]_vars

\* The poll and the reads have timeouts, and stdout is taken or gone.
FairSpec == Spec /\ WF_vars(Relay)

-----------------------------------------------------------------------------
(* Properties *)

\* What a terminal event means: a key counts when it goes down or repeats, not when it is let go.
Meant(event) == IF event.kind = "Release" THEN Ignore ELSE ConsoleAction(event)
BytesOf(event) == IF Meant(event).action = "Send" THEN Meant(event).bytes ELSE <<>>
Keyed == FlattenSeq([i \in 1..taken |-> BytesOf(typed[i])])
ExitTyped == \E i \in DOMAIN typed : Meant(typed[i]) = Leave

\* The board gets what the operator typed, in order, once, and nothing else; while the relay is
\* polling it has got all that was taken.
KeysReachTheBoard ==
    /\ IsPrefix(atBoard, Keyed)
    /\ phase = "poll" => atBoard = Keyed
    /\ \A i \in 1..taken : Meant(typed[i]) = Leave => i = taken

\* The screen shows what the board printed from the start of the handoff, in order, and while the
\* relay is polling everything that was read; only a transcript that times out takes bytes away.
ScreenShowsThePort ==
    /\ \A i, j \in DOMAIN screen : i < j => screen[i] < screen[j]
    /\ ~lost => screen = [i \in DOMAIN screen |-> i]
    /\ phase = "poll" /\ ~lost => Len(screen) + Len(Traced(toHost)) = printed

\* However the program ends, the transcript file holds the first of the bytes that crossed the
\* port, in the order in which they did, with all that the operator has seen; after a console
\* that was left in order it holds them all.
TranscriptIsHonest ==
    /\ IsPrefix(file, crossed)
    /\ \A i \in DOMAIN screen : Rx(screen[i]) \in {file[k] : k \in DOMAIN file}
    /\ result = "ok" /\ ~lost => file = crossed

\* The exit key is heeded, also when the board never stops printing.
ExitIsHeeded == ExitTyped ~> phase = "ended"
===============================================================================
