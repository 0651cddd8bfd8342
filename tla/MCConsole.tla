------------------------------ MODULE MCConsole ------------------------------
EXTENDS Console

MCKey(kind, control, code) == [kind |-> kind, control |-> control, code |-> code]

\* A letter held down and let go, the exit keys, a control character, a key of three bytes and
\* one of none, pastes and a resized window.
MCTerminalEvents ==
    {MCKey("Press", FALSE, "a"), MCKey("Repeat", FALSE, "a"), MCKey("Release", FALSE, "a"),
     MCKey("Press", TRUE, "c"), MCKey("Release", TRUE, "c"), MCKey("Press", TRUE, "b"),
     MCKey("Press", FALSE, "Up"), MCKey("Press", FALSE, "F1"),
     [kind |-> "Paste", contents |-> <<"a", "d">>], [kind |-> "Paste", contents |-> <<>>], Resize}
===============================================================================
