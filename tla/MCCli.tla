------------------------------- MODULE MCCli -------------------------------
EXTENDS Cli

CONSTANT MaxFlags   \* bound: how far a command line is from the plainest one

\* `unbrk recover --port P --preloader A --fip B`, in a terminal.
MCPlain == [json |-> FALSE, progress |-> "unset", port |-> TRUE, preloader |-> TRUE, fip |-> TRUE,
            nonInteractive |-> FALSE, noConsole |-> "unset", resume |-> FALSE, flash |-> FALSE,
            ubootPrompt |-> "default", layout |-> "default", log |-> FALSE, transcript |-> FALSE,
            stdinTty |-> TRUE, stdoutTty |-> TRUE]

MCInvocations ==
    {a \in Commandline : Cardinality({f \in DOMAIN a : a[f] # MCPlain[f]}) <= MaxFlags}
=============================================================================
