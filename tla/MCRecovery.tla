----------------------------- MODULE MCRecovery -----------------------------
EXTENDS Recovery

\* The board is off, or runs its old firmware's shell, until the operator resets it.
MCInitialBoards == {"off", "shell"}

\* The board sits at the stage 2 prompt: an earlier run loaded the preloader and stopped.
MCInitialBoardsStage2 == {"bl2"}
=============================================================================
