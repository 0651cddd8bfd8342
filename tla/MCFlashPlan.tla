---------------------------- MODULE MCFlashPlan ----------------------------
EXTENDS FlashPlan

\* Each flag absent or at a boundary of its range, in a device of U32 blocks.
Starts == {Absent, 0, 1, U32 - 1, U32}
Counts == {Absent, 0, 1, U32 - 1, U32}
MCOverrides == [eraseCount : {Absent, 1, U32}, preloaderStart : Starts, preloaderCount : Counts,
                fipStart : Starts, fipCount : {Absent, 2}]

MCSizes == {0, 1, BlockSize, BlockSize + 1, 252 * BlockSize, 252 * BlockSize + 1, 1792 * BlockSize}
=============================================================================
