----------------------------- MODULE FlashLayout -----------------------------
(***************************************************************************)
(* The block arithmetic of the flash plan: `build_flash_plan` of the CLI,  *)
(* the ranges and size checks of target.rs, `payload_block_count` and the  *)
(* size part of `prepare_stage_payloads` of flash.rs.  Sizes are in bytes, *)
(* ranges in MMC blocks.                                                   *)
(***************************************************************************)
EXTENDS Integers

CONSTANTS
    U32,         \* 2^32 in the code: block offsets and counts are u32
    BlockSize,   \* FlashLayout.block_size
    Defaults     \* the target's flash layout: the erase range and both write ranges

Range32(start, count) == [start |-> start, count |-> count]

ASSUME LayoutAssumption ==
    /\ U32 \in Nat \ {0}
    /\ BlockSize \in Nat \ {0}
    /\ Defaults \in [{"erase", "preloader", "fip"} -> [start : 0..U32 - 1, count : 0..U32 - 1]]

\* The layout of the one target the program knows, in blocks of 512 bytes.
AN7581 == [erase |-> Range32(0, 2048), preloader |-> Range32(4, 252), fip |-> Range32(256, 1792)]

Images == {"preloader", "fip"}

\* An override that was not given; those given are any u64.
Absent == -1
OrDefault(override, default) == IF override = Absent THEN default ELSE override

FitsU32(n) == n < U32

\* BlockRange::new and validate_block_range: the end, start + count, is a u32 as well.
RangeFits(r) == r.start + r.count < U32

\* The plan for these command-line overrides.  The erase range's start cannot be overridden.
Requested(args) ==
    [erase     |-> Range32(Defaults["erase"].start, OrDefault(args.eraseCount, Defaults["erase"].count)),
     preloader |-> Range32(OrDefault(args.preloaderStart, Defaults["preloader"].start),
                           OrDefault(args.preloaderCount, Defaults["preloader"].count)),
     fip       |-> Range32(OrDefault(args.fipStart, Defaults["fip"].start),
                           OrDefault(args.fipCount, Defaults["fip"].count))]

\* build_flash_plan returns the plan requested, or BadInput.
PlanAccepted(args) ==
    \A name \in {"erase", "preloader", "fip"} :
        LET r == Requested(args)[name]
        IN  FitsU32(r.start) /\ FitsU32(r.count) /\ RangeFits(r)

\* validate_image_size against WriteStage::max_bytes (a u64 product of two u32).
MaxBytes(stage) == stage.count * BlockSize

SizeFitsBlock(stage, size) ==                                \* mutant: one block too many passes
    0 < size /\ size < MaxBytes(stage) + BlockSize
SizeFits(stage, size) == 0 < size /\ size <= MaxBytes(stage)

\* payload_block_count: div_ceil, saturated to u32.
DivCeil(n, d) == (n + d - 1) \div d
PayloadBlockCount(size) ==
    LET blocks == DivCeil(size, BlockSize)
    IN  IF FitsU32(blocks) THEN blocks ELSE U32 - 1

\* What `mmc write` is told to write for an image.
Written(stage, size) == Range32(stage.start, PayloadBlockCount(size))

Blocks(r) == r.start..r.start + r.count - 1
Inside(r, s) == s.start <= r.start /\ r.start + r.count <= s.start + s.count
=============================================================================
