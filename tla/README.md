# A TLA+ model of unbrk

`unbrk` recovers an Airoha AN7581 board over its serial port: it sends two
images by XMODEM to the boot stages that ask for them, until U-Boot runs, and,
if asked to, has U-Boot write both images to flash. This directory holds TLA+
modules of that program, TLC configurations that check them, and proofs that
TLAPS checks. Paths below are relative to the repository; `core` stands for
`crates/unbrk-core/src`, `cli` for `crates/unbrk-cli/src`.

## Inventory

The program is sequential: one thread, one open port, blocking reads with a
timeout. What makes it hard is the other side. The board speaks when it likes,
its output arrives in pieces of any size, the line damages and loses bytes, an
operator resets the board, and nothing on the line says which output answers
which input.

| Component | State it keeps | Operations | What makes it correct |
|---|---|---|---|
| XMODEM sender, `core/xmodem.rs` | block index, attempts, blocks sent | `send_crc`, `finish_eot_handshake` | success and an excused EOT failure both mean the whole image arrived, in order; progress means stored; it ends |
| Prompt scanners, `core/prompt.rs`, `find_crc_ready` | none (buffer and cursor belong to the caller) | `find_prompt_impl`, `find_crc_ready` | no prompt missed however reads cut it, none taken for another |
| Recovery, `core/recovery.rs` | state, console and its cursor, wait time, event number | `recover_to_uboot`: prompt, `x`, readiness, transfer, twice; then U-Boot's prompt | each image to its stage; success only when the new U-Boot runs; ordered milestones |
| Flash plan, `core/target.rs`, `cli/lib.rs` | overrides, sizes | `build_flash_plan`, `validate_image_size`, `payload_block_count` | rounded writes stay in their ranges and cover the image |
| U-Boot commands, `core/uboot.rs` | output of the command | `run_command`, `parse_*` | a command is judged by its own output |
| Flash, `core/flash.rs` | position, console and cursor, event number | `flash_from_uboot`: wake, loadaddr, erase, (loadx, verify, write) twice, reset | success means both images are in flash; nothing unverified is written; nothing is touched for an image that does not fit |
| `unbrk recover`, `cli/lib.rs` | events, output error, outcome | `validate_recover`, `run_recover`, `execute_recover`, log, stream, summary | exit code, events, log and text tell the same outcome |
| Console handoff and key table, `cli/lib.rs` | raw mode | `handoff_console`, `relay_console_handoff`, `console_action_for_key_event` | what is typed reaches the board once and in order, what the board prints reaches the screen; the exit key is always heeded |
| Transcript transport, `core/transport.rs` | logs, the file's buffer | `record_transcript` around reads and writes | what is recorded is what was exchanged, however the program ends |
| Events, `core/event.rs` | sequence number | `EventRecorder::emit`, `EventPayload::kind` | each state change announced once, in order |
| Progress line, `cli/lib.rs` | the message shown | `FancyProgressRenderer::observe` | the operator is told what is going on, never what is behind |
| Errors, `core/error.rs`, `core/event.rs` | none | failure class, exit code | each failure ends with the documented code |
| `doctor`, port selection, `cli/lib.rs` | none | `run_doctor`, `check_doctor_image`, `recover_port`, `is_plausible_recovery_port` | `doctor` passes what the flash accepts; only the one plausible port is taken |
| Serial driver and mock, `ports`, completions, man page, `xtask`, the Python prototype, fixtures, CI | see `PROJECT.json` | pure I/O, generated or test code | not modelled |

How they interact: the CLI owns the port, the events and the outputs; it calls
`recover_to_uboot` and `flash_from_uboot` with a callback that records each
event and draws progress. Both borrow the port, and both call `send_crc` with
it, which reads the port directly: bytes it consumes never reach the console
buffer the prompt scanners search. There are no threads and no locks; the
concurrency is that of program, line, board, operator and the readers of the
outputs.

`PROJECT.json` lists the hazards at their lines, with the properties aimed at
each and, where none is, why.

## Modules

| Module | Models | Uses |
|---|---|---|
| `BlockTransfer` | abstract: what a file transfer promises | |
| `Xmodem` | the sender, the line, a receiver | implements `BlockTransfer` |
| `XmodemProofs` | theorems about `Xmodem` | `Xmodem` |
| `Errors` | errors, failure classes and exit codes | |
| `Events` | the events all parts report through | `Errors` |
| `Progress` | the line the fancy renderer shows for them | `Events` |
| `Prompt` | the two scanners and their cursor | |
| `PromptProofs` | lemmas: what the scanners return | `Prompt` |
| `Recovery` | `recover_to_uboot` with board and operator | `Prompt`, `Progress` |
| `RecoveryProofs` | theorems about `Recovery` | `Recovery`, `PromptProofs` |
| `FlashLayout` | block arithmetic | |
| `FlashLayoutProofs` | lemmas about it | `FlashLayout` |
| `FlashPlan` | the two checks a plan passes, and `doctor` | `FlashLayout` |
| `FlashPlanProofs` | theorems about `FlashPlan` | `FlashPlan`, `FlashLayoutProofs` |
| `UBoot` | judging the output of a command | `Prompt` |
| `FlashUpdate` | abstract: the order in which flash changes | |
| `Flash` | `flash_from_uboot` with U-Boot and its MMC | `UBoot`, `FlashLayout`, `Progress`; implements `FlashUpdate` |
| `FlashProofs` | theorems about `Flash` and its device | `Flash`, `PromptProofs`, `FlashLayoutProofs` |
| `Cli` | `unbrk recover` from command line to exit code | `Events` |
| `CliProofs` | theorems about `Cli` | `Cli` |
| `Transcript` | the transcript file and its buffer | |
| `Console` | the console handoff with operator, board and stdout | `Transcript` |
| `ConsoleProofs` | theorems about `Console` | `Console` |

`MC*.tla` give the constants their values; each `.cfg` is one run.

### How state and actions correspond to the code

**Xmodem.** `phase` is the program counter of `send_crc` and
`finish_eot_handshake`; `block`, `attempts` and `blocksSent` are its local
variables. A `write_frame` is one action, a `read_receiver_response` one action
per kind of answer, and each `?` is a `Fail`. The two directions of the line are
queues. A block is its position in the image, a packet that and its number
modulo `SeqSpace` (256 in the code). The receiver is not in the repository: it
stores the block it expects, acknowledges again the one before it, cancels at
any other, rejects damaged frames, and with `MaxUnsolicited > 0` sends bytes on
its own timer, as XMODEM receivers do.

**Prompt.** The console is a sequence of tokens, one for each piece of text the
scanners tell apart. `Press x` and its continuation ` to load BL31 + U-Boot FIP`
are two tokens, so that a read may end between them.

**Recovery.** `state` is the `RecoveryState`, `console` and `cursor` the
runner's fields. Waits read any non-empty part of what has arrived. The EOT
handshake is kept action by action because the runner interprets its failure;
the data blocks are one step each, which `Xmodem` justifies for a receiver that
is silent unless asked. The board runs stages `off` or `shell`, `bootrom`,
`bl2`, `uboot`; it repeats `C` until the first block, may answer EOT or not, and
the operator resets it once the program waits for the initial prompt. Firmware
(`shell`, `uboot`) may log for ever (`LogOn`). Heartbeats are not kept in
`events`: `Told` adds the one the time waited implies, and `Bar` is the line
the operator then sees.

**Events, Progress.** An event is a tuple of its kind and the fields that say
what it is about. `Message` has one case per arm of `observe`; an event without
a message leaves the line alone, so `Line` shows the latest event that has one.
Counters and percentages are left out.

**FlashLayout, FlashPlan.** Sizes in bytes, ranges in blocks, `U32` the limit of
a block number. `Requested` is the plan a command line asks for, `PlanAccepted`
the checks of `build_flash_plan`, `SizeFits` `validate_image_size`, `Written`
the range of the `mmc write`. `DoctorAccepts` is what `unbrk doctor` says of the
same images, and `RunDoctor` its outcome with the port probe.

**UBoot, Flash.** `Script` is the straight-line sequence of
`flash_from_uboot`; `pos` the command it is at. `run_command` gets a fresh
buffer because the code gives it one and then moves the runner's cursor to the
end of the console. `CommandComplete`, `Reports` and `SizeMatches` are the
judgements of `uboot.rs` and `verify_*`. U-Boot holds an image in RAM, the
`filesize` variable, and the MMC block by block; its commands may fail
(`Faulty`), leaving the range torn, and what it prints after `reset` need not
hold the evidence the program looks for. A write that fails may have reached the
board: `SendFails`, which comes after the event that announces the command, and
`EotFails` choose. The board prints up to `MaxChatter` pieces of text of its own
between its replies and, in the modes of `Endless`, goes on for ever (`LogOn`,
one piece on the wire at a time); more of the same text is read and dropped (`ReadOn`), but
by `run_command`, which counts what it reads.

**Cli.** One action per stage of `run_recover`. Recovery and flash are a
sequence of milestones that may stop with one of their errors. `outputError`
is `ProgressReporter.output_error`, looked at where the code calls
`output_result`. The readers of stdout and stderr may go away at any time. A
port is told apart by what `is_plausible_recovery_port` looks at, and the list
of ports is any set of them.

**Console, Transcript.** `phase` is where `handoff_console` and its loop are:
poll, take one terminal event, read the port once, show what came. A write may
go out in part, a read returns any part of what has arrived, and the transcript
file may take any part of what it is given and fail; the program may be killed
at any moment, between the port and the transcript too. `crossed` is the history
of what really passed the port, `Transcript` what the program recorded of it.
The operator types any of the terminal events of `MCConsole`, one of each arm of
the key table; the board prints for ever, its first `MaxTracked` bytes told
apart and the rest `NOISE`, so that the state space stays finite.

## Runs

| Run | Question | Result |
|---|---|---|
| `xmodem` | Is what `send_crc` reports true, over a line that loses and damages, with a receiver that answers each frame at most once? | yes, and it implements `BlockTransfer` and always ends |
| `xmodem_unsolicited` | and with a receiver that also speaks on its own? | blocks are still stored in order; reports lead by at most one block per unsolicited byte |
| `recovery` | Does each image reach its stage, is U-Boot's prompt that of the new U-Boot, is the operator told what is awaited, and is a transfer's error kept over that of the wait after it? | yes, with old firmware before the reset, skipped EOT answers, extra `C`s, reads cut anywhere; it ends unless firmware prints for ever |
| `recovery_stage2` | Can the stage 2 prompt be taken for the stage 1 prompt? | **yes** |
| `recovery_eot` | Does a board that went on past EOT excuse the EOT? | **not always** |
| `recovery_hint` | Is a power cycle asked for only while the initial prompt is awaited? | **no**, also while the board asks for the preloader |
| `flash_plan` | Do writes stay in their ranges and cover the images (`WriteIsExact`), and does `doctor` agree with the flash? | yes, for every override at a boundary |
| `flash` | Does a successful run mean both images are in flash, whatever commands fail and whichever output judges them, is a prompt left over on the first line of an output skipped, does the device change only as the operator is told, and does the run end? | yes, and it implements `FlashUpdate`; but for a board that prints for ever after the reset, it ends |
| `flash_stale` | Is each command judged by its own output? | **not** if a prompt was being printed at the start |
| `flash_refused` | Does a refused command exit with code 5? | **no**, 3 |
| `cli` | Do exit code, events, log, stream, hint and console agree? | yes, but for the hint of the FIP phase (below) |
| `console` | Do keys reach the board and output the screen, is the transcript true however the program ends, is the exit key heeded? | yes, but for a transcript that times out (below) |

The runs answered in bold are disagreements between the code and its documents,
comments or tests; `findings` in `PROJECT.json` quotes both sides. Each of them
says something the documents promise and the code does not do, under conditions
a board or an operator can produce.

### In detail

`flash_stale`: U-Boot is printing `AN7581> ` when the program sends its carriage
return. `ensure_prompt` is satisfied by that prompt; the prompt that answers the
carriage return is still on its way and closes the first command before its
output is there. As a rule the run then fails, because the output holds nothing
of what the parser wants, but an erase that U-Boot performed is then reported as
refused. The run `flash`, which starts both ways, shows what saves the device: no success and no
completion event is ever false, because the parsers look for text only that
command prints, and the reset evidence only a reset prints.

`xmodem_unsolicited`: answers name no block. One NAK too many makes the sender write a
block twice, and the two ACKs that follow count as two blocks. The stored image
is never wrong, since the receiver checks numbers, but progress, and an excused
EOT, may then claim one block more than was stored. `LeadIsBounded` says by how
much; `ProgressIsStored`, a part of `StopAndWait`, and the theorems about success need
`MaxUnsolicited = 0` for exactly this reason.

`recovery_hint`: `read_crc_ready` reports its heartbeats with the stage of the
prompt before it. Two seconds into the wait for readiness the line asks the
operator to power-cycle a board that has just accepted the `x`.
`BarTellsTheWait` covers every other message of the run.

`console`: a transcript sink that fails with `TimedOut` after bytes were read
looks to the relay like a port with nothing to say: the bytes are lost without
an error. `lost` marks such behaviours, and `ScreenShowsThePort` says that they
are the only ones in which output is missing.

`cli`: `timeout_hint` has no remedy for `UBootPromptSeen`. A flash that times
out waking the prompt that recovery has just reached is explained as a FIP path
that stalled before a live U-Boot prompt, so `HintIsNotStale` leaves that hint
out. A session whose port or transcript file cannot be opened writes no events
at all, with `--json` too, because the stream is written at the end;
`FailureIsTold` therefore speaks of sessions whose port was opened.

## Bounds

Every bound is a constant named in its module.

- `Xmodem`: `MaxBlocks = 3` with `SeqSpace = 2` wraps the block number, and the
  neighbours of a block still differ, which is all the receiver relies on; with
  unsolicited bytes `MaxBlocks = SeqSpace = 4`, because the lead of the sender
  can then reach `MaxUnsolicited` and must not alias. Two attempts distinguish a
  first try, a retry and the last. The proofs remove these bounds: order and
  lead are proved for up to `SeqSpace - 2` unsolicited bytes, the rest for none.
- `Recovery`: two blocks per image (order of blocks is the business of
  `Xmodem`; two tell the last from the others), a wait of three heartbeats, so
  that the alternation of the countdown shows both its sides, two EOT attempts,
  one extra `C` (it suffices for the fourth `C` to be read as an answer). The
  three violation runs need one block and two heartbeats.
- `FlashPlan`: the layout of the AN7581 with its 512-byte blocks; each override
  absent, 0 or 1, or at the limit; image sizes around one block and around each
  range. `U32 = 4096` stands for 2^32: only comparisons with it matter.
- `Flash`: eight blocks of two bytes, a layout of the same shape as the
  AN7581's, images that use their last block partly, are empty or do not fit by
  one byte, one line of chatter, an output limit that the longest reply and all
  chatter reach, and exceed with a prompt left over from the start. U-Boot starts
  quiet or printing its prompt.
  What the board runs after the reset may print for ever, with the evidence the
  program waits for or without it (`Endless = {"reset"}`); U-Boot's shell prints
  the one line of chatter at most, with which its waits end.
- `Cli`: every command line that differs from the plain one in at most
  `MaxFlags = 3` options. Conditions of `validate_recover` and of the handoff
  relate at most three options.
- `Console`: two terminal events, two tracked bytes of the board, two bytes
  waiting in the port: enough for a key that arrives while output is shown, for
  output cut by reads, and for bytes of both directions in one buffer.

`CHECK_DEADLOCK FALSE` is set because the program ends: its final states have no
successor.

## Fairness

`FairSpec` of `Xmodem`, `Recovery` and `Flash` assumes weak fairness of the
program's next step, and nothing of how the board answers. The code justifies it: every read has a
timeout (`set_timeout` before each wait), so some step of the program is always
taken. `Recovery` adds that a board with something to print prints it; without
that an endless prompt that is never printed would leave reads neither empty nor
fruitful.

The timeouts bound reads, not waits, and both modules have boards that print for
ever. In `Recovery`, `waited` advances only on reads that return nothing, so
firmware that logs keeps `read_or_heartbeat` waiting past its timeout. In
`Flash`, `read_uboot_prompt`, `read_crc_ready` and `read_reset_evidence` read for
as long as something comes: a board that boots on after `reset` without the
evidence, for one, keeps the run going. `Termination` of either module says that
this is the only way a run does not end, and in `Flash` that the output of a
command, which `run_command` limits, is not such a wait. (The run `flash` has such
a board after the reset only; `recovery` has one wherever firmware runs.)

`FairSpec` of `Console` assumes weak fairness of the relay and nothing of the
board, the port or the operator: poll and reads have timeouts, and stdout takes
what it is given or is gone.

## Proofs

`XmodemProofs` proves, for every number of blocks, every `SeqSpace > 1` and
every retry limit:

| Theorem | States |
|---|---|
| `TypeCorrect` | `Spec => []TypeOK`, also with unsolicited bytes |
| `StopAndWaitHolds` | the inductive invariant |
| `SuccessIsDelivery` | `[]SuccessMeansDelivered` |
| `RecoverableIsDelivery` | `[]RecoverableMeansDelivered` |
| `ProgressIsDelivery` | `[]ProgressIsStored` |
| `XmodemRefines` | `Spec => Abstract!Spec`, refinement of `BlockTransfer` |
| `BlocksAreStoredInOrder` | `LeadFitsRange => (Spec => []StoredInOrder)` |
| `LeadStaysBounded` | `LeadFitsRange => (Spec => []LeadIsBounded)` |

Assumptions: `XmodemAssumption` (the types of the constants). `TypeCorrect` needs
no more; the last two need `LeadFitsRange`, that is `MaxUnsolicited + 1 <
SeqSpace`, in the code up to 254 bytes sent unasked in one transfer; the others
need `Silent`, that is `MaxUnsolicited = 0`.

The argument. `SuccessMeansDelivered` is not inductive: nothing in it says what
an ACK on the wire is about. `StopAndWait` does. Until the last block is
acknowledged, at most one frame or answer is on its way (`OneInFlight`), it is
about the block being sent (`FramesAreCurrent`), and an ACK among them implies
that this block is stored (`AcksAreCurrent`); hence a block that is
acknowledged is stored, and `blocksSent <= Len(rcvd) <= blocksSent + 1`. Since
neighbouring block numbers differ (`NeighboursDiffer`), the receiver tells a
retransmission from the next block. After the last acknowledgement only EOTs are
sent, so nothing more is stored. The step lemma has one case per action; the
refinement maps an accepted block to `Deliver`, an acknowledged one to
`Report`, and the ends to `Succeed` and `Fail`.

With a receiver that speaks unasked there may be many frames and answers under
way, and `Chatty` is the invariant. The frames on the wire repeat or follow each
other, from the block stored last to the one the sender waits for
(`FramesFollow`). Each frame or answer under way goes back to the frame waited
for or to an unasked byte (`OneEach`), and an ACK is paid for by a block that is
stored or by such a byte (`AcksAreEarned`), so the sender is ahead by at most
their number. Numbers that are less than `SeqSpace` apart differ; hence a frame
the receiver takes for the block it expects is that block.

`RecoveryProofs` proves, for images of any length, every timeout, retry limit
and number of extra readiness bytes, with firmware that logs for ever and boards
that skip their answer to EOT:

| Theorem | States |
|---|---|
| `TypeCorrect` | `Spec => []TypeOK` |
| `ImagesGoToTheirStage` | `Reset => (Spec => []ImagesReachTheirStage)` |
| `TransfersAreAskedFor` | `Reset => (Spec => []TransferFollowsReadiness)` |
| `SuccessIsTheNewUBoot` | `Reset => (Spec => []SuccessMeansUBoot)` |
| `EventsKeepTheFlow` | `Spec => []EventsFollowFlow` |
| `TransferErrorsAreKept` | `Spec => []TransferErrorIsKept` |
| `LineTellsTheWait` | `Reset => (Spec => []BarTellsTheWait)` |
| `PromptsAreNotMissed` | `Reset => (Spec => []NoPromptMissed)` |

Assumptions: `RecoveryAssumption`, and for all but `TypeCorrect`,
`EventsKeepTheFlow` and `TransferErrorsAreKept` `Reset`: the board is off or runs old firmware when the
program starts. A board that is already at its stage 2 prompt is excluded, as
`recovery_stage2` shows it has to be.

The argument. The scanners look at a console in which the boot ROM, BL2, U-Boot
and the firmware before the reset have all printed, and a cursor is all that
separates one wait from the text of the waits before. `Order` says what follows
what in all that was printed, read or not: a `C` after the continuation of the
stage 2 prompt comes from a BL2 that took its `x`, an `AN7581>` after a prompt for
`x` from a U-Boot that was started. Reading does not change that order, however
it cuts (`ReadPrintsNothing`); answers of XMODEM that land in the console are
control bytes. `Consumed` says which prompts are behind the cursor, so what is found ahead
of it is of the present stage. `InStep` relates the runner's state to what is on
the wire and what the board does; its hard case, `Ended`, is the EOT that may be
on its way, rejected, or accepted with its answer lost. That the scanners return
a position at all is `PromptProofs`: a set of naturals has a least element
(`LeastExists`).

Events: how many have been told follows from the state of the runner, and each
equals the one the flow has at its place (`Reported`); a handshake that is
excused takes one event out of the flow, in either round. A transfer is under way
in the events exactly while its blocks and EOTs are sent or its excuse is on, and
an error there is the transfer's (`Kept`). The line is that of
the latest event with a message, so `Accompanies` says for each state which
event that is (`BarIs`), and `InStep` adds what the board does meanwhile.

Missed prompts: `Coming` looks at what was read and what is still to come as one
row. What is awaited, once it is printed, stays ahead of the cursor in one
piece: the steps of program and line take nothing out of the row but chatter or
an answer of XMODEM (`Thins`), and the board prints what is awaited without a
break. A wait fails only when all that has arrived was read and scanned, and the
scanners overlook nothing (`NoPromptOverlooked` and `NoReadinessOverlooked` of
`PromptProofs`).

`FlashPlanProofs` proves, for every layout, block size, width of block numbers
and command line:

| Theorem | States |
|---|---|
| `WritesStayInRange` | `Spec => []WriteStaysInItsRange` |
| `WritesCoverTheImage` | `Spec => []WriteCoversTheImage` |
| `WritesAreExact` | `Spec => []WriteIsExact`, both at once |
| `DoctorIsRight` | `DefaultsFit => (Spec => []DoctorAgreesWithFlash)` |

Assumptions: `LayoutAssumption` and `FlashPlanAssumption`, the types of the
constants, and for the last `DefaultsFit`: the layout's own ranges end within the
address space, as those of the AN7581 do (`AN7581Fits`). The argument: a verdict is given only to what passed the checks
before it (`ChecksPassed`, which with the types is inductive). Division rounded
up is the least number of blocks that hold an image (`DivCeilBounds`), so an
image of at most `count` blocks needs at most `count` of them (`LessIsFewer`);
`count` is a `u32`, hence `payload_block_count` does not saturate
(`FittingImageIsWritten`, in `FlashLayoutProofs`, which `FlashProofs` uses too).
`doctor` compares sizes with the same limits when no range is overridden, and
ranges that fit pass every other check.

`FlashProofs` proves, for every layout, command line, pair
of sizes, device, retry limit, amount of chatter and outcome of U-Boot's
commands:

| Theorem | States |
|---|---|
| `MisfitsTouchNothing` | `Spec => []MisfitTouchesNothing` |
| `QuietStartsJudgeRight` | `Spec => []QuietStartJudgesRight` |
| `QuietRunsAreTyped` | `QuietSpec => []TypeOK` |
| `CompletionsAreTrue` | `QuietSpec => []ConfirmedMeansDone` |
| `DoneStaysDone` | `ReplyFits => (Spec => []DoneIsNotDenied)` |
| `WritesAreVerified` | `QuietSpec => OnlyVerifiedIsWritten` |
| `TransferErrorsAreKept` | `Spec => []TransferErrorIsKept` |
| `LineTellsTheChange` | `QuietSpec => BarTellsTheChange` |
| `SuccessIsFlashed` | `SoundPlan => (QuietSpec => []SuccessMeansFlashed)` |
| `FlashRefines` | `SoundPlan => (QuietSpec => ImplementsFlashUpdate)`, refinement of `FlashUpdate` |

Assumptions: `LayoutAssumption`, `UBootAssumption` and `FlashAssumption`.
`QuietSpec` is `Spec` with U-Boot silent at its prompt when the program starts;
`flash_stale` shows why that matters, and the run `flash` checks the same
properties without it. `SoundPlan` says that the ranges of the plan lie in the
device and that the two images do not overlap, which the program does not check
of overrides; `DefaultPlanIsSound` shows it of the layout of the AN7581.
`ReplyFits` says that the board prints for ever only after its reset and that the limit on a
command's output (1 MiB in the code) leaves room for the longest reply and all
chatter: a reply that `run_command` gives up on is a command done
and denied.

The argument for the first: sizes are looked at once, before the first byte goes
to the board, so a run with an image that does not fit stays in the phases
before `flash_from_uboot` talks; U-Boot then has no line to carry out, and its
device is the one of the start.

The argument for the others is stop-and-wait again, of commands instead of
blocks. `QuietInv` has three parts that only together are inductive. `Placed`:
at most one line is on its way, it is the line of the command the program is at,
and U-Boot is in the mode that line expects. `Wire`: a prompt, or the rejection
of an EOT, is the last thing U-Boot says before it is spoken to again, so
nothing but the space after the prompt and chatter (`Quiet`) can follow one; as
long as a line is on its way nothing else is, and none of its answer has been
read. `Own`: the lines the parsers look for are printed by the command that is
running, and only if it was carried out; `Verified` adds that the size on which
a write depends was told of the image in RAM. Each step of program and board has
its lemma; the board's answers share `AnswerKeeps`, the program's failures
`FailingKeeps`. `Device` then follows the flash through the commands: after each
accepted one it is `Prepared` for the next, and in between a command that changes
it has either printed its own line or may have left the range torn.
`WritesStayInside` rests on the arithmetic of `FlashLayoutProofs`.

`DoneStaysDone` adds how much U-Boot says and when. `Behind`: a prompt is followed
by one space and chatter, so that is all a command can find in front of its own
output, and the output stays below the limit. `Fresh`: commands are carried out
in their order, each once; an erase or a write that was carried out has said so,
and its line is in the buffer by the time the closing prompt is.
`LineTellsTheChange` needs only that the latest event is the start of the command
whose output is awaited (`Told`), and `TransferErrorsAreKept` that the phases of a
transfer, with an excused wait, are those between its first and its last event
(`ErrorKept`); neither depends on what U-Boot printed.

`CliProofs` proves, for every bound on the options, command line, terminal and
failure:

| Theorem | States |
|---|---|
| `StreamStaysPure` | `Spec => []StreamIsPure` |
| `SuccessPromisesAll` | `Spec => []SuccessIsComplete` |
| `ConsoleIsAnnounced` | `Spec => []ConsoleAsAnnounced` |
| `FailuresAreTold` | `Spec => []FailureIsTold` |
| `EventsStayOrdered` | `Spec => []EventsAreOrdered` |
| `HintStaysTrue` | `Spec => []HintIsNotStale` |

Assumption: `CliAssumption`. The arguments: with `--json` each of the writers to
stdout either is switched off or writes events (`Inv`); exit code 0 is decided
by the outcome of the run, which is settled before the log and the stream are
written and never changes afterwards but for the worse (`CompleteInv`: the
outcome is the one asked for, a `Failure` event comes with one that failed, a
log that was asked for is whole by then); the announcing `HandoffReady` is
recorded where recovery ends, under the conditions that open the console, and
from there a run leads to the console or fails (`ConsoleInv`).

The last three rest on the course of a run (`CourseInv`). Each command line has
one sequence of events to go through (`Expected`). Those of a run are a beginning
of it, with a `Failure` at the end if one was reported (`Passed`), and the phase
tells how far the run has come (`OnCourse`); a timeout is then in the phase that
the next milestone names, which is what the hint is chosen by. `Accounted` says
when a failure has been reported and that an output is only lost with its reader.

`ConsoleProofs` proves, for every sequence of terminal events, board, split of
reads and writes, and moment at which a file fails or the program is killed:

| Theorem | States |
|---|---|
| `KeysAreHeeded` | `Spec => []KeysReachTheBoard` |
| `ScreenIsTrue` | `Spec => []ScreenShowsThePort` |
| `TranscriptHolds` | `Spec => []TranscriptIsHonest` |

Assumption: `ConsoleAssumption`. The three together are not inductive; the parts
of `ConsoleInv` say what is missing. `KeysInv`: while the relay runs the board
has all that was taken, and an exit key is the last event taken. `PortInv`: what
waits in the port continues what has been read, so whatever a read returns is
next in order. `ScreenInv` counts what was read but is not shown yet (`Shown`).
`TranscriptInv`: until something fails, file and buffer together are what crossed
the port, and the buffer is empty because each recording ends with a flush, before the
screen shows what was recorded.

Only model-checked: of `Flash` the runs that begin with a prompt being printed,
but for the theorems above that name `Spec`, `StalePromptIsSkipped` among their
properties, which for quiet runs is part of `QuietStartsJudgeRight`; and termination and `ExitIsHeeded`,
which are liveness under fairness and beyond the prover. Proved without a run of
their own: `TransferErrorsAreKept` of `Flash`, the same promise the run
`recovery` checks of `Recovery`, and `ProgressIsDelivery`.

## What is not modelled, and why

Bytes and formats (packet padding, CRC-16, number formats, regular expressions,
the text of messages, the percentages and spinners of progress lines, the
banner of the console), because the properties do not depend on them; real time
beyond "a wait ends"; the serial driver and its line settings; of the
transcript, `BufWriter`'s limit of 8 KiB and its use under recovery and flash;
of the console, what is typed before raw mode is entered; what a restart after a
kill would do, because the program keeps nothing a restart reads; overlapping
ranges given as overrides, about which the code promises nothing; erase ranges
beyond the first, which no plan of the program has; the components marked
`not_modelled` in `PROJECT.json`.

## Plan

Written, in the order of importance: transfer, recovery, flash, command line,
then events, progress line, transcript and console. What could follow:

1. Composition of recovery and flash: one board, one port, images that change on
   disk between the two readings, and the transcript around both.
2. Proofs of `ConfirmedMeansDone`, `SuccessMeansFlashed` and the refinement of
   `FlashUpdate` for runs that begin with a prompt being printed.
