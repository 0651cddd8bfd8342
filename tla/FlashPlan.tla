------------------------------ MODULE FlashPlan ------------------------------
(***************************************************************************)
(* What happens to a flash plan before the board is spoken to: the CLI     *)
(* builds it from the command line (`build_flash_plan`) and                *)
(* `flash_from_uboot` checks both images against it                        *)
(* (`prepare_stage_payloads`), preloader first.                            *)
(***************************************************************************)
EXTENDS FlashLayout, FiniteSets

CONSTANTS
    Overrides,   \* bound: the command-line overrides considered
    Sizes        \* bound: the image sizes considered, in bytes

\* Overrides are any u64, or absent; sizes are those of files.
ASSUME FlashPlanAssumption ==
    /\ Sizes \subseteq Nat
    /\ Overrides \subseteq [{"eraseCount", "preloaderStart", "preloaderCount", "fipStart", "fipCount"}
                            -> Nat \cup {Absent}]

VARIABLES
    args,      \* the overrides given
    sizes,     \* the sizes of the images read, -1 for a file that cannot be read
    verdict    \* "pending", "planned", "ready" or "BadInput"

vars == <<args, sizes, verdict>>

Unreadable == -1

Init ==
    /\ args \in Overrides
    /\ sizes \in [Images -> Sizes \cup {Unreadable}]
    /\ verdict = "pending"

BuildFlashPlan ==
    /\ verdict = "pending"
    /\ verdict' = IF PlanAccepted(args) THEN "planned" ELSE "BadInput"
    /\ UNCHANGED <<args, sizes>>

ImageAccepted(image) ==
    sizes[image] # Unreadable /\ SizeFits(Requested(args)[image], sizes[image])

PrepareStagePayloads ==
    /\ verdict = "planned"
    /\ verdict' = IF \A image \in Images : ImageAccepted(image) THEN "ready" ELSE "BadInput"
    /\ UNCHANGED <<args, sizes>>

Next == BuildFlashPlan \/ PrepareStagePayloads

Spec == Init /\ [][Next]_vars

\* `unbrk doctor` with both images: check_doctor_image against the windows of the target.
DoctorAcceptsShorter(image) ==                               \* mutant: a full window is too much
    /\ sizes[image] # Unreadable
    /\ 0 < sizes[image] /\ sizes[image] < MaxBytes(Defaults[image])
DoctorAccepts(image) ==
    /\ sizes[image] # Unreadable
    /\ 0 < sizes[image] /\ sizes[image] <= MaxBytes(Defaults[image])

\* run_doctor: the checks that fail, of a port that was given and of the images that were given.
PortProbes == {"SKIP", "PASS", "FAIL"}
DoctorFailures(port, given) ==
    (IF port = "FAIL" THEN 1 ELSE 0) + Cardinality({image \in given : ~DoctorAccepts(image)})
RunDoctor(port, given) == IF DoctorFailures(port, given) = 0 THEN "PASS" ELSE "BadInput"

-----------------------------------------------------------------------------

Write(image) == Written(Requested(args)[image], sizes[image])

\* An accepted image is never written past the range reserved for it, however its size
\* rounds to blocks, and no block number wraps around 32 bits.
WriteStaysInItsRange ==
    verdict = "ready" =>
        \A image \in Images :
            /\ Inside(Write(image), Requested(args)[image])
            /\ RangeFits(Write(image))

\* The blocks written hold the whole image, and no block is written for nothing.
WriteCoversTheImage ==
    verdict = "ready" =>
        \A image \in Images :
            /\ Write(image).count * BlockSize >= sizes[image]
            /\ (Write(image).count - 1) * BlockSize < sizes[image]

\* What is written is the image, the whole image and nothing but what is reserved for it: the check
\* of its size in bytes and the count of its blocks agree at every boundary.
WriteIsExact == WriteStaysInItsRange /\ WriteCoversTheImage

\* `doctor` passes exactly the images that a flash with the target's own layout goes on to write:
\* the two commands check them by code of their own.
DoctorAgreesWithFlash ==
    verdict \in {"ready", "BadInput"} /\ (\A flag \in DOMAIN args : args[flag] = Absent) =>
        \A port \in PortProbes \ {"FAIL"} : verdict = "ready" <=> RunDoctor(port, Images) = "PASS"
=============================================================================
