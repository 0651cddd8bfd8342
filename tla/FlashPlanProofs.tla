--------------------------- MODULE FlashPlanProofs ---------------------------
(***************************************************************************)
(* What FlashPlan.tla checks for one block address space, proved for every *)
(* width of block numbers, every block size, every target layout and every *)
(* command line: an image that `flash_from_uboot` accepts is written       *)
(* inside the range reserved for it, and as a whole, and `doctor` tells    *)
(* beforehand which images these are.                                      *)
(***************************************************************************)
EXTENDS FlashPlan, FlashLayoutProofs, FiniteSetTheorems

\* FlashPlan's variables, with the sizes of files.
TypeInv ==
    /\ args \in Overrides
    /\ sizes \in [Images -> Sizes \cup {Unreadable}]
    /\ verdict \in {"pending", "planned", "ready", "BadInput"}

\* A verdict is given only to a plan and to images that passed the checks before it.
ChecksPassed ==
    /\ verdict \in {"planned", "ready"} => PlanAccepted(args)
    /\ verdict = "ready" => \A image \in Images : ImageAccepted(image)

\* ... and is refused only to one that fails a check.
RefusalsAreDue ==
    verdict = "BadInput" => ~PlanAccepted(args) \/ \E image \in Images : ~ImageAccepted(image)

Inv == TypeInv /\ ChecksPassed /\ RefusalsAreDue

-----------------------------------------------------------------------------
(* The invariant *)

\* The ranges of a plan are natural numbers of blocks.
LEMMA PlanType ==
    ASSUME NEW a \in Overrides, NEW image \in Images
    PROVE  Requested(a)[image] \in [start : Nat, count : Nat]
<1>1. Defaults[image].start \in Nat /\ Defaults[image].count \in Nat
  BY LayoutAssumption DEF Images
<1>2. /\ a.preloaderStart \in Nat \cup {Absent} /\ a.preloaderCount \in Nat \cup {Absent}
      /\ a.fipStart \in Nat \cup {Absent} /\ a.fipCount \in Nat \cup {Absent}
  BY FlashPlanAssumption
<1>3. CASE image = "preloader"
  BY <1>1, <1>2, <1>3 DEF Requested, Range32, OrDefault
<1>4. CASE image = "fip"
  BY <1>1, <1>2, <1>4 DEF Requested, Range32, OrDefault
<1> QED
  BY <1>3, <1>4 DEF Images

\* build_flash_plan and prepare_stage_payloads keep the invariant.
LEMMA ChecksAreKept == Spec => []Inv
<1>1. Init => Inv
  BY DEF Init, Inv, TypeInv, ChecksPassed, RefusalsAreDue
<1>2. Inv /\ [Next]_vars => Inv'
  <2> SUFFICES ASSUME Inv, [Next]_vars PROVE Inv'
    OBVIOUS
  <2>1. CASE BuildFlashPlan
    BY <2>1 DEF BuildFlashPlan, Inv, TypeInv, ChecksPassed, RefusalsAreDue
  <2>2. CASE PrepareStagePayloads
    <3>1. \A image \in Images : ImageAccepted(image)' <=> ImageAccepted(image)
      BY <2>2 DEF PrepareStagePayloads, ImageAccepted
    <3> QED
      BY <2>2, <3>1 DEF PrepareStagePayloads, Inv, TypeInv, ChecksPassed, RefusalsAreDue
  <2>3. CASE UNCHANGED vars
    BY <2>3 DEF vars, Inv, TypeInv, ChecksPassed, RefusalsAreDue, ImageAccepted
  <2> QED
    BY <2>1, <2>2, <2>3 DEF Next
<1> QED
  BY <1>1, <1>2, PTL DEF Spec

\* What a verdict of "ready" says of the write of an image.
LEMMA ReadyWrites ==
    ASSUME Inv, verdict = "ready", NEW image \in Images
    PROVE  LET stage == Requested(args)[image]
           IN  /\ stage \in [start : Nat, count : Nat]
               /\ stage.start + stage.count < U32
               /\ sizes[image] \in Nat
               /\ Write(image).start = stage.start
               /\ Write(image).count \in Nat /\ Write(image).count <= stage.count
               /\ sizes[image] <= Write(image).count * BlockSize
               /\ Write(image).count * BlockSize < sizes[image] + BlockSize
<1> DEFINE stage == Requested(args)[image]
<1>1. stage \in [start : Nat, count : Nat]
  BY PlanType DEF Inv, TypeInv
<1>2. sizes[image] \in Nat /\ SizeFits(stage, sizes[image])
  BY FlashPlanAssumption DEF Inv, TypeInv, ChecksPassed, ImageAccepted
<1>3. FitsU32(stage.count) /\ RangeFits(stage)
  BY DEF Inv, ChecksPassed, PlanAccepted, Images
<1> HIDE DEF stage
<1>4. /\ Written(stage, sizes[image]).start = stage.start
      /\ Written(stage, sizes[image]).count \in Nat
      /\ Written(stage, sizes[image]).count <= stage.count
      /\ sizes[image] <= Written(stage, sizes[image]).count * BlockSize
      /\ Written(stage, sizes[image]).count * BlockSize < sizes[image] + BlockSize
  BY <1>1, <1>2, <1>3, FittingImageIsWritten
<1> QED
  BY <1>1, <1>2, <1>3, <1>4 DEF RangeFits, Write, stage

\* For every layout, command line and image: what is accepted is written inside the range reserved
\* for it (build_flash_plan, validate_image_size, payload_block_count, write_stage_to_mmc).
THEOREM WritesStayInRange == Spec => []WriteStaysInItsRange
<1>1. Inv => WriteStaysInItsRange
  <2> SUFFICES ASSUME Inv, verdict = "ready", NEW image \in Images
               PROVE  Inside(Write(image), Requested(args)[image]) /\ RangeFits(Write(image))
    BY DEF WriteStaysInItsRange
  <2> QED
    BY ReadyWrites, LayoutAssumption DEF Inside, RangeFits
<1> QED
  BY <1>1, ChecksAreKept, PTL

\* ... and the blocks written hold the whole image, none of them for nothing.
THEOREM WritesCoverTheImage == Spec => []WriteCoversTheImage
<1>1. Inv => WriteCoversTheImage
  <2> SUFFICES ASSUME Inv, verdict = "ready", NEW image \in Images
               PROVE  /\ Write(image).count * BlockSize >= sizes[image]
                      /\ (Write(image).count - 1) * BlockSize < sizes[image]
    BY DEF WriteCoversTheImage
  <2>1. BlockSize \in Nat \ {0}
    BY LayoutAssumption
  <2>2. /\ sizes[image] \in Nat /\ Write(image).count \in Nat
        /\ sizes[image] <= Write(image).count * BlockSize
        /\ Write(image).count * BlockSize < sizes[image] + BlockSize
    BY ReadyWrites
  <2> DEFINE count == Write(image).count
             size == sizes[image]
  <2> HIDE DEF count, size
  <2>3. count \in Nat /\ size \in Nat /\ size <= count * BlockSize /\ count * BlockSize < size + BlockSize
    BY <2>2 DEF count, size
  <2>4. (count - 1) * BlockSize = count * BlockSize - BlockSize
    BY <2>1, <2>3
  <2>5. count * BlockSize \in Nat
    BY <2>1, <2>3
  <2> QED
    BY <2>1, <2>3, <2>4, <2>5 DEF count, size
<1> QED
  BY <1>1, ChecksAreKept, PTL

\* Both at once, as the run checks them: the write of an accepted image is exact.
THEOREM WritesAreExact == Spec => []WriteIsExact
  BY WritesStayInRange, WritesCoverTheImage, PTL DEF WriteIsExact

-----------------------------------------------------------------------------
(* doctor *)

\* The target's own ranges end within the block address space, as BlockRange::new demands.
DefaultsFit == \A name \in {"erase", "preloader", "fip"} : RangeFits(Defaults[name])

\* The one target that the program knows.
LEMMA AN7581Fits ==
    ASSUME Defaults = AN7581, U32 > 2048
    PROVE  DefaultsFit
  BY LayoutAssumption DEF DefaultsFit, AN7581, RangeFits, Range32

\* Without overrides the plan is that of the target, and accepted.
LEMMA PlainPlan ==
    ASSUME DefaultsFit, NEW a \in Overrides, \A flag \in DOMAIN a : a[flag] = Absent
    PROVE  /\ PlanAccepted(a)
           /\ \A image \in Images : Requested(a)[image] = Range32(Defaults[image].start, Defaults[image].count)
<1>1. /\ a.eraseCount = Absent /\ a.preloaderStart = Absent /\ a.preloaderCount = Absent
      /\ a.fipStart = Absent /\ a.fipCount = Absent
  BY FlashPlanAssumption
<1>2. \A name \in {"erase", "preloader", "fip"} :
          /\ Defaults[name].start \in 0..U32 - 1 /\ Defaults[name].count \in 0..U32 - 1
          /\ Defaults[name].start + Defaults[name].count < U32
  BY LayoutAssumption DEF DefaultsFit, RangeFits
<1>3. \A name \in {"erase", "preloader", "fip"} :
          Requested(a)[name] = Range32(Defaults[name].start, Defaults[name].count)
  BY <1>1 DEF Requested, OrDefault
<1> QED
  BY <1>2, <1>3, LayoutAssumption DEF PlanAccepted, FitsU32, RangeFits, Range32, Images

\* `doctor` counts no failure when it accepts every image it was given.
LEMMA DoctorPasses ==
    ASSUME NEW port \in PortProbes \ {"FAIL"}
    PROVE  RunDoctor(port, Images) = "PASS" <=> \A image \in Images : DoctorAccepts(image)
<1> DEFINE refused == {image \in Images : ~DoctorAccepts(image)}
<1>1. IsFiniteSet(Images)
  <2>1. IsFiniteSet({"preloader"}) /\ Images = {"preloader"} \cup {"fip"}
    BY FS_Singleton DEF Images
  <2> QED
    BY <2>1, FS_AddElement
<1>2. IsFiniteSet(refused)
  BY <1>1, FS_Subset
<1>3. Cardinality(refused) = 0 <=> refused = {}
  BY <1>2, FS_EmptySet
<1>4. DoctorFailures(port, Images) = 0 + Cardinality(refused)
  BY DEF DoctorFailures
<1>5. Cardinality(refused) \in Nat
  BY <1>2, FS_CardinalityType
<1> HIDE DEF refused
<1>6. RunDoctor(port, Images) = "PASS" <=> Cardinality(refused) = 0
  BY <1>4, <1>5 DEF RunDoctor
<1> QED
  BY <1>3, <1>6 DEF refused

\* For every layout whose own ranges end within the address space, and for every pair of images:
\* `doctor` passes those that `flash_from_uboot` goes on to write (check_doctor_image and
\* validate_image_size are code of their own).
THEOREM DoctorIsRight ==
    ASSUME DefaultsFit
    PROVE  Spec => []DoctorAgreesWithFlash
<1>1. Inv => DoctorAgreesWithFlash
  <2> SUFFICES ASSUME Inv, verdict \in {"ready", "BadInput"}, \A flag \in DOMAIN args : args[flag] = Absent,
                      NEW port \in PortProbes \ {"FAIL"}
               PROVE  verdict = "ready" <=> RunDoctor(port, Images) = "PASS"
    BY DEF DoctorAgreesWithFlash
  <2>1. /\ PlanAccepted(args)
        /\ \A image \in Images : Requested(args)[image] = Range32(Defaults[image].start, Defaults[image].count)
    BY PlainPlan DEF Inv, TypeInv
  <2>2. \A image \in Images : ImageAccepted(image) <=> DoctorAccepts(image)
    <3> SUFFICES ASSUME NEW image \in Images PROVE ImageAccepted(image) <=> DoctorAccepts(image)
      OBVIOUS
    <3>1. Requested(args)[image].count = Defaults[image].count
      <4>1. Requested(args)[image] = Range32(Defaults[image].start, Defaults[image].count)
        BY <2>1
      <4>2. Range32(Defaults[image].start, Defaults[image].count).count = Defaults[image].count
        BY DEF Range32
      <4> QED
        BY <4>1, <4>2
    <3> QED
      BY <3>1 DEF ImageAccepted, DoctorAccepts, SizeFits, MaxBytes
  <2>3. verdict = "ready" <=> \A image \in Images : ImageAccepted(image)
    BY <2>1 DEF Inv, ChecksPassed, RefusalsAreDue
  <2> QED
    BY <2>2, <2>3, DoctorPasses
<1> QED
  BY <1>1, ChecksAreKept, PTL
=============================================================================
