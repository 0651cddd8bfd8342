----------------------------- MODULE FlashUpdate -----------------------------
(***************************************************************************)
(* What a persistent flash promises of the device: it is erased before     *)
(* anything is written, the preloader is written whole before the FIP is   *)
(* begun, no block outside the two image ranges ever holds an image, and   *)
(* success means that both are there.  A command may be carried out after  *)
(* the program has given up on it, so the device may change after failure. *)
(***************************************************************************)
EXTENDS Integers

Images == {"preloader", "fip"}

VARIABLES
    eraseRange,   \* the blocks to erase
    ranges,       \* the blocks each image is to fill
    mmc,          \* what each block holds
    outcome       \* "running", "ok" or "failed"

vars == <<eraseRange, ranges, mmc, outcome>>

Init ==
    /\ \A b \in DOMAIN mmc : mmc[b] = "old"
    /\ outcome = "running"

Fill(blocks, content) == [b \in DOMAIN mmc |-> IF b \in blocks THEN content ELSE mmc[b]]
Holds(image) == \A b \in ranges[image] : mmc[b] = image

Erase ==
    /\ \A b \in DOMAIN mmc : mmc[b] = "old"
    /\ \E content \in {"erased", "torn"} : mmc' = Fill(eraseRange, content)
    /\ UNCHANGED outcome

\* A write that fails leaves its range torn.
Write(image) ==
    /\ \A b \in eraseRange : mmc[b] \in {"erased"} \cup Images
    /\ image = "fip" => Holds("preloader")
    /\ \E content \in {image, "torn"} : mmc' = Fill(ranges[image], content)
    /\ UNCHANGED outcome

Succeed ==
    /\ outcome = "running"
    /\ \A image \in Images : Holds(image)
    /\ outcome' = "ok"
    /\ UNCHANGED mmc

Fail == outcome = "running" /\ outcome' = "failed" /\ UNCHANGED mmc

Next ==
    /\ Erase \/ (\E image \in Images : Write(image)) \/ Succeed \/ Fail
    /\ UNCHANGED <<eraseRange, ranges>>

Spec == Init /\ [][Next]_vars
=============================================================================
