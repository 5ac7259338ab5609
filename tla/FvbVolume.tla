----------------------------- MODULE FvbVolume -----------------------------
(***************************************************************************)
(* What a firmware volume on NOR flash promises the drivers that keep the  *)
(* variable store in it (the comments on FvbWrite and FvbEraseBlocks in    *)
(* NorFlashFvbDxe.c, with the behaviour of flash cells): a write that      *)
(* succeeds is stored whole, one that fails or meets a loss of power       *)
(* damages no other block, and not even its own block outside its range as *)
(* long as it only clears bits.                                            *)
(***************************************************************************)
EXTENDS Naturals

CONSTANTS
  Blocks,    \* the logical blocks of the volume
  Offsets,   \* the bytes of a block
  Bits,      \* the bits of a byte: a byte is the set of its bits that are 1
  Threshold, \* longest write, in bytes, that may be programmed in place
  NoWrite

Byte == SUBSET Bits
Image == [Offsets -> Byte]
Blank == [i \in Offsets |-> Bits]

VARIABLES
  store,   \* the contents of the blocks
  writing, \* the write in progress, or NoWrite
  status   \* what the last call returned

vars == <<store, writing, status>>

Covers(w, i) == w.off <= i /\ i < w.off + w.len
Overlay(w, image) ==
  [i \in Offsets |-> IF Covers(w, i) THEN w.data[i - w.off] ELSE image[i]]

(* The write clears bits only, and is short enough to be tried in place.   *)
InPlace(w, image) ==
  /\ w.len <= Threshold
  /\ \A i \in Offsets : Overlay(w, image)[i] \subseteq image[i]

(* What a write that did not succeed may leave in its block.               *)
Residue(w, image, x) ==
  InPlace(w, image) =>
    \A i \in Offsets : Overlay(w, image)[i] \subseteq x[i] /\ x[i] \subseteq image[i]

Write == [lba : Blocks, off : Offsets, len : Nat, data : Image]

Failures == {"EFI_DEVICE_ERROR", "NONE"}

Init ==
  /\ store \in [Blocks -> Image]
  /\ writing = NoWrite
  /\ status = "NONE"

Begin ==
  /\ writing = NoWrite
  /\ writing' \in Write
  /\ UNCHANGED <<store, status>>

Commit ==
  /\ writing # NoWrite
  /\ store' = [store EXCEPT ![writing.lba] = Overlay(writing, @)]
  /\ writing' = NoWrite
  /\ status' = "EFI_SUCCESS"

OnlyBlockChanges(b) ==
  /\ store' \in [Blocks -> Image]
  /\ \A c \in Blocks \ {b} : store'[c] = store[c]

(* The call fails, or power is lost under it.                              *)
Abort ==
  /\ writing # NoWrite
  /\ OnlyBlockChanges(writing.lba)
  /\ Residue(writing, store[writing.lba], store'[writing.lba])
  /\ writing' = NoWrite
  /\ status' \in Failures

EraseBlock(b) ==
  /\ writing = NoWrite
  /\ store' = [store EXCEPT ![b] = Blank]
  /\ status' \in {"EFI_SUCCESS", "EFI_DEVICE_ERROR"}
  /\ UNCHANGED writing

(* Power is lost while a block is erased.                                  *)
LoseBlock(b) ==
  /\ writing = NoWrite
  /\ OnlyBlockChanges(b)
  /\ status' = "NONE"
  /\ UNCHANGED writing

(* A call that changes nothing, or power lost between calls.               *)
Refuse ==
  /\ writing = NoWrite
  /\ status' \in Failures \cup {"EFI_BAD_BUFFER_SIZE", "EFI_INVALID_PARAMETER"}
  /\ UNCHANGED <<store, writing>>

Next ==
  \/ Begin \/ Commit \/ Abort \/ Refuse
  \/ \E b \in Blocks : EraseBlock(b) \/ LoseBlock(b)

Spec == Init /\ [][Next]_vars
=============================================================================
