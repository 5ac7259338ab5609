------------------------------ MODULE NorFlash ------------------------------
(***************************************************************************)
(* The variable-store flash of SynQuacer (Fip006Dxe: NorFlashDxe.c and     *)
(* NorFlashFvbDxe.c): writing part of a block by programming its words in  *)
(* place or by a cycle through the shadow buffer, erasing, and the lazy    *)
(* initialisation that formats the volume.  Each programmed word and each  *)
(* erased block is a step, and power may be lost between any two and in    *)
(* the middle of one.  Programming only clears bits.                       *)
(***************************************************************************)
EXTENDS Naturals

CONSTANTS
  LastBlock,     \* Media.LastBlock of the region
  WordSize,      \* bytes of a word, the unit of programming
  BlockSize,     \* bytes of a block
  Bits,          \* the bits of a byte: a byte is the set of its bits that are 1
  Threshold,     \* longest write, in bytes, that may be programmed in place
  Headers,       \* the image of the headers, in the first bytes of a block
  HeadersLength, \* their length
  CheckedLength, \* how much of them ValidateFvHeader looks at
  FactoryImages, \* contents of the flash before the first boot
  Ranges,        \* the ranges callers write: [lba, off, len]
  Buffers,       \* the data they write
  NoWrite,
  MaxCalls, MaxFaults, MaxPowerLosses \* bounds

Blocks == 0 .. LastBlock
Offsets == 0 .. BlockSize - 1
Byte == SUBSET Bits
Image == [Offsets -> Byte]
Blank == [i \in Offsets |-> Bits]

ASSUME NorFlashAssumption ==
  /\ LastBlock \in Nat
  /\ WordSize \in Nat \ {0} /\ BlockSize \in Nat \ {0}
  /\ BlockSize % WordSize = 0
  /\ Threshold \in Nat
  /\ Headers \in Image
  /\ HeadersLength \in 1 .. BlockSize /\ CheckedLength \in 0 .. HeadersLength
  /\ FactoryImages \subseteq [Blocks -> Image]
  /\ Ranges \subseteq [lba : Blocks, off : Offsets, len : Nat]
  /\ Buffers \subseteq Image
  /\ NoWrite \notin [lba : Blocks, off : Offsets, len : Nat, data : Image]
  /\ MaxCalls \in Nat /\ MaxFaults \in Nat /\ MaxPowerLosses \in Nat

VARIABLES
  flash,       \* the cells
  initialized, \* Instance->Initialized
  published,   \* gEdkiiNvVarStoreFormattedGuid is installed
  shadow,      \* Instance->ShadowBuffer
  pc,
  call,        \* the FvbWrite that is running, or NoWrite
  formatting,  \* NorFlashFvbInitialize is writing the headers
  cur,         \* the NorFlashWriteSingleBlock that is running, or NoWrite
  before,      \* the block as that write found it
  done,        \* bytes of it written in place
  next,        \* next word to program, or next block to erase
  last,        \* last block of the erase request
  status,      \* what the last call returned
  calls, faults, losses

vars == <<flash, initialized, published, shadow, pc, call, formatting, cur,
          before, done,
          next, last, status, calls, faults, losses>>

Write == [lba : Blocks, off : Offsets, len : Nat, data : Image]

WritePcs == {"word", "shadow", "eraseFull", "program"}
Pcs == WritePcs \cup {"idle", "init", "formatErase", "publish", "eraseBlocks", "check"}

TypeOK ==
  /\ flash \in [Blocks -> Image]
  /\ initialized \in BOOLEAN /\ published \in BOOLEAN
  /\ shadow \in Image
  /\ pc \in Pcs /\ (pc \in WritePcs \cup {"check"} => cur # NoWrite)
  /\ call \in Write \cup {NoWrite} /\ formatting \in BOOLEAN
  /\ cur \in Write \cup {NoWrite}
  /\ before \in Image
  /\ done \in Nat /\ next \in Nat /\ last \in Nat
  /\ status \in {"NONE", "EFI_SUCCESS", "EFI_DEVICE_ERROR",
                 "EFI_BAD_BUFFER_SIZE", "EFI_INVALID_PARAMETER"}
  /\ calls \in 0 .. MaxCalls /\ faults \in 0 .. MaxFaults
  /\ losses \in 0 .. MaxPowerLosses

Init ==
  /\ flash \in FactoryImages
  /\ initialized = FALSE /\ published = FALSE
  /\ shadow = Blank
  /\ pc = "idle" /\ call = NoWrite /\ formatting = FALSE /\ cur = NoWrite
  /\ before = Blank
  /\ done = 0 /\ next = 0 /\ last = 0
  /\ status = "NONE"
  /\ calls = 0 /\ faults = 0 /\ losses = 0

volume == <<initialized, published>>
request == <<call, formatting, cur>>
progress == <<before, done, next, last, shadow>>
bounds == <<calls, losses>>

Fault == faults < MaxFaults /\ faults' = faults + 1
NoFault == UNCHANGED faults

-----------------------------------------------------------------------------
(* Cells.                                                                  *)

(* A programmed byte keeps only the 1 bits it already had.                 *)
Program(b, S, new) ==
  flash' = [flash EXCEPT ![b] =
             [i \in Offsets |-> IF i \in S THEN @[i] \cap new[i] ELSE @[i]]]

EraseSingleBlock(b) == flash' = [flash EXCEPT ![b] = Blank]

(* NorFlashEraseSingleBlock reports an error when the write enable latch   *)
(* does not set, before erasing, or does not clear, after it.              *)
EraseFails(b) == Fault /\ (EraseSingleBlock(b) \/ UNCHANGED flash)

(* What a loss of power may leave of a word being programmed or a block    *)
(* being erased.                                                           *)
ProgramTorn(b, S, new) ==
  \E x \in Image :
    /\ \A i \in Offsets :
         IF i \in S THEN flash[b][i] \cap new[i] \subseteq x[i] /\ x[i] \subseteq flash[b][i]
                   ELSE x[i] = flash[b][i]
    /\ flash' = [flash EXCEPT ![b] = x]

EraseTorn(b) ==
  \E words \in SUBSET (0 .. BlockSize \div WordSize - 1) :
    flash' = [flash EXCEPT ![b] =
               [i \in Offsets |-> IF i \div WordSize \in words THEN Bits ELSE @[i]]]

-----------------------------------------------------------------------------
(* Calls through the firmware volume block protocol.  FvbRead and FvbWrite *)
(* initialise the volume the first time, FvbEraseBlocks does not.          *)

FvbRead ==
  /\ pc = "idle" /\ ~initialized
  /\ calls < MaxCalls /\ calls' = calls + 1
  /\ pc' = "init"
  /\ UNCHANGED <<flash, volume, request, progress, status, faults, losses>>

FvbWrite(w) ==
  /\ pc = "idle"
  /\ calls < MaxCalls /\ calls' = calls + 1
  /\ call' = w /\ cur' = w
  /\ pc' = IF initialized THEN "check" ELSE "init"
  /\ UNCHANGED <<flash, volume, formatting, progress, status, faults, losses>>

FvbEraseBlocksPast(lba, num) == \* mutant: the bound is off by one
  /\ pc = "idle"
  /\ calls < MaxCalls /\ calls' = calls + 1
  /\ num # 0 /\ lba + num - 1 <= LastBlock + 1
  /\ pc' = "eraseBlocks" /\ next' = lba /\ last' = lba + num - 1
  /\ UNCHANGED <<flash, volume, request, before, done, shadow, status, faults, losses>>

(* The whole request is checked before anything is erased.                 *)
FvbEraseBlocks(lba, num) ==
  /\ pc = "idle"
  /\ calls < MaxCalls /\ calls' = calls + 1
  /\ IF num = 0 \/ lba + num - 1 > LastBlock
       THEN /\ status' = "EFI_INVALID_PARAMETER"
            /\ UNCHANGED <<pc, next, last>>
       ELSE /\ pc' = "eraseBlocks" /\ next' = lba /\ last' = lba + num - 1
            /\ UNCHANGED status
  /\ UNCHANGED <<flash, volume, request, before, done, shadow, faults, losses>>

EraseNext ==
  /\ pc = "eraseBlocks"
  /\ \/ /\ EraseSingleBlock(next) /\ NoFault
        /\ next' = next + 1
        /\ pc' = IF next = last THEN "idle" ELSE pc
        /\ status' = "EFI_SUCCESS"
     \/ /\ EraseFails(next)
        /\ pc' = "idle"
        /\ status' = "EFI_DEVICE_ERROR"
        /\ UNCHANGED next
  /\ UNCHANGED <<volume, request, before, done, last, shadow, bounds>>

-----------------------------------------------------------------------------
(* NorFlashFvbInitialize.  Its status is ignored: the read or write that   *)
(* called it goes on.                                                      *)

ResumeCaller == cur' = call /\ pc' = "check" /\ UNCHANGED call \* mutant
Resume ==
  /\ cur' = call
  /\ pc' = IF call = NoWrite THEN "idle" ELSE "check"
  /\ UNCHANGED call

ValidateFvHeader == \A i \in 0 .. CheckedLength - 1 : flash[0][i] = Headers[i]

(* A boot with default settings formats a valid volume too.                *)
FvbInitialize ==
  /\ pc = "init"
  /\ initialized' = TRUE
  /\ \/ ValidateFvHeader /\ pc' = "publish" /\ UNCHANGED <<next, last>>
     \/ pc' = "formatErase" /\ next' = 0 /\ last' = LastBlock
  /\ UNCHANGED <<flash, published, request, before, done, shadow, status, faults, bounds>>

HeaderWrite == [lba |-> 0, off |-> 0, len |-> HeadersLength, data |-> Headers]

FormatEraseForever == \* mutant: the block to erase does not advance
  /\ pc = "formatErase"
  /\ EraseSingleBlock(next)
  /\ status' = "EFI_SUCCESS"
  /\ UNCHANGED <<volume, request, pc, progress, faults, bounds>>

FormatErase ==
  /\ pc = "formatErase"
  /\ \/ /\ EraseSingleBlock(next) /\ NoFault
        /\ next' = next + 1
        /\ IF next = last
             THEN /\ formatting' = TRUE /\ cur' = HeaderWrite
                  /\ pc' = "check" /\ UNCHANGED call
             ELSE UNCHANGED <<request, pc>>
        /\ status' = "EFI_SUCCESS"
     \/ /\ EraseFails(next)
        /\ status' = "EFI_DEVICE_ERROR"
        /\ Resume
        /\ UNCHANGED <<formatting, next>>
  /\ UNCHANGED <<volume, before, done, last, shadow, bounds>>

InstallFormatted ==
  /\ pc = "publish"
  /\ \/ published' = TRUE /\ NoFault
     \/ UNCHANGED published /\ Fault
  /\ Resume
  /\ UNCHANGED <<flash, initialized, formatting, progress, status, bounds>>

-----------------------------------------------------------------------------
(* NorFlashWriteSingleBlock.                                               *)

ReturnAnyway(s) == \* mutant: formats on whatever the write returned
  /\ status' = s
  /\ formatting' = FALSE
  /\ IF formatting THEN pc' = "publish" /\ UNCHANGED <<call, cur>>
                   ELSE pc' = "idle" /\ call' = NoWrite /\ cur' = NoWrite

Return(s) ==
  /\ status' = s
  /\ formatting' = FALSE
  /\ IF formatting
       THEN IF s = "EFI_SUCCESS" THEN pc' = "publish" /\ UNCHANGED <<call, cur>>
                                 ELSE Resume
       ELSE pc' = "idle" /\ call' = NoWrite /\ cur' = NoWrite

Go(to) == pc' = to /\ UNCHANGED <<request, status>>

CheckParameters ==
  /\ pc = "check"
  /\ IF cur.len = 0 \/ cur.off + cur.len > BlockSize
       THEN /\ Return("EFI_BAD_BUFFER_SIZE")
            /\ UNCHANGED <<before, done>>
       ELSE /\ before' = flash[cur.lba] /\ done' = 0
            /\ Go(IF cur.len <= Threshold THEN "word" ELSE "shadow")
  /\ UNCHANGED <<flash, volume, next, last, shadow, faults, bounds>>

CurOffset == cur.off + done
BytesToWrite == cur.len - done
InWord == CurOffset % WordSize
Spanning == InWord # 0 /\ BytesToWrite > WordSize - InWord
Chunk == IF BytesToWrite > WordSize - InWord THEN WordSize - InWord ELSE BytesToWrite
Touched == CurOffset .. CurOffset + Chunk - 1

(* The bytes of the caller's buffer that the mask selects.  A write that   *)
(* starts unaligned and goes past its first word masks the word read from  *)
(* the buffer without having shifted it.                                   *)
Source(i) == IF Spanning THEN done + (i % WordSize) ELSE i - cur.off
TmpBuf == [i \in Offsets |-> IF i \in Touched THEN cur.data[Source(i)] ELSE Bits]

DoEraseByFirst == ~(TmpBuf[CurOffset] \subseteq flash[cur.lba][CurOffset]) \* mutant
DoErase == \E i \in Touched : ~(TmpBuf[i] \subseteq flash[cur.lba][i])

WriteWord ==
  /\ pc = "word" /\ ~DoErase
  /\ \/ /\ Program(cur.lba, Touched, TmpBuf) /\ NoFault
        /\ done' = done + Chunk
        /\ IF Chunk = BytesToWrite THEN Return("EFI_SUCCESS") ELSE Go("word")
     \/ /\ Fault /\ Return("EFI_DEVICE_ERROR")
        /\ UNCHANGED <<flash, done>>
  /\ UNCHANGED <<volume, before, next, last, shadow, bounds>>

GiveUpInPlace ==
  /\ pc = "word" /\ DoErase
  /\ Go("shadow")
  /\ UNCHANGED <<flash, volume, progress, faults, bounds>>

Covers(w, i) == w.off <= i /\ i < w.off + w.len
Overlay(w, image) ==
  [i \in Offsets |-> IF Covers(w, i) THEN w.data[i - w.off] ELSE image[i]]

ReadShadowUnread == \* mutant: the block is not read into the buffer first
  /\ pc = "shadow"
  /\ shadow' = Overlay(cur, shadow)
  /\ Go("eraseFull")
  /\ UNCHANGED <<flash, volume, before, done, next, last, faults, bounds>>

ReadShadow ==
  /\ pc = "shadow"
  /\ shadow' = Overlay(cur, flash[cur.lba])
  /\ Go("eraseFull")
  /\ UNCHANGED <<flash, volume, before, done, next, last, faults, bounds>>

EraseFullUnchecked == \* mutant: programs on after a failed erase
  /\ pc = "eraseFull"
  /\ (EraseSingleBlock(cur.lba) /\ NoFault) \/ EraseFails(cur.lba)
  /\ next' = 0
  /\ Go("program")
  /\ UNCHANGED <<volume, before, done, last, shadow, bounds>>

(* NorFlashWriteFullBlock.                                                 *)
EraseFull ==
  /\ pc = "eraseFull"
  /\ \/ /\ EraseSingleBlock(cur.lba) /\ NoFault
        /\ next' = 0
        /\ Go("program")
     \/ /\ EraseFails(cur.lba) /\ Return("EFI_DEVICE_ERROR")
        /\ UNCHANGED next
  /\ UNCHANGED <<volume, before, done, last, shadow, bounds>>

WordBytes(n) == n * WordSize .. n * WordSize + WordSize - 1

ProgramWord ==
  /\ pc = "program"
  /\ \/ /\ Program(cur.lba, WordBytes(next), shadow) /\ NoFault
        /\ next' = next + 1
        /\ IF (next + 1) * WordSize = BlockSize THEN Return("EFI_SUCCESS")
                                              ELSE Go("program")
     \/ /\ Fault /\ Return("EFI_DEVICE_ERROR")
        /\ UNCHANGED <<flash, next>>
  /\ UNCHANGED <<volume, before, done, last, shadow, bounds>>

-----------------------------------------------------------------------------
(* Power is lost, and the next boot starts with the driver's state fresh.  *)
Interrupted ==
  \/ UNCHANGED flash
  \/ pc = "word" /\ ~DoErase /\ ProgramTorn(cur.lba, Touched, TmpBuf)
  \/ pc = "program" /\ ProgramTorn(cur.lba, WordBytes(next), shadow)
  \/ pc = "eraseFull" /\ EraseTorn(cur.lba)
  \/ pc \in {"eraseBlocks", "formatErase"} /\ EraseTorn(next)

PowerLoss ==
  /\ losses < MaxPowerLosses /\ losses' = losses + 1
  /\ Interrupted
  /\ initialized' = FALSE /\ published' = FALSE
  /\ shadow' = Blank /\ before' = Blank /\ done' = 0 /\ next' = 0 /\ last' = 0
  /\ pc' = "idle" /\ call' = NoWrite /\ formatting' = FALSE /\ cur' = NoWrite
  /\ status' = "NONE"
  /\ UNCHANGED <<calls, faults>>

Requests ==
  {[lba |-> r.lba, off |-> r.off, len |-> r.len, data |-> d] :
     r \in Ranges, d \in Buffers}

Callers ==
  \/ FvbRead
  \/ \E w \in Requests : FvbWrite(w)
  \/ \E lba \in Blocks, num \in 0 .. LastBlock + 1 : FvbEraseBlocks(lba, num)

Step ==
  \/ EraseNext \/ FvbInitialize \/ FormatErase \/ InstallFormatted
  \/ CheckParameters \/ WriteWord \/ GiveUpInPlace
  \/ ReadShadow \/ EraseFull \/ ProgramWord

Next == Callers \/ Step \/ PowerLoss

Spec == Init /\ [][Next]_vars
FairSpec == Spec /\ WF_vars(Step)

-----------------------------------------------------------------------------
(* Properties.                                                             *)

(* What is erased or programmed lies in the region, and in the block that  *)
(* is being written.                                                       *)
StaysInside ==
  /\ pc \in {"eraseBlocks", "formatErase"} => next <= last /\ last \in Blocks
  /\ pc \in WritePcs => cur.len > 0 /\ cur.off + cur.len <= BlockSize
  /\ pc = "word" => done < cur.len
  /\ pc = "program" => (next * WordSize) < BlockSize

(* The driver implements the volume it promises: seen from outside, a      *)
(* write happens at once when it returns EFI_SUCCESS.                      *)
InWrite == pc \in WritePcs
Volume ==
  INSTANCE FvbVolume WITH
    store <- IF InWrite THEN [flash EXCEPT ![cur.lba] = before] ELSE flash,
    writing <- IF InWrite THEN cur ELSE NoWrite
VolumeSpec == Volume!Spec

(* Between the erase and the last word the shadow buffer is the only copy  *)
(* of the rest of the block: it holds every byte the write does not cover, *)
(* and what is programmed so far agrees with it.                           *)
ShadowIsWhole ==
  /\ pc \in {"eraseFull", "program"} => shadow = Overlay(cur, before)
  /\ pc = "program" =>
       \A i \in Offsets :
         flash[cur.lba][i] = IF i < next * WordSize THEN shadow[i] ELSE Bits

(* A word is only programmed over bits that can still take it: what was    *)
(* programmed reads back as intended, in place and after an erase.         *)
ProgramsReadBack ==
  [][/\ WriteWord /\ NoFault => \A i \in Touched : flash'[cur.lba][i] = TmpBuf[i]
     /\ ProgramWord /\ NoFault =>
          \A i \in WordBytes(next) : flash'[cur.lba][i] = shadow[i]]_vars

(* A boot publishes the volume only behind headers that would be accepted  *)
(* by the next boot, also when formatting failed or was cut short before.  *)
PublishedIsValid ==
  [][~published /\ published' => ValidateFvHeader]_vars

(* Every call returns unless power is lost.                                *)
Terminates == pc # "idle" ~> pc = "idle"

(* "writes the specified number of bytes from the provided buffer to the   *)
(* specified block and offset" (FvbWrite): what EFI_SUCCESS promises.      *)
SuccessIsStored ==
  [][(InWrite /\ pc' \notin WritePcs /\ status' = "EFI_SUCCESS")
       => flash'[cur.lba] = Overlay(cur, before)]_vars
=============================================================================
