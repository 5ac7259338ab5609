--------------------------- MODULE NorFlashProofs ---------------------------
(***************************************************************************)
(* Proofs about NorFlash, for every geometry, header image, set of         *)
(* requests, number of faults and of losses of power.                      *)
(***************************************************************************)
EXTENDS NorFlash, TLAPS

-----------------------------------------------------------------------------
(* Arithmetic of words.                                                    *)

LEMMA Division ==
  ASSUME NEW a \in Nat, NEW n \in Nat \ {0}
  PROVE  /\ a = n * (a \div n) + (a % n)
         /\ a \div n \in Nat /\ a % n \in 0 .. n - 1
BY SMT

LEMMA MultipleOfWord ==
  ASSUME NEW n \in Nat \ {0}, NEW k \in Nat, NEW a, a = k * n
  PROVE  a % n = 0
<1>1. (k * n) % n = 0
  BY SMT
<1> QED BY <1>1

(* Up to the end of the word of a.                                         *)
LEMMA RoundUp ==
  ASSUME NEW a \in Nat, NEW n \in Nat \ {0}
  PROVE  (a + (n - (a % n))) % n = 0
<1>1. PICK q \in Nat : a = n * q + (a % n)
  BY Division
<1>2. a % n \in 0 .. n - 1
  BY Division
<1>3. a + (n - (a % n)) = (q + 1) * n
  BY <1>1, <1>2
<1>4. q + 1 \in Nat
  OBVIOUS
<1> QED BY <1>3, <1>4, MultipleOfWord

(* A word that starts within a block of whole words ends within it.        *)
LEMMA WordInBlock ==
  ASSUME NEW k \in Nat, NEW b \in Nat, NEW n \in Nat \ {0}, b % n = 0, k * n < b
  PROVE  (k + 1) * n <= b
<1>1. PICK r \in Nat : b = n * r
  <2>1. b = n * (b \div n) /\ b \div n \in Nat
    BY Division
  <2> QED BY <2>1
<1>2. k < r
  <2> SUFFICES ASSUME r <= k PROVE FALSE
    OBVIOUS
  <2>1. r * n <= k * n
    BY SMT
  <2> QED BY <2>1, <1>1
<1>3. (k + 1) * n <= r * n
  BY <1>2
<1> QED BY <1>3, <1>1

-----------------------------------------------------------------------------
(* Cells: what an operation on a block leaves, and that it leaves the      *)
(* other blocks alone.                                                     *)

OthersKept(b) ==
  flash' \in [Blocks -> Image] /\ \A c \in Blocks : c # b => flash'[c] = flash[c]

LEMMA Programmed ==
  ASSUME flash \in [Blocks -> Image], NEW b \in Blocks, NEW S, NEW new, Program(b, S, new)
  PROVE  /\ OthersKept(b)
         /\ \A i \in Offsets :
              flash'[b][i] = IF i \in S THEN flash[b][i] \cap new[i] ELSE flash[b][i]
<1> DEFINE x == [i \in Offsets |-> IF i \in S THEN flash[b][i] \cap new[i] ELSE flash[b][i]]
<1>1. flash' = [flash EXCEPT ![b] = x]
  BY DEF Program
<1>2. x \in Image
  <2>1. flash[b] \in [Offsets -> SUBSET Bits]
    BY DEF Image, Byte
  <2>2. \A i \in Offsets : (IF i \in S THEN flash[b][i] \cap new[i] ELSE flash[b][i]) \in SUBSET Bits
    BY <2>1
  <2> QED BY <2>2 DEF Image, Byte
<1>3. flash'[b] = x
  BY <1>1
<1>4. OthersKept(b)
  BY <1>1, <1>2 DEF OthersKept
<1>5. \A i \in Offsets : x[i] = IF i \in S THEN flash[b][i] \cap new[i] ELSE flash[b][i]
  OBVIOUS
<1> QED BY <1>3, <1>4, <1>5

LEMMA BlankType == Blank \in Image
BY DEF Blank, Image, Byte

LEMMA Erased ==
  ASSUME flash \in [Blocks -> Image], NEW b \in Blocks, EraseSingleBlock(b)
  PROVE  OthersKept(b) /\ flash'[b] = Blank
BY BlankType DEF EraseSingleBlock, OthersKept

LEMMA EraseFailed ==
  ASSUME flash \in [Blocks -> Image], NEW b \in Blocks, EraseFails(b)
  PROVE  OthersKept(b) /\ (flash' = flash \/ EraseSingleBlock(b))
BY Erased DEF EraseFails, OthersKept

LEMMA ProgrammedTorn ==
  ASSUME flash \in [Blocks -> Image], NEW b \in Blocks, NEW S, NEW new, ProgramTorn(b, S, new)
  PROVE  /\ OthersKept(b)
         /\ \A i \in Offsets :
              /\ i \in S => flash[b][i] \cap new[i] \subseteq flash'[b][i]
                            /\ flash'[b][i] \subseteq flash[b][i]
              /\ i \notin S => flash'[b][i] = flash[b][i]
<1>1. PICK x \in Image :
        /\ \A i \in Offsets :
             IF i \in S THEN flash[b][i] \cap new[i] \subseteq x[i] /\ x[i] \subseteq flash[b][i]
                        ELSE x[i] = flash[b][i]
        /\ flash' = [flash EXCEPT ![b] = x]
  BY DEF ProgramTorn
<1>2. flash'[b] = x
  BY <1>1
<1> QED BY <1>1, <1>2 DEF OthersKept

LEMMA ErasedTorn ==
  ASSUME flash \in [Blocks -> Image], NEW b \in Blocks, EraseTorn(b)
  PROVE  OthersKept(b)
<1>1. PICK words :
        flash' = [flash EXCEPT ![b] =
                   [i \in Offsets |-> IF i \div WordSize \in words THEN Bits ELSE flash[b][i]]]
  BY DEF EraseTorn
<1>2. [i \in Offsets |-> IF i \div WordSize \in words THEN Bits ELSE flash[b][i]] \in Image
  <2>1. flash[b] \in [Offsets -> SUBSET Bits]
    BY DEF Image, Byte
  <2>2. \A i \in Offsets : (IF i \div WordSize \in words THEN Bits ELSE flash[b][i]) \in SUBSET Bits
    BY <2>1
  <2> QED BY <2>2 DEF Image, Byte
<1> QED BY <1>1, <1>2 DEF OthersKept

-----------------------------------------------------------------------------
(* The inductive invariant.                                                *)

(* The write does not start within a word and go past it.                  *)
NoSpan(w) == w.off % WordSize = 0 \/ (w.off % WordSize) + w.len <= WordSize

Requested ==
  call \in Requests \cup {NoWrite} /\ cur \in Requests \cup {HeaderWrite, NoWrite}

(* Only the first word of a write in place may be entered in its middle.   *)
Aligned == pc = "word" => done = 0 \/ CurOffset % WordSize = 0

(* Before the erase, the bytes around the write are as it found them.      *)
AroundKept ==
  pc \in {"word", "shadow"} =>
    \A i \in Offsets : ~Covers(cur, i) => flash[cur.lba][i] = before[i]

Written(i) == cur.off <= i /\ i < CurOffset

(* In place: the bytes up to CurOffset are written, by clearing bits.      *)
InPlaceSoFar ==
  pc = "word" /\ NoSpan(cur) =>
    /\ cur.len <= Threshold
    /\ \A i \in Offsets :
         /\ flash[cur.lba][i] = IF Written(i) THEN cur.data[i - cur.off] ELSE before[i]
         /\ Written(i) => cur.data[i - cur.off] \subseteq before[i]

(* The shadow cycle runs only for a write that needs it.                   *)
CycleNeeded ==
  pc \in {"shadow", "eraseFull", "program"} /\ NoSpan(cur) => ~Volume!InPlace(cur, before)

FormattingInv ==
  /\ formatting => cur = HeaderWrite /\ pc \in WritePcs \cup {"check"}
  /\ pc = "publish" => ValidateFvHeader

WritingInv == StaysInside /\ ShadowIsWhole /\ Aligned /\ AroundKept /\ InPlaceSoFar /\ CycleNeeded

IInv == TypeOK /\ Requested /\ FormattingInv /\ WritingInv

QuietPcs == {"idle", "init", "publish", "check"}

(* Between writes and erases there is nothing to keep.                     *)
LEMMA Quiet ==
  ASSUME pc' \in QuietPcs
  PROVE  WritingInv'
BY DEF QuietPcs, WritingInv, StaysInside, ShadowIsWhole, Aligned, AroundKept, InPlaceSoFar,
       CycleNeeded, WritePcs

LEMMA HeaderWriteType == HeaderWrite \in Write
BY NorFlashAssumption DEF HeaderWrite, Write, Blocks, Offsets

LEMMA RequestsType == Requests \subseteq Write
BY NorFlashAssumption DEF Requests, Write

LEMMA Bounds ==
  MaxCalls \in Nat /\ MaxFaults \in Nat /\ MaxPowerLosses \in Nat /\ LastBlock \in Nat
BY NorFlashAssumption

LEMMA NoWriteIsNone == NoWrite \notin Write
BY NorFlashAssumption DEF Write

LEMMA HeadersDoNotSpan == NoSpan(HeaderWrite)
<1>1. 0 % WordSize = 0
  BY NorFlashAssumption, MultipleOfWord
<1> QED BY <1>1 DEF NoSpan, HeaderWrite

(* The write that runs, typed.                                             *)
LEMMA CurType ==
  ASSUME TypeOK, pc \in WritePcs \cup {"check"}
  PROVE  /\ cur \in Write /\ cur # NoWrite
         /\ cur.lba \in Blocks /\ cur.off \in Nat /\ cur.len \in Nat /\ cur.data \in Image
         /\ cur.off < BlockSize
BY NorFlashAssumption DEF TypeOK, Write, Offsets

(* What the caller gets back, or the initialisation that called it.        *)
LEMMA Returned ==
  ASSUME IInv, NEW s \in {"EFI_SUCCESS", "EFI_DEVICE_ERROR", "EFI_BAD_BUFFER_SIZE"},
         pc \in WritePcs \cup {"check"}, Return(s)
  PROVE  /\ pc' \in QuietPcs \ {"init"} /\ status' = s /\ formatting' = FALSE
         /\ call' \in Write \cup {NoWrite} /\ cur' \in Write \cup {NoWrite}
         /\ pc' = "check" => cur' # NoWrite
         /\ Requested'
         /\ pc' = "publish" => formatting /\ s = "EFI_SUCCESS"
<1> USE DEF IInv, Requested, TypeOK
<1>1. CASE formatting /\ s = "EFI_SUCCESS"
  BY <1>1 DEF Return, QuietPcs, Requests
<1>2. CASE formatting /\ s # "EFI_SUCCESS"
  BY <1>2, NoWriteIsNone DEF Return, Resume, QuietPcs, Requests
<1>3. CASE ~formatting
  BY <1>3 DEF Return, QuietPcs, Requests
<1> QED BY <1>1, <1>2, <1>3

(* The last byte of the headers that is checked is one of those written.   *)
LEMMA OverlaidHeaders ==
  ASSUME NEW x, NEW y, \A i \in Offsets : x[0][i] = Overlay(HeaderWrite, y)[i]
  PROVE  \A i \in 0 .. CheckedLength - 1 : x[0][i] = Headers[i]
<1> SUFFICES ASSUME NEW i \in 0 .. CheckedLength - 1
             PROVE  x[0][i] = Headers[i]
  OBVIOUS
<1>1. i \in Offsets /\ 0 <= i /\ i < 0 + HeadersLength /\ i - 0 = i
  BY NorFlashAssumption DEF Offsets
<1>2. Overlay(HeaderWrite, y)[i] = Headers[i]
  BY <1>1 DEF Overlay, Covers, HeaderWrite
<1> QED BY <1>1, <1>2

-----------------------------------------------------------------------------
(* One word of a write in place.                                           *)

LEMMA WordStep ==
  ASSUME IInv, pc = "word"
  PROVE  /\ CurOffset \in Nat /\ BytesToWrite \in Nat /\ Chunk \in Nat \ {0}
         /\ Chunk <= BytesToWrite
         /\ \A i \in Touched : i \in Offsets /\ Covers(cur, i) /\ ~Written(i)
         /\ Chunk # BytesToWrite => (CurOffset + Chunk) % WordSize = 0
<1>1. cur.off \in Nat /\ cur.len \in Nat /\ cur.off < BlockSize /\ done \in Nat
  BY CurType DEF IInv, TypeOK, WritePcs
<1>2. cur.off + cur.len <= BlockSize /\ done < cur.len
  BY DEF IInv, WritingInv, StaysInside, WritePcs
<1>3. WordSize \in Nat \ {0} /\ BlockSize \in Nat
  BY NorFlashAssumption
<1>4. CurOffset \in Nat /\ BytesToWrite \in Nat \ {0} /\ CurOffset = cur.off + done
      /\ BytesToWrite = cur.len - done
  BY <1>1, <1>2 DEF CurOffset, BytesToWrite
<1>5. InWord \in 0 .. WordSize - 1
  BY <1>3, <1>4, Division DEF InWord
<1>6. Chunk \in Nat \ {0} /\ Chunk <= BytesToWrite
      /\ (Chunk # BytesToWrite => Chunk = WordSize - InWord)
  BY <1>3, <1>4, <1>5 DEF Chunk
<1>7. (CurOffset + (WordSize - InWord)) % WordSize = 0
  BY <1>3, <1>4, RoundUp DEF InWord
<1>8. ASSUME NEW i \in Touched
      PROVE  i \in Offsets /\ Covers(cur, i) /\ ~Written(i)
  <2>1. i \in Nat /\ CurOffset <= i /\ i <= CurOffset + Chunk - 1
    BY <1>4, <1>6 DEF Touched
  <2>2. cur.off <= i /\ i < cur.off + cur.len
    BY <2>1, <1>1, <1>2, <1>4, <1>6
  <2> QED BY <2>1, <2>2, <1>1, <1>2, <1>3, <1>4 DEF Offsets, Covers, Written
<1> QED BY <1>4, <1>6, <1>7, <1>8

(* Without spanning, the mask selects the caller's bytes.                  *)
LEMMA RightSource ==
  ASSUME IInv, pc = "word", NoSpan(cur), NEW i \in Touched
  PROVE  TmpBuf[i] = cur.data[i - cur.off]
<1>1. cur.off \in Nat /\ cur.len \in Nat /\ done \in Nat /\ WordSize \in Nat \ {0}
  BY CurType, NorFlashAssumption DEF IInv, TypeOK, WritePcs
<1>2. ~Spanning
  <2>1. CASE CurOffset % WordSize = 0
    BY <2>1 DEF Spanning, InWord
  <2>2. CASE done = 0
    <3>1. CurOffset = cur.off /\ BytesToWrite = cur.len
      BY <2>2, <1>1 DEF CurOffset, BytesToWrite
    <3>2. CASE cur.off % WordSize = 0
      BY <3>1, <3>2 DEF Spanning, InWord
    <3>3. CASE (cur.off % WordSize) + cur.len <= WordSize
      <4>1. cur.off % WordSize \in 0 .. WordSize - 1
        BY <1>1, Division
      <4> QED BY <3>1, <3>3, <4>1, <1>1 DEF Spanning, InWord
    <3> QED BY <3>2, <3>3 DEF NoSpan
  <2> QED BY <2>1, <2>2 DEF IInv, WritingInv, Aligned
<1>3. i \in Offsets
  BY WordStep
<1> QED BY <1>2, <1>3 DEF TmpBuf, Source

-----------------------------------------------------------------------------
(* Every step keeps the inductive invariant.                               *)

LEMMA InitInv == Init => IInv
<1> SUFFICES ASSUME Init PROVE IInv
  OBVIOUS
<1>1. flash \in [Blocks -> Image]
  BY NorFlashAssumption DEF Init
<1>4. initialized \in BOOLEAN /\ published \in BOOLEAN /\ formatting \in BOOLEAN
  BY Zenon DEF Init
<1>5. 0 \in 0 .. MaxCalls /\ 0 \in 0 .. MaxFaults /\ 0 \in 0 .. MaxPowerLosses
  BY Bounds
<1>6. pc \in Pcs /\ pc \notin WritePcs \cup {"check"}
  BY DEF Init, Pcs, WritePcs
<1>0. TypeOK
  BY <1>1, <1>4, <1>5, <1>6, BlankType, Zenon DEF Init, TypeOK
<1>2. Requested /\ FormattingInv
  BY DEF Init, Requested, FormattingInv
<1>3. WritingInv
  BY DEF Init, WritingInv, StaysInside, ShadowIsWhole, Aligned, AroundKept, InPlaceSoFar,
         CycleNeeded, WritePcs
<1> QED BY <1>0, <1>2, <1>3 DEF IInv

LEMMA CallersInv ==
  ASSUME IInv, Callers
  PROVE  IInv'
<1> USE DEF IInv
<1>1. CASE FvbRead
  <2> USE <1>1 DEF FvbRead, volume, request, progress
  <2>1. pc' \in QuietPcs
    BY DEF QuietPcs
  <2>2. TypeOK'
    BY Bounds DEF TypeOK, Pcs, WritePcs
  <2>3. Requested' /\ FormattingInv'
    BY DEF Requested, FormattingInv, WritePcs, Requests
  <2> QED BY <2>1, <2>2, <2>3, Quiet
<1>2. ASSUME NEW w \in Requests, FvbWrite(w)
      PROVE  IInv'
  <2> USE <1>2 DEF FvbWrite, volume, progress
  <2>1. pc' \in QuietPcs /\ pc' \in {"check", "init"} /\ w \in Write /\ w # NoWrite
    BY RequestsType, NoWriteIsNone DEF QuietPcs
  <2>2. TypeOK'
    BY <2>1, Bounds DEF TypeOK, Pcs, WritePcs
  <2>3. Requested' /\ FormattingInv'
    BY DEF Requested, FormattingInv, WritePcs, Requests
  <2> QED BY <2>1, <2>2, <2>3, Quiet
<1>3. ASSUME NEW lba \in Blocks, NEW num \in 0 .. LastBlock + 1, FvbEraseBlocks(lba, num)
      PROVE  IInv'
  <2> USE <1>3 DEF FvbEraseBlocks, volume, request
  <2>1. calls' \in 0 .. MaxCalls
    BY Bounds DEF TypeOK
  <2>2. CASE num = 0 \/ lba + num - 1 > LastBlock
    <3>1. pc' \in QuietPcs
      BY <2>2 DEF QuietPcs
    <3>2. TypeOK'
      BY <2>1, <2>2 DEF TypeOK, Pcs, WritePcs
    <3>3. Requested' /\ FormattingInv'
      BY <2>2 DEF Requested, FormattingInv, WritePcs, Requests
    <3> QED BY <3>1, <3>2, <3>3, Quiet
  <2>3. CASE ~(num = 0 \/ lba + num - 1 > LastBlock)
    <3>1. /\ lba \in Nat /\ num \in Nat /\ LastBlock \in Nat
          /\ next' = lba /\ last' = lba + num - 1 /\ pc' = "eraseBlocks"
      BY <2>3, Bounds DEF Blocks
    <3>2. next' <= last' /\ last' \in Blocks /\ next' \in Nat /\ last' \in Nat
      BY <2>3, <3>1 DEF Blocks
    <3>3. WritingInv'
      BY <3>1, <3>2 DEF WritingInv, StaysInside, ShadowIsWhole, Aligned, AroundKept, InPlaceSoFar,
                        CycleNeeded, WritePcs
    <3>4. TypeOK'
      BY <2>1, <2>3, <3>1, <3>2 DEF TypeOK, Pcs, WritePcs
    <3>5. Requested' /\ FormattingInv'
      BY <2>3 DEF Requested, FormattingInv, WritePcs, Requests
    <3> QED BY <3>3, <3>4, <3>5
  <2> QED BY <2>2, <2>3
<1> QED BY <1>1, <1>2, <1>3 DEF Callers

LEMMA EraseNextInv ==
  ASSUME IInv, EraseNext
  PROVE  IInv'
<1> USE DEF IInv, EraseNext, volume, request, bounds
<1>1. next \in Nat /\ last \in Nat /\ next <= last /\ last \in Blocks /\ next \in Blocks
  BY NorFlashAssumption DEF TypeOK, WritingInv, StaysInside, Blocks
<1>2. flash' \in [Blocks -> Image]
  BY <1>1, Erased, EraseFailed DEF TypeOK, OthersKept
<1>3. faults' \in 0 .. MaxFaults
  BY Bounds DEF TypeOK, EraseFails, Fault, NoFault
<1>4. pc' \in {"idle", "eraseBlocks"} /\ next' \in Nat /\ (pc' = "eraseBlocks" => next' <= last')
      /\ status' \in {"EFI_SUCCESS", "EFI_DEVICE_ERROR"}
  BY <1>1
<1>5. TypeOK'
  BY <1>2, <1>3, <1>4 DEF TypeOK, Pcs, WritePcs
<1>6. WritingInv'
  BY <1>1, <1>4 DEF WritingInv, StaysInside, ShadowIsWhole, Aligned, AroundKept, InPlaceSoFar,
                  CycleNeeded, WritePcs
<1>7. Requested' /\ FormattingInv'
  BY <1>4 DEF Requested, FormattingInv, WritePcs
<1> QED BY <1>5, <1>6, <1>7

LEMMA FvbInitializeInv ==
  ASSUME IInv, FvbInitialize
  PROVE  IInv'
<1> USE DEF IInv, FvbInitialize, request, bounds
<1>1. CASE ValidateFvHeader /\ pc' = "publish" /\ UNCHANGED <<next, last>>
  <2>1. pc' \in QuietPcs
    BY <1>1 DEF QuietPcs
  <2>2. TypeOK'
    BY <1>1 DEF TypeOK, Pcs, WritePcs
  <2>3. Requested' /\ FormattingInv'
    BY <1>1 DEF Requested, FormattingInv, WritePcs, ValidateFvHeader
  <2> QED BY <2>1, <2>2, <2>3, Quiet
<1>2. CASE pc' = "formatErase" /\ next' = 0 /\ last' = LastBlock
  <2>1. next' <= last' /\ last' \in Blocks /\ next' \in Nat /\ last' \in Nat
    BY <1>2, NorFlashAssumption DEF Blocks
  <2>2. TypeOK'
    BY <1>2, <2>1 DEF TypeOK, Pcs, WritePcs
  <2>3. Requested' /\ FormattingInv'
    BY <1>2 DEF Requested, FormattingInv, WritePcs
  <2>4. WritingInv'
    BY <1>2, <2>1 DEF WritingInv, StaysInside, ShadowIsWhole, Aligned, AroundKept, InPlaceSoFar,
                      CycleNeeded, WritePcs
  <2> QED BY <2>2, <2>3, <2>4
<1> QED BY <1>1, <1>2

LEMMA FormatEraseInv ==
  ASSUME IInv, FormatErase
  PROVE  IInv'
<1> USE DEF IInv, FormatErase, volume, request, bounds
<1>1. next \in Nat /\ last \in Nat /\ next <= last /\ last \in Blocks /\ next \in Blocks
  BY NorFlashAssumption DEF TypeOK, WritingInv, StaysInside, Blocks
<1>2. flash' \in [Blocks -> Image]
  BY <1>1, Erased, EraseFailed DEF TypeOK, OthersKept
<1>3. faults' \in 0 .. MaxFaults
  BY Bounds DEF TypeOK, EraseFails, Fault, NoFault
<1>4. ~formatting
  BY DEF FormattingInv, WritePcs
<1>5. CASE pc' = pc /\ UNCHANGED <<request, pc>> /\ next' = next + 1 /\ next # last
           /\ status' = "EFI_SUCCESS"
  <2>1. next' \in Nat /\ next' <= last'
    BY <1>1, <1>5
  <2>2. TypeOK'
    BY <1>2, <1>3, <1>5, <2>1 DEF TypeOK, Pcs, WritePcs
  <2>3. WritingInv'
    BY <1>1, <1>5, <2>1 DEF WritingInv, StaysInside, ShadowIsWhole, Aligned, AroundKept,
                      InPlaceSoFar, CycleNeeded, WritePcs
  <2>4. Requested' /\ FormattingInv'
    BY <1>4, <1>5 DEF Requested, FormattingInv, WritePcs
  <2> QED BY <2>2, <2>3, <2>4
<1>6. CASE formatting' = TRUE /\ cur' = HeaderWrite /\ pc' = "check" /\ UNCHANGED call
           /\ next' = next + 1 /\ status' = "EFI_SUCCESS"
  <2>1. pc' \in QuietPcs
    BY <1>6 DEF QuietPcs
  <2>2. cur' \in Write /\ cur' # NoWrite
    BY <1>6, HeaderWriteType, NoWriteIsNone
  <2>3. TypeOK'
    BY <1>1, <1>2, <1>3, <1>6, <2>2 DEF TypeOK, Pcs, WritePcs
  <2>4. Requested' /\ FormattingInv'
    BY <1>6 DEF Requested, FormattingInv, WritePcs, HeaderWrite, Requests
  <2> QED BY <2>1, <2>3, <2>4, Quiet
<1>7. CASE Resume /\ UNCHANGED <<formatting, next>> /\ status' = "EFI_DEVICE_ERROR"
  <2>1. pc' \in {"idle", "check"} /\ call' = call /\ cur' = call
        /\ (pc' = "check" => call # NoWrite)
    BY <1>7 DEF Resume
  <2>2. pc' \in QuietPcs
    BY <2>1 DEF QuietPcs
  <2>3. TypeOK'
    BY <1>2, <1>3, <1>7, <2>1 DEF TypeOK, Pcs, WritePcs
  <2>4. Requested' /\ FormattingInv'
    BY <1>4, <1>7, <2>1 DEF Requested, FormattingInv, WritePcs, Requests
  <2> QED BY <2>2, <2>3, <2>4, Quiet
<1> QED BY <1>5, <1>6, <1>7

LEMMA InstallFormattedInv ==
  ASSUME IInv, InstallFormatted
  PROVE  IInv'
<1> USE DEF IInv, InstallFormatted, progress, bounds
<1>1. pc' \in {"idle", "check"} /\ call' = call /\ cur' = call
      /\ (pc' = "check" => call # NoWrite)
  BY DEF Resume
<1>2. pc' \in QuietPcs
  BY <1>1 DEF QuietPcs
<1>6. published' \in BOOLEAN
  BY Zenon DEF TypeOK
<1>7. faults' \in 0 .. MaxFaults
  BY Bounds DEF TypeOK, Fault, NoFault
<1>4. TypeOK'
  BY <1>1, <1>6, <1>7 DEF TypeOK, Pcs, WritePcs
<1>5. Requested' /\ FormattingInv'
  BY <1>1 DEF Requested, FormattingInv, WritePcs, Requests
<1> QED BY <1>2, <1>4, <1>5, Quiet

LEMMA PowerLossInv ==
  ASSUME IInv, PowerLoss
  PROVE  IInv'
<1> USE DEF IInv, PowerLoss
<1>1. flash' \in [Blocks -> Image]
  <2>1. CASE UNCHANGED flash
    BY <2>1 DEF TypeOK
  <2>2. CASE pc = "word" /\ ProgramTorn(cur.lba, Touched, TmpBuf)
    BY <2>2, CurType, ProgrammedTorn DEF TypeOK, WritePcs, OthersKept
  <2>3. CASE pc = "program" /\ ProgramTorn(cur.lba, WordBytes(next), shadow)
    BY <2>3, CurType, ProgrammedTorn DEF TypeOK, WritePcs, OthersKept
  <2>4. CASE pc = "eraseFull" /\ EraseTorn(cur.lba)
    BY <2>4, CurType, ErasedTorn DEF TypeOK, WritePcs, OthersKept
  <2>5. CASE pc \in {"eraseBlocks", "formatErase"} /\ EraseTorn(next)
    <3>1. next \in Blocks
      BY <2>5, NorFlashAssumption DEF TypeOK, WritingInv, StaysInside, Blocks
    <3> QED BY <2>5, <3>1, ErasedTorn DEF TypeOK, OthersKept
  <2> QED BY <2>1, <2>2, <2>3, <2>4, <2>5 DEF Interrupted
<1>2. pc' \in QuietPcs
  BY DEF QuietPcs
<1>3. losses' \in 0 .. MaxPowerLosses
  BY Bounds DEF TypeOK
<1>4. TypeOK'
  BY <1>1, <1>3, BlankType DEF TypeOK, Pcs, WritePcs
<1>5. Requested' /\ FormattingInv'
  BY DEF Requested, FormattingInv
<1> QED BY <1>2, <1>4, <1>5, Quiet

LEMMA ReturnKeeps ==
  ASSUME IInv, NEW s \in {"EFI_SUCCESS", "EFI_DEVICE_ERROR", "EFI_BAD_BUFFER_SIZE"},
         pc \in WritePcs \cup {"check"}, Return(s),
         flash' \in [Blocks -> Image], faults' \in 0 .. MaxFaults,
         UNCHANGED <<initialized, published, shadow, calls, losses, last>>,
         before' \in Image, done' \in Nat, next' \in Nat,
         formatting /\ s = "EFI_SUCCESS" => \A i \in Offsets : flash'[0][i] = Overlay(HeaderWrite, before)[i]
  PROVE  IInv'
<1>1. /\ pc' \in QuietPcs /\ status' = s /\ formatting' = FALSE
      /\ call' \in Write \cup {NoWrite} /\ cur' \in Write \cup {NoWrite}
      /\ pc' = "check" => cur' # NoWrite
      /\ Requested'
      /\ pc' = "publish" => formatting /\ s = "EFI_SUCCESS"
  BY Returned
<1>2. TypeOK'
  BY <1>1 DEF IInv, TypeOK, Pcs, WritePcs, QuietPcs
<1>3. FormattingInv'
  <2>1. pc' = "publish" => \A i \in 0 .. CheckedLength - 1 : flash'[0][i] = Headers[i]
    BY <1>1, OverlaidHeaders
  <2> QED BY <1>1, <2>1 DEF FormattingInv, ValidateFvHeader
<1>4. WritingInv'
  BY <1>1, Quiet
<1> QED BY <1>1, <1>2, <1>3, <1>4 DEF IInv

LEMMA OverlayType ==
  ASSUME NEW w \in Write, NEW x \in Image
  PROVE  Overlay(w, x) \in Image
<1> SUFFICES ASSUME NEW i \in Offsets
             PROVE  (IF Covers(w, i) THEN w.data[i - w.off] ELSE x[i]) \in Byte
  BY DEF Overlay, Image
<1>1. w.data \in [Offsets -> Byte] /\ x \in [Offsets -> Byte] /\ w.off \in Nat /\ w.len \in Nat
  BY DEF Write, Image, Offsets
<1>2. Covers(w, i) => i - w.off \in Offsets
  BY <1>1, NorFlashAssumption DEF Covers, Offsets
<1> QED BY <1>1, <1>2

LEMMA CheckParametersInv ==
  ASSUME IInv, CheckParameters
  PROVE  IInv'
<1> USE DEF CheckParameters, volume, bounds
<1>0. TypeOK /\ Requested /\ FormattingInv /\ pc \in WritePcs \cup {"check"} /\ pc = "check"
  BY DEF IInv
<1>1. cur \in Write /\ cur.lba \in Blocks /\ cur.off \in Nat /\ cur.len \in Nat
  BY <1>0, CurType
<1>2. CASE cur.len = 0 \/ cur.off + cur.len > BlockSize
  BY <1>0, <1>2, ReturnKeeps DEF TypeOK
<1>3. CASE ~(cur.len = 0 \/ cur.off + cur.len > BlockSize)
  <2>1. /\ before' = flash[cur.lba] /\ done' = 0 /\ UNCHANGED <<request, status, flash>>
        /\ pc' = IF cur.len <= Threshold THEN "word" ELSE "shadow"
    BY <1>3 DEF Go
  <2>2. pc' \in {"word", "shadow"} /\ cur' = cur /\ cur # NoWrite
    BY <1>0, <2>1 DEF request, TypeOK
  <2>3. before' \in Image
    BY <1>0, <1>1, <2>1 DEF TypeOK
  <2>4. TypeOK'
    BY <1>0, <2>1, <2>2, <2>3 DEF TypeOK, Pcs, WritePcs, request
  <2>5. Requested' /\ FormattingInv'
    BY <1>0, <2>1, <2>2 DEF Requested, Requests, FormattingInv, WritePcs, request
  <2>6. WritingInv'
    <3>1. cur.len > 0 /\ cur.off + cur.len <= BlockSize
      BY <1>1, <1>3, NorFlashAssumption
    <3>2. StaysInside'
      BY <1>1, <2>1, <2>2, <3>1 DEF StaysInside, WritePcs
    <3>3. ShadowIsWhole' /\ Aligned' /\ AroundKept'
      BY <2>1, <2>2 DEF ShadowIsWhole, Aligned, AroundKept
    <3>4. InPlaceSoFar'
      <4> SUFFICES ASSUME pc' = "word"
                   PROVE  /\ cur.len <= Threshold
                          /\ \A i \in Offsets : ~Written(i)' /\ flash'[cur.lba][i] = before'[i]
        BY <2>2 DEF InPlaceSoFar
      <4>1. CurOffset' = cur.off
        BY <1>1, <2>1, <2>2 DEF CurOffset
      <4>2. ASSUME NEW i \in Offsets
            PROVE  ~Written(i)'
        BY <1>1, <2>2, <4>1 DEF Written, Offsets
      <4> QED BY <2>1, <4>2
    <3>5. CycleNeeded'
      BY <1>1, <2>1, <2>2, NorFlashAssumption DEF CycleNeeded, Volume!InPlace
    <3> QED BY <3>2, <3>3, <3>4, <3>5 DEF WritingInv
  <2> QED BY <2>4, <2>5, <2>6 DEF IInv
<1> QED BY <1>2, <1>3

(* One word in place, when it can be programmed.                           *)
LEMMA WordProgrammed ==
  ASSUME IInv, pc = "word", ~DoErase, Program(cur.lba, Touched, TmpBuf)
  PROVE  /\ OthersKept(cur.lba)
         /\ \A i \in Offsets : flash'[cur.lba][i] = IF i \in Touched THEN TmpBuf[i] ELSE flash[cur.lba][i]
         /\ \A i \in Touched : TmpBuf[i] \subseteq flash[cur.lba][i]
<1>1. flash \in [Blocks -> Image] /\ cur.lba \in Blocks
  BY CurType DEF IInv, TypeOK, WritePcs
<1>2. \A i \in Touched : TmpBuf[i] \subseteq flash[cur.lba][i]
  BY DEF DoErase
<1>3. /\ OthersKept(cur.lba)
      /\ \A i \in Offsets :
           flash'[cur.lba][i] = IF i \in Touched THEN flash[cur.lba][i] \cap TmpBuf[i]
                                                ELSE flash[cur.lba][i]
  BY <1>1, Programmed DEF OthersKept
<1>4. ASSUME NEW i \in Touched
      PROVE  flash[cur.lba][i] \cap TmpBuf[i] = TmpBuf[i]
  BY <1>2
<1> QED BY <1>2, <1>3, <1>4

(* The same, seen by the caller: bytes up to the end of the word written.  *)
LEMMA WordStored ==
  ASSUME IInv, pc = "word", ~DoErase, Program(cur.lba, Touched, TmpBuf), NoSpan(cur),
         NEW i \in Offsets
  PROVE  /\ flash'[cur.lba][i] =
              IF cur.off <= i /\ i < CurOffset + Chunk THEN cur.data[i - cur.off] ELSE before[i]
         /\ cur.off <= i /\ i < CurOffset + Chunk => cur.data[i - cur.off] \subseteq before[i]
<1>1. /\ CurOffset \in Nat /\ Chunk \in Nat \ {0} /\ i \in Nat /\ cur.off \in Nat /\ cur.off <= CurOffset
  <2>1. cur.off \in Nat /\ done \in Nat
    BY CurType DEF IInv, TypeOK, WritePcs
  <2> QED BY <2>1, WordStep DEF Offsets, CurOffset
<1>2. flash[cur.lba][i] = (IF Written(i) THEN cur.data[i - cur.off] ELSE before[i])
      /\ (Written(i) => cur.data[i - cur.off] \subseteq before[i])
  BY DEF IInv, WritingInv, InPlaceSoFar
<1>3. i \in Touched <=> CurOffset <= i /\ i < CurOffset + Chunk
  BY <1>1 DEF Touched
<1>4. CASE i \in Touched
  <2>1. TmpBuf[i] = cur.data[i - cur.off]
    BY <1>4, RightSource
  <2>2. ~Written(i)
    BY <1>4, WordStep
  <2>3. cur.off <= i /\ i < CurOffset + Chunk
    BY <1>1, <1>3, <1>4
  <2> QED BY <1>2, <1>4, <2>1, <2>2, <2>3, WordProgrammed
<1>5. CASE i \notin Touched
  <2>1. flash'[cur.lba][i] = flash[cur.lba][i]
    BY <1>5, WordProgrammed
  <2>2. Written(i) <=> cur.off <= i /\ i < CurOffset + Chunk
    BY <1>1, <1>3, <1>5 DEF Written
  <2> QED BY <1>2, <2>1, <2>2
<1> QED BY <1>4, <1>5

LEMMA WriteWordInv ==
  ASSUME IInv, WriteWord
  PROVE  IInv'
<1> USE DEF WriteWord, volume, bounds
<1>0. TypeOK /\ Requested /\ FormattingInv /\ pc = "word" /\ pc \in WritePcs \cup {"check"}
  BY DEF IInv, WritePcs
<1>1. cur \in Write /\ cur.lba \in Blocks /\ cur.off \in Nat /\ cur.len \in Nat /\ done \in Nat
  BY <1>0, CurType DEF TypeOK
<1>2. CASE Fault /\ Return("EFI_DEVICE_ERROR") /\ UNCHANGED <<flash, done>>
  <2>1. faults' \in 0 .. MaxFaults
    BY <1>0, <1>2, Bounds DEF TypeOK, Fault
  <2> QED BY <1>0, <1>2, <2>1, ReturnKeeps DEF TypeOK
<1>3. CASE /\ Program(cur.lba, Touched, TmpBuf) /\ NoFault
           /\ done' = done + Chunk
           /\ IF Chunk = BytesToWrite THEN Return("EFI_SUCCESS") ELSE Go("word")
  <2>1. OthersKept(cur.lba) /\ flash' \in [Blocks -> Image]
    BY <1>0, <1>3, WordProgrammed DEF OthersKept
  <2>2. /\ CurOffset \in Nat /\ BytesToWrite \in Nat /\ Chunk \in Nat \ {0} /\ Chunk <= BytesToWrite
        /\ CurOffset = cur.off + done /\ BytesToWrite = cur.len - done
        /\ done' \in Nat /\ CurOffset + Chunk = cur.off + done'
    BY <1>0, <1>1, <1>3, WordStep DEF CurOffset, BytesToWrite
  <2>3. faults' \in 0 .. MaxFaults
    BY <1>0, <1>3 DEF TypeOK, NoFault
  <2>4. CASE Chunk = BytesToWrite
    <3>1. ASSUME formatting
          PROVE  \A i \in Offsets : flash'[0][i] = Overlay(HeaderWrite, before)[i]
      <4>1. cur = HeaderWrite /\ NoSpan(cur) /\ cur.lba = 0 /\ cur.off = 0 /\ cur.data = Headers
            /\ cur.len = HeadersLength
        BY <1>0, <3>1, HeadersDoNotSpan DEF FormattingInv, HeaderWrite
      <4>2. CurOffset + Chunk = cur.off + cur.len
        BY <1>1, <2>2, <2>4
      <4>3. \A i \in Offsets :
              flash'[cur.lba][i] = IF cur.off <= i /\ i < cur.off + cur.len
                                     THEN cur.data[i - cur.off] ELSE before[i]
        BY <1>0, <1>3, <4>1, <4>2, WordStored
      <4> QED BY <4>1, <4>3 DEF Overlay, Covers
    <3>2. Return("EFI_SUCCESS") /\ before' \in Image /\ next' \in Nat
      BY <1>0, <1>3, <2>4 DEF TypeOK
    <3> HIDE DEF WriteWord
    <3>3. UNCHANGED <<initialized, published, shadow, calls, losses, last>>
      BY DEF WriteWord
    <3> QED BY <1>0, <2>1, <2>2, <2>3, <3>1, <3>2, <3>3, ReturnKeeps
  <2>5. CASE Chunk # BytesToWrite
    <3>1. pc' = "word" /\ UNCHANGED <<call, formatting, cur, status>>
      BY <1>3, <2>5 DEF Go, request
    <3>2. TypeOK'
      BY <1>0, <2>1, <2>2, <2>3, <3>1 DEF TypeOK, Pcs, WritePcs
    <3>3. Requested' /\ FormattingInv'
      BY <1>0, <3>1 DEF Requested, Requests, FormattingInv, WritePcs
    <3>4. StaysInside'
      <4>1. done' < cur.len
        BY <1>1, <1>3, <2>2, <2>5
      <4> QED BY <1>0, <3>1, <4>1 DEF IInv, WritingInv, StaysInside, WritePcs
    <3>5. ShadowIsWhole' /\ CycleNeeded'
      BY <3>1 DEF ShadowIsWhole, CycleNeeded
    <3>6. CurOffset' = CurOffset + Chunk
      BY <1>1, <2>2, <3>1 DEF CurOffset
    <3>7. Aligned'
      BY <1>0, <2>5, <3>6, WordStep DEF Aligned
    <3>8. AroundKept'
      <4> SUFFICES ASSUME NEW i \in Offsets, ~Covers(cur, i)
                   PROVE  flash'[cur.lba][i] = before[i]
        BY <3>1 DEF AroundKept, Covers
      <4>1. i \notin Touched
        BY <1>0, WordStep
      <4>2. flash[cur.lba][i] = before[i]
        BY <1>0 DEF IInv, WritingInv, AroundKept
      <4> QED BY <1>0, <1>3, <4>1, <4>2, WordProgrammed
    <3>9. InPlaceSoFar'
      <4> SUFFICES ASSUME NoSpan(cur)
                   PROVE  /\ cur.len <= Threshold
                          /\ \A i \in Offsets :
                               /\ flash'[cur.lba][i] = IF cur.off <= i /\ i < CurOffset + Chunk
                                                         THEN cur.data[i - cur.off] ELSE before[i]
                               /\ cur.off <= i /\ i < CurOffset + Chunk
                                    => cur.data[i - cur.off] \subseteq before[i]
        BY <3>1, <3>6 DEF InPlaceSoFar, Written, NoSpan
      <4>1. cur.len <= Threshold
        BY <1>0 DEF IInv, WritingInv, InPlaceSoFar
      <4> QED BY <1>0, <1>3, <4>1, WordStored
    <3> QED BY <3>2, <3>3, <3>4, <3>5, <3>7, <3>8, <3>9 DEF IInv, WritingInv
  <2> QED BY <2>4, <2>5
<1> QED BY <1>2, <1>3

LEMMA GiveUpInPlaceInv ==
  ASSUME IInv, GiveUpInPlace
  PROVE  IInv'
<1> USE DEF GiveUpInPlace, volume, progress, bounds
<1>0. TypeOK /\ Requested /\ FormattingInv /\ pc = "word" /\ pc \in WritePcs \cup {"check"}
  BY DEF IInv, WritePcs
<1>1. pc' = "shadow" /\ UNCHANGED <<call, formatting, cur, status>>
  BY DEF Go, request
<1>2. TypeOK'
  BY <1>0, <1>1 DEF TypeOK, Pcs, WritePcs
<1>3. Requested' /\ FormattingInv'
  BY <1>0, <1>1 DEF Requested, Requests, FormattingInv, WritePcs
<1>4. StaysInside' /\ ShadowIsWhole' /\ Aligned' /\ AroundKept' /\ InPlaceSoFar'
  BY <1>0, <1>1 DEF IInv, WritingInv, StaysInside, ShadowIsWhole, Aligned, AroundKept,
                    InPlaceSoFar, Covers, WritePcs
<1>5. CycleNeeded'
  <2> SUFFICES ASSUME NoSpan(cur), Volume!InPlace(cur, before)
               PROVE  FALSE
    BY <1>1 DEF CycleNeeded, NoSpan, Volume!InPlace, Volume!Overlay, Volume!Covers
  <2>1. PICK i \in Touched : ~(TmpBuf[i] \subseteq flash[cur.lba][i])
    BY DEF DoErase
  <2>2. i \in Offsets /\ Covers(cur, i) /\ ~Written(i)
    BY <1>0, <2>1, WordStep
  <2>3. TmpBuf[i] = cur.data[i - cur.off]
    BY <1>0, RightSource
  <2>4. flash[cur.lba][i] = before[i]
    BY <1>0, <2>2 DEF IInv, WritingInv, InPlaceSoFar
  <2>5. cur.data[i - cur.off] \subseteq before[i]
    BY <2>2 DEF Volume!InPlace, Volume!Overlay, Volume!Covers, Covers
  <2> QED BY <2>1, <2>3, <2>4, <2>5
<1> QED BY <1>2, <1>3, <1>4, <1>5 DEF IInv, WritingInv

LEMMA ReadShadowInv ==
  ASSUME IInv, ReadShadow
  PROVE  IInv'
<1> USE DEF ReadShadow, volume, bounds
<1>0. TypeOK /\ Requested /\ FormattingInv /\ pc = "shadow" /\ pc \in WritePcs \cup {"check"}
  BY DEF IInv, WritePcs
<1>1. pc' = "eraseFull" /\ UNCHANGED <<call, formatting, cur, status>>
  BY DEF Go, request
<1>2. shadow' = Overlay(cur, flash[cur.lba]) /\ shadow' \in Image
  BY <1>0, CurType, OverlayType DEF TypeOK
<1>3. TypeOK'
  BY <1>0, <1>1, <1>2 DEF TypeOK, Pcs, WritePcs
<1>4. Requested' /\ FormattingInv'
  BY <1>0, <1>1 DEF Requested, Requests, FormattingInv, WritePcs
<1>5. ShadowIsWhole'
  <2>1. Overlay(cur, flash[cur.lba]) = Overlay(cur, before)
    BY <1>0 DEF IInv, WritingInv, AroundKept, Overlay
  <2> QED BY <1>1, <1>2, <2>1 DEF ShadowIsWhole, Overlay, Covers
<1>6. StaysInside' /\ Aligned' /\ AroundKept' /\ InPlaceSoFar'
  BY <1>0, <1>1 DEF IInv, WritingInv, StaysInside, Aligned, AroundKept, InPlaceSoFar, WritePcs
<1>7. CycleNeeded'
  BY <1>0, <1>1 DEF IInv, WritingInv, CycleNeeded, NoSpan, Volume!InPlace, Volume!Overlay,
                    Volume!Covers
<1> QED BY <1>3, <1>4, <1>5, <1>6, <1>7 DEF IInv, WritingInv

LEMMA EraseFullInv ==
  ASSUME IInv, EraseFull
  PROVE  IInv'
<1> USE DEF EraseFull, volume, bounds
<1>0. TypeOK /\ Requested /\ FormattingInv /\ pc = "eraseFull" /\ pc \in WritePcs \cup {"check"}
  BY DEF IInv, WritePcs
<1>1. cur.lba \in Blocks
  BY <1>0, CurType
<1>2. CASE EraseFails(cur.lba) /\ Return("EFI_DEVICE_ERROR") /\ UNCHANGED next
  <2>1. flash' \in [Blocks -> Image]
    BY <1>0, <1>1, <1>2, EraseFailed DEF TypeOK, OthersKept
  <2>2. faults' \in 0 .. MaxFaults
    BY <1>0, <1>2, Bounds DEF TypeOK, EraseFails, Fault
  <2> QED BY <1>0, <1>2, <2>1, <2>2, ReturnKeeps DEF TypeOK
<1>3. CASE EraseSingleBlock(cur.lba) /\ NoFault /\ next' = 0 /\ Go("program")
  <2>1. pc' = "program" /\ next' = 0 /\ UNCHANGED <<call, formatting, cur, status, faults>>
    BY <1>3 DEF Go, request, NoFault
  <2>2. flash' \in [Blocks -> Image] /\ flash'[cur.lba] = Blank
    BY <1>0, <1>1, <1>3, Erased DEF TypeOK, OthersKept
  <2>3. TypeOK'
    BY <1>0, <2>1, <2>2 DEF TypeOK, Pcs, WritePcs
  <2>4. Requested' /\ FormattingInv'
    BY <1>0, <2>1 DEF Requested, Requests, FormattingInv, WritePcs
  <2>5. StaysInside' /\ Aligned' /\ AroundKept' /\ InPlaceSoFar'
    BY <1>0, <2>1, NorFlashAssumption
       DEF IInv, WritingInv, StaysInside, Aligned, AroundKept, InPlaceSoFar, WritePcs
  <2>6. ShadowIsWhole'
    <3>1. shadow' = Overlay(cur, before)
      BY <1>0 DEF IInv, WritingInv, ShadowIsWhole
    <3>2. \A i \in Offsets : ~(i < 0 * WordSize) /\ flash'[cur.lba][i] = Bits
      BY <2>2, NorFlashAssumption DEF Blank, Offsets
    <3> QED BY <2>1, <3>1, <3>2 DEF ShadowIsWhole, Overlay, Covers
  <2>7. CycleNeeded'
    BY <1>0, <2>1 DEF IInv, WritingInv, CycleNeeded, NoSpan, Volume!InPlace, Volume!Overlay,
                      Volume!Covers
  <2> QED BY <2>3, <2>4, <2>5, <2>6, <2>7 DEF IInv, WritingInv
<1> QED BY <1>2, <1>3

(* One word of the shadow buffer.                                          *)
LEMMA ShadowWord ==
  ASSUME IInv, pc = "program"
  PROVE  /\ next * WordSize \in Nat /\ (next + 1) * WordSize = next * WordSize + WordSize
         /\ (next + 1) * WordSize <= BlockSize
         /\ \A i \in Offsets : i \in WordBytes(next) <=>
                                 next * WordSize <= i /\ i < (next + 1) * WordSize
         /\ WordBytes(next) \subseteq Offsets
         /\ \A i \in WordBytes(next) : flash[cur.lba][i] = Bits
<1>1. next \in Nat /\ next * WordSize < BlockSize
  BY DEF IInv, TypeOK, WritingInv, StaysInside
<1>2. WordSize \in Nat \ {0} /\ BlockSize \in Nat
  BY NorFlashAssumption
<1>3. (next + 1) * WordSize <= BlockSize
  BY <1>1, NorFlashAssumption, WordInBlock
<1>4. next * WordSize \in Nat /\ (next + 1) * WordSize = next * WordSize + WordSize
  BY <1>1, <1>2
<1> HIDE DEF WordBytes
<1> DEFINE first == next * WordSize
<1>5. WordBytes(next) = first .. first + WordSize - 1
  BY DEF WordBytes
<1>6. first \in Nat /\ first + WordSize <= BlockSize
  BY <1>3, <1>4
<1> HIDE DEF first
<1>7. WordBytes(next) \subseteq Offsets
  BY <1>2, <1>5, <1>6 DEF Offsets
<1>8. \A i \in Offsets : i \in WordBytes(next) <=> first <= i /\ i < first + WordSize
  BY <1>2, <1>5, <1>6 DEF Offsets
<1>9. \A i \in WordBytes(next) : flash[cur.lba][i] = Bits
  <2>1. \A i \in Offsets : flash[cur.lba][i] = IF i < first THEN shadow[i] ELSE Bits
    BY DEF IInv, WritingInv, ShadowIsWhole, first
  <2>2. \A i \in WordBytes(next) : ~(i < first)
    BY <1>2, <1>5, <1>6
  <2> QED BY <1>7, <2>1, <2>2
<1> QED BY <1>3, <1>4, <1>7, <1>8, <1>9 DEF first

LEMMA ShadowProgrammed ==
  ASSUME IInv, pc = "program", Program(cur.lba, WordBytes(next), shadow)
  PROVE  /\ flash' \in [Blocks -> Image]
         /\ \A c \in Blocks : c # cur.lba => flash'[c] = flash[c]
         /\ \A i \in Offsets :
              flash'[cur.lba][i] = IF i < (next + 1) * WordSize THEN shadow[i] ELSE Bits
         /\ \A i \in WordBytes(next) : flash'[cur.lba][i] = shadow[i]
<1>1. flash \in [Blocks -> Image] /\ cur.lba \in Blocks /\ shadow \in Image
  BY CurType DEF IInv, TypeOK, WritePcs
<1>2. /\ OthersKept(cur.lba)
      /\ \A i \in Offsets :
           flash'[cur.lba][i] = IF i \in WordBytes(next) THEN flash[cur.lba][i] \cap shadow[i]
                                                       ELSE flash[cur.lba][i]
  BY <1>1, Programmed DEF OthersKept
<1>3. \A i \in Offsets : Bits \cap shadow[i] = shadow[i]
  BY <1>1 DEF Image, Byte
<1>4. \A i \in Offsets : flash[cur.lba][i] = IF i < next * WordSize THEN shadow[i] ELSE Bits
  BY DEF IInv, WritingInv, ShadowIsWhole
<1>5. \A i \in WordBytes(next) : flash'[cur.lba][i] = shadow[i]
  BY <1>2, <1>3, ShadowWord
<1>6. ASSUME NEW i \in Offsets
      PROVE  flash'[cur.lba][i] = IF i < (next + 1) * WordSize THEN shadow[i] ELSE Bits
  <2> DEFINE first == next * WordSize
             after == (next + 1) * WordSize
  <2>1. first \in Nat /\ after \in Nat /\ first < after /\ i \in Nat
    BY ShadowWord, NorFlashAssumption DEF Offsets
  <2>2. i \in WordBytes(next) <=> first <= i /\ i < after
    BY ShadowWord
  <2>3. flash[cur.lba][i] = IF i < first THEN shadow[i] ELSE Bits
    BY <1>4
  <2> HIDE DEF first, after
  <2>4. flash'[cur.lba][i] = IF i < after THEN shadow[i] ELSE Bits
    <3>1. CASE i \in WordBytes(next)
      BY <1>5, <2>2, <3>1
    <3>2. CASE i \notin WordBytes(next)
      <4>1. flash'[cur.lba][i] = flash[cur.lba][i]
        BY <1>2, <3>2
      <4>2. i < first <=> i < after
        BY <2>1, <2>2, <3>2
      <4> QED BY <2>3, <4>1, <4>2
    <3> QED BY <3>1, <3>2
  <2> QED BY <2>4 DEF after
<1> QED BY <1>2, <1>5, <1>6 DEF OthersKept

LEMMA ProgramWordInv ==
  ASSUME IInv, ProgramWord
  PROVE  IInv'
<1> USE DEF ProgramWord, volume, bounds
<1>0. TypeOK /\ Requested /\ FormattingInv /\ pc = "program" /\ pc \in WritePcs \cup {"check"}
  BY DEF IInv, WritePcs
<1>1. shadow = Overlay(cur, before)
  BY <1>0 DEF IInv, WritingInv, ShadowIsWhole
<1>2. CASE Fault /\ Return("EFI_DEVICE_ERROR") /\ UNCHANGED <<flash, next>>
  <2>1. faults' \in 0 .. MaxFaults
    BY <1>0, <1>2, Bounds DEF TypeOK, Fault
  <2> QED BY <1>0, <1>2, <2>1, ReturnKeeps DEF TypeOK
<1>3. CASE /\ Program(cur.lba, WordBytes(next), shadow) /\ NoFault
           /\ next' = next + 1
           /\ IF (next + 1) * WordSize = BlockSize THEN Return("EFI_SUCCESS") ELSE Go("program")
  <2>1. /\ flash' \in [Blocks -> Image] /\ next' \in Nat /\ faults' \in 0 .. MaxFaults
        /\ \A i \in Offsets :
             flash'[cur.lba][i] = IF i < (next + 1) * WordSize THEN shadow[i] ELSE Bits
    BY <1>0, <1>3, ShadowProgrammed DEF TypeOK, NoFault
  <2>2. CASE (next + 1) * WordSize = BlockSize
    <3>1. \A i \in Offsets : flash'[cur.lba][i] = Overlay(cur, before)[i]
      <4>1. \A i \in Offsets : i < (next + 1) * WordSize
        BY <2>2, NorFlashAssumption DEF Offsets
      <4> QED BY <1>1, <2>1, <4>1
    <3>2. formatting => \A i \in Offsets : flash'[0][i] = Overlay(HeaderWrite, before)[i]
      <4>1. HeaderWrite.lba = 0
        BY DEF HeaderWrite
      <4> QED BY <1>0, <3>1, <4>1 DEF FormattingInv
    <3>3. /\ Return("EFI_SUCCESS") /\ before' \in Image /\ done' \in Nat
          /\ UNCHANGED <<initialized, published, shadow, calls, losses, last>>
      BY <1>0, <1>3, <2>2 DEF TypeOK
    <3> QED BY <1>0, <2>1, <3>2, <3>3, ReturnKeeps
  <2>3. CASE (next + 1) * WordSize # BlockSize
    <3>1. pc' = "program" /\ UNCHANGED <<call, formatting, cur, status>>
      BY <1>3, <2>3 DEF Go, request
    <3>2. TypeOK'
      BY <1>0, <2>1, <3>1 DEF TypeOK, Pcs, WritePcs
    <3>3. Requested' /\ FormattingInv'
      BY <1>0, <3>1 DEF Requested, Requests, FormattingInv, WritePcs
    <3>4. (next + 1) * WordSize < BlockSize
      <4>1. (next + 1) * WordSize \in Nat /\ (next + 1) * WordSize <= BlockSize /\ BlockSize \in Nat
        BY <1>0, ShadowWord, NorFlashAssumption
      <4> QED BY <2>3, <4>1
    <3>5. StaysInside'
      BY <1>0, <1>3, <3>1, <3>4 DEF IInv, WritingInv, StaysInside, WritePcs
    <3>6. ShadowIsWhole'
      BY <1>1, <1>3, <2>1, <3>1 DEF ShadowIsWhole, Overlay, Covers
    <3>7. Aligned' /\ AroundKept' /\ InPlaceSoFar'
      BY <3>1 DEF Aligned, AroundKept, InPlaceSoFar
    <3>8. CycleNeeded'
      BY <1>0, <3>1 DEF IInv, WritingInv, CycleNeeded, NoSpan, Volume!InPlace, Volume!Overlay,
                        Volume!Covers
    <3> QED BY <3>2, <3>3, <3>5, <3>6, <3>7, <3>8 DEF IInv, WritingInv
  <2> QED BY <2>2, <2>3
<1> QED BY <1>2, <1>3

-----------------------------------------------------------------------------
(* The invariants.                                                         *)

LEMMA NextInv ==
  ASSUME IInv, [Next]_vars
  PROVE  IInv'
<1>1. CASE Next
  <2>1. CASE Callers
    BY <2>1, CallersInv
  <2>2. CASE Step
    BY <2>2, EraseNextInv, FvbInitializeInv, FormatEraseInv, InstallFormattedInv,
       CheckParametersInv, WriteWordInv, GiveUpInPlaceInv, ReadShadowInv, EraseFullInv,
       ProgramWordInv DEF Step
  <2>3. CASE PowerLoss
    BY <2>3, PowerLossInv
  <2> QED BY <1>1, <2>1, <2>2, <2>3 DEF Next
<1>2. CASE UNCHANGED vars
  BY <1>2 DEF vars, IInv, TypeOK, Requested, FormattingInv, ValidateFvHeader, WritingInv,
     StaysInside, ShadowIsWhole, Aligned, AroundKept, InPlaceSoFar, CycleNeeded, NoSpan, Written,
     CurOffset, Overlay, Covers, Requests, Volume!InPlace, Volume!Overlay, Volume!Covers
<1> QED BY <1>1, <1>2

LEMMA Invariance == Spec => []IInv
<1>1. Init => IInv
  BY InitInv
<1>2. IInv /\ [Next]_vars => IInv'
  BY NextInv
<1> QED BY <1>1, <1>2, PTL DEF Spec

(* Whatever is lost or fails, the variables keep their types, and a write  *)
(* that runs has a request (TypeOK).                                       *)
THEOREM Typing == Spec => []TypeOK
<1>1. IInv => TypeOK
  BY DEF IInv
<1> QED BY <1>1, Invariance, PTL

(* Nothing is erased outside the region or programmed outside the block    *)
(* that is written (StaysInside).                                          *)
THEOREM Inside == Spec => []StaysInside
<1>1. IInv => StaysInside
  BY DEF IInv, WritingInv
<1> QED BY <1>1, Invariance, PTL

(* From the erase to the last word the shadow buffer holds the block that  *)
(* the write should leave (ShadowIsWhole), for every range and buffer.     *)
THEOREM ShadowWhole == Spec => []ShadowIsWhole
<1>1. IInv => ShadowIsWhole
  BY DEF IInv, WritingInv
<1> QED BY <1>1, Invariance, PTL

(* A word is only programmed where its bits can still be set               *)
(* (ProgramsReadBack).                                                     *)
THEOREM ReadsBack == Spec => ProgramsReadBack
<1> DEFINE A == /\ WriteWord /\ NoFault => \A i \in Touched : flash'[cur.lba][i] = TmpBuf[i]
                /\ ProgramWord /\ NoFault =>
                     \A i \in WordBytes(next) : flash'[cur.lba][i] = shadow[i]
<1>1. ASSUME IInv, [Next]_vars
      PROVE  [A]_vars
  <2>1. ASSUME WriteWord, NoFault
        PROVE  \A i \in Touched : flash'[cur.lba][i] = TmpBuf[i]
    <3>1. pc = "word" /\ ~DoErase /\ Program(cur.lba, Touched, TmpBuf)
      <4>1. ~Fault
        BY <1>1, <2>1 DEF IInv, TypeOK, Fault, NoFault
      <4> QED BY <2>1, <4>1 DEF WriteWord
    <3> QED BY <1>1, <3>1, WordProgrammed, WordStep
  <2>2. ASSUME ProgramWord, NoFault
        PROVE  \A i \in WordBytes(next) : flash'[cur.lba][i] = shadow[i]
    <3>1. pc = "program" /\ Program(cur.lba, WordBytes(next), shadow)
      <4>1. ~Fault
        BY <1>1, <2>2 DEF IInv, TypeOK, Fault, NoFault
      <4> QED BY <2>2, <4>1 DEF ProgramWord
    <3> QED BY <1>1, <3>1, ShadowProgrammed
  <2> QED BY <2>1, <2>2
<1> QED BY <1>1, Invariance, PTL DEF Spec, ProgramsReadBack

(* A boot publishes the volume only when ValidateFvHeader would accept it  *)
(* (PublishedIsValid).                                                     *)
THEOREM PublishedValid == Spec => PublishedIsValid
<1>1. ASSUME IInv, [Next]_vars
      PROVE  [~published /\ published' => ValidateFvHeader]_vars
  <2> SUFFICES ASSUME Next, ~published, published'
               PROVE  ValidateFvHeader
    BY <1>1
  <2>1. ~(published' = published)
    OBVIOUS
  <2>2. InstallFormatted
    BY <2>1 DEF Next, Callers, Step, FvbRead, FvbWrite, FvbEraseBlocks, EraseNext, FvbInitialize,
       FormatErase, CheckParameters, WriteWord, GiveUpInPlace, ReadShadow, EraseFull, ProgramWord,
       PowerLoss, volume
  <2> QED BY <1>1, <2>2 DEF InstallFormatted, IInv, FormattingInv
<1> QED BY <1>1, Invariance, PTL DEF Spec, PublishedIsValid

-----------------------------------------------------------------------------
(* The driver implements the volume.                                       *)

(* Callers write within a word or from the start of one.                   *)
NoSpanning == \A r \in Ranges : NoSpan(r)

Store == IF InWrite THEN [flash EXCEPT ![cur.lba] = before] ELSE flash
Writing == IF InWrite THEN cur ELSE NoWrite

LEMMA RequestsDoNotSpan ==
  ASSUME NoSpanning, IInv, pc \in WritePcs
  PROVE  NoSpan(cur)
<1>1. \A w \in Requests : NoSpan(w)
  BY DEF Requests, NoSpanning, NoSpan
<1>2. cur \in Requests \cup {HeaderWrite}
  BY CurType DEF IInv, Requested
<1> QED BY <1>1, <1>2, HeadersDoNotSpan DEF NoSpan

LEMMA StoreType ==
  ASSUME TypeOK
  PROVE  Store \in [Blocks -> Image]
BY CurType DEF Store, InWrite, TypeOK

LEMMA RefuseStep ==
  ASSUME TypeOK, pc \notin WritePcs, pc' \notin WritePcs, flash' = flash,
         status' \in {"EFI_DEVICE_ERROR", "NONE", "EFI_BAD_BUFFER_SIZE", "EFI_INVALID_PARAMETER"}
  PROVE  Volume!Next
BY DEF Volume!Next, Volume!Refuse, Volume!Failures, InWrite

LEMMA EraseStep ==
  ASSUME TypeOK, pc \notin WritePcs, pc' \notin WritePcs, NEW b \in Blocks,
         flash' = [flash EXCEPT ![b] = Blank],
         status' \in {"EFI_SUCCESS", "EFI_DEVICE_ERROR"}
  PROVE  Volume!Next
<1>1. Volume!EraseBlock(b)
  BY DEF Volume!EraseBlock, Volume!Blank, Blank, InWrite
<1> QED BY <1>1 DEF Volume!Next

LEMMA LoseStep ==
  ASSUME TypeOK, pc \notin WritePcs, pc' \notin WritePcs, NEW b \in Blocks,
         OthersKept(b), status' = "NONE"
  PROVE  Volume!Next
<1>1. Volume!LoseBlock(b)
  BY DEF Volume!LoseBlock, Volume!OnlyBlockChanges, OthersKept, InWrite, Volume!Image, Volume!Byte,
         Image, Byte
<1> QED BY <1>1 DEF Volume!Next

LEMMA BeginStep ==
  ASSUME TypeOK, pc = "check", pc' \in WritePcs, cur' = cur, before' = flash[cur.lba],
         flash' = flash, status' = status
  PROVE  Volume!Next
<1>1. cur \in Write /\ pc \notin WritePcs
  BY CurType DEF WritePcs
<1>2. [flash EXCEPT ![cur.lba] = flash[cur.lba]] = flash
  BY <1>1 DEF TypeOK, Write
<1>3. Volume!Begin
  BY <1>1, <1>2 DEF Volume!Begin, Volume!Write, Volume!Image, Volume!Byte, Write, Image, Byte, InWrite
<1> QED BY <1>3 DEF Volume!Next

LEMMA CommitStep ==
  ASSUME TypeOK, pc \in WritePcs, pc' \notin WritePcs, status' = "EFI_SUCCESS", OthersKept(cur.lba),
         \A i \in Offsets : flash'[cur.lba][i] = Overlay(cur, before)[i]
  PROVE  Volume!Next
<1>1. cur # NoWrite /\ cur \in Write /\ cur.lba \in Blocks
  BY CurType
<1>2. flash \in [Blocks -> Image] /\ before \in Image /\ flash' \in [Blocks -> Image]
  BY DEF TypeOK, OthersKept
<1>3. flash'[cur.lba] = Overlay(cur, before)
  <2>1. Overlay(cur, before) \in Image /\ flash'[cur.lba] \in Image
    BY <1>1, <1>2, OverlayType
  <2> HIDE DEF Overlay
  <2>2. Overlay(cur, before) \in [Offsets -> Byte] /\ flash'[cur.lba] \in [Offsets -> Byte]
    BY <2>1 DEF Image
  <2> QED BY <2>2
<1>4. flash' = [flash EXCEPT ![cur.lba] = Overlay(cur, before)]
  BY <1>1, <1>2, <1>3 DEF OthersKept
<1>5. Store[cur.lba] = before /\ Store = [flash EXCEPT ![cur.lba] = before]
  BY <1>1, <1>2 DEF Store, InWrite
<1>6. flash' = [Store EXCEPT ![cur.lba] = Overlay(cur, @)]
  BY <1>1, <1>2, <1>4, <1>5
<1>7. Volume!Commit
  BY <1>1, <1>6 DEF Volume!Commit, Volume!Overlay, Volume!Covers, Overlay, Covers, Store, InWrite
<1> QED BY <1>7 DEF Volume!Next

LEMMA AbortStep ==
  ASSUME TypeOK, pc \in WritePcs, pc' \notin WritePcs, status' \in {"EFI_DEVICE_ERROR", "NONE"},
         OthersKept(cur.lba), Volume!Residue(cur, before, flash'[cur.lba])
  PROVE  Volume!Next
<1>1. cur # NoWrite /\ cur.lba \in Blocks
  BY CurType
<1>2. flash \in [Blocks -> Image] /\ before \in Image /\ flash' \in [Blocks -> Image]
  BY DEF TypeOK, OthersKept
<1>3. Store = [flash EXCEPT ![cur.lba] = before] /\ Store[cur.lba] = before
      /\ Store' = flash' /\ Writing = cur /\ Writing' = NoWrite
  BY <1>1, <1>2 DEF Store, Writing, InWrite
<1>4. \A c \in Blocks \ {cur.lba} : Store'[c] = Store[c]
  BY <1>1, <1>2, <1>3 DEF OthersKept
<1>5. Writing # NoWrite /\ Writing' = NoWrite
      /\ Store' \in [Blocks -> Image] /\ \A c \in Blocks \ {Writing.lba} : Store'[c] = Store[c]
  BY <1>1, <1>2, <1>3, <1>4
<1>6. Volume!Residue(Writing, Store[Writing.lba], Store'[Writing.lba])
  BY <1>3 DEF Volume!Residue, Volume!InPlace, Volume!Overlay, Volume!Covers
<1>7. Volume!Abort
  BY <1>5, <1>6 DEF Volume!Abort, Volume!OnlyBlockChanges, Volume!Image, Volume!Byte, Image, Byte,
     Volume!Residue, Volume!InPlace, Volume!Overlay, Volume!Covers, Volume!Failures, Store, Writing
<1> QED BY <1>7 DEF Volume!Next

(* A step of a write that the volume does not see.                         *)
LEMMA StutterStep ==
  ASSUME TypeOK, pc \in WritePcs, pc' \in WritePcs, cur' = cur, before' = before, status' = status,
         OthersKept(cur.lba)
  PROVE  UNCHANGED Volume!vars
<1>1. cur.lba \in Blocks /\ flash \in [Blocks -> Image] /\ before \in Image
      /\ flash' \in [Blocks -> Image]
  BY CurType DEF TypeOK, OthersKept
<1>2. [flash' EXCEPT ![cur.lba] = before] = [flash EXCEPT ![cur.lba] = before]
  BY <1>1 DEF OthersKept
<1> QED BY <1>2 DEF Volume!vars, InWrite

LEMMA QuietStutter ==
  ASSUME pc \notin WritePcs, pc' \notin WritePcs, flash' = flash, status' = status
  PROVE  UNCHANGED Volume!vars
BY DEF Volume!vars, InWrite

(* A cycle through the shadow buffer that is not completed may lose the    *)
(* block; only writes that could not be made in place come to it.          *)
LEMMA CycleResidue ==
  ASSUME NoSpanning, IInv, pc \in {"shadow", "eraseFull", "program"}, NEW x
  PROVE  Volume!Residue(cur, before, x)
<1>1. NoSpan(cur)
  BY RequestsDoNotSpan DEF WritePcs
<1> QED BY <1>1 DEF IInv, WritingInv, CycleNeeded, Volume!Residue, Volume!InPlace, Volume!Overlay,
              Volume!Covers

(* In place, every byte is between what was there and what is written.     *)
LEMMA WordResidue ==
  ASSUME NoSpanning, IInv, pc = "word", ~DoErase, NEW x,
         \A i \in Offsets :
           /\ i \in Touched => flash[cur.lba][i] \cap TmpBuf[i] \subseteq x[i]
                               /\ x[i] \subseteq flash[cur.lba][i]
           /\ i \notin Touched => x[i] = flash[cur.lba][i]
  PROVE  Volume!Residue(cur, before, x)
<1>0. NoSpan(cur)
  BY RequestsDoNotSpan DEF WritePcs
<1> SUFFICES ASSUME \A i \in Offsets : Overlay(cur, before)[i] \subseteq before[i],
                    NEW i \in Offsets
             PROVE  Overlay(cur, before)[i] \subseteq x[i] /\ x[i] \subseteq before[i]
  BY DEF Volume!Residue, Volume!InPlace, Volume!Overlay, Volume!Covers, Overlay, Covers
<1>1. cur.off \in Nat /\ cur.len \in Nat /\ done \in Nat /\ done < cur.len /\ i \in Nat
  BY CurType DEF IInv, TypeOK, WritingInv, StaysInside, WritePcs, Offsets
<1>2. flash[cur.lba][i] = IF Written(i) THEN cur.data[i - cur.off] ELSE before[i]
  BY <1>0 DEF IInv, WritingInv, InPlaceSoFar
<1>3. Written(i) => Covers(cur, i)
  BY <1>1 DEF Written, Covers, CurOffset
<1>4. Overlay(cur, before)[i] = IF Covers(cur, i) THEN cur.data[i - cur.off] ELSE before[i]
  BY DEF Overlay
<1>5. Overlay(cur, before)[i] \subseteq flash[cur.lba][i] /\ flash[cur.lba][i] \subseteq before[i]
  BY <1>2, <1>3, <1>4
<1>6. CASE i \in Touched
  <2>1. TmpBuf[i] = Overlay(cur, before)[i]
    BY <1>0, <1>4, <1>6, RightSource, WordStep
  <2>2. flash[cur.lba][i] \cap TmpBuf[i] \subseteq x[i] /\ x[i] \subseteq flash[cur.lba][i]
    BY <1>6
  <2> QED BY <1>5, <2>1, <2>2
<1>7. CASE i \notin Touched
  BY <1>5, <1>7
<1> QED BY <1>6, <1>7

LEMMA WriteWordRefines ==
  ASSUME NoSpanning, IInv, WriteWord
  PROVE  [Volume!Next]_(Volume!vars)
<1>0. TypeOK /\ pc = "word" /\ ~DoErase /\ pc \in WritePcs /\ NoSpan(cur)
  BY RequestsDoNotSpan DEF IInv, WriteWord, WritePcs
<1>1. CASE Fault /\ Return("EFI_DEVICE_ERROR") /\ UNCHANGED <<flash, done>>
  <2>1. pc' \notin WritePcs /\ status' = "EFI_DEVICE_ERROR"
    BY <1>0, <1>1, Returned DEF QuietPcs, WritePcs
  <2>2. OthersKept(cur.lba)
    BY <1>0, <1>1 DEF OthersKept, TypeOK
  <2>3. Volume!Residue(cur, before, flash'[cur.lba])
    <3>1. \A i \in Offsets : flash'[cur.lba][i] = flash[cur.lba][i]
      BY <1>1
    <3> QED BY <1>0, <3>1, WordResidue
  <2> QED BY <1>0, <2>1, <2>2, <2>3, AbortStep
<1>2. CASE /\ Program(cur.lba, Touched, TmpBuf) /\ NoFault
           /\ done' = done + Chunk
           /\ IF Chunk = BytesToWrite THEN Return("EFI_SUCCESS") ELSE Go("word")
  <2>1. OthersKept(cur.lba)
    BY <1>0, <1>2, WordProgrammed
  <2>2. CASE Chunk = BytesToWrite
    <3>1. pc' \notin WritePcs /\ status' = "EFI_SUCCESS"
      BY <1>0, <1>2, <2>2, Returned DEF QuietPcs, WritePcs
    <3>2. CurOffset + Chunk = cur.off + cur.len
      <4>1. cur.off \in Nat /\ cur.len \in Nat /\ done \in Nat
        BY <1>0, CurType DEF TypeOK
      <4> QED BY <2>2, <4>1 DEF CurOffset, BytesToWrite
    <3>3. \A i \in Offsets : flash'[cur.lba][i] = Overlay(cur, before)[i]
      BY <1>0, <1>2, <3>2, WordStored DEF Overlay, Covers
    <3> QED BY <1>0, <2>1, <3>1, <3>3, CommitStep
  <2>3. CASE Chunk # BytesToWrite
    <3>1. pc' \in WritePcs /\ cur' = cur /\ status' = status /\ before' = before
      BY <1>2, <2>3 DEF WriteWord, Go, request, WritePcs
    <3> QED BY <1>0, <2>1, <3>1, StutterStep
  <2> QED BY <2>2, <2>3
<1> QED BY <1>1, <1>2 DEF WriteWord

LEMMA EraseFullRefines ==
  ASSUME NoSpanning, IInv, EraseFull
  PROVE  [Volume!Next]_(Volume!vars)
<1>0. TypeOK /\ pc = "eraseFull" /\ pc \in WritePcs /\ cur.lba \in Blocks
      /\ flash \in [Blocks -> Image]
  BY CurType DEF IInv, EraseFull, WritePcs, TypeOK
<1>1. CASE EraseFails(cur.lba) /\ Return("EFI_DEVICE_ERROR")
  <2>1. pc' \notin WritePcs /\ status' = "EFI_DEVICE_ERROR"
    BY <1>0, <1>1, Returned DEF QuietPcs, WritePcs
  <2>2. OthersKept(cur.lba)
    BY <1>0, <1>1, EraseFailed DEF OthersKept
  <2> QED BY <1>0, <2>1, <2>2, CycleResidue, AbortStep
<1>2. CASE EraseSingleBlock(cur.lba) /\ Go("program")
  <2>1. OthersKept(cur.lba)
    BY <1>0, <1>2, Erased DEF OthersKept
  <2>2. pc' \in WritePcs /\ cur' = cur /\ status' = status /\ before' = before
    BY <1>2 DEF EraseFull, Go, request, WritePcs
  <2> QED BY <1>0, <2>1, <2>2, StutterStep
<1> QED BY <1>1, <1>2 DEF EraseFull

LEMMA ProgramWordRefines ==
  ASSUME NoSpanning, IInv, ProgramWord
  PROVE  [Volume!Next]_(Volume!vars)
<1>0. TypeOK /\ pc = "program" /\ pc \in WritePcs
  BY DEF IInv, ProgramWord, WritePcs
<1>1. CASE Fault /\ Return("EFI_DEVICE_ERROR") /\ UNCHANGED <<flash, next>>
  <2>1. pc' \notin WritePcs /\ status' = "EFI_DEVICE_ERROR"
    BY <1>0, <1>1, Returned DEF QuietPcs, WritePcs
  <2>2. OthersKept(cur.lba)
    BY <1>0, <1>1 DEF OthersKept, TypeOK
  <2> QED BY <1>0, <2>1, <2>2, CycleResidue, AbortStep
<1>2. CASE /\ Program(cur.lba, WordBytes(next), shadow)
           /\ IF (next + 1) * WordSize = BlockSize THEN Return("EFI_SUCCESS") ELSE Go("program")
  <2>1. OthersKept(cur.lba)
    BY <1>0, <1>2, ShadowProgrammed DEF OthersKept
  <2>2. CASE (next + 1) * WordSize = BlockSize
    <3>1. pc' \notin WritePcs /\ status' = "EFI_SUCCESS"
      BY <1>0, <1>2, <2>2, Returned DEF QuietPcs, WritePcs
    <3>2. \A i \in Offsets : i < (next + 1) * WordSize
      BY <2>2, NorFlashAssumption DEF Offsets
    <3>3. \A i \in Offsets : flash'[cur.lba][i] = shadow[i]
      BY <1>0, <1>2, <3>2, ShadowProgrammed
    <3>4. shadow = Overlay(cur, before)
      BY <1>0 DEF IInv, WritingInv, ShadowIsWhole
    <3> QED BY <1>0, <2>1, <3>1, <3>3, <3>4, CommitStep
  <2>3. CASE (next + 1) * WordSize # BlockSize
    <3>1. pc' \in WritePcs /\ cur' = cur /\ status' = status /\ before' = before
      BY <1>2, <2>3 DEF ProgramWord, Go, request, WritePcs
    <3> QED BY <1>0, <2>1, <3>1, StutterStep
  <2> QED BY <2>2, <2>3
<1> QED BY <1>1, <1>2 DEF ProgramWord

LEMMA CheckParametersRefines ==
  ASSUME IInv, CheckParameters
  PROVE  [Volume!Next]_(Volume!vars)
<1>0. TypeOK /\ pc = "check" /\ pc \notin WritePcs /\ flash' = flash
  BY DEF IInv, CheckParameters, WritePcs
<1>1. CASE Return("EFI_BAD_BUFFER_SIZE")
  <2>1. pc' \notin WritePcs /\ status' = "EFI_BAD_BUFFER_SIZE"
    BY <1>0, <1>1, Returned DEF QuietPcs, WritePcs
  <2> QED BY <1>0, <2>1, RefuseStep
<1>2. CASE /\ before' = flash[cur.lba]
           /\ Go(IF cur.len <= Threshold THEN "word" ELSE "shadow")
  <2>1. pc' \in WritePcs /\ cur' = cur /\ status' = status
    BY <1>2 DEF Go, request, WritePcs
  <2> QED BY <1>0, <1>2, <2>1, BeginStep
<1> QED BY <1>1, <1>2 DEF CheckParameters

LEMMA EraseLoopRefines ==
  ASSUME IInv, EraseNext \/ FormatErase
  PROVE  [Volume!Next]_(Volume!vars)
<1>0. TypeOK /\ pc \notin WritePcs /\ next \in Blocks /\ flash \in [Blocks -> Image]
  BY NorFlashAssumption
     DEF IInv, EraseNext, FormatErase, WritePcs, TypeOK, WritingInv, StaysInside, Blocks
<1>1. pc' \notin WritePcs
  BY DEF EraseNext, FormatErase, Resume, WritePcs
<1>2. CASE EraseSingleBlock(next) /\ status' = "EFI_SUCCESS"
  BY <1>0, <1>1, <1>2, EraseStep DEF EraseSingleBlock
<1>3. CASE EraseFails(next) /\ status' = "EFI_DEVICE_ERROR"
  <2>1. CASE EraseSingleBlock(next)
    BY <1>0, <1>1, <1>3, <2>1, EraseStep DEF EraseSingleBlock
  <2>2. CASE UNCHANGED flash
    BY <1>0, <1>1, <1>3, <2>2, RefuseStep
  <2> QED BY <1>3, <2>1, <2>2 DEF EraseFails
<1> QED BY <1>2, <1>3 DEF EraseNext, FormatErase

LEMMA PowerLossRefines ==
  ASSUME NoSpanning, IInv, PowerLoss
  PROVE  [Volume!Next]_(Volume!vars)
<1>0. TypeOK /\ flash \in [Blocks -> Image] /\ pc' \notin WritePcs /\ status' = "NONE"
  BY DEF IInv, PowerLoss, WritePcs, TypeOK
<1>1. CASE pc \in WritePcs
  <2>1. cur.lba \in Blocks
    BY <1>0, <1>1, CurType
  <2>2. OthersKept(cur.lba)
    <3>1. CASE UNCHANGED flash
      BY <1>0, <3>1 DEF OthersKept
    <3>2. CASE ProgramTorn(cur.lba, Touched, TmpBuf)
      BY <1>0, <2>1, <3>2, ProgrammedTorn DEF OthersKept
    <3>3. CASE ProgramTorn(cur.lba, WordBytes(next), shadow)
      BY <1>0, <2>1, <3>3, ProgrammedTorn DEF OthersKept
    <3>4. CASE EraseTorn(cur.lba)
      BY <1>0, <2>1, <3>4, ErasedTorn DEF OthersKept
    <3> QED BY <1>1, <3>1, <3>2, <3>3, <3>4 DEF PowerLoss, Interrupted, WritePcs
  <2>3. Volume!Residue(cur, before, flash'[cur.lba])
    <3>1. CASE pc = "word"
      <4>1. CASE UNCHANGED flash
        <5>1. CASE DoErase
          <6>1. PICK i \in Touched : ~(TmpBuf[i] \subseteq flash[cur.lba][i])
            BY <5>1 DEF DoErase
          <6>2. NoSpan(cur)
            BY <3>1, RequestsDoNotSpan DEF WritePcs
          <6>3. i \in Offsets /\ Covers(cur, i) /\ ~Written(i) /\ TmpBuf[i] = cur.data[i - cur.off]
            BY <3>1, <6>1, <6>2, WordStep, RightSource
          <6>4. flash[cur.lba][i] = before[i]
            BY <3>1, <6>2, <6>3 DEF IInv, WritingInv, InPlaceSoFar
          <6>5. ~Volume!InPlace(cur, before)
            BY <6>1, <6>3, <6>4 DEF Volume!InPlace, Volume!Overlay, Volume!Covers, Covers
          <6> QED BY <6>5 DEF Volume!Residue, Volume!InPlace, Volume!Overlay, Volume!Covers
        <5>2. CASE ~DoErase
          <6>1. \A i \in Offsets : flash'[cur.lba][i] = flash[cur.lba][i]
            BY <4>1
          <6> QED BY <3>1, <5>2, <6>1, WordResidue
        <5> QED BY <5>1, <5>2
      <4>2. CASE ~DoErase /\ ProgramTorn(cur.lba, Touched, TmpBuf)
        <5>1. \A i \in Offsets :
                /\ i \in Touched => flash[cur.lba][i] \cap TmpBuf[i] \subseteq flash'[cur.lba][i]
                                    /\ flash'[cur.lba][i] \subseteq flash[cur.lba][i]
                /\ i \notin Touched => flash'[cur.lba][i] = flash[cur.lba][i]
          BY <1>0, <2>1, <4>2, ProgrammedTorn DEF OthersKept
        <5> QED BY <3>1, <4>2, <5>1, WordResidue
      <4> QED BY <3>1, <4>1, <4>2 DEF PowerLoss, Interrupted
    <3>2. CASE pc # "word"
      BY <1>1, <3>2, CycleResidue DEF WritePcs
    <3> QED BY <3>1, <3>2
  <2> QED BY <1>0, <1>1, <2>2, <2>3, AbortStep
<1>2. CASE pc \notin WritePcs
  <2>1. CASE UNCHANGED flash
    BY <1>0, <1>2, <2>1, RefuseStep
  <2>2. CASE pc \in {"eraseBlocks", "formatErase"} /\ EraseTorn(next)
    <3>1. next \in Blocks
      BY <2>2, NorFlashAssumption DEF IInv, TypeOK, WritingInv, StaysInside, Blocks
    <3>2. OthersKept(next)
      BY <1>0, <2>2, <3>1, ErasedTorn DEF OthersKept
    <3> QED BY <1>0, <1>2, <3>1, <3>2, LoseStep
  <2> QED BY <1>2, <2>1, <2>2 DEF PowerLoss, Interrupted, WritePcs
<1> QED BY <1>1, <1>2

LEMMA CallersRefine ==
  ASSUME IInv, Callers
  PROVE  [Volume!Next]_(Volume!vars)
<1>0. TypeOK
  BY DEF IInv
<1>1. CASE FvbRead \/ \E w \in Requests : FvbWrite(w)
  <2>1. pc \notin WritePcs /\ pc' \notin WritePcs /\ flash' = flash /\ status' = status
    BY <1>1 DEF FvbRead, FvbWrite, WritePcs
  <2> QED BY <2>1, QuietStutter
<1>2. ASSUME NEW lba \in Blocks, NEW num \in 0 .. LastBlock + 1, FvbEraseBlocks(lba, num)
      PROVE  [Volume!Next]_(Volume!vars)
  <2>1. pc \notin WritePcs /\ pc' \notin WritePcs /\ flash' = flash
        /\ (status' = status \/ status' = "EFI_INVALID_PARAMETER")
    BY <1>2 DEF FvbEraseBlocks, WritePcs
  <2> QED BY <1>0, <2>1, QuietStutter, RefuseStep
<1> QED BY <1>1, <1>2 DEF Callers

LEMMA InsideWriteRefines ==
  ASSUME IInv, GiveUpInPlace \/ ReadShadow
  PROVE  UNCHANGED Volume!vars
<1>1. TypeOK /\ pc \in WritePcs
  BY DEF IInv, GiveUpInPlace, ReadShadow, WritePcs
<1>2. pc' \in WritePcs /\ cur' = cur /\ before' = before /\ status' = status /\ flash' = flash
  BY DEF GiveUpInPlace, ReadShadow, Go, request, progress, WritePcs
<1>3. OthersKept(cur.lba)
  BY <1>1, <1>2 DEF OthersKept, TypeOK
<1> QED BY <1>1, <1>2, <1>3, StutterStep

LEMMA InitializeRefines ==
  ASSUME IInv, FvbInitialize \/ InstallFormatted
  PROVE  UNCHANGED Volume!vars
<1>1. pc \notin WritePcs /\ pc' \notin WritePcs /\ flash' = flash /\ status' = status
  BY DEF FvbInitialize, InstallFormatted, Resume, WritePcs
<1> QED BY <1>1, QuietStutter

LEMMA UnchangedRefines ==
  ASSUME UNCHANGED vars
  PROVE  UNCHANGED Volume!vars
BY DEF vars, Volume!vars, InWrite

LEMMA NextRefines ==
  ASSUME NoSpanning, IInv, [Next]_vars
  PROVE  [Volume!Next]_(Volume!vars)
<1>1. CASE UNCHANGED vars
  BY <1>1, UnchangedRefines
<1>2. CASE Callers
  BY <1>2, CallersRefine
<1>3. CASE PowerLoss
  BY <1>3, PowerLossRefines
<1>4. CASE EraseNext \/ FormatErase
  BY <1>4, EraseLoopRefines
<1>5. CASE FvbInitialize \/ InstallFormatted
  BY <1>5, InitializeRefines
<1>6. CASE CheckParameters
  BY <1>6, CheckParametersRefines
<1>7. CASE GiveUpInPlace \/ ReadShadow
  BY <1>7, InsideWriteRefines
<1>8. CASE WriteWord
  BY <1>8, WriteWordRefines
<1>9. CASE EraseFull
  BY <1>9, EraseFullRefines
<1>10. CASE ProgramWord
  BY <1>10, ProgramWordRefines
<1> QED BY <1>1, <1>2, <1>3, <1>4, <1>5, <1>6, <1>7, <1>8, <1>9, <1>10 DEF Next, Step

LEMMA InitRefines == Init => Volume!Init
<1> SUFFICES ASSUME Init PROVE Volume!Init
  OBVIOUS
<1>1. pc = "idle" /\ status = "NONE" /\ ~InWrite
  BY DEF Init, InWrite, WritePcs
<1>2. flash \in [Blocks -> Image]
  BY NorFlashAssumption DEF Init
<1> QED BY <1>1, <1>2 DEF Volume!Init, Volume!Image, Volume!Byte, Image, Byte

(* The driver implements the volume (VolumeSpec): however programming,     *)
(* erasing, faults and losses of power fall, a write that returns          *)
(* EFI_SUCCESS is stored whole, and one that does not damages nothing but  *)
(* its block, and that only when it had to set bits or was too long -      *)
(* provided no write starts within a word and goes past it.                *)
THEOREM Refinement ==
  ASSUME NoSpanning
  PROVE  Spec => VolumeSpec
<1>1. Init => Volume!Init
  BY InitRefines
<1>2. IInv /\ [Next]_vars => [Volume!Next]_(Volume!vars)
  BY NextRefines
<1> QED BY <1>1, <1>2, Invariance, PTL DEF Spec, VolumeSpec, Volume!Spec
=============================================================================
