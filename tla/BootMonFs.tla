------------------------------ MODULE BootMonFs ------------------------------
(***************************************************************************)
(* The boot monitor file system on NOR flash (Platform/ARM/Drivers/        *)
(* BootMonFs).  A file occupies whole blocks; its description ends the     *)
(* last of them, and the volume is what a scan of the last units of all    *)
(* blocks finds.  Writes are kept in memory and reach the medium when the  *)
(* file is flushed, one WriteDisk after the other; each may fail, and      *)
(* power may be lost in each.                                              *)
(*                                                                         *)
(* A unit is as many bytes as a description takes, and sizes are in units. *)
(***************************************************************************)
EXTENDS Naturals, SequencesExt

CONSTANTS
  LastBlock,      \* Media->LastBlock
  BlockUnits,     \* units of a block
  Names,
  NoName,         \* the name in a description that is all zero
  Payloads,       \* what a unit of data may be
  Zero,           \* a unit of zeros
  Erased,         \* a unit that was never written, or was lost
  Garbage,        \* in a text: data nobody wrote
  InitialMedia,
  Lengths,        \* lengths of the writes, and sizes files are set to
  Positions,      \* positions files are set to
  MaxCalls, MaxFaults, MaxPowerLosses \* bounds

Blocks == 0 .. LastBlock
EndOfMedia == (LastBlock + 1) * BlockUnits
Units == 0 .. EndOfMedia - 1

Description == [name : Names, size : Nat, first : Nat, last : Nat]
NoDesc == [name |-> NoName, size |-> 0, first |-> 0, last |-> 0]

\* A block has room for data besides a description.
ASSUME ConstantsAssumption ==
  /\ LastBlock \in Nat /\ BlockUnits \in Nat \ {0, 1}
  /\ NoName \notin Names
  /\ \A v \in Payloads \cup {Zero, Erased, Garbage} : v \notin Description
  /\ Lengths \subseteq Nat /\ Positions \subseteq Nat
  /\ MaxCalls \in Nat /\ MaxFaults \in Nat /\ MaxPowerLosses \in Nat

VARIABLES
  media,       \* the units of the medium
  initialized, \* Instance->Initialized
  list,        \* the files linked to RootFile, in the order of the list
  pc,
  cur,         \* index of the file being flushed or deleted
  then,        \* the call that flushes it
  start,       \* FileStart
  end,         \* FileEnd
  r,           \* the region in turn
  calls, faults, losses,
  spoilt       \* history: what happened that the driver is not made for

flush == <<cur, then, start, end, r>>
bounds == <<calls, losses>>
vars == <<media, initialized, list, pc, flush, bounds, faults, spoilt>>

File == list[cur]
Region == File.regions[r]
OnDisk(f) == f.desc # NoDesc        \* HwDescription.RegionCount # 0
EffectiveName(f) == IF f.open THEN f.name ELSE f.desc.name

NewFile(desc, addr, text) ==
  [desc |-> desc, addr |-> addr, open |-> FALSE, name |-> NoName, size |-> 0,
   pos |-> 0, write |-> FALSE, regions |-> <<>>, text |-> text]

\* No call is under way.
BeIdle == pc' = "idle" /\ cur' = 0 /\ then' = "flush" /\ start' = 0 /\ end' = 0 /\ r' = 0

Fault == faults < MaxFaults /\ faults' = faults + 1
NoFault == UNCHANGED faults
Spoil(reasons) == spoilt' = spoilt \cup reasons

\* hi - lo >= n in the unsigned arithmetic of the code: a difference below
\* zero is a very large number.
Fits(lo, hi, n) == hi < lo \/ hi - lo >= n

-----------------------------------------------------------------------------
(* The scan.                                                               *)

DescUnit(b) == (b + 1) * BlockUnits - 1

BootMonFsIsImageValid(m, b) ==
  /\ m[DescUnit(b)] \notin Payloads \cup {Zero, Erased}
  /\ m[DescUnit(b)].last = b
  /\ m[DescUnit(b)].first <= b

Text(d) == [k \in 1 .. d.size |-> media[d.first * BlockUnits + k - 1]]

\* The images on the medium lie apart, each with room for its description,
\* and have different names.
ImagesApart(m) ==
  LET images == {b \in Blocks : BootMonFsIsImageValid(m, b)}
      desc(b) == m[DescUnit(b)]
  IN  \A b \in images :
        /\ desc(b).size + 1 <= (b - desc(b).first + 1) * BlockUnits
        /\ \A c \in images \ {b} :
             /\ c < desc(b).first \/ b < desc(c).first
             /\ desc(c).name # desc(b).name

\* The medium is one that was formatted.
ASSUME MediaAssumption ==
  \A m \in InitialMedia :
    m \in [Units -> Payloads \cup {Zero, Erased} \cup Description] /\ ImagesApart(m)

\* The members of a finite set of numbers, each once, the smallest first.
Ascending(S) ==
  CHOOSE s \in [1 .. Cardinality(S) -> S] :
    /\ \A j, k \in DOMAIN s : j < k => s[j] < s[k]
    /\ \A x \in S : \E k \in DOMAIN s : s[k] = x

Discovered(bs) ==
  LET found == Ascending({b \in bs : BootMonFsIsImageValid(media, b)})
      desc(b) == media[DescUnit(b)]
  IN  [k \in DOMAIN found |->
         NewFile(desc(found[k]), DescUnit(found[k]), Text(desc(found[k])))]

(* BootMonFsInitialize, in the first GetInfo or Open.  A read that fails   *)
(* is taken for the end of the medium; out of memory the files found so    *)
(* far stay in the list and the next call scans again.                     *)
Initialize ==
  /\ pc = "idle" /\ ~initialized
  /\ \/ /\ list' = list \o Discovered(Blocks)
        /\ initialized' = TRUE
        /\ NoFault /\ UNCHANGED spoilt
     \/ \E b \in Blocks :
          /\ list' = list \o Discovered(0 .. b - 1)
          /\ initialized' \in BOOLEAN
          /\ Fault /\ Spoil({"scan"})
  /\ UNCHANGED <<media, pc, flush, bounds>>

-----------------------------------------------------------------------------
(* Calls that only change memory.                                          *)

Calling ==
  /\ pc = "idle" /\ initialized
  /\ calls < MaxCalls /\ calls' = calls + 1
  /\ UNCHANGED <<media, initialized, faults, losses>>

Update(i, f) == list' = [list EXCEPT ![i] = f]

\* The end of a pending region is added to the length that it exceeds.
BootMonFsGetImageLength(f) ==
  LET length[k \in 0 .. Len(f.regions)] ==
        IF k = 0 THEN f.desc.size
        ELSE LET g == f.regions[k]  n == length[k - 1]
             IN  IF g.off + g.len > n THEN n + g.off + g.len ELSE n
  IN  length[Len(f.regions)]

Opened(f, n, write) ==
  [f EXCEPT !.open = TRUE, !.name = n, !.size = BootMonFsGetImageLength(f),
            !.pos = 0, !.write = write]

(* A file that is open cannot be opened; one that is not found is created  *)
(* at the head of the list.                                                *)
OpenFile(n, mode) ==
  /\ Calling
  /\ LET i == SelectInSeq(list, LAMBDA f : EffectiveName(f) = n) IN
       \/ /\ i # 0 /\ ~list[i].open
          /\ Update(i, Opened(list[i], n, mode # "read"))
          /\ Spoil(IF BootMonFsGetImageLength(list[i]) # Len(list[i].text)
                     THEN {"length"} ELSE {})
       \/ /\ i = 0 /\ mode = "create"
          /\ list' = <<Opened(NewFile(NoDesc, 0, <<>>), n, TRUE)>> \o list
          /\ UNCHANGED spoilt
  /\ UNCHANGED <<pc, flush>>

Larger(a, b) == IF a > b THEN a ELSE b
Smaller(a, b) == IF a < b THEN a ELSE b

Overwritten(text, off, len, v) ==
  [k \in 1 .. Larger(Len(text), off + len) |->
     IF off < k /\ k <= off + len THEN v
     ELSE IF k <= Len(text) THEN text[k] ELSE Garbage]

\* Mutant: the region is put at the head.
WrittenFirst(f, off, len, v) ==
  [f EXCEPT !.regions = <<[off |-> off, len |-> len, val |-> v]>> \o @,
            !.size = Larger(@, off + len),
            !.text = Overwritten(@, off, len, v)]

Written(f, off, len, v) ==
  [f EXCEPT !.regions = Append(@, [off |-> off, len |-> len, val |-> v]),
            !.size = Larger(@, off + len),
            !.text = Overwritten(@, off, len, v)]

WriteFile(i, len, v) ==
  /\ Calling
  /\ list[i].open /\ list[i].write
  /\ Update(i, [Written(list[i], list[i].pos, len, v) EXCEPT !.pos = @ + len])
  /\ UNCHANGED <<pc, flush, spoilt>>

SetPosition(i, p) ==
  /\ Calling
  /\ list[i].open
  /\ Update(i, [list[i] EXCEPT !.pos = p])
  /\ UNCHANGED <<pc, flush, spoilt>>

\* A truncation clips the pending regions; a file grows by writing zeros.
Truncated(f, n) ==
  LET kept == Ascending({j \in DOMAIN f.regions : f.regions[j].off <= n})
      clipped(g) == [g EXCEPT !.len = Smaller(@, n - g.off)]
  IN  [f EXCEPT
         !.regions = [k \in DOMAIN kept |-> clipped(f.regions[kept[k]])],
         !.size = n,
         !.text = SubSeq(@, 1, Smaller(n, Len(@)))]

SetFileSize(i, n) ==
  /\ Calling
  /\ list[i].open /\ list[i].write
  /\ n # list[i].size
  /\ Update(i, IF n < list[i].size
                 THEN Truncated(list[i], n)
                 ELSE Written(list[i], list[i].size, n - list[i].size, Zero))
  /\ UNCHANGED <<pc, flush, spoilt>>

-----------------------------------------------------------------------------
(* Calls that reach the medium.                                            *)

Begin(i, why, to) ==
  /\ Calling
  /\ cur' = i /\ then' = why /\ pc' = to
  /\ UNCHANGED <<list, start, end, r, spoilt>>

Flush(i) == list[i].open /\ Begin(i, "flush", "enter")
CloseFile(i) == list[i].open /\ Begin(i, "close", "enter")
ReadFile(i) == list[i].open /\ Begin(i, "read", "enter")
FlushDirectory == list # <<>> /\ Begin(1, "directory", "enter")

\* The pending regions are freed first.
Delete(i) ==
  /\ list[i].open
  /\ Calling
  /\ cur' = i /\ then' = "delete" /\ pc' = "delete"
  /\ Update(i, [list[i] EXCEPT !.regions = <<>>])
  /\ UNCHANGED <<start, end, r, spoilt>>

\* What the write in turn writes, and where.
RegionData == [k \in 1 .. Region.len |-> Region.val]
DescriptionOf(size) ==
  [name |-> File.name, size |-> size, first |-> start \div BlockUnits,
   last |-> (start \div BlockUnits) + ((size + 1) \div BlockUnits)]
NewSize == IF pc = "finish" THEN File.size ELSE Region.off + Region.len
NewDesc == DescriptionOf(NewSize)

Target ==
  IF pc \in {"edit", "data"} THEN start + Region.off
  ELSE IF pc \in {"invalidate", "delete"} THEN File.addr
  ELSE DescUnit(NewDesc.last)
Content ==
  IF pc \in {"edit", "data"} THEN RegionData
  ELSE IF pc \in {"invalidate", "delete"} THEN <<Zero>>
  ELSE <<NewDesc>>

Affected == Target .. Target + Len(Content) - 1
Image == [u \in Units |-> IF u \in Affected THEN Content[u - Target + 1] ELSE media[u]]

\* Of a WriteDisk that fails or is cut short, some blocks are written, some
\* are not, and some are lost.
Torn ==
  LET touched == {u \div BlockUnits : u \in Affected \cap Units}
  IN  \E done \in SUBSET touched, lost \in SUBSET touched :
        media' = [u \in Units |->
                    IF u \div BlockUnits \in lost THEN Erased
                    ELSE IF u \div BlockUnits \in done THEN Image[u] ELSE media[u]]

\* What the driver is not made for: files that fill their blocks exactly (the
\* description goes one block further than it need), and a description that is
\* put before the end of data already written, or at the end of the flush in
\* another block than was looked at, leaving the one before as it is.
Misplaced ==
  \/ pc = "describe" /\ NewDesc.last < File.desc.last
  \/ pc = "finish" /\ NewDesc.last # File.desc.last
Irregular ==
  IF pc \in {"describe", "finish"}
    THEN (IF (NewSize + 1) % BlockUnits = 0 THEN {"exact"} ELSE {})
           \cup (IF OnDisk(File) /\ Misplaced THEN {"moved"} ELSE {})
    ELSE {}

(* WriteDisk, and where to go on; a failure ends the flush.                *)
WriteDisk(next) ==
  \/ /\ Affected \subseteq Units
     /\ media' = Image
     /\ pc' = next
     /\ NoFault /\ Spoil(Irregular)
  \/ /\ IF Affected \subseteq Units THEN Fault ELSE NoFault
     /\ Torn
     /\ pc' = "return"
     /\ Spoil(Irregular \cup {"failed"})

-----------------------------------------------------------------------------
(* BootMonFsFindSpaceForNewFile.                                           *)

DiskIndices == {k \in DOMAIN list : OnDisk(list[k])}

\* Mutant: at the last block of the file before, not behind it.
SpaceBeforeInside(k) ==
  LET earlier == {j \in DiskIndices : j < k}
  IN  IF earlier = {} THEN 0 ELSE list[Max(earlier)].desc.last * BlockUnits

\* FileStart when the scan of the list gets to its k-th file.
SpaceBefore(k) ==
  LET earlier == {j \in DiskIndices : j < k}
  IN  IF earlier = {} THEN 0 ELSE (list[Max(earlier)].desc.last + 1) * BlockUnits

Gaps(n) ==
  {k \in DiskIndices : Fits(SpaceBefore(k), list[k].desc.first * BlockUnits, n)}

\* Link the i-th file before the k-th.
LinkBefore(i, k) ==
  LET to == IF i < k THEN k - 1 ELSE k
  IN  list' = InsertAt(RemoveAt(list, i), to, list[i]) /\ cur' = to

InOrder == \A j, k \in DiskIndices : j < k => list[j].desc.last < list[k].desc.first
Disorder == IF InOrder THEN {} ELSE {"order"}

FindSpaceForNewFile ==
  LET n == File.size + 1
  IN  \/ /\ Gaps(n) # {}
         /\ LinkBefore(cur, Min(Gaps(n)))
         /\ start' = SpaceBefore(Min(Gaps(n)))
         /\ pc' = "region"
      \/ /\ Gaps(n) = {}
         /\ start' = SpaceBefore(Len(list) + 1)
         /\ pc' = IF Fits(start', EndOfMedia, n) THEN "region" ELSE "return"
         /\ UNCHANGED <<list, cur>>

(* BootMonFsFlushFile up to its loop.                                      *)
Enter ==
  /\ pc = "enter"
  /\ \/ /\ ~File.open \/ ~File.write
        /\ pc' = "return"
        /\ UNCHANGED <<list, cur, start, end, r, spoilt>>
     \/ /\ File.open /\ File.write
        /\ r' = 1
        /\ \/ ~OnDisk(File) /\ FindSpaceForNewFile /\ Spoil(Disorder)
           \/ /\ OnDisk(File)
              /\ start' = File.desc.first * BlockUnits
              /\ pc' = "region"
              /\ UNCHANGED <<list, cur, spoilt>>
        /\ end' = start' + File.desc.size
  /\ UNCHANGED <<media, initialized, then, bounds, faults>>

\* BootMonFsGetPhysicalSize
PhysicalSize(f) ==
  IF OnDisk(f) THEN (f.desc.last - f.desc.first + 1) * BlockUnits ELSE 0

\* Mutant: as if it were the last file.
EndOfAppendSpaceOfLast == EndOfMedia

EndOfAppendSpace ==
  IF cur < Len(list) THEN list[cur + 1].desc.first * BlockUnits ELSE EndOfMedia

NextOnDisk == cur < Len(list) => OnDisk(list[cur + 1])

\* Mutant: the next link is not taken.
EmptyRegionAgain ==
  /\ pc = "region" /\ r <= Len(File.regions) /\ Region.len = 0
  /\ UNCHANGED vars

EmptyRegion ==
  /\ pc = "region" /\ r <= Len(File.regions) /\ Region.len = 0
  /\ r' = r + 1
  /\ UNCHANGED <<media, initialized, list, pc, cur, then, start, end, bounds, faults, spoilt>>

(* The region in turn: an edit, an append if there is space, or none left. *)
NextRegion ==
  /\ pc = "region"
  /\ \/ /\ r > Len(File.regions)
        /\ pc' = "finish"
        /\ Update(cur, [File EXCEPT !.regions = <<>>])
        /\ UNCHANGED spoilt
     \/ /\ r <= Len(File.regions) /\ Region.len # 0
        /\ LET regionEnd == start + Region.off + Region.len
               size == Region.off + Region.len + 1
           IN  IF regionEnd < end
                 THEN pc' = "edit" /\ UNCHANGED spoilt
                 ELSE /\ pc' = IF \/ size <= PhysicalSize(File)
                                  \/ Fits(start, EndOfAppendSpace, size)
                                 THEN IF File.addr # 0 THEN "invalidate" ELSE "data"
                                 ELSE "return"
                      /\ Spoil(IF size <= PhysicalSize(File) THEN {}
                               ELSE Disorder \cup (IF NextOnDisk THEN {} ELSE {"order"}))
        /\ UNCHANGED list
  /\ UNCHANGED <<media, initialized, cur, then, start, end, r, bounds, faults>>

WriteEdit ==
  /\ pc = "edit"
  /\ WriteDisk("region")
  /\ r' = r + 1
  /\ UNCHANGED <<initialized, list, cur, then, start, end, bounds>>

InvalidateImageDescription ==
  /\ pc = "invalidate"
  /\ WriteDisk("data")
  /\ UNCHANGED <<initialized, list, flush, bounds>>

WriteData ==
  /\ pc = "data"
  /\ WriteDisk("describe")
  /\ UNCHANGED <<initialized, list, flush, bounds>>

\* Mutant: the address of the description stays.
DescribeElsewhere == Update(cur, [File EXCEPT !.desc = NewDesc, !.addr = IF @ = 0 THEN DescUnit(NewDesc.last) ELSE @])

(* WriteFileDescription: the copy in memory is changed first.              *)
Describe == Update(cur, [File EXCEPT !.desc = NewDesc, !.addr = DescUnit(NewDesc.last)])

WriteFileDescription ==
  /\ pc = "describe"
  /\ WriteDisk("region")
  /\ Describe
  /\ r' = r + 1
  /\ UNCHANGED <<initialized, cur, then, start, end, bounds>>

(* The end of the flush: the description is written again if the name or   *)
(* the size is another, without invalidating the one before.               *)
Finish ==
  /\ pc = "finish"
  /\ IF File.name # File.desc.name \/ File.size # File.desc.size
       THEN WriteDisk("return") /\ Describe
       ELSE /\ pc' = "return" /\ NoFault
            /\ UNCHANGED <<media, list, spoilt>>
  /\ UNCHANGED <<initialized, flush, bounds>>

(* The call that flushed goes on, whatever the status.                     *)
Return ==
  /\ pc = "return"
  /\ \/ then \in {"flush", "delete"} /\ BeIdle /\ UNCHANGED list
     \/ /\ then = "close" /\ BeIdle
        /\ Update(cur, [File EXCEPT !.open = FALSE])
     \/ /\ then = "read" /\ BeIdle
        /\ \E p \in {File.pos} \cup {q \in Positions : File.pos <= q /\ q <= File.size} :
             Update(cur, [File EXCEPT !.pos = p])
     \/ /\ then = "directory"
        /\ IF cur < Len(list)
             THEN cur' = cur + 1 /\ pc' = "enter" /\ UNCHANGED <<then, start, end, r>>
             ELSE BeIdle
        /\ UNCHANGED list
  /\ UNCHANGED <<media, initialized, bounds, faults, spoilt>>

(* BootMonFsDelete; when the description cannot be invalidated the file    *)
(* stays, and stays open.                                                  *)
DeleteFile ==
  /\ pc = "delete"
  /\ \/ /\ OnDisk(File)
        /\ WriteDisk("deleted")
        /\ UNCHANGED <<list, flush>>
     \/ /\ ~OnDisk(File)
        /\ list' = RemoveAt(list, cur) /\ BeIdle
        /\ NoFault /\ UNCHANGED <<media, spoilt>>
  /\ UNCHANGED <<initialized, bounds>>

\* Mutant: goes on with the file that was freed.
UnlinkAndReturn ==
  /\ pc = "deleted"
  /\ list' = RemoveAt(list, cur) /\ pc' = "return"
  /\ UNCHANGED <<media, initialized, flush, bounds, faults, spoilt>>

Unlink ==
  /\ pc = "deleted"
  /\ list' = RemoveAt(list, cur) /\ BeIdle
  /\ UNCHANGED <<media, initialized, bounds, faults, spoilt>>

-----------------------------------------------------------------------------
Writing ==
  \/ pc \in {"edit", "invalidate", "data", "describe"}
  \/ pc = "finish" /\ (File.name # File.desc.name \/ File.size # File.desc.size)
  \/ pc = "delete" /\ OnDisk(File)

(* Power is lost, and the next boot starts without a list.                 *)
PowerLoss ==
  /\ losses < MaxPowerLosses /\ losses' = losses + 1
  /\ IF Writing THEN Torn /\ Spoil(Irregular) ELSE UNCHANGED <<media, spoilt>>
  /\ initialized' = FALSE /\ list' = <<>>
  /\ BeIdle
  /\ UNCHANGED <<calls, faults>>

Init ==
  /\ media \in InitialMedia
  /\ initialized = FALSE /\ list = <<>>
  /\ pc = "idle" /\ cur = 0 /\ then = "flush" /\ start = 0 /\ end = 0 /\ r = 0
  /\ calls = 0 /\ faults = 0 /\ losses = 0
  /\ spoilt = {}

Callers ==
  \/ Initialize
  \/ \E n \in Names, mode \in {"read", "write", "create"} : OpenFile(n, mode)
  \/ \E i \in DOMAIN list :
       \/ \E len \in Lengths, v \in Payloads : WriteFile(i, len, v)
       \/ \E p \in Positions : SetPosition(i, p)
       \/ \E n \in Lengths : SetFileSize(i, n)
       \/ Flush(i) \/ CloseFile(i) \/ ReadFile(i) \/ Delete(i)
  \/ FlushDirectory

Step ==
  \/ Enter \/ EmptyRegion \/ NextRegion \/ WriteEdit \/ InvalidateImageDescription \/ WriteData
  \/ WriteFileDescription \/ Finish \/ Return \/ DeleteFile \/ Unlink

Next == Callers \/ Step \/ PowerLoss

Spec == Init /\ [][Next]_vars
FairSpec == Spec /\ WF_vars(Step)

-----------------------------------------------------------------------------
(* Properties.                                                             *)

Reasons == {"scan", "length", "order", "exact", "moved", "failed"}

Texts == Payloads \cup {Zero, Erased, Garbage} \cup Description

(* Types of the variables.                                                 *)
TypeOK ==
  /\ media \in [Units -> Payloads \cup {Zero, Erased} \cup Description]
  /\ initialized \in BOOLEAN
  /\ \A k \in DOMAIN list :
       /\ list[k].desc \in Description \cup {NoDesc}
       /\ list[k].name \in Names \cup {NoName} /\ (list[k].open => list[k].name \in Names)
       /\ list[k].addr = 0 <=> ~OnDisk(list[k])
       /\ \A j \in DOMAIN list[k].regions : list[k].regions[j].len \in Nat
       /\ \A j \in DOMAIN list[k].text : list[k].text[j] \in Texts
  /\ pc \in {"idle", "enter", "region", "edit", "invalidate", "data", "describe",
             "finish", "return", "delete", "deleted"}
  /\ pc # "idle" => cur \in DOMAIN list
  /\ then \in {"flush", "close", "read", "directory", "delete"}
  /\ start \in Nat /\ end \in Nat /\ r \in Nat
  /\ calls \in 0 .. MaxCalls /\ faults \in 0 .. MaxFaults
  /\ losses \in 0 .. MaxPowerLosses /\ spoilt \subseteq Reasons

Extent(d) == d.first * BlockUnits .. (d.last + 1) * BlockUnits - 1

(* Files lie apart, inside the medium, under different names: also after   *)
(* failed writes and after losses of power, as long as nothing else of     *)
(* what the driver is not made for happened.                               *)
FilesApart ==
  spoilt \subseteq {"failed"} =>
    \A k \in DiskIndices :
      /\ Extent(list[k].desc) \subseteq Units
      /\ \A j \in DiskIndices \ {k} :
           /\ Extent(list[j].desc) \cap Extent(list[k].desc) = {}
           /\ list[j].desc.name # list[k].desc.name

(* Whatever is done to one file, also when it fails or power is lost in    *)
(* it, no unit of the blocks of another file changes.                      *)
OthersIntact ==
  [][spoilt' \subseteq {"failed"} =>
       \A k \in DiskIndices \ {cur} :
         \A u \in Extent(list[k].desc) : media'[u] = media[u]]_vars

(* A boot after this state finds the files of the list, each once, but for *)
(* the one whose description is invalid while it grows: a description in   *)
(* memory "is a mirror in RAM of what is on the media".                    *)
ScanFindsList ==
  initialized /\ spoilt = {} =>
    {media[DescUnit(b)] : b \in {c \in Blocks : BootMonFsIsImageValid(media, c)}}
      = {list[k].desc : k \in DiskIndices \ (IF pc \in {"data", "describe", "deleted"} THEN {cur} ELSE {})}

(* What was written and flushed is on the medium, at its place in the file,*)
(* whatever the order in which regions, sizes and positions were set.      *)
StoredAsWritten ==
  spoilt = {} /\ pc \notin {"delete", "deleted"} =>
    \A k \in DiskIndices :
      list[k].regions = <<>> =>
        \A u \in 1 .. Smaller(Len(list[k].text), list[k].desc.size) :
          list[k].text[u] \in {Garbage, media[list[k].desc.first * BlockUnits + u - 1]}

(* Every call returns unless power is lost.                                *)
Terminates == pc # "idle" ~> pc = "idle"

(* "The file list must be in disk-order" (BootMonFsOpenClose.c:193).       *)
DiskOrder == InOrder
=============================================================================
