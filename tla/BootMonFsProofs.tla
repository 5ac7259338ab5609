--------------------------- MODULE BootMonFsProofs ---------------------------
(***************************************************************************)
(* The boot monitor file system, for any medium, names, lengths and        *)
(* numbers of faults: files lie apart; no flush, also one that fails or is *)
(* cut short, reaches into another file; what was flushed is on the        *)
(* medium, where the next boot finds it; and every variable keeps its type *)
(* whatever went wrong.                                                    *)
(***************************************************************************)
EXTENDS BootMonFs, TLAPS, FiniteSetTheorems, SequenceTheorems, WellFoundedInduction

-----------------------------------------------------------------------------
(* Units and blocks.                                                       *)

LEMMA BlockSize == BlockUnits \in Nat /\ BlockUnits > 1 /\ LastBlock \in Nat
BY ConstantsAssumption

LEMMA Monotone ==
  ASSUME NEW a \in Nat, NEW b \in Nat, a <= b
  PROVE  a * BlockUnits \in Nat /\ a * BlockUnits <= b * BlockUnits
BY BlockSize

LEMMA Successor ==
  ASSUME NEW a \in Nat PROVE (a + 1) * BlockUnits = a * BlockUnits + BlockUnits
BY BlockSize

LEMMA Division ==
  ASSUME NEW u \in Nat
  PROVE  /\ u \div BlockUnits \in Nat
         /\ (u \div BlockUnits) * BlockUnits <= u
         /\ u < (u \div BlockUnits) * BlockUnits + BlockUnits
BY BlockSize

LEMMA BlockOf ==
  ASSUME NEW u \in Nat, NEW b \in Nat, b * BlockUnits <= u, u < b * BlockUnits + BlockUnits
  PROVE  u \div BlockUnits = b
<1> DEFINE c == u \div BlockUnits
<1>1. c \in Nat /\ c * BlockUnits <= u /\ u < c * BlockUnits + BlockUnits
  BY Division
<1> HIDE DEF c
<1>2. CASE c < b
  <2>1. (c + 1) * BlockUnits <= b * BlockUnits BY <1>1, <1>2, Monotone
  <2> QED BY <2>1, <1>1, Successor, BlockSize
<1>3. CASE b < c
  <2>1. (b + 1) * BlockUnits <= c * BlockUnits BY <1>1, <1>3, Monotone
  <2> QED BY <2>1, <1>1, Successor, BlockSize
<1> QED BY <1>1, <1>2, <1>3 DEF c

\* A unit is in the blocks from lo to hi if it is in their units.
LEMMA InBlocks ==
  ASSUME NEW u \in Nat, NEW lo \in Nat, NEW hi \in Nat
  PROVE  u \div BlockUnits \in lo .. hi <=> lo * BlockUnits <= u /\ u < (hi + 1) * BlockUnits
<1> DEFINE c == u \div BlockUnits
<1>1. c \in Nat /\ c * BlockUnits <= u /\ u < c * BlockUnits + BlockUnits
  BY Division
<1> HIDE DEF c
<1>2. ASSUME c \in lo .. hi PROVE lo * BlockUnits <= u /\ u < (hi + 1) * BlockUnits
  <2>1. lo * BlockUnits <= c * BlockUnits BY <1>1, <1>2, Monotone
  <2>2. (c + 1) * BlockUnits <= (hi + 1) * BlockUnits BY <1>1, <1>2, Monotone
  <2>3. lo * BlockUnits \in Nat /\ c * BlockUnits \in Nat /\ (hi + 1) * BlockUnits \in Nat
    BY <1>1, BlockSize
  <2> QED BY <2>1, <2>2, <2>3, <1>1, Successor, BlockSize
<1>3. ASSUME c < lo PROVE ~(lo * BlockUnits <= u)
  <2>1. (c + 1) * BlockUnits <= lo * BlockUnits BY <1>1, <1>3, Monotone
  <2>2. lo * BlockUnits \in Nat /\ c * BlockUnits \in Nat BY <1>1, BlockSize
  <2> QED BY <2>1, <2>2, <1>1, Successor, BlockSize
<1>4. ASSUME hi < c PROVE ~(u < (hi + 1) * BlockUnits)
  <2>1. (hi + 1) * BlockUnits <= c * BlockUnits BY <1>1, <1>4, Monotone
  <2>2. (hi + 1) * BlockUnits \in Nat /\ c * BlockUnits \in Nat BY <1>1, BlockSize
  <2> QED BY <2>1, <2>2, <1>1, BlockSize
<1> QED BY <1>1, <1>2, <1>3, <1>4 DEF c

LEMMA UnitsOfBlocks ==
  ASSUME NEW u \in Nat PROVE u \in Units <=> u \div BlockUnits \in Blocks
<1>1. EndOfMedia = (LastBlock + 1) * BlockUnits BY DEF EndOfMedia
<1>2. EndOfMedia \in Nat BY BlockSize DEF EndOfMedia
<1>3. 0 * BlockUnits = 0 BY BlockSize
<1> QED BY <1>1, <1>2, <1>3, InBlocks, BlockSize DEF Units, Blocks

\* The unit of the description of the image that ends in a block.
LEMMA DescUnits ==
  ASSUME NEW b \in Nat
  PROVE  /\ DescUnit(b) \in Nat \ {0}
         /\ DescUnit(b) \div BlockUnits = b
         /\ b \in Blocks => DescUnit(b) \in Units
<1>1. DescUnit(b) = b * BlockUnits + BlockUnits - 1 BY Successor, BlockSize DEF DescUnit
<1>2. b * BlockUnits \in Nat BY BlockSize
<1>3. DescUnit(b) \in Nat \ {0} BY <1>1, <1>2, BlockSize
<1>4. DescUnit(b) \div BlockUnits = b BY <1>1, <1>2, <1>3, BlockOf, BlockSize
<1> QED BY <1>3, <1>4, UnitsOfBlocks

LEMMA BlockStart ==
  ASSUME NEW b \in Nat
  PROVE  b * BlockUnits \in Nat /\ (b * BlockUnits) \div BlockUnits = b
<1>1. b * BlockUnits \in Nat BY BlockSize
<1> QED BY <1>1, BlockOf, BlockSize

\* What n units and a description take from the start of a block.
LEMMA Taken ==
  ASSUME NEW q \in Nat, NEW p \in Nat, NEW n \in Nat,
         q * BlockUnits + n + 1 <= p * BlockUnits
  PROVE  q + (n \div BlockUnits) < p
<1> DEFINE c == n \div BlockUnits
<1>1. c \in Nat /\ c * BlockUnits <= n BY Division
<1>2. q * BlockUnits \in Nat /\ p * BlockUnits \in Nat /\ c * BlockUnits \in Nat
  BY <1>1, BlockSize
<1> HIDE DEF c
<1>3. (q + c) * BlockUnits = q * BlockUnits + c * BlockUnits BY <1>1, BlockSize
<1>4. CASE p <= q + c
  <2>1. p * BlockUnits <= (q + c) * BlockUnits BY <1>1, <1>4, Monotone
  <2> QED BY <2>1, <1>1, <1>2, <1>3
<1> QED BY <1>1, <1>4 DEF c

LEMMA NotExact ==
  ASSUME NEW n \in Nat, (n + 1) % BlockUnits # 0
  PROVE  (n + 1) \div BlockUnits = n \div BlockUnits
<1> DEFINE c == (n + 1) \div BlockUnits
<1>1. c \in Nat /\ c * BlockUnits <= n + 1 /\ n + 1 < c * BlockUnits + BlockUnits
  BY Division
<1>2. c * BlockUnits # n + 1 BY BlockSize
<1> HIDE DEF c
<1>3. c * BlockUnits \in Nat BY <1>1, BlockSize
<1>4. n \div BlockUnits = c BY <1>1, <1>2, <1>3, BlockOf, BlockSize
<1> QED BY <1>4 DEF c

LEMMA DivisionMonotone ==
  ASSUME NEW a \in Nat, NEW b \in Nat, a <= b
  PROVE  a \div BlockUnits <= b \div BlockUnits
<1> DEFINE c == a \div BlockUnits  d == b \div BlockUnits
<1>1. /\ c \in Nat /\ c * BlockUnits <= a
      /\ d \in Nat /\ b < d * BlockUnits + BlockUnits
  BY Division
<1> HIDE DEF c, d
<1>2. CASE d < c
  <2>1. (d + 1) * BlockUnits <= c * BlockUnits BY <1>1, <1>2, Monotone
  <2>2. d * BlockUnits \in Nat /\ c * BlockUnits \in Nat BY <1>1, BlockSize
  <2> QED BY <2>1, <2>2, <1>1, Successor, BlockSize
<1> QED BY <1>1, <1>2 DEF c, d

\* The units of the first n + 1 units from the start of block q.
LEMMA UnitsTaken ==
  ASSUME NEW q \in Nat, NEW n \in Nat, NEW u \in Nat,
         q * BlockUnits <= u, u <= q * BlockUnits + n
  PROVE  u \div BlockUnits \in q .. q + (n \div BlockUnits)
<1> DEFINE c == n \div BlockUnits
<1>1. c \in Nat /\ n < c * BlockUnits + BlockUnits BY Division
<1> HIDE DEF c
<1>2. (q + c) \in Nat /\ (q + c) * BlockUnits = q * BlockUnits + c * BlockUnits
  BY <1>1, BlockSize
<1>3. q * BlockUnits \in Nat /\ c * BlockUnits \in Nat BY <1>1, BlockSize
<1>4. u < (q + c + 1) * BlockUnits
  BY <1>1, <1>2, <1>3, Successor, BlockSize
<1>5. u \div BlockUnits \in q .. q + c BY <1>2, <1>4, InBlocks
<1> QED BY <1>5 DEF c
-----------------------------------------------------------------------------
(* The inductive invariant.  It speaks of the volume as long as nothing    *)
(* but failed writes happened of what the driver is not made for.          *)

Cells == Payloads \cup {Zero, Erased} \cup Description
Pending == [off : Nat, len : Nat, val : Payloads \cup {Zero}]
FileRecords ==
  [desc : Description \cup {NoDesc}, addr : Nat, open : BOOLEAN, name : Names \cup {NoName},
   size : Nat, pos : Nat, write : BOOLEAN, regions : Seq(Pending), text : Seq(Texts)]

\* The size of a file that is open is the length of its text, and all its
\* pending regions end in it.
FileOK(f) ==
  /\ f \in FileRecords
  /\ f.addr = IF OnDisk(f) THEN DescUnit(f.desc.last) ELSE 0
  /\ f.open => f.name \in Names /\ f.size = Len(f.text)
  /\ f.open /\ OnDisk(f) => f.name = f.desc.name
  /\ \A j \in DOMAIN f.regions : f.regions[j].off + f.regions[j].len <= Len(f.text)

Disk(L) == {k \in DOMAIN L : OnDisk(L[k])}
Fitting(d) ==
  d.last \in Blocks /\ d.first <= d.last /\ d.size + 1 <= (d.last - d.first + 1) * BlockUnits
Apart(d, e) == d.last < e.first \/ e.last < d.first

FilesLie(L) ==
  \A k \in Disk(L) :
    Fitting(L[k].desc) /\ \A j \in Disk(L) \ {k} : Apart(L[j].desc, L[k].desc)

NamesDiffer(L) ==
  \A j, k \in DOMAIN L :
    j # k /\ EffectiveName(L[j]) = EffectiveName(L[k]) => EffectiveName(L[j]) = NoName

VolumeOK(L) ==
  /\ L \in Seq(FileRecords) /\ \A k \in DOMAIN L : FileOK(L[k])
  /\ FilesLie(L) /\ NamesDiffer(L)

\* Every image on the medium is that of a file of the list.
Matches(m, L) ==
  \A b \in Blocks :
    BootMonFsIsImageValid(m, b) =>
      \E k \in Disk(L) :
        /\ L[k].desc.last = b
        /\ L[k].desc.first = m[DescUnit(b)].first
        /\ L[k].desc.name = m[DescUnit(b)].name

MediumOK(m) == m \in [Units -> Cells] /\ ImagesApart(m)

\* No file but the c-th has a block in lo .. hi.
Clear(L, c, lo, hi) ==
  \A j \in Disk(L) \ {c} : L[j].desc.last < lo \/ hi < L[j].desc.first
Room(L, c, lo, hi) == hi \in Blocks /\ Clear(L, c, lo, hi)

ControlOK ==
  /\ initialized \in BOOLEAN
  /\ pc \in {"idle", "enter", "region", "edit", "invalidate", "data", "describe",
             "finish", "return", "delete", "deleted"}
  /\ pc # "idle" => cur \in DOMAIN list
  /\ ~initialized => list = <<>> /\ pc = "idle"
  /\ start \in Nat /\ end \in Nat /\ r \in Nat

\* The file being flushed stays where it is, a new one where there is room
\* for all of it, and edits end before its description.
Block == start \div BlockUnits
FlushingOK ==
  /\ start = Block * BlockUnits /\ r > 0 /\ File.open
  /\ OnDisk(File) => Block = File.desc.first /\ end + 1 <= (File.desc.last + 1) * BlockUnits
  /\ ~OnDisk(File) => end = start /\ Room(list, cur, Block, Block + (File.size \div BlockUnits))

\* The region in turn has room, and the description before is invalid when
\* its blocks are written.
RegionOK ==
  /\ r <= Len(File.regions)
  /\ Room(list, cur, Block, Block + ((Region.off + Region.len) \div BlockUnits))
EditOK == r <= Len(File.regions) /\ start + Region.off + Region.len < end
DescriptionInvalid == OnDisk(File) => ~BootMonFsIsImageValid(media, File.desc.last)

FlushOK ==
  /\ pc \in {"region", "edit", "invalidate", "data", "describe", "finish"} => FlushingOK
  /\ pc = "edit" => EditOK
  /\ pc \in {"invalidate", "data", "describe"} => RegionOK
  /\ pc = "invalidate" => OnDisk(File)
  /\ pc \in {"data", "describe", "deleted"} => DescriptionInvalid

Good == spoilt \subseteq {"failed"}
VolumeInv ==
  /\ MediumOK(media) /\ ControlOK
  /\ initialized => VolumeOK(list) /\ Matches(media, list)
  /\ FlushOK
IInv == Good => VolumeInv
-----------------------------------------------------------------------------
(* What the list may become.                                               *)

\* M is L with f as its i-th file.
Replaced(L, i, f, M) ==
  /\ M \in Seq(FileRecords) /\ DOMAIN M = DOMAIN L
  /\ \A k \in DOMAIN L : M[k] = IF k = i THEN f ELSE L[k]

\* A file of the list changes, but not its place.
LEMMA UpdateKeeps ==
  ASSUME NEW L, VolumeOK(L), NEW i \in DOMAIN L, NEW f, FileOK(f), f.desc = L[i].desc,
         EffectiveName(f) \in {NoName, EffectiveName(L[i])},
         NEW M, Replaced(L, i, f, M)
  PROVE  /\ VolumeOK(M)
         /\ DOMAIN M = DOMAIN L /\ Disk(M) = Disk(L)
         /\ \A k \in DOMAIN L : M[k].desc = L[k].desc
         /\ \A m : Matches(m, L) => Matches(m, M)
         /\ \A c, lo, hi : Clear(L, c, lo, hi) => Clear(M, c, lo, hi)
<1>1. L \in Seq(FileRecords) /\ f \in FileRecords BY DEF VolumeOK, FileOK
<1>2. M \in Seq(FileRecords) /\ DOMAIN M = DOMAIN L BY DEF Replaced
<1>3. \A k \in DOMAIN L : M[k] = IF k = i THEN f ELSE L[k] BY DEF Replaced
<1>4. \A k \in DOMAIN L : M[k].desc = L[k].desc BY <1>3
<1>5. Disk(M) = Disk(L) BY <1>2, <1>4 DEF Disk, OnDisk
<1>6. \A k \in DOMAIN M : FileOK(M[k]) BY <1>2, <1>3 DEF VolumeOK
<1>7. FilesLie(M)
  <2>1. Disk(M) \subseteq DOMAIN L BY <1>2 DEF Disk
  <2> QED BY <1>4, <1>5, <2>1 DEF FilesLie, VolumeOK
<1>8. NamesDiffer(M)
  <2>1. \A k \in DOMAIN L : EffectiveName(M[k]) \in {NoName, EffectiveName(L[k])} BY <1>3
  <2>2. NamesDiffer(L) BY DEF VolumeOK
  <2> HIDE DEF EffectiveName
  <2> QED BY <1>2, <2>1, <2>2 DEF NamesDiffer
<1>9. \A m : Matches(m, L) => Matches(m, M)
  <2>1. Disk(L) \subseteq DOMAIN L BY DEF Disk
  <2> QED BY <1>4, <1>5, <2>1 DEF Matches
<1>10. \A c, lo, hi : Clear(L, c, lo, hi) => Clear(M, c, lo, hi)
  <2>1. Disk(L) \subseteq DOMAIN L BY DEF Disk
  <2> QED BY <1>4, <1>5, <2>1 DEF Clear
<1> QED BY <1>2, <1>4, <1>5, <1>6, <1>7, <1>8, <1>9, <1>10 DEF VolumeOK

\* Some of the files of the list, each once.
LEMMA SelectionKeeps ==
  ASSUME NEW L, VolumeOK(L), NEW M \in Seq(FileRecords), NEW p \in [DOMAIN M -> DOMAIN L],
         \A k \in DOMAIN M : M[k] = L[p[k]],
         \A j, k \in DOMAIN M : j # k => p[j] # p[k]
  PROVE  VolumeOK(M)
<1>1. \A k \in DOMAIN M : FileOK(M[k]) BY DEF VolumeOK
<1>2. \A k \in Disk(M) : p[k] \in Disk(L) BY DEF Disk
<1>3. FilesLie(M)
  <2>1. Disk(M) \subseteq DOMAIN M BY DEF Disk
  <2>2. FilesLie(L) BY DEF VolumeOK
  <2> QED BY <1>2, <2>1, <2>2 DEF FilesLie
<1>4. NamesDiffer(M)
  <2>1. NamesDiffer(L) BY DEF VolumeOK
  <2> QED BY <2>1 DEF NamesDiffer
<1> QED BY <1>1, <1>3, <1>4 DEF VolumeOK

\* All files of the list in another order.
LEMMA OrderKeeps ==
  ASSUME NEW L, VolumeOK(L), NEW M \in Seq(FileRecords), NEW p \in [DOMAIN M -> DOMAIN L],
         \A k \in DOMAIN M : M[k] = L[p[k]],
         \A j, k \in DOMAIN M : j # k => p[j] # p[k],
         \A k \in DOMAIN L : \E j \in DOMAIN M : p[j] = k
  PROVE  /\ VolumeOK(M)
         /\ \A m : Matches(m, L) => Matches(m, M)
         /\ \A c \in DOMAIN M : \A lo, hi : Clear(L, p[c], lo, hi) => Clear(M, c, lo, hi)
<1>1. VolumeOK(M) BY SelectionKeeps
<1>2. \A j \in DOMAIN M : p[j] \in Disk(L) <=> j \in Disk(M) BY DEF Disk
<1>3. Disk(M) \subseteq DOMAIN M /\ Disk(L) \subseteq DOMAIN L BY DEF Disk
<1>4. ASSUME NEW m, Matches(m, L), NEW b \in Blocks, BootMonFsIsImageValid(m, b)
      PROVE  \E k \in Disk(M) :
               /\ M[k].desc.last = b
               /\ M[k].desc.first = m[DescUnit(b)].first
               /\ M[k].desc.name = m[DescUnit(b)].name
  <2>1. PICK k \in Disk(L) :
               /\ L[k].desc.last = b
               /\ L[k].desc.first = m[DescUnit(b)].first
               /\ L[k].desc.name = m[DescUnit(b)].name
    BY <1>4 DEF Matches
  <2>2. PICK j \in DOMAIN M : p[j] = k BY <1>3
  <2> QED BY <1>2, <2>1, <2>2
<1>5. \A m : Matches(m, L) => Matches(m, M) BY <1>4 DEF Matches
<1>6. \A c \in DOMAIN M : \A lo, hi : Clear(L, p[c], lo, hi) => Clear(M, c, lo, hi)
  BY <1>2, <1>3 DEF Clear
<1> QED BY <1>1, <1>5, <1>6

LEMMA Parts ==
  ASSUME NEW S, NEW s \in Seq(S), NEW a \in Nat \ {0}, NEW b \in 0 .. Len(s), a <= b + 1
  PROVE  /\ SubSeq(s, a, b) \in Seq(S) /\ Len(SubSeq(s, a, b)) = b + 1 - a
         /\ \A k \in 1 .. b + 1 - a : SubSeq(s, a, b)[k] = s[a + k - 1]
OBVIOUS

LEMMA Joined ==
  ASSUME NEW S, NEW s \in Seq(S), NEW t \in Seq(S)
  PROVE  /\ s \o t \in Seq(S) /\ Len(s \o t) = Len(s) + Len(t)
         /\ \A k \in 1 .. Len(s) + Len(t) :
              (s \o t)[k] = IF k <= Len(s) THEN s[k] ELSE t[k - Len(s)]
OBVIOUS

LEMMA Without ==
  ASSUME NEW S, NEW s \in Seq(S), NEW i \in 1 .. Len(s), NEW t, t = RemoveAt(s, i)
  PROVE  /\ t \in Seq(S) /\ Len(t) = Len(s) - 1
         /\ \A k \in 1 .. Len(s) - 1 : t[k] = IF k < i THEN s[k] ELSE s[k + 1]
<1> DEFINE v == SubSeq(s, 1, i - 1)  w == SubSeq(s, i + 1, Len(s))
<1>1. Len(s) \in Nat OBVIOUS
<1>2. v \in Seq(S) /\ Len(v) = i - 1 /\ \A k \in 1 .. i - 1 : v[k] = s[k] BY <1>1, Parts
<1>3. w \in Seq(S) /\ Len(w) = Len(s) - i /\ \A k \in 1 .. Len(s) - i : w[k] = s[i + k]
  BY <1>1, Parts
<1>4. t = v \o w BY DEF RemoveAt
<1> HIDE DEF v, w
<1>5. v \o w \in Seq(S) /\ Len(v \o w) = Len(v) + Len(w)
      /\ \A k \in 1 .. Len(v) + Len(w) : (v \o w)[k] = IF k <= Len(v) THEN v[k] ELSE w[k - Len(v)]
  BY <1>2, <1>3, Joined
<1> QED BY <1>1, <1>2, <1>3, <1>4, <1>5

\* The list when the i-th of its files was linked at another place.
LinkMap(n, i, to) ==
  [k \in 1 .. n |-> IF k = to THEN i
                    ELSE LET h == IF k < to THEN k ELSE k - 1 IN IF h < i THEN h ELSE h + 1]

\* The k-th of t is the p[k]-th of s.
Reordering(s, t, p) ==
  /\ p \in [DOMAIN t -> DOMAIN s]
  /\ \A k \in DOMAIN t : t[k] = s[p[k]]
  /\ \A j, k \in DOMAIN t : j # k => p[j] # p[k]
  /\ \A k \in DOMAIN s : \E j \in DOMAIN t : p[j] = k

LEMMA Linked ==
  ASSUME NEW S, NEW s \in Seq(S), NEW i \in DOMAIN s, NEW to \in DOMAIN s,
         NEW t, t = InsertAt(RemoveAt(s, i), to, s[i]),
         NEW p, p = LinkMap(Len(s), i, to)
  PROVE  t \in Seq(S) /\ DOMAIN t = DOMAIN s /\ p[to] = i /\ Reordering(s, t, p)
<1>0. DOMAIN s = 1 .. Len(s) /\ i \in 1 .. Len(s) /\ to \in 1 .. Len(s) /\ Len(s) \in Nat OBVIOUS
<1> DEFINE u == RemoveAt(s, i)
<1>1. u \in Seq(S) /\ Len(u) = Len(s) - 1
      /\ \A k \in 1 .. Len(s) - 1 : u[k] = IF k < i THEN s[k] ELSE s[k + 1]
  BY <1>0, Without
<1> HIDE DEF u
<1>2. t = SubSeq(u, 1, to - 1) \o <<s[i]>> \o SubSeq(u, to, Len(u)) BY DEF InsertAt, u
<1>3. t \in Seq(S) /\ Len(t) = Len(s)
      /\ \A k \in 1 .. Len(s) : t[k] = IF k < to THEN u[k] ELSE IF k = to THEN s[i] ELSE u[k - 1]
  <2>1. s[i] \in S BY <1>0
  <2> DEFINE v == SubSeq(u, 1, to - 1)  w == SubSeq(u, to, Len(u))
  <2>2. v \in Seq(S) /\ Len(v) = to - 1 /\ \A k \in 1 .. to - 1 : v[k] = u[k] BY <1>0, <1>1
  <2>3. w \in Seq(S) /\ Len(w) = Len(s) - to
        /\ \A k \in 1 .. Len(s) - to : w[k] = u[k + to - 1]
    BY <1>0, <1>1
  <2> HIDE DEF v, w
  <2>4. t = v \o <<s[i]>> \o w BY <1>2 DEF v, w
  <2>5. <<s[i]>> \in Seq(S) /\ Len(<<s[i]>>) = 1 /\ <<s[i]>>[1] = s[i] BY <2>1
  <2> DEFINE x == v \o <<s[i]>>
  <2>6. x \in Seq(S) /\ Len(x) = to
        /\ \A k \in 1 .. to : x[k] = IF k < to THEN u[k] ELSE s[i]
    BY <1>0, <2>2, <2>5, Joined
  <2>7. t = x \o w BY <2>4
  <2> HIDE DEF x
  <2>8. x \o w \in Seq(S) /\ Len(x \o w) = Len(x) + Len(w)
        /\ \A k \in 1 .. Len(x) + Len(w) : (x \o w)[k] = IF k <= Len(x) THEN x[k] ELSE w[k - Len(x)]
    BY <2>3, <2>6, Joined
  <2> QED BY <1>0, <2>3, <2>6, <2>7, <2>8
<1>9. p = [k \in 1 .. Len(s) |->
             IF k = to THEN i
             ELSE LET h == IF k < to THEN k ELSE k - 1 IN IF h < i THEN h ELSE h + 1]
  BY DEF LinkMap
<1>4. p \in [1 .. Len(s) -> 1 .. Len(s)] BY <1>0, <1>9
<1>5. p[to] = i BY <1>0, <1>9
<1>6. \A k \in 1 .. Len(s) : t[k] = s[p[k]] BY <1>0, <1>1, <1>3, <1>9
<1>7. \A j, k \in 1 .. Len(s) : j # k => p[j] # p[k] BY <1>0, <1>9
<1>8. ASSUME NEW k \in 1 .. Len(s) PROVE \E j \in 1 .. Len(s) : p[j] = k
  <2> DEFINE h == IF k < i THEN k ELSE k - 1
             j == IF k = i THEN to ELSE IF h < to THEN h ELSE h + 1
  <2>1. j \in 1 .. Len(s) /\ p[j] = k BY <1>0, <1>9
  <2> QED BY <2>1
<1>10. DOMAIN t = 1 .. Len(s) BY <1>3
<1>11. Reordering(s, t, p) BY <1>0, <1>4, <1>6, <1>7, <1>8, <1>10 DEF Reordering
<1> QED BY <1>0, <1>3, <1>5, <1>10, <1>11

\* The k-th of t is the p[k]-th of s, and only the i-th of s is left out.
Remaining(s, t, i, p) ==
  /\ p \in [DOMAIN t -> DOMAIN s]
  /\ \A k \in DOMAIN t : t[k] = s[p[k]] /\ p[k] # i
  /\ \A j, k \in DOMAIN t : j # k => p[j] # p[k]
  /\ \A k \in DOMAIN s \ {i} : \E j \in DOMAIN t : p[j] = k

\* The list without its i-th file.
LEMMA Removed ==
  ASSUME NEW S, NEW s \in Seq(S), NEW i \in 1 .. Len(s), NEW t, t = RemoveAt(s, i)
  PROVE  t \in Seq(S) /\ \E p : Remaining(s, t, i, p)
<1>1. t \in Seq(S) /\ Len(t) = Len(s) - 1
      /\ \A k \in 1 .. Len(s) - 1 : t[k] = IF k < i THEN s[k] ELSE s[k + 1]
  BY Without
<1> DEFINE p == [k \in DOMAIN t |-> IF k < i THEN k ELSE k + 1]
<1>2. DOMAIN t = 1 .. Len(s) - 1 BY <1>1
<1>3. p \in [DOMAIN t -> 1 .. Len(s)] BY <1>2
<1>4. \A k \in DOMAIN t : t[k] = s[p[k]] /\ p[k] # i BY <1>1, <1>2
<1>5. \A j, k \in DOMAIN t : j # k => p[j] # p[k] BY <1>2
<1>6. ASSUME NEW k \in (1 .. Len(s)) \ {i} PROVE \E j \in DOMAIN t : p[j] = k
  <2> DEFINE j == IF k < i THEN k ELSE k - 1
  <2>1. j \in DOMAIN t /\ p[j] = k BY <1>2
  <2> QED BY <2>1
<1>7. Remaining(s, t, i, p) BY <1>3, <1>4, <1>5, <1>6 DEF Remaining
<1> QED BY <1>1, <1>7
-----------------------------------------------------------------------------
(* What the medium may become.                                             *)

Plain == Payloads \cup {Zero, Erased}

LEMMA Descriptions ==
  /\ \A d \in Description : d # NoDesc /\ d \notin Plain
                            /\ d.name \in Names /\ d.first \in Nat /\ d.last \in Nat /\ d.size \in Nat
  /\ \A d \in Cells \ Plain : d \in Description
  /\ NoName \notin Names
BY ConstantsAssumption DEF Description, NoDesc, Plain, Cells

LEMMA FileOnDisk ==
  ASSUME NEW f, FileOK(f), OnDisk(f)
  PROVE  /\ f.desc \in Description /\ f.addr = DescUnit(f.desc.last)
         /\ EffectiveName(f) = f.desc.name /\ EffectiveName(f) # NoName
<1>1. f.desc \in Description BY DEF FileOK, FileRecords, OnDisk
<1>2. EffectiveName(f) = f.desc.name BY DEF FileOK, EffectiveName
<1> QED BY <1>1, <1>2, Descriptions DEF FileOK

LEMMA ValidImage ==
  ASSUME NEW m \in [Units -> Cells], NEW b \in Blocks, BootMonFsIsImageValid(m, b)
  PROVE  /\ m[DescUnit(b)] \in Description
         /\ m[DescUnit(b)].last = b /\ m[DescUnit(b)].first <= b
<1>1. b \in Nat BY BlockSize DEF Blocks
<1>2. DescUnit(b) \in Units BY <1>1, DescUnits
<1>3. m[DescUnit(b)] \notin Plain BY DEF BootMonFsIsImageValid, Plain
<1> QED BY <1>2, <1>3, Descriptions DEF BootMonFsIsImageValid

\* Images that are those of the files of a list lie apart as the files do.
LEMMA ImagesOfFiles ==
  ASSUME NEW L, VolumeOK(L), NEW m \in [Units -> Cells], Matches(m, L),
         \A b \in Blocks : BootMonFsIsImageValid(m, b) =>
           m[DescUnit(b)].size + 1 <= (b - m[DescUnit(b)].first + 1) * BlockUnits
  PROVE  ImagesApart(m)
<1>1. ASSUME NEW b \in Blocks, BootMonFsIsImageValid(m, b),
             NEW c \in Blocks, BootMonFsIsImageValid(m, c), c # b
      PROVE  /\ c < m[DescUnit(b)].first \/ b < m[DescUnit(c)].first
             /\ m[DescUnit(c)].name # m[DescUnit(b)].name
  <2>1. PICK k \in Disk(L) :
               /\ L[k].desc.last = b
               /\ L[k].desc.first = m[DescUnit(b)].first
               /\ L[k].desc.name = m[DescUnit(b)].name
    BY <1>1 DEF Matches
  <2>2. PICK j \in Disk(L) :
               /\ L[j].desc.last = c
               /\ L[j].desc.first = m[DescUnit(c)].first
               /\ L[j].desc.name = m[DescUnit(c)].name
    BY <1>1 DEF Matches
  <2>3. j # k BY <1>1, <2>1, <2>2
  <2>4. Apart(L[j].desc, L[k].desc) BY <2>3 DEF VolumeOK, FilesLie
  <2>5. j \in DOMAIN L /\ k \in DOMAIN L /\ OnDisk(L[j]) /\ OnDisk(L[k]) BY DEF Disk
  <2>6. FileOK(L[j]) /\ FileOK(L[k]) BY <2>5 DEF VolumeOK
  <2>7. /\ EffectiveName(L[j]) = L[j].desc.name /\ EffectiveName(L[j]) # NoName
        /\ EffectiveName(L[k]) = L[k].desc.name
    BY <2>5, <2>6, FileOnDisk
  <2>8. L[j].desc.name # L[k].desc.name
    BY <2>3, <2>5, <2>7 DEF VolumeOK, NamesDiffer
  <2> QED BY <2>1, <2>2, <2>4, <2>8 DEF Apart
<1> QED BY <1>1 DEF ImagesApart

\* Data and zeros only make images invalid.
LEMMA PlainKeeps ==
  ASSUME NEW m, MediumOK(m), NEW n \in [Units -> Cells],
         \A u \in Units : n[u] = m[u] \/ n[u] \in Plain
  PROVE  /\ MediumOK(n)
         /\ \A b \in Blocks : BootMonFsIsImageValid(n, b) =>
              BootMonFsIsImageValid(m, b) /\ n[DescUnit(b)] = m[DescUnit(b)]
         /\ \A L : Matches(m, L) => Matches(n, L)
<1>1. ASSUME NEW b \in Blocks, BootMonFsIsImageValid(n, b)
      PROVE  BootMonFsIsImageValid(m, b) /\ n[DescUnit(b)] = m[DescUnit(b)]
  <2>1. n[DescUnit(b)] \notin Plain BY <1>1 DEF BootMonFsIsImageValid, Plain
  <2>2. b \in Nat BY BlockSize DEF Blocks
  <2>3. n[DescUnit(b)] = m[DescUnit(b)] BY <2>1, <2>2, DescUnits
  <2> QED BY <1>1, <2>3 DEF BootMonFsIsImageValid
<1>2. ImagesApart(n)
  <2>1. ImagesApart(m) BY DEF MediumOK
  <2> QED BY <1>1, <2>1 DEF ImagesApart
<1>3. \A L : Matches(m, L) => Matches(n, L) BY <1>1 DEF Matches
<1> QED BY <1>1, <1>2, <1>3 DEF MediumOK

\* f with another description.
WithDescription(f, d, g) ==
  /\ g \in FileRecords /\ g.desc = d /\ g.addr = DescUnit(d.last)
  /\ g.open = f.open /\ g.name = f.name /\ g.size = f.size
  /\ g.regions = f.regions /\ g.text = f.text

\* The list and the medium when a description is written where there is
\* room, whether the write succeeds or not.
LEMMA DescribedKeeps ==
  ASSUME NEW L, VolumeOK(L), NEW m, MediumOK(m), Matches(m, L),
         NEW c \in DOMAIN L, L[c].open,
         NEW d \in Description, Fitting(d), d.name = L[c].name,
         OnDisk(L[c]) => /\ L[c].desc.first = d.first
                         /\ L[c].desc.last = d.last \/ ~BootMonFsIsImageValid(m, L[c].desc.last),
         Clear(L, c, d.first, d.last),
         NEW n \in [Units -> Cells],
         \A u \in Units : n[u] = m[u] \/ n[u] \in Plain \/ (u = DescUnit(d.last) /\ n[u] = d),
         NEW f, WithDescription(L[c], d, f), NEW M, Replaced(L, c, f, M)
  PROVE  VolumeOK(M) /\ Matches(n, M) /\ MediumOK(n)
<1>1. L \in Seq(FileRecords) /\ FileOK(L[c]) /\ L[c] \in FileRecords BY DEF VolumeOK, FileOK
<1>2. d # NoDesc /\ d.name \in Names /\ d.first \in Nat /\ d.last \in Nat /\ d.size \in Nat
  BY Descriptions
<1>3. DescUnit(d.last) \in Nat BY <1>2, DescUnits
<1>4. /\ f \in FileRecords /\ f.desc = d /\ f.addr = DescUnit(d.last)
      /\ f.open = L[c].open /\ f.name = L[c].name /\ f.size = L[c].size
      /\ f.regions = L[c].regions /\ f.text = L[c].text
  BY DEF WithDescription
<1>5. OnDisk(f) BY <1>2, <1>4 DEF OnDisk
<1>6. FileOK(f) BY <1>1, <1>4, <1>5 DEF FileOK
<1>7. M \in Seq(FileRecords) /\ DOMAIN M = DOMAIN L
      /\ \A k \in DOMAIN L : M[k] = IF k = c THEN f ELSE L[k]
  BY DEF Replaced
<1>8. Disk(M) = Disk(L) \cup {c} BY <1>5, <1>7 DEF Disk
<1>9. \A k \in Disk(M) : k \in DOMAIN L /\ M[k].desc = IF k = c THEN d ELSE L[k].desc
  BY <1>4, <1>7, <1>8 DEF Disk
<1>10. \A j \in Disk(M) \ {c} : j \in Disk(L) BY <1>8
<1>11. \A j \in Disk(L) \ {c} : Apart(L[j].desc, d) /\ Apart(d, L[j].desc)
  BY DEF Clear, Apart
<1>12. FilesLie(M)
  <2>1. FilesLie(L) BY DEF VolumeOK
  <2>2. \A k \in Disk(M) : Fitting(M[k].desc) BY <1>9, <1>10, <2>1 DEF FilesLie
  <2>3. ASSUME NEW k \in Disk(M), NEW j \in Disk(M) \ {k}
        PROVE  Apart(M[j].desc, M[k].desc)
    <3>1. CASE k = c
      <4>1. j \in Disk(L) \ {c} BY <3>1, <1>10
      <4> QED BY <3>1, <4>1, <1>9, <1>11
    <3>2. CASE j = c
      <4>1. k \in Disk(L) \ {c} BY <3>2, <1>10
      <4> QED BY <3>2, <4>1, <1>9, <1>11
    <3>3. CASE j # c /\ k # c
      <4>1. j \in Disk(L) /\ k \in Disk(L) BY <3>3, <1>10
      <4> QED BY <3>3, <4>1, <1>9, <2>1 DEF FilesLie
    <3> QED BY <3>1, <3>2, <3>3
  <2> QED BY <2>2, <2>3 DEF FilesLie
<1>13. NamesDiffer(M)
  <2>1. \A k \in DOMAIN L : EffectiveName(M[k]) = EffectiveName(L[k])
    BY <1>4, <1>7 DEF EffectiveName
  <2>2. NamesDiffer(L) BY DEF VolumeOK
  <2> QED BY <1>7, <2>1, <2>2 DEF NamesDiffer
<1>14. VolumeOK(M) BY <1>6, <1>7, <1>12, <1>13 DEF VolumeOK
<1>15. ASSUME NEW b \in Blocks, BootMonFsIsImageValid(n, b)
       PROVE  \/ b = d.last /\ n[DescUnit(b)] = d
              \/ BootMonFsIsImageValid(m, b) /\ n[DescUnit(b)] = m[DescUnit(b)]
  <2>1. n[DescUnit(b)] \notin Plain BY <1>15 DEF BootMonFsIsImageValid, Plain
  <2>2. b \in Nat BY BlockSize DEF Blocks
  <2>3. DescUnit(b) = DescUnit(d.last) => b = d.last BY <1>2, <2>2, DescUnits
  <2>4. \/ n[DescUnit(b)] = m[DescUnit(b)]
        \/ DescUnit(b) = DescUnit(d.last) /\ n[DescUnit(b)] = d
    BY <2>1, <2>2, DescUnits
  <2> QED BY <1>15, <2>3, <2>4 DEF BootMonFsIsImageValid
<1>16. Matches(n, M)
  <2> SUFFICES ASSUME NEW b \in Blocks, BootMonFsIsImageValid(n, b)
               PROVE  \E k \in Disk(M) :
                        /\ M[k].desc.last = b
                        /\ M[k].desc.first = n[DescUnit(b)].first
                        /\ M[k].desc.name = n[DescUnit(b)].name
    BY DEF Matches
  <2>1. CASE b = d.last /\ n[DescUnit(b)] = d BY <2>1, <1>8, <1>9
  <2>2. CASE BootMonFsIsImageValid(m, b) /\ n[DescUnit(b)] = m[DescUnit(b)]
    <3>1. PICK k \in Disk(L) :
                 /\ L[k].desc.last = b
                 /\ L[k].desc.first = m[DescUnit(b)].first
                 /\ L[k].desc.name = m[DescUnit(b)].name
      BY <2>2 DEF Matches
    <3>2. CASE k # c BY <3>1, <3>2, <2>2, <1>8, <1>9
    <3>3. CASE k = c
      <4>1. OnDisk(L[c]) BY <3>3 DEF Disk
      <4>2. L[c].desc.first = d.first /\ d.last = b BY <4>1, <3>1, <3>3, <2>2
      <4>3. L[c].desc.name = d.name BY <4>1, <1>1 DEF FileOK
      <4>4. c \in Disk(M) /\ M[c].desc = d BY <1>8, <1>9
      <4>5. d.first = n[DescUnit(b)].first /\ d.name = n[DescUnit(b)].name
        BY <3>1, <3>3, <4>2, <4>3, <2>2
      <4> QED BY <4>2, <4>4, <4>5
    <3> QED BY <3>2, <3>3
  <2> QED BY <2>1, <2>2, <1>15
<1>17. ASSUME NEW b \in Blocks, BootMonFsIsImageValid(n, b)
       PROVE  n[DescUnit(b)].size + 1 <= (b - n[DescUnit(b)].first + 1) * BlockUnits
  <2>1. CASE b = d.last /\ n[DescUnit(b)] = d BY <2>1 DEF Fitting
  <2>2. CASE BootMonFsIsImageValid(m, b) /\ n[DescUnit(b)] = m[DescUnit(b)]
    BY <2>2 DEF MediumOK, ImagesApart
  <2> QED BY <2>1, <2>2, <1>15, <1>17
<1>18. ImagesApart(n) BY <1>14, <1>16, <1>17, ImagesOfFiles
<1> QED BY <1>14, <1>16, <1>18 DEF MediumOK
-----------------------------------------------------------------------------
(* A write, whether it succeeds, fails or is cut short.                    *)

Outcome == (Affected \subseteq Units /\ media' = Image) \/ Torn

LEMMA Outcomes ==
  ASSUME media \in [Units -> Cells], Target \in Nat, Len(Content) \in Nat,
         \A k \in 1 .. Len(Content) : Content[k] \in Cells,
         Outcome
  PROVE  /\ media' \in [Units -> Cells]
         /\ \A u \in Units :
              \/ media'[u] = media[u]
              \/ /\ \E v \in Affected \cap Units : v \div BlockUnits = u \div BlockUnits
                 /\ media'[u] = Erased \/ (u \in Affected /\ media'[u] = Content[u - Target + 1])
<1>1. \A u \in Units : Image[u] = IF u \in Affected THEN Content[u - Target + 1] ELSE media[u]
  BY DEF Image
<1>2. \A u \in Affected : u - Target + 1 \in 1 .. Len(Content) BY DEF Affected
<1>3. Image \in [Units -> Cells]
  <2>1. \A u \in Units : Image[u] \in Cells BY <1>1, <1>2
  <2> QED BY <2>1 DEF Image
<1>4. CASE Affected \subseteq Units /\ media' = Image BY <1>1, <1>3, <1>4
<1>5. CASE Torn
  <2> DEFINE touched == {u \div BlockUnits : u \in Affected \cap Units}
  <2>1. PICK done \in SUBSET touched, lost \in SUBSET touched :
          media' = [u \in Units |->
                      IF u \div BlockUnits \in lost THEN Erased
                      ELSE IF u \div BlockUnits \in done THEN Image[u] ELSE media[u]]
    BY <1>5 DEF Torn
  <2>2. Erased \in Cells BY DEF Cells
  <2>3. media' \in [Units -> Cells] BY <2>1, <2>2, <1>3
  <2>4. ASSUME NEW u \in Units
        PROVE  \/ media'[u] = media[u]
               \/ /\ \E v \in Affected \cap Units : v \div BlockUnits = u \div BlockUnits
                  /\ media'[u] = Erased \/ (u \in Affected /\ media'[u] = Content[u - Target + 1])
    <3>1. CASE u \div BlockUnits \in lost
      <4>1. media'[u] = Erased BY <2>1, <3>1
      <4>2. u \div BlockUnits \in touched BY <3>1
      <4> QED BY <4>1, <4>2
    <3>2. CASE u \div BlockUnits \notin lost /\ u \div BlockUnits \in done
      <4>1. media'[u] = Image[u] BY <2>1, <3>2
      <4>2. u \div BlockUnits \in touched BY <3>2
      <4> QED BY <4>1, <4>2, <1>1
    <3>3. CASE u \div BlockUnits \notin lost /\ u \div BlockUnits \notin done
      BY <2>1, <3>3
    <3> QED BY <3>1, <3>2, <3>3
  <2> QED BY <2>3, <2>4
<1> QED BY <1>4, <1>5 DEF Outcome

LEMMA OwnBlocks ==
  ASSUME NEW L, VolumeOK(L), NEW c \in Disk(L)
  PROVE  Clear(L, c, L[c].desc.first, L[c].desc.last)
BY DEF VolumeOK, FilesLie, Apart, Clear

\* The blocks of other files stay as they are.
OthersKept == \A k \in Disk(list) \ {cur} : \A u \in Extent(list[k].desc) : media'[u] = media[u]

LEMMA ClearKept ==
  ASSUME VolumeOK(list), NEW lo, NEW hi, Clear(list, cur, lo, hi), lo \in Nat, hi \in Nat,
         \A u \in Units : media'[u] = media[u] \/ u \div BlockUnits \in lo .. hi
  PROVE  OthersKept
<1> SUFFICES ASSUME NEW k \in Disk(list) \ {cur}, NEW u \in Extent(list[k].desc)
             PROVE  media'[u] = media[u]
  BY DEF OthersKept
<1> DEFINE d == list[k].desc
<1>1. k \in DOMAIN list /\ OnDisk(list[k]) /\ FileOK(list[k]) BY DEF Disk, VolumeOK
<1>2. d \in Description BY <1>1, FileOnDisk
<1>3. d.first \in Nat /\ d.last \in Nat BY <1>2, Descriptions
<1>4. d.last \in Blocks BY DEF VolumeOK, FilesLie, Fitting
<1>5. d.last < lo \/ hi < d.first BY DEF Clear
<1> HIDE DEF d
<1>6. d.first * BlockUnits \in Nat /\ (d.last + 1) * BlockUnits \in Nat BY <1>3, BlockSize
<1>7. u \in Nat /\ d.first * BlockUnits <= u /\ u < (d.last + 1) * BlockUnits
  BY <1>6 DEF Extent, d
<1>8. u \div BlockUnits \in d.first .. d.last BY <1>3, <1>7, InBlocks
<1>9. u \in Units
  <2>1. u \div BlockUnits \in Blocks BY <1>3, <1>4, <1>8, BlockSize DEF Blocks
  <2> QED BY <2>1, <1>7, UnitsOfBlocks
<1>10. u \div BlockUnits \notin lo .. hi BY <1>3, <1>5, <1>8
<1> QED BY <1>9, <1>10

\* A region is written inside the file, or where there is room for it.
LEMMA DataWritten ==
  ASSUME MediumOK(media), ControlOK, VolumeOK(list), cur \in DOMAIN list, FlushingOK,
         \/ pc = "edit" /\ EditOK
         \/ pc = "data" /\ RegionOK,
         Outcome
  PROVE  /\ media' \in [Units -> Cells]
         /\ \A u \in Units : media'[u] = media[u] \/ media'[u] \in Plain
         /\ OthersKept
<1>1. r \in DOMAIN File.regions /\ File.regions \in Seq(Pending) /\ File = list[cur] /\ FileOK(File)
  <2>1. FileOK(File) /\ File = list[cur] BY DEF VolumeOK, File
  <2>2. File.regions \in Seq(Pending) BY <2>1 DEF FileOK, FileRecords
  <2> QED BY <2>1, <2>2 DEF ControlOK, FlushingOK, EditOK, RegionOK
<1>2. Region \in Pending BY <1>1 DEF Region
<1>3. Region.off \in Nat /\ Region.len \in Nat /\ Region.val \in Payloads \cup {Zero}
  BY <1>2 DEF Pending
<1>4. Target = start + Region.off /\ Content = [k \in 1 .. Region.len |-> Region.val]
  BY DEF Target, Content, RegionData
<1>5. Len(Content) = Region.len /\ \A k \in 1 .. Len(Content) : Content[k] \in Plain \cap Cells
  BY <1>3, <1>4 DEF Plain, Cells
<1>6. start \in Nat /\ Target \in Nat BY <1>3, <1>4 DEF ControlOK
<1>7. /\ media' \in [Units -> Cells]
      /\ \A u \in Units :
           \/ media'[u] = media[u]
           \/ /\ \E v \in Affected \cap Units : v \div BlockUnits = u \div BlockUnits
              /\ media'[u] = Erased \/ (u \in Affected /\ media'[u] = Content[u - Target + 1])
  BY <1>3, <1>5, <1>6, Outcomes DEF MediumOK
<1>8. \A u \in Units : media'[u] = media[u] \/ media'[u] \in Plain
  <2>1. \A u \in Affected : Content[u - Target + 1] \in Plain
    BY <1>3, <1>5, <1>6 DEF Affected
  <2> QED BY <2>1, <1>7 DEF Plain
<1>9. Block \in Nat /\ start = Block * BlockUnits BY <1>6, Division DEF FlushingOK, Block
<1>10. \A v \in Affected : v \in Nat /\ start + Region.off <= v /\ v < start + Region.off + Region.len
  BY <1>3, <1>4, <1>5, <1>6 DEF Affected
<1>11. \E lo, hi \in Nat : Clear(list, cur, lo, hi)
                           /\ \A v \in Affected : v \div BlockUnits \in lo .. hi
  <2>1. CASE pc = "data" /\ RegionOK
    <3> DEFINE n == Region.off + Region.len  hi == Block + (n \div BlockUnits)
    <3>1. n \in Nat /\ hi \in Nat BY <1>3, <1>9, Division
    <3>2. Clear(list, cur, Block, hi) BY <2>1 DEF RegionOK, Room
    <3>3. ASSUME NEW v \in Affected PROVE v \div BlockUnits \in Block .. hi
      <4>1. Block * BlockUnits <= v /\ v <= Block * BlockUnits + n
        BY <1>3, <1>6, <1>9, <1>10
      <4> QED BY <1>9, <1>10, <3>1, <4>1, UnitsTaken
    <3> QED BY <1>9, <3>1, <3>2, <3>3
  <2>2. CASE pc = "edit" /\ EditOK
    <3>1. start + Region.off + Region.len < end BY <2>2 DEF EditOK
    <3>2. OnDisk(File) BY <3>1, <1>3, <1>6 DEF FlushingOK
    <3>3. cur \in Disk(list) BY <3>2, <1>1 DEF Disk
    <3>4. File.desc.first = Block /\ end + 1 <= (File.desc.last + 1) * BlockUnits
      BY <3>2 DEF FlushingOK
    <3>5. File.desc.last \in Nat BY <3>2, <1>1, FileOnDisk, Descriptions
    <3>6. end \in Nat /\ (File.desc.last + 1) * BlockUnits \in Nat BY <3>5, BlockSize DEF ControlOK
    <3>7. ASSUME NEW v \in Affected PROVE v \div BlockUnits \in Block .. File.desc.last
      <4>1. Block * BlockUnits <= v /\ v < (File.desc.last + 1) * BlockUnits
        BY <1>3, <1>6, <1>9, <1>10, <3>1, <3>4, <3>6
      <4> QED BY <1>9, <1>10, <3>5, <4>1, InBlocks
    <3>8. Clear(list, cur, Block, File.desc.last) BY <1>1, <3>3, <3>4, OwnBlocks
    <3> QED BY <1>9, <3>5, <3>7, <3>8
  <2> QED BY <2>1, <2>2
<1>12. OthersKept
  <2>1. PICK lo \in Nat, hi \in Nat : Clear(list, cur, lo, hi)
                           /\ \A v \in Affected : v \div BlockUnits \in lo .. hi
    BY <1>11
  <2>2. \A u \in Units : media'[u] = media[u] \/ u \div BlockUnits \in lo .. hi
    BY <1>7, <2>1
  <2> QED BY <2>1, <2>2, ClearKept
<1> QED BY <1>7, <1>8, <1>12

\* The description of the file is made invalid.
LEMMA DescriptionZeroed ==
  ASSUME MediumOK(media), VolumeOK(list), cur \in DOMAIN list, OnDisk(File),
         pc \in {"invalidate", "delete"},
         Outcome
  PROVE  /\ media' \in [Units -> Cells]
         /\ \A u \in Units : media'[u] = media[u] \/ media'[u] \in Plain
         /\ OthersKept
         /\ media' = Image => ~BootMonFsIsImageValid(media', File.desc.last)
<1> DEFINE b == File.desc.last
<1>1. FileOK(File) /\ File = list[cur] BY DEF VolumeOK, File
<1>2. /\ File.desc \in Description /\ File.addr = DescUnit(b) /\ cur \in Disk(list)
  BY <1>1, FileOnDisk DEF Disk
<1>3. b \in Nat /\ File.desc.first \in Nat BY <1>2, Descriptions
<1>4. b \in Blocks /\ File.desc.first <= b BY <1>1, <1>2 DEF VolumeOK, FilesLie, Fitting
<1>5. Target = DescUnit(b) /\ Content = <<Zero>> BY <1>2 DEF Target, Content
<1> HIDE DEF b
<1>6. DescUnit(b) \in Units /\ DescUnit(b) \in Nat /\ DescUnit(b) \div BlockUnits = b
  BY <1>3, <1>4, DescUnits
<1>7. Affected = {DescUnit(b)} BY <1>5, <1>6 DEF Affected
<1>8. Len(Content) = 1 /\ Content[1] = Zero /\ Zero \in Cells BY <1>5 DEF Cells
<1>9. /\ media' \in [Units -> Cells]
      /\ \A u \in Units :
           \/ media'[u] = media[u]
           \/ /\ \E v \in Affected \cap Units : v \div BlockUnits = u \div BlockUnits
              /\ media'[u] = Erased \/ (u \in Affected /\ media'[u] = Content[u - Target + 1])
  BY <1>5, <1>6, <1>8, Outcomes DEF MediumOK
<1>10. \A u \in Affected : Content[u - Target + 1] = Zero BY <1>5, <1>6, <1>7, <1>8
<1>11. \A u \in Units : media'[u] = media[u] \/ media'[u] \in Plain
  BY <1>9, <1>10 DEF Plain
<1>12. Clear(list, cur, b, b)
  <2>1. Clear(list, cur, File.desc.first, b) BY <1>1, <1>2, OwnBlocks DEF b
  <2>2. \A j \in Disk(list) : list[j].desc.first \in Nat /\ list[j].desc.last \in Nat
    BY FileOnDisk, Descriptions DEF Disk, VolumeOK
  <2> QED BY <2>1, <2>2, <1>3, <1>4 DEF Clear
<1>13. \A u \in Units : media'[u] = media[u] \/ u \div BlockUnits \in b .. b
  BY <1>3, <1>6, <1>7, <1>9
<1>14. OthersKept BY <1>3, <1>12, <1>13, ClearKept
<1>15. ASSUME media' = Image PROVE ~BootMonFsIsImageValid(media', b)
  <2>1. media'[DescUnit(b)] = Zero BY <1>6, <1>7, <1>10, <1>15 DEF Image
  <2> QED BY <2>1 DEF BootMonFsIsImageValid
<1> QED BY <1>9, <1>11, <1>14, <1>15 DEF b
Described == [list EXCEPT ![cur] = [File EXCEPT !.desc = NewDesc, !.addr = DescUnit(NewDesc.last)]]

\* Where the description of the file goes, if that is regular.
LEMMA DescriptionPlaced ==
  ASSUME ControlOK, VolumeOK(list), cur \in DOMAIN list, FlushingOK,
         pc = "finish" \/ (pc = "describe" /\ RegionOK),
         Irregular \subseteq {"failed"}
  PROVE  /\ NewDesc \in Description /\ NewDesc.name = File.name
         /\ NewDesc.first = Block /\ NewDesc.last = Block + (NewSize \div BlockUnits)
         /\ NewDesc.size = NewSize /\ NewSize \in Nat
         /\ Fitting(NewDesc) /\ Clear(list, cur, NewDesc.first, NewDesc.last)
         /\ OnDisk(File) => /\ File.desc.first = NewDesc.first
                            /\ File.desc.last <= NewDesc.last
                            /\ pc = "finish" => File.desc.last = NewDesc.last
<1>1. FileOK(File) /\ File = list[cur] BY DEF VolumeOK, File
<1>2. NewSize \in Nat
  <2>1. CASE pc = "finish" BY <2>1, <1>1 DEF NewSize, FileOK, FileRecords
  <2>2. CASE pc = "describe" /\ RegionOK
    <3>1. File.regions \in Seq(Pending) /\ r \in DOMAIN File.regions
      BY <1>1, <2>2 DEF FileOK, FileRecords, RegionOK, ControlOK, FlushingOK
    <3>2. Region \in Pending BY <3>1 DEF Region
    <3> QED BY <2>2, <3>2 DEF NewSize, Pending
  <2> QED BY <2>1, <2>2
<1>3. start \in Nat /\ Block \in Nat /\ start = Block * BlockUnits
  BY Division DEF ControlOK, Block, FlushingOK
<1> DEFINE n == NewSize  c == n \div BlockUnits
<1>4. c \in Nat /\ n < c * BlockUnits + BlockUnits BY <1>2, Division
<1>5. (n + 1) % BlockUnits # 0 BY DEF Irregular
<1>6. (n + 1) \div BlockUnits = c BY <1>2, <1>5, NotExact
<1>7. /\ NewDesc.name = File.name /\ NewDesc.size = n
      /\ NewDesc.first = Block /\ NewDesc.last = Block + c
      /\ NewDesc = [name |-> File.name, size |-> n, first |-> Block, last |-> Block + c]
  BY <1>6 DEF NewDesc, DescriptionOf, Block
<1>8. File.name \in Names BY <1>1 DEF FlushingOK, FileOK
<1>9. NewDesc \in Description BY <1>2, <1>3, <1>4, <1>7, <1>8 DEF Description
<1> HIDE DEF c
<1>10. OnDisk(File) => /\ File.desc.first = Block /\ File.desc.last \in Nat
                       /\ File.desc.last <= NewDesc.last
                       /\ pc = "finish" => File.desc.last = NewDesc.last
  <2> SUFFICES ASSUME OnDisk(File)
               PROVE  /\ File.desc.first = Block /\ File.desc.last \in Nat
                      /\ File.desc.last <= NewDesc.last
                      /\ pc = "finish" => File.desc.last = NewDesc.last
    OBVIOUS
  <2>1. File.desc.first = Block BY DEF FlushingOK
  <2>2. File.desc.last \in Nat BY <1>1, FileOnDisk, Descriptions
  <2>3. ~Misplaced BY DEF Irregular
  <2>4. NewDesc.last \in Nat BY <1>9, Descriptions
  <2> QED BY <2>1, <2>2, <2>3, <2>4 DEF Misplaced
<1>11. Room(list, cur, Block, Block + c)
  <2>1. CASE pc = "describe" /\ RegionOK BY <2>1 DEF RegionOK, NewSize, c
  <2>2. CASE pc = "finish" /\ ~OnDisk(File) BY <2>2 DEF FlushingOK, NewSize, c
  <2>3. CASE pc = "finish" /\ OnDisk(File)
    <3>1. cur \in Disk(list) BY <2>3, <1>1 DEF Disk
    <3>2. File.desc.first = Block /\ File.desc.last = Block + c BY <2>3, <1>7, <1>10
    <3> QED BY <3>1, <3>2, <1>1, OwnBlocks DEF Room, VolumeOK, FilesLie, Fitting
  <2> QED BY <2>1, <2>2, <2>3
<1>12. Fitting(NewDesc)
  <2>1. Block + c - Block + 1 = c + 1 BY <1>3, <1>4
  <2>2. n + 1 <= (c + 1) * BlockUnits
    <3>1. c * BlockUnits \in Nat BY <1>4, BlockSize
    <3> QED BY <3>1, <1>2, <1>4, Successor, BlockSize
  <2>3. Block + c \in Blocks BY <1>11 DEF Room
  <2> QED BY <1>3, <1>4, <1>7, <2>1, <2>2, <2>3 DEF Fitting
<1> QED BY <1>2, <1>7, <1>9, <1>10, <1>11, <1>12 DEF Room, c

LEMMA DescriptionWritten ==
  ASSUME MediumOK(media), Matches(media, list), ControlOK, VolumeOK(list), cur \in DOMAIN list,
         FlushingOK,
         pc = "finish" \/ (pc = "describe" /\ RegionOK /\ DescriptionInvalid),
         Irregular \subseteq {"failed"},
         Outcome
  PROVE  VolumeOK(Described) /\ Matches(media', Described) /\ MediumOK(media') /\ OthersKept
<1> DEFINE d == NewDesc
<1>1. FileOK(File) /\ File = list[cur] BY DEF VolumeOK, File
<1>2. /\ d \in Description /\ d.name = File.name
      /\ Fitting(d) /\ Clear(list, cur, d.first, d.last)
      /\ OnDisk(File) => /\ File.desc.first = d.first
                         /\ pc = "finish" => File.desc.last = d.last
  BY DescriptionPlaced
<1>3. d.first \in Nat /\ d.last \in Nat /\ d.last \in Blocks BY <1>2, Descriptions DEF Fitting
<1>4. Target = DescUnit(d.last) /\ Content = <<d>> BY DEF Target, Content
<1> HIDE DEF d
<1>5. DescUnit(d.last) \in Units /\ DescUnit(d.last) \in Nat /\ DescUnit(d.last) \div BlockUnits = d.last
  BY <1>3, DescUnits
<1>6. Affected = {DescUnit(d.last)} BY <1>4, <1>5 DEF Affected
<1>7. Len(Content) = 1 /\ Content[1] = d /\ d \in Cells BY <1>2, <1>4 DEF Cells
<1>8. /\ media' \in [Units -> Cells]
      /\ \A u \in Units :
           \/ media'[u] = media[u]
           \/ /\ \E v \in Affected \cap Units : v \div BlockUnits = u \div BlockUnits
              /\ media'[u] = Erased \/ (u \in Affected /\ media'[u] = Content[u - Target + 1])
  BY <1>4, <1>5, <1>7, Outcomes DEF MediumOK
<1>9. \A u \in Affected : Content[u - Target + 1] = d BY <1>4, <1>5, <1>6, <1>7
<1>10. \A u \in Units : \/ media'[u] = media[u] \/ media'[u] \in Plain
                        \/ (u = DescUnit(d.last) /\ media'[u] = d)
  BY <1>6, <1>8, <1>9 DEF Plain
<1>11. OnDisk(list[cur]) => /\ list[cur].desc.first = d.first
                            /\ \/ list[cur].desc.last = d.last
                               \/ ~BootMonFsIsImageValid(media, list[cur].desc.last)
  BY <1>1, <1>2 DEF DescriptionInvalid
<1>12. VolumeOK(Described) /\ Matches(media', Described) /\ MediumOK(media')
  <2>1. list[cur].open BY <1>1 DEF FlushingOK
  <2>2. d.name = list[cur].name BY <1>1, <1>2
  <2>3. d \in Description /\ Fitting(d) /\ Clear(list, cur, d.first, d.last) BY <1>2
  <2>4. media' \in [Units -> Cells] BY <1>8
  <2> DEFINE f == [File EXCEPT !.desc = d, !.addr = DescUnit(d.last)]
  <2>5. list \in Seq(FileRecords) /\ File \in FileRecords BY <1>1 DEF VolumeOK, FileOK
  <2>6. WithDescription(list[cur], d, f)
    BY <1>1, <1>2, <1>5, <2>5 DEF WithDescription, FileRecords
  <2>7. Described = [list EXCEPT ![cur] = f] BY DEF Described, d
  <2>8. f \in FileRecords BY <2>6 DEF WithDescription
  <2> HIDE DEF f
  <2>9. Replaced(list, cur, f, Described) BY <2>5, <2>7, <2>8 DEF Replaced
  <2> QED BY <1>10, <1>11, <2>1, <2>2, <2>3, <2>4, <2>6, <2>9, DescribedKeeps
<1>13. \A u \in Units : media'[u] = media[u] \/ u \div BlockUnits \in d.first .. d.last
  <2>1. d.first <= d.last BY <1>2 DEF Fitting
  <2> QED BY <2>1, <1>3, <1>5, <1>6, <1>8
<1>14. OthersKept BY <1>2, <1>3, <1>13, ClearKept
<1> QED BY <1>12, <1>14
-----------------------------------------------------------------------------
(* Least and greatest members, and the members in ascending order.         *)

Below == {ss \in Nat \X Nat : ss[1] < ss[2]}

LEMMA BelowWellFounded == IsWellFoundedOn(Below, Nat)
BY NatLessThanWellFounded DEF OpToRel, Below

LEMMA BelowIs == \A x, y \in Nat : <<x, y>> \in Below <=> x < y
BY DEF Below

LEMMA Least ==
  ASSUME NEW S \in SUBSET Nat, S # {}
  PROVE  /\ Min(S) \in S /\ \A y \in S : Min(S) <= y
<1>1. IsWellFoundedOn(Below, Nat) BY BelowWellFounded
<1>2. PICK x \in S : \A y \in S : <<y, x>> \notin Below
  BY <1>1, WFMin
<1>3. ASSUME NEW y \in S PROVE x <= y
  <2>1. x \in Nat /\ y \in Nat OBVIOUS
  <2>2. ~(y < x) BY <1>2, <2>1, BelowIs
  <2> QED BY <2>1, <2>2
<1> QED BY <1>3 DEF Min

LEMMA Greatest ==
  ASSUME NEW n \in Nat, NEW S \in SUBSET (0 .. n), S # {}
  PROVE  /\ Max(S) \in S /\ \A y \in S : Max(S) >= y
<1> DEFINE T == {n - x : x \in S}
<1>0. \A x \in S : n - x \in Nat OBVIOUS
<1>1. T \in SUBSET Nat /\ T # {} BY <1>0
<1> DEFINE t == Min(T)
<1>2. t \in T /\ \A y \in T : t <= y BY <1>1, Least
<1> HIDE DEF t
<1>3. PICK x \in S : t = n - x BY <1>2
<1>4. ASSUME NEW y \in S PROVE x >= y
  <2>1. n - y \in T OBVIOUS
  <2>2. x \in Nat /\ y \in Nat OBVIOUS
  <2> HIDE DEF T
  <2>3. t <= n - y BY <1>2, <2>1
  <2> QED BY <1>3, <2>2, <2>3
<1> QED BY <1>4 DEF Max

Sorted(S, s) ==
  /\ s \in [1 .. Cardinality(S) -> S]
  /\ \A j, k \in DOMAIN s : j < k => s[j] < s[k]
  /\ \A x \in S : \E k \in DOMAIN s : s[k] = x

LEMMA SortedExists ==
  ASSUME NEW n \in Nat, NEW S \in SUBSET {x \in Nat : x < n}
  PROVE  Cardinality(S) \in Nat /\ \E s : Sorted(S, s)
<1> DEFINE Q(h) == \A U \in SUBSET {x \in Nat : x < h} :
                     IsFiniteSet(U) /\ \E s : Sorted(U, s)
           T == {h \in Nat : ~Q(h)}
<1>1. T = {}
  <2> SUFFICES ASSUME T # {} PROVE FALSE OBVIOUS
  <2>1. IsWellFoundedOn(Below, Nat) BY BelowWellFounded
  <2> HIDE DEF Q
  <2>0. T \subseteq Nat OBVIOUS
  <2>2. PICK h \in T : \A y \in T : <<y, h>> \notin Below
    <3> HIDE DEF T
    <3> QED BY <2>0, <2>1, WFMin
  <2>3. h \in Nat /\ ~Q(h) /\ \A y \in Nat : y < h => Q(y) BY <2>2, BelowIs
  <2> HIDE DEF T
  <2> USE DEF Q
  <2>4. PICK U \in SUBSET {x \in Nat : x < h} : ~(IsFiniteSet(U) /\ \E s : Sorted(U, s))
    BY <2>3
  <2>5. CASE h = 0
    <3>1. U = {} BY <2>5
    <3>2. IsFiniteSet(U) /\ Cardinality(U) = 0 BY <3>1, FS_EmptySet
    <3>3. Sorted(U, <<>>) BY <3>1, <3>2 DEF Sorted
    <3> QED BY <2>4, <3>2, <3>3
  <2>6. CASE h # 0
    <3> DEFINE m == h - 1  V == U \ {m}
    <3>1. m \in Nat /\ m < h BY <2>3, <2>6
    <3>2. V \in SUBSET {x \in Nat : x < m} BY <2>3, <3>1
    <3>3. Q(m) BY <2>3, <3>1
    <3>4. IsFiniteSet(V) /\ \E s : Sorted(V, s) BY <3>2, <3>3
    <3>5. CASE m \notin U
      <4>1. V = U BY <3>5
      <4> QED BY <2>4, <3>4, <4>1
    <3>6. CASE m \in U
      <4>1. PICK s : Sorted(V, s) BY <3>4
      <4> DEFINE c == Cardinality(V)
      <4>2. c \in Nat BY <3>4, FS_CardinalityType
      <4>3. U = V \cup {m} /\ m \notin V BY <3>6
      <4>4. IsFiniteSet(U) /\ Cardinality(U) = c + 1
        BY <3>4, <4>2, <4>3, FS_AddElement
      <4> HIDE DEF c
      <4>5. s \in [1 .. c -> V] /\ DOMAIN s = 1 .. c BY <4>1 DEF Sorted, c
      <4>10. \A j, k \in 1 .. c : j < k => s[j] < s[k] BY <4>1, <4>5 DEF Sorted
      <4> DEFINE t == [k \in 1 .. c + 1 |-> IF k = c + 1 THEN m ELSE s[k]]
      <4>6. t \in [1 .. Cardinality(U) -> U] BY <4>2, <4>3, <4>4, <4>5
      <4>7. ASSUME NEW j \in DOMAIN t, NEW k \in DOMAIN t, j < k PROVE t[j] < t[k]
        <5>1. j \in 1 .. c BY <4>2, <4>7
        <5>2. s[j] \in V /\ s[j] < m BY <4>5, <5>1, <3>2
        <5>3. k # c + 1 => s[j] < s[k] BY <4>2, <4>7, <4>10, <5>1
        <5> QED BY <4>2, <5>1, <5>2, <5>3
      <4>8. ASSUME NEW x \in U PROVE \E k \in DOMAIN t : t[k] = x
        <5>1. CASE x = m
          <6>1. c + 1 \in DOMAIN t /\ t[c + 1] = x BY <4>2, <5>1
          <6> QED BY <6>1
        <5>2. CASE x # m
          <6>1. PICK k \in DOMAIN s : s[k] = x BY <4>1, <4>3, <5>2 DEF Sorted
          <6>2. k \in DOMAIN t /\ t[k] = x BY <4>2, <4>5, <6>1
          <6> QED BY <6>2
        <5> QED BY <5>1, <5>2
      <4>9. Sorted(U, t) BY <4>6, <4>7, <4>8 DEF Sorted
      <4> QED BY <2>4, <4>4, <4>9
    <3> QED BY <3>5, <3>6
  <2> QED BY <2>5, <2>6
<1>2. Q(n) BY <1>1
<1> QED BY <1>2, FS_CardinalityType

LEMMA AscendingIs ==
  ASSUME NEW n \in Nat, NEW S \in SUBSET (0 .. n)
  PROVE  /\ Cardinality(S) \in Nat
         /\ Ascending(S) \in [1 .. Cardinality(S) -> S]
         /\ \A j, k \in 1 .. Cardinality(S) : j < k => Ascending(S)[j] < Ascending(S)[k]
         /\ \A x \in S : \E k \in 1 .. Cardinality(S) : Ascending(S)[k] = x
<1>1. S \in SUBSET {x \in Nat : x < n + 1} OBVIOUS
<1>2. Cardinality(S) \in Nat /\ \E s : Sorted(S, s) BY <1>1, SortedExists
<1>3. Sorted(S, Ascending(S)) BY <1>2 DEF Sorted, Ascending
<1> QED BY <1>2, <1>3 DEF Sorted
-----------------------------------------------------------------------------
(* What the calls make of a file in memory.                                *)

LEMMA OverwrittenText ==
  ASSUME NEW t \in Seq(Texts), NEW off \in Nat, NEW len \in Nat, NEW v \in Texts
  PROVE  /\ Overwritten(t, off, len, v) \in Seq(Texts)
         /\ Len(Overwritten(t, off, len, v)) = Larger(Len(t), off + len)
<1> DEFINE n == Larger(Len(t), off + len)
<1>1. n \in Nat BY DEF Larger
<1>2. Garbage \in Texts BY DEF Texts
<1>3. Overwritten(t, off, len, v)
        = [k \in 1 .. n |-> IF off < k /\ k <= off + len THEN v
                            ELSE IF k <= Len(t) THEN t[k] ELSE Garbage]
  BY DEF Overwritten
<1> HIDE DEF n
<1>4. \A k \in 1 .. n : k <= Len(t) => t[k] \in Texts BY <1>1
<1> QED BY <1>1, <1>2, <1>3, <1>4 DEF n

WrittenFrom(f, off, len, v, g) ==
  /\ g \in FileRecords /\ g.desc = f.desc /\ g.addr = f.addr /\ g.open = f.open
  /\ g.name = f.name /\ g.size = Larger(f.size, off + len)
  /\ Len(g.text) = Larger(Len(f.text), off + len)
  /\ g.regions = Append(f.regions, [off |-> off, len |-> len, val |-> v])

LEMMA WrittenTyped ==
  ASSUME NEW f \in FileRecords,
         NEW off \in Nat, NEW len \in Nat, NEW v \in Payloads \cup {Zero},
         NEW g, g = Written(f, off, len, v)
  PROVE  WrittenFrom(f, off, len, v, g)
<1> DEFINE w == [off |-> off, len |-> len, val |-> v]
           t == Overwritten(f.text, off, len, v)
<1>1. f.regions \in Seq(Pending) /\ f.text \in Seq(Texts) /\ f.size \in Nat BY DEF FileRecords
<1>2. v \in Texts BY DEF Texts
<1>3. t \in Seq(Texts) /\ Len(t) = Larger(Len(f.text), off + len) BY <1>1, <1>2, OverwrittenText
<1>4. w \in Pending BY DEF Pending
<1>5. g = [f EXCEPT !.regions = Append(f.regions, w), !.size = Larger(f.size, off + len),
                    !.text = t]
  BY DEF Written, FileRecords
<1> HIDE DEF w, t
<1>6. Larger(f.size, off + len) \in Nat BY <1>1 DEF Larger
<1>7. Append(f.regions, w) \in Seq(Pending) BY <1>1, <1>4
<1>8. /\ g \in FileRecords /\ g.desc = f.desc /\ g.addr = f.addr /\ g.open = f.open
      /\ g.name = f.name /\ g.size = Larger(f.size, off + len) /\ g.text = t
      /\ g.regions = Append(f.regions, w)
  BY <1>1, <1>3, <1>5, <1>6, <1>7 DEF FileRecords
<1> QED BY <1>3, <1>8 DEF w, WrittenFrom

LEMMA WrittenFile ==
  ASSUME NEW f, FileOK(f), f.open,
         NEW off \in Nat, NEW len \in Nat, NEW v \in Payloads \cup {Zero},
         NEW g, g = Written(f, off, len, v)
  PROVE  FileOK(g) /\ g.desc = f.desc /\ EffectiveName(g) = EffectiveName(f)
<1> DEFINE w == [off |-> off, len |-> len, val |-> v]
<1>1. f \in FileRecords /\ f.regions \in Seq(Pending) /\ f.text \in Seq(Texts) /\ f.size \in Nat
      /\ f.size = Len(f.text)
  BY DEF FileOK, FileRecords
<1>4. w \in Pending /\ w.off = off /\ w.len = len BY DEF Pending
<1>7. WrittenFrom(f, off, len, v, g) BY <1>1, WrittenTyped
<1>8. /\ g \in FileRecords /\ g.desc = f.desc /\ g.addr = f.addr /\ g.open = f.open
      /\ g.name = f.name /\ g.size = Larger(f.size, off + len)
      /\ Len(g.text) = Larger(Len(f.text), off + len)
      /\ g.regions = Append(f.regions, w)
  BY <1>7 DEF w, WrittenFrom
<1> HIDE DEF w
<1>9. \A j \in DOMAIN g.regions : g.regions[j].off + g.regions[j].len <= Len(g.text)
  <2> SUFFICES ASSUME NEW j \in DOMAIN g.regions
               PROVE  g.regions[j].off + g.regions[j].len <= Len(g.text)
    OBVIOUS
  <2>1. CASE j = Len(f.regions) + 1
    <3>1. g.regions[j] = w BY <1>1, <1>4, <1>8, <2>1
    <3> QED BY <3>1, <1>1, <1>4, <1>8 DEF Larger
  <2>2. CASE j # Len(f.regions) + 1
    <3>1. j \in DOMAIN f.regions /\ g.regions[j] = f.regions[j] BY <1>1, <1>4, <1>8, <2>2
    <3>2. f.regions[j].off + f.regions[j].len <= Len(f.text) BY <3>1 DEF FileOK
    <3>3. f.regions[j] \in Pending BY <3>1, <1>1
    <3>4. f.regions[j].off + f.regions[j].len \in Nat BY <3>3 DEF Pending
    <3>5. Len(f.text) \in Nat /\ Len(f.text) <= Len(g.text) /\ Len(g.text) \in Nat
      BY <1>1, <1>8 DEF Larger
    <3> QED BY <3>1, <3>2, <3>4, <3>5
  <2> QED BY <2>1, <2>2
<1>10. FileOK(g) BY <1>1, <1>8, <1>9 DEF FileOK, OnDisk
<1> QED BY <1>8, <1>10 DEF EffectiveName

TruncatedFrom(f, n, g) ==
  /\ g \in FileRecords /\ g.desc = f.desc /\ g.addr = f.addr /\ g.open = f.open
  /\ g.name = f.name /\ g.size = n /\ Len(g.text) = Smaller(n, Len(f.text))
  /\ \A k \in DOMAIN g.regions : g.regions[k].off + g.regions[k].len <= n

LEMMA TruncatedTyped ==
  ASSUME NEW f \in FileRecords, NEW n \in Nat, NEW g, g = Truncated(f, n)
  PROVE  TruncatedFrom(f, n, g)
<1> DEFINE S == {j \in DOMAIN f.regions : f.regions[j].off <= n}
           kept == Ascending(S)
           clipped(h) == [h EXCEPT !.len = Smaller(@, n - h.off)]
           R == [k \in DOMAIN kept |-> clipped(f.regions[kept[k]])]
           l == Smaller(n, Len(f.text))
           t == SubSeq(f.text, 1, l)
<1>1. f.regions \in Seq(Pending) /\ f.text \in Seq(Texts) BY DEF FileRecords
<1>2. g = [f EXCEPT !.regions = R, !.size = n, !.text = t] BY DEF Truncated
<1>3. Len(f.regions) \in Nat /\ S \in SUBSET (0 .. Len(f.regions)) BY <1>1
<1>4. Cardinality(S) \in Nat /\ kept \in [1 .. Cardinality(S) -> S] BY <1>3, AscendingIs
<1> DEFINE c == Cardinality(S)
<1>5. \A k \in 1 .. c : kept[k] \in DOMAIN f.regions /\ f.regions[kept[k]].off <= n
  BY <1>4
<1> HIDE DEF kept, S
<1>6. DOMAIN kept = 1 .. c BY <1>4
<1> HIDE DEF c
<1>7. c \in Nat BY <1>4 DEF c
<1>8. \A k \in 1 .. c : R[k] \in Pending /\ R[k].off + R[k].len <= n
  <2> SUFFICES ASSUME NEW k \in 1 .. c PROVE R[k] \in Pending /\ R[k].off + R[k].len <= n
    OBVIOUS
  <2> DEFINE h == f.regions[kept[k]]
  <2>1. h \in Pending /\ h.off <= n BY <1>1, <1>5
  <2>2. R[k] = clipped(h) BY <1>6
  <2> HIDE DEF h, R
  <2>3. Smaller(h.len, n - h.off) \in Nat /\ h.off \in Nat
        /\ h.off + Smaller(h.len, n - h.off) <= n
    BY <2>1 DEF Smaller, Pending
  <2>4. R[k].off = h.off /\ R[k].len = Smaller(h.len, n - h.off) /\ R[k] \in Pending
    BY <2>1, <2>2, <2>3 DEF Pending
  <2> QED BY <2>3, <2>4
<1>9. R \in Seq(Pending) /\ DOMAIN R = 1 .. c
  <2>1. R = [k \in 1 .. c |-> R[k]] BY <1>6
  <2> HIDE DEF R
  <2> QED BY <2>1, <1>7, <1>8
<1> HIDE DEF R
<1>10. l \in 0 .. Len(f.text) BY <1>1 DEF Smaller
<1> HIDE DEF l
<1>11. t \in Seq(Texts) /\ Len(t) = l BY <1>1, <1>10, Parts
<1> HIDE DEF t
<1>12. /\ g \in FileRecords /\ g.desc = f.desc /\ g.addr = f.addr /\ g.open = f.open
       /\ g.name = f.name /\ g.size = n /\ g.text = t /\ g.regions = R
  BY <1>2, <1>9, <1>11 DEF FileRecords
<1> QED BY <1>8, <1>9, <1>11, <1>12 DEF l, TruncatedFrom

LEMMA TruncatedFile ==
  ASSUME NEW f, FileOK(f), f.open, NEW n \in Nat, n < f.size, NEW g, g = Truncated(f, n)
  PROVE  FileOK(g) /\ g.desc = f.desc /\ EffectiveName(g) = EffectiveName(f)
<1>1. f \in FileRecords /\ f.text \in Seq(Texts) /\ f.size = Len(f.text) BY DEF FileOK, FileRecords
<1>2. /\ g \in FileRecords /\ g.desc = f.desc /\ g.addr = f.addr /\ g.open = f.open
      /\ g.name = f.name /\ g.size = n /\ Len(g.text) = Smaller(n, Len(f.text))
      /\ \A k \in DOMAIN g.regions : g.regions[k].off + g.regions[k].len <= n
  <2>1. TruncatedFrom(f, n, g) BY <1>1, TruncatedTyped
  <2> QED BY <2>1 DEF TruncatedFrom
<1>3. Len(g.text) = n BY <1>1, <1>2 DEF Smaller
<1>4. FileOK(g) BY <1>1, <1>2, <1>3 DEF FileOK, OnDisk
<1> QED BY <1>2, <1>4 DEF EffectiveName

LengthOf(f, h, k) ==
  IF k = 0 THEN f.desc.size
  ELSE LET g == f.regions[k]  n == h[k - 1]
       IN  IF g.off + g.len > n THEN n + g.off + g.len ELSE n

\* The length is a number, also when the ends of pending regions were added to it.
LEMMA ImageLength ==
  ASSUME NEW f \in FileRecords
  PROVE  BootMonFsGetImageLength(f) \in Nat
         /\ (f.regions = <<>> => BootMonFsGetImageLength(f) = f.desc.size)
<1> DEFINE n == Len(f.regions)
           IsLength(m, h) == h \in [0 .. m -> Nat] /\ \A k \in 0 .. m : h[k] = LengthOf(f, h, k)
           Q(m) == \E h : IsLength(m, h)
           S == {m \in 0 .. n : ~Q(m)}
<1>1. n \in Nat /\ f.regions \in Seq(Pending) /\ f.desc.size \in Nat
  BY DEF FileRecords, Description, NoDesc
<1>2. ASSUME NEW k \in 1 .. n, NEW h, h[k - 1] \in Nat PROVE LengthOf(f, h, k) \in Nat
  <2>1. f.regions[k] \in Pending BY <1>1
  <2> QED BY <1>2, <2>1 DEF LengthOf, Pending
<1>3. \A h : LengthOf(f, h, 0) = f.desc.size BY DEF LengthOf
<1>4. \A g, h : \A k \in 1 .. n : g[k - 1] = h[k - 1] => LengthOf(f, g, k) = LengthOf(f, h, k)
  BY DEF LengthOf
<1> HIDE DEF n
<1>5. S = {}
  <2> SUFFICES ASSUME S # {} PROVE FALSE OBVIOUS
  <2> DEFINE m == Min(S)
  <2>1. S \in SUBSET Nat BY <1>1
  <2>2. m \in S /\ \A y \in S : m <= y BY <2>1, Least
  <2> HIDE DEF m
  <2>3. m \in 0 .. n /\ ~Q(m) BY <2>2
  <2>4. m # 0
    <3>1. IsLength(0, [k \in 0 .. 0 |-> f.desc.size]) BY <1>1, <1>3
    <3> QED BY <2>3, <3>1
  <2>5. m - 1 \in 0 .. n /\ m - 1 \notin S
    <3> HIDE DEF S
    <3>1. m \in Nat /\ ~(m <= m - 1) BY <2>3, <1>1
    <3> QED BY <1>1, <2>2, <2>3, <2>4, <3>1
  <2>6. PICK h : IsLength(m - 1, h) BY <2>5
  <2> DEFINE g == [k \in 0 .. m |-> IF k = m THEN LengthOf(f, h, m) ELSE h[k]]
  <2>7. h[m - 1] \in Nat /\ m \in 1 .. n BY <2>3, <2>4, <2>6
  <2>8. LengthOf(f, h, m) \in Nat BY <2>7, <1>2
  <2>9. g \in [0 .. m -> Nat] BY <2>3, <2>6, <2>8
  <2>10. ASSUME NEW k \in 0 .. m PROVE g[k] = LengthOf(f, g, k)
    <3>1. CASE k = 0
      <4>1. g[0] = h[0] /\ h[0] = LengthOf(f, h, 0) BY <2>3, <2>4, <2>6
      <4> QED BY <3>1, <4>1, <1>3
    <3>2. CASE k # 0
      <4>1. k \in 1 .. n /\ k - 1 \in 0 .. m - 1 BY <2>3, <3>2, <1>1
      <4>2. g[k - 1] = h[k - 1] BY <4>1, <2>3
      <4> HIDE DEF g
      <4>3. LengthOf(f, g, k) = LengthOf(f, h, k) BY <4>1, <4>2, <1>4
      <4> USE DEF g
      <4>4. CASE k = m BY <4>3, <4>4
      <4>5. CASE k # m
        <5>1. k \in 0 .. m - 1 BY <2>3, <4>5
        <5>2. g[k] = h[k] /\ h[k] = LengthOf(f, h, k) BY <5>1, <4>5, <2>6
        <5> QED BY <4>3, <5>2
      <4> QED BY <4>4, <4>5
    <3> QED BY <3>1, <3>2
  <2>11. IsLength(m, g) BY <2>9, <2>10
  <2> QED BY <2>3, <2>11
<1>6. PICK h : IsLength(n, h)
  <2>1. n \in 0 .. n BY <1>1
  <2> QED BY <1>5, <2>1
<1> DEFINE length == CHOOSE g : g = [k \in 0 .. n |-> LengthOf(f, g, k)]
<1>7. length = [k \in 0 .. n |-> LengthOf(f, length, k)]
  <2>1. h = [k \in 0 .. n |-> LengthOf(f, h, k)] BY <1>6
  <2> QED BY <2>1
<1>8. BootMonFsGetImageLength(f) = length[n] BY DEF BootMonFsGetImageLength, LengthOf, n
<1> HIDE DEF length
<1>9. \A k \in 0 .. n : length[k] = LengthOf(f, length, k) BY <1>7
<1> DEFINE T == {k \in 0 .. n : length[k] \notin Nat}
<1>10. T = {}
  <2> SUFFICES ASSUME T # {} PROVE FALSE OBVIOUS
  <2> DEFINE m == Min(T)
  <2>1. T \in SUBSET Nat BY <1>1
  <2>2. m \in T /\ \A y \in T : m <= y BY <2>1, Least
  <2> HIDE DEF m
  <2>3. m \in 0 .. n /\ length[m] \notin Nat BY <2>2
  <2>4. m # 0 BY <2>3, <1>1, <1>3, <1>9
  <2>5. m \in 1 .. n /\ m - 1 \in 0 .. n /\ m - 1 \notin T BY <1>1, <2>2, <2>3, <2>4
  <2>6. length[m - 1] \in Nat BY <2>5
  <2> QED BY <2>3, <2>5, <2>6, <1>2, <1>9
<1>11. n \in 0 .. n /\ 0 \in 0 .. n BY <1>1
<1>12. length[n] \in Nat BY <1>10, <1>11
<1>13. ASSUME f.regions = <<>> PROVE length[n] = f.desc.size
  <2>1. n = 0 BY <1>13 DEF n
  <2> QED BY <2>1, <1>3, <1>9, <1>11
<1> QED BY <1>8, <1>12, <1>13

OpenedFrom(f, n, g) ==
  /\ g \in FileRecords /\ g.desc = f.desc /\ g.addr = f.addr /\ g.open = TRUE
  /\ g.name = n /\ g.size = BootMonFsGetImageLength(f)
  /\ g.text = f.text /\ g.regions = f.regions

LEMMA OpenedTyped ==
  ASSUME NEW f \in FileRecords, NEW n \in Names, NEW write \in BOOLEAN,
         NEW g, g = Opened(f, n, write)
  PROVE  OpenedFrom(f, n, g)
<1> DEFINE len == BootMonFsGetImageLength(f)
<1>1. len \in Nat BY ImageLength
<1>2. g = [f EXCEPT !.open = TRUE, !.name = n, !.size = len, !.pos = 0, !.write = write]
  BY DEF Opened
<1> HIDE DEF len
<1>3. n \in Names \cup {NoName} /\ TRUE \in BOOLEAN /\ 0 \in Nat OBVIOUS
<1>4. /\ g \in FileRecords /\ g.desc = f.desc /\ g.addr = f.addr /\ g.open = TRUE
      /\ g.name = n /\ g.size = len /\ g.text = f.text /\ g.regions = f.regions
  BY <1>1, <1>2, <1>3 DEF FileRecords
<1> QED BY <1>4 DEF len, OpenedFrom

\* The length that is known is that of the text.
LEMMA OpenedFile ==
  ASSUME NEW f, FileOK(f), ~f.open, BootMonFsGetImageLength(f) = Len(f.text),
         NEW n \in Names, OnDisk(f) => f.desc.name = n, NEW write \in BOOLEAN,
         NEW g, g = Opened(f, n, write)
  PROVE  FileOK(g) /\ g.desc = f.desc /\ EffectiveName(g) = n
<1>1. f \in FileRecords BY DEF FileOK
<1>2. /\ g \in FileRecords /\ g.desc = f.desc /\ g.addr = f.addr /\ g.open = TRUE
      /\ g.name = n /\ g.size = Len(f.text) /\ g.text = f.text /\ g.regions = f.regions
  <2>1. OpenedFrom(f, n, g) BY <1>1, OpenedTyped
  <2> QED BY <2>1 DEF OpenedFrom
<1>3. FileOK(g) BY <1>2 DEF FileOK, OnDisk
<1> QED BY <1>2, <1>3 DEF EffectiveName

LEMMA CreatedFile ==
  ASSUME NEW n \in Names, NEW f, f = Opened(NewFile(NoDesc, 0, <<>>), n, TRUE)
  PROVE  FileOK(f) /\ ~OnDisk(f) /\ EffectiveName(f) = n
<1> DEFINE g == NewFile(NoDesc, 0, <<>>)
<1>1. /\ g \in FileRecords /\ g.desc = NoDesc /\ g.regions = <<>> /\ g.text = <<>>
      /\ g.addr = 0 /\ ~g.open /\ g.desc.size = 0
  BY DEF NewFile, FileRecords, NoDesc
<1> HIDE DEF g
<1>2. FileOK(g) /\ ~OnDisk(g) BY <1>1 DEF FileOK, OnDisk
<1>3. BootMonFsGetImageLength(g) = 0 BY <1>1, ImageLength
<1>4. Len(g.text) = 0 BY <1>1
<1>5. f = Opened(g, n, TRUE) BY DEF g
<1>6. FileOK(f) /\ f.desc = g.desc /\ EffectiveName(f) = n
  BY <1>1, <1>2, <1>3, <1>4, <1>5, OpenedFile
<1> QED BY <1>2, <1>6 DEF OnDisk

\* A new file at the head of the list.
LEMMA CreatedKeeps ==
  ASSUME NEW L, VolumeOK(L), NEW f, FileOK(f), ~OnDisk(f),
         \A k \in DOMAIN L : EffectiveName(L[k]) # EffectiveName(f),
         NEW M, M = <<f>> \o L
  PROVE  VolumeOK(M) /\ \A m : Matches(m, L) => Matches(m, M)
<1>1. L \in Seq(FileRecords) /\ f \in FileRecords BY DEF VolumeOK, FileOK
<1>2. <<f>> \in Seq(FileRecords) /\ Len(<<f>>) = 1 /\ <<f>>[1] = f BY <1>1
<1>3. /\ M \in Seq(FileRecords) /\ DOMAIN M = 1 .. Len(L) + 1
      /\ \A k \in 1 .. Len(L) + 1 : M[k] = IF k = 1 THEN f ELSE L[k - 1]
  BY <1>1, <1>2, Joined
<1>4. DOMAIN L = 1 .. Len(L) /\ Len(L) \in Nat BY <1>1
<1>5. \A k \in DOMAIN M : FileOK(M[k])
  <2>1. \A k \in DOMAIN M : k # 1 => k - 1 \in DOMAIN L BY <1>3, <1>4
  <2> QED BY <2>1, <1>3 DEF VolumeOK
<1>6. \A k \in Disk(M) : k # 1 /\ k - 1 \in Disk(L) /\ M[k] = L[k - 1] BY <1>3, <1>4 DEF Disk
<1>7. FilesLie(M)
  <2>1. \A k \in Disk(M) : k \in Nat BY <1>3 DEF Disk
  <2>2. \A j, k \in Disk(M) : j # k => j - 1 # k - 1 BY <2>1
  <2>3. FilesLie(L) BY DEF VolumeOK
  <2>4. \A k \in Disk(M) : Fitting(M[k].desc) BY <1>6, <2>3 DEF FilesLie
  <2>5. ASSUME NEW k \in Disk(M), NEW j \in Disk(M) \ {k} PROVE Apart(M[j].desc, M[k].desc)
    <3>1. j - 1 \in Disk(L) \ {k - 1} /\ k - 1 \in Disk(L) BY <1>6, <2>2
    <3>2. Apart(L[j - 1].desc, L[k - 1].desc) BY <3>1, <2>3 DEF FilesLie
    <3> QED BY <3>2, <1>6
  <2> QED BY <2>4, <2>5 DEF FilesLie
<1>8. NamesDiffer(M)
  <2> SUFFICES ASSUME NEW j \in DOMAIN M, NEW k \in DOMAIN M, j # k,
                      EffectiveName(M[j]) = EffectiveName(M[k])
               PROVE  EffectiveName(M[j]) = NoName
    BY DEF NamesDiffer
  <2>1. j # 1 => M[j] = L[j - 1] /\ j - 1 \in DOMAIN L BY <1>3, <1>4
  <2>2. k # 1 => M[k] = L[k - 1] /\ k - 1 \in DOMAIN L BY <1>3, <1>4
  <2>3. j # 1 /\ k # 1 BY <2>1, <2>2, <1>3, <1>4
  <2>4. j - 1 # k - 1 BY <1>3, <1>4
  <2> QED BY <2>1, <2>2, <2>3, <2>4 DEF VolumeOK, NamesDiffer
<1>9. ASSUME NEW m, Matches(m, L) PROVE Matches(m, M)
  <2>1. \A k \in Disk(L) : k + 1 \in Disk(M) /\ M[k + 1] = L[k]
    <3>1. \A k \in DOMAIN L : k + 1 \in DOMAIN M /\ M[k + 1] = L[k] BY <1>3, <1>4
    <3> QED BY <3>1 DEF Disk
  <2> SUFFICES ASSUME NEW b \in Blocks, BootMonFsIsImageValid(m, b)
               PROVE  \E k \in Disk(M) :
                        /\ M[k].desc.last = b
                        /\ M[k].desc.first = m[DescUnit(b)].first
                        /\ M[k].desc.name = m[DescUnit(b)].name
    BY DEF Matches
  <2>2. PICK k \in Disk(L) :
               /\ L[k].desc.last = b
               /\ L[k].desc.first = m[DescUnit(b)].first
               /\ L[k].desc.name = m[DescUnit(b)].name
    BY <1>9 DEF Matches
  <2>3. k + 1 \in Disk(M) /\ M[k + 1] = L[k] BY <2>1
  <2> QED BY <2>2, <2>3
<1> QED BY <1>3, <1>5, <1>7, <1>8, <1>9 DEF VolumeOK
\* The text of an image is on the medium.
LEMMA ImageText ==
  ASSUME NEW m, m = media, m \in [Units -> Cells], NEW d \in Description, Fitting(d)
  PROVE  Text(d) \in Seq(Texts) /\ Len(Text(d)) = d.size
<1>1. d.first \in Nat /\ d.last \in Nat /\ d.size \in Nat BY Descriptions
<1>2. d.last \in Blocks /\ d.first <= d.last /\ d.size + 1 <= (d.last - d.first + 1) * BlockUnits
  BY DEF Fitting
<1>3. ASSUME NEW k \in 1 .. d.size PROVE media[d.first * BlockUnits + k - 1] \in Texts
  <2> DEFINE u == d.first * BlockUnits + k - 1
  <2>1. d.last - d.first + 1 \in Nat /\ d.first * BlockUnits \in Nat
        /\ (d.last + 1) * BlockUnits \in Nat /\ (d.last - d.first + 1) * BlockUnits \in Nat
    BY <1>1, <1>2, BlockSize
  <2>2. (d.last + 1) * BlockUnits = d.first * BlockUnits + (d.last - d.first + 1) * BlockUnits
    BY <1>1, BlockSize
  <2>3. u \in Nat /\ d.first * BlockUnits <= u /\ u < (d.last + 1) * BlockUnits
    BY <1>1, <1>2, <2>1, <2>2
  <2> HIDE DEF u
  <2>4. u \div BlockUnits \in d.first .. d.last BY <1>1, <2>3, InBlocks
  <2>5. u \div BlockUnits \in Blocks BY <1>1, <1>2, <2>4, BlockSize DEF Blocks
  <2>6. u \in Units BY <2>3, <2>5, UnitsOfBlocks
  <2>7. media[u] \in Texts BY <2>6 DEF Cells, Texts
  <2> QED BY <2>7 DEF u
<1>4. Text(d) = [k \in 1 .. d.size |-> media[d.first * BlockUnits + k - 1]] BY DEF Text
<1> QED BY <1>1, <1>3, <1>4

\* The scan makes a list of the images that is as they are.
LEMMA DiscoveredList ==
  ASSUME MediumOK(media)
  PROVE  /\ VolumeOK(Discovered(Blocks)) /\ Matches(media, Discovered(Blocks))
         /\ \A k \in DOMAIN Discovered(Blocks) :
              LET f == Discovered(Blocks)[k]
              IN  /\ f.regions = <<>> /\ f.text = Text(f.desc)
                  /\ OnDisk(f) /\ media[DescUnit(f.desc.last)] = f.desc
<1> DEFINE S == {b \in Blocks : BootMonFsIsImageValid(media, b)}
           s == Ascending(S)
           d(b) == media[DescUnit(b)]
           L == Discovered(Blocks)
<1>1. S \in SUBSET (0 .. LastBlock) /\ LastBlock \in Nat BY BlockSize DEF Blocks
<1> DEFINE n == Cardinality(S)
<1>2. /\ n \in Nat /\ s \in [1 .. n -> S]
      /\ \A j, k \in 1 .. n : j < k => s[j] < s[k]
      /\ \A x \in S : \E k \in 1 .. n : s[k] = x
  BY <1>1, AscendingIs
<1>3. L = [k \in DOMAIN s |-> NewFile(d(s[k]), DescUnit(s[k]), Text(d(s[k])))] BY DEF Discovered
<1> HIDE DEF s, n, L
<1>4. DOMAIN s = 1 .. n BY <1>2
<1>5. ASSUME NEW b \in S
      PROVE  /\ b \in Blocks /\ b \in Nat /\ d(b) \in Description
             /\ d(b).last = b /\ Fitting(d(b))
  <2>1. b \in Blocks /\ BootMonFsIsImageValid(media, b) OBVIOUS
  <2>2. d(b) \in Description /\ d(b).last = b /\ d(b).first <= b
    BY <2>1, ValidImage DEF MediumOK
  <2>3. d(b).size + 1 <= (b - d(b).first + 1) * BlockUnits BY <2>1 DEF MediumOK, ImagesApart
  <2> QED BY <2>1, <2>2, <2>3, BlockSize DEF Fitting, Blocks
<1>6. ASSUME NEW b \in S, NEW c \in S, b # c
      PROVE  Apart(d(c), d(b)) /\ d(c).name # d(b).name
  <2>1. /\ c < d(b).first \/ b < d(c).first
        /\ d(c).name # d(b).name
    BY <1>6 DEF MediumOK, ImagesApart
  <2> QED BY <2>1, <1>5 DEF Apart
<1> HIDE DEF S
<1>7. ASSUME NEW k \in 1 .. n
      PROVE  /\ s[k] \in S /\ FileOK(L[k]) /\ OnDisk(L[k]) /\ L[k].desc = d(s[k])
             /\ EffectiveName(L[k]) = d(s[k]).name /\ L[k].text = Text(d(s[k]))
             /\ L[k].regions = <<>> /\ ~L[k].open
  <2> DEFINE b == s[k]  f == NewFile(d(b), DescUnit(b), Text(d(b)))
  <2>1. b \in S BY <1>2
  <2>2. L[k] = f BY <1>3, <1>4
  <2> HIDE DEF b
  <2>3. d(b) \in Description /\ d(b).last = b /\ Fitting(d(b)) /\ b \in Nat BY <2>1, <1>5
  <2>4. Text(d(b)) \in Seq(Texts) BY <2>3, ImageText DEF MediumOK
  <2>5. DescUnit(b) \in Nat BY <2>3, DescUnits
  <2>6. d(b) # NoDesc BY <2>3, Descriptions
  <2> HIDE DEF d
  <2>7. /\ f \in FileRecords /\ f.desc = d(b) /\ f.addr = DescUnit(b) /\ f.open = FALSE
        /\ f.regions = <<>> /\ f.text = Text(d(b))
    BY <2>3, <2>4, <2>5 DEF NewFile, FileRecords
  <2> HIDE DEF f
  <2>8. FileOK(f) /\ OnDisk(f) BY <2>3, <2>6, <2>7 DEF FileOK, OnDisk
  <2>9. EffectiveName(f) = d(b).name BY <2>7 DEF EffectiveName
  <2> QED BY <2>1, <2>2, <2>7, <2>8, <2>9 DEF b
<1> HIDE DEF d
<1>8. L = [k \in 1 .. n |-> L[k]] BY <1>3, <1>4
<1>9. \A k \in 1 .. n : L[k] \in FileRecords BY <1>7 DEF FileOK
<1>10. L \in Seq(FileRecords) /\ DOMAIN L = 1 .. n BY <1>2, <1>8, <1>9
<1>11. \A j, k \in 1 .. n : j # k => s[j] # s[k]
  <2> SUFFICES ASSUME NEW j \in 1 .. n, NEW k \in 1 .. n, j # k PROVE s[j] # s[k] OBVIOUS
  <2>1. j < k \/ k < j BY <1>2
  <2>2. s[j] \in Nat /\ s[k] \in Nat BY <1>5, <1>7
  <2> QED BY <2>1, <2>2, <1>2
<1>12. Disk(L) = 1 .. n BY <1>7, <1>10 DEF Disk
<1>13. FilesLie(L)
  <2>1. \A k \in Disk(L) : Fitting(L[k].desc) BY <1>5, <1>7, <1>12
  <2>2. ASSUME NEW k \in Disk(L), NEW j \in Disk(L) \ {k} PROVE Apart(L[j].desc, L[k].desc)
    <3>1. s[j] # s[k] BY <1>11, <1>12
    <3> QED BY <3>1, <1>6, <1>7, <1>12
  <2> QED BY <2>1, <2>2 DEF FilesLie
<1>14. NamesDiffer(L)
  <2> SUFFICES ASSUME NEW j \in DOMAIN L, NEW k \in DOMAIN L, j # k
               PROVE  EffectiveName(L[j]) # EffectiveName(L[k])
    BY DEF NamesDiffer
  <2>1. s[j] # s[k] BY <1>10, <1>11
  <2> QED BY <2>1, <1>6, <1>7, <1>10
<1>15. VolumeOK(L) BY <1>7, <1>10, <1>13, <1>14 DEF VolumeOK
<1>16. Matches(media, L)
  <2> SUFFICES ASSUME NEW b \in Blocks, BootMonFsIsImageValid(media, b)
               PROVE  \E k \in Disk(L) :
                        /\ L[k].desc.last = b
                        /\ L[k].desc.first = media[DescUnit(b)].first
                        /\ L[k].desc.name = media[DescUnit(b)].name
    BY DEF Matches
  <2>1. b \in S BY DEF S
  <2>2. PICK k \in 1 .. n : s[k] = b BY <2>1, <1>2
  <2>3. L[k].desc = media[DescUnit(b)] BY <2>2, <1>7 DEF d
  <2>4. L[k].desc.last = b BY <2>1, <2>2, <1>5, <1>7
  <2> QED BY <2>2, <2>3, <2>4, <1>12
<1>17. \A k \in DOMAIN L : /\ L[k].regions = <<>> /\ L[k].text = Text(L[k].desc)
                           /\ OnDisk(L[k]) /\ media[DescUnit(L[k].desc.last)] = L[k].desc
  BY <1>5, <1>7, <1>10 DEF d
<1> QED BY <1>15, <1>16, <1>17 DEF L
-----------------------------------------------------------------------------
(* The calls that only change memory.                                      *)

LEMMA QuietFlush ==
  ASSUME pc' \in {"idle", "enter", "return", "delete"} PROVE FlushOK'
BY DEF FlushOK

LEMMA UpdateStep ==
  ASSUME VolumeOK(list), Matches(media, list), NEW i \in DOMAIN list, NEW f,
         FileOK(f), f.desc = list[i].desc, EffectiveName(f) \in {NoName, EffectiveName(list[i])},
         Update(i, f), media' = media
  PROVE  /\ VolumeOK(list') /\ Matches(media', list') /\ Replaced(list, i, f, list')
         /\ DOMAIN list' = DOMAIN list
         /\ \A c, lo, hi : Clear(list, c, lo, hi) => Clear(list', c, lo, hi)
<1>1. list \in Seq(FileRecords) /\ f \in FileRecords BY DEF VolumeOK, FileOK
<1>2. Replaced(list, i, f, list') BY <1>1 DEF Update, Replaced
<1>3. /\ VolumeOK(list') /\ DOMAIN list' = DOMAIN list
      /\ \A m : Matches(m, list) => Matches(m, list')
      /\ \A c, lo, hi : Clear(list, c, lo, hi) => Clear(list', c, lo, hi)
  BY <1>2, UpdateKeeps
<1> QED BY <1>2, <1>3

\* A file that is open has another position, size or text.
LEMMA OpenFiles ==
  ASSUME VolumeInv, initialized, NEW i \in DOMAIN list
  PROVE  /\ VolumeOK(list) /\ Matches(media, list) /\ FileOK(list[i]) /\ list[i] \in FileRecords
         /\ list[i].pos \in Nat /\ list[i].size \in Nat
BY DEF VolumeInv, VolumeOK, FileOK, FileRecords

LEMMA MemoryStep ==
  ASSUME VolumeInv, Calling, VolumeOK(list'), Matches(media', list'), UNCHANGED <<pc, flush>>
  PROVE  VolumeInv'
<1>1. /\ pc = "idle" /\ initialized /\ pc' = pc /\ media' = media /\ initialized' = initialized
      /\ start' = start /\ end' = end /\ r' = r
  BY DEF Calling, flush
<1>2. ControlOK' BY <1>1 DEF VolumeInv, ControlOK
<1>3. FlushOK' BY <1>1, QuietFlush
<1>4. MediumOK(media') BY <1>1 DEF VolumeInv
<1> QED BY <1>2, <1>3, <1>4 DEF VolumeInv

LEMMA InitializeKeeps ==
  ASSUME VolumeInv, Good', Initialize PROVE VolumeInv'
<1>1. /\ pc = "idle" /\ ~initialized /\ list = <<>> /\ MediumOK(media)
  BY DEF VolumeInv, ControlOK, Initialize
<1>2. list' = list \o Discovered(Blocks) /\ initialized' = TRUE
  BY DEF Initialize, Good, Spoil
<1>3. VolumeOK(Discovered(Blocks)) /\ Matches(media, Discovered(Blocks)) BY <1>1, DiscoveredList
<1>4. Discovered(Blocks) \in Seq(FileRecords) BY <1>3 DEF VolumeOK
<1>5. list' = Discovered(Blocks) BY <1>1, <1>2, <1>4
<1>6. media' = media /\ pc' = pc /\ start' = start /\ end' = end /\ r' = r
  BY DEF Initialize, flush
<1>7. ControlOK' BY <1>1, <1>2, <1>6 DEF VolumeInv, ControlOK
<1>8. FlushOK' BY <1>1, <1>6, QuietFlush
<1> QED BY <1>1, <1>3, <1>5, <1>6, <1>7, <1>8 DEF VolumeInv

LEMMA OpenFileKeeps ==
  ASSUME VolumeInv, Good', NEW n \in Names, NEW mode, OpenFile(n, mode) PROVE VolumeInv'
<1> DEFINE i == SelectInSeq(list, LAMBDA f : EffectiveName(f) = n)
           S == {k \in 1 .. Len(list) : EffectiveName(list[k]) = n}
<1>1. Calling /\ UNCHANGED <<pc, flush>> BY DEF OpenFile
<1>2. initialized /\ media' = media BY <1>1 DEF Calling
<1>3. VolumeOK(list) /\ Matches(media, list) BY <1>2 DEF VolumeInv
<1>4. list \in Seq(FileRecords) /\ DOMAIN list = 1 .. Len(list) BY <1>3 DEF VolumeOK
<1>5. /\ i # 0 => i \in DOMAIN list /\ EffectiveName(list[i]) = n
      /\ i = 0 => \A k \in DOMAIN list : EffectiveName(list[k]) # n
  <2>1. i = IF S # {} THEN Min(S) ELSE 0 BY DEF SelectInSeq
  <2>2. S \in SUBSET Nat /\ \A k \in S : k # 0 OBVIOUS
  <2>3. S # {} => Min(S) \in S BY <2>2, Least
  <2> HIDE DEF i
  <2> QED BY <2>1, <2>2, <2>3, <1>4
<1>6. CASE i # 0 /\ ~list[i].open /\ Update(i, Opened(list[i], n, mode # "read"))
             /\ Spoil(IF BootMonFsGetImageLength(list[i]) # Len(list[i].text)
                        THEN {"length"} ELSE {})
  <2> HIDE DEF i
  <2>1. i \in DOMAIN list /\ EffectiveName(list[i]) = n BY <1>5, <1>6
  <2>2. FileOK(list[i]) BY <2>1, <1>3 DEF VolumeOK
  <2>3. BootMonFsGetImageLength(list[i]) = Len(list[i].text) BY <1>6 DEF Spoil, Good
  <2>4. OnDisk(list[i]) => list[i].desc.name = n BY <1>6, <2>1 DEF EffectiveName
  <2> DEFINE f == Opened(list[i], n, mode # "read")
  <2>5. FileOK(f) /\ f.desc = list[i].desc /\ EffectiveName(f) = n
    BY <1>6, <2>2, <2>3, <2>4, OpenedFile
  <2>6. Update(i, f) BY <1>6
  <2> HIDE DEF f
  <2>7. VolumeOK(list') /\ Matches(media', list')
    BY <2>1, <2>5, <2>6, <1>2, <1>3, UpdateStep
  <2> QED BY <2>7, <1>1, MemoryStep
<1>7. CASE i = 0 /\ list' = <<Opened(NewFile(NoDesc, 0, <<>>), n, TRUE)>> \o list
  <2> DEFINE f == Opened(NewFile(NoDesc, 0, <<>>), n, TRUE)
  <2>1. FileOK(f) /\ ~OnDisk(f) /\ EffectiveName(f) = n BY CreatedFile
  <2>2. \A k \in DOMAIN list : EffectiveName(list[k]) # n BY <1>5, <1>7
  <2>3. list' = <<f>> \o list BY <1>7
  <2> HIDE DEF f
  <2>4. VolumeOK(list') /\ Matches(media', list')
    BY <2>1, <2>2, <2>3, <1>2, <1>3, CreatedKeeps
  <2> QED BY <2>4, <1>1, MemoryStep
<1> QED BY <1>6, <1>7 DEF OpenFile

LEMMA WriteFileKeeps ==
  ASSUME VolumeInv, NEW i \in DOMAIN list, NEW len \in Lengths, NEW v \in Payloads,
         WriteFile(i, len, v)
  PROVE  VolumeInv'
<1>1. Calling /\ UNCHANGED <<pc, flush>> /\ list[i].open BY DEF WriteFile
<1>2. initialized /\ media' = media BY <1>1 DEF Calling
<1>3. /\ VolumeOK(list) /\ Matches(media, list) /\ FileOK(list[i])
      /\ list[i] \in FileRecords /\ list[i].pos \in Nat
  BY <1>2, OpenFiles
<1>4. len \in Nat BY ConstantsAssumption
<1> DEFINE w == Written(list[i], list[i].pos, len, v)
           f == [w EXCEPT !.pos = @ + len]
<1>5. FileOK(w) /\ w.desc = list[i].desc /\ EffectiveName(w) = EffectiveName(list[i])
  <2> DEFINE pos == list[i].pos
  <2>1. pos \in Nat /\ v \in Payloads \cup {Zero} BY <1>3
  <2> HIDE DEF pos
  <2>2. w = Written(list[i], pos, len, v) BY DEF pos
  <2> HIDE DEF w
  <2> QED BY <1>1, <1>3, <1>4, <2>1, <2>2, WrittenFile
<1>6. FileOK(f) /\ f.desc = list[i].desc /\ EffectiveName(f) = EffectiveName(list[i])
  <2>1. w.pos = list[i].pos BY <1>3 DEF Written, FileRecords
  <2>2. w.pos + len \in Nat BY <1>3, <1>4, <2>1
  <2> HIDE DEF w
  <2> QED BY <1>5, <2>2 DEF FileOK, FileRecords, EffectiveName, OnDisk
<1>7. Update(i, f) BY DEF WriteFile
<1> HIDE DEF f
<1>8. VolumeOK(list') /\ Matches(media', list') BY <1>2, <1>3, <1>6, <1>7, UpdateStep
<1> QED BY <1>1, <1>8, MemoryStep

LEMMA SetPositionKeeps ==
  ASSUME VolumeInv, NEW i \in DOMAIN list, NEW p \in Positions, SetPosition(i, p)
  PROVE  VolumeInv'
<1>1. Calling /\ UNCHANGED <<pc, flush>> /\ list[i].open BY DEF SetPosition
<1>2. initialized /\ media' = media BY <1>1 DEF Calling
<1>3. VolumeOK(list) /\ Matches(media, list) /\ FileOK(list[i]) BY <1>2, OpenFiles
<1>4. p \in Nat BY ConstantsAssumption
<1> DEFINE f == [list[i] EXCEPT !.pos = p]
<1>5. /\ FileOK(f) /\ f.desc = list[i].desc /\ EffectiveName(f) = EffectiveName(list[i])
  BY <1>3, <1>4 DEF FileOK, FileRecords, EffectiveName, OnDisk
<1>6. Update(i, f) BY DEF SetPosition
<1> HIDE DEF f
<1>7. VolumeOK(list') /\ Matches(media', list') BY <1>2, <1>3, <1>5, <1>6, UpdateStep
<1> QED BY <1>1, <1>7, MemoryStep

LEMMA SetFileSizeKeeps ==
  ASSUME VolumeInv, NEW i \in DOMAIN list, NEW n \in Lengths, SetFileSize(i, n)
  PROVE  VolumeInv'
<1>1. Calling /\ UNCHANGED <<pc, flush>> /\ list[i].open /\ n # list[i].size BY DEF SetFileSize
<1>2. initialized /\ media' = media BY <1>1 DEF Calling
<1>3. /\ VolumeOK(list) /\ Matches(media, list) /\ FileOK(list[i]) /\ list[i].size \in Nat
      /\ list[i] \in FileRecords
  BY <1>2, OpenFiles
<1>4. n \in Nat BY ConstantsAssumption
<1>5. CASE n < list[i].size
  <2> DEFINE f == Truncated(list[i], n)
  <2>1. FileOK(f) /\ f.desc = list[i].desc /\ EffectiveName(f) = EffectiveName(list[i])
    BY <1>1, <1>3, <1>4, <1>5, TruncatedFile
  <2>2. Update(i, f) BY <1>5 DEF SetFileSize
  <2> HIDE DEF f
  <2>3. VolumeOK(list') /\ Matches(media', list') BY <1>2, <1>3, <2>1, <2>2, UpdateStep
  <2> QED BY <1>1, <2>3, MemoryStep
<1>6. CASE ~(n < list[i].size)
  <2> DEFINE f == Written(list[i], list[i].size, n - list[i].size, Zero)
  <2>1. n - list[i].size \in Nat BY <1>3, <1>4, <1>6
  <2>3. FileOK(f) /\ f.desc = list[i].desc /\ EffectiveName(f) = EffectiveName(list[i])
    BY <1>1, <1>3, <2>1, WrittenFile
  <2>4. Update(i, f) BY <1>6 DEF SetFileSize
  <2> HIDE DEF f
  <2>5. VolumeOK(list') /\ Matches(media', list') BY <1>2, <1>3, <2>3, <2>4, UpdateStep
  <2> QED BY <1>1, <2>5, MemoryStep
<1> QED BY <1>5, <1>6

\* A call that goes on to flush.
LEMMA BeginKeeps ==
  ASSUME VolumeInv, NEW i \in DOMAIN list, NEW why, NEW to \in {"enter", "delete"},
         Begin(i, why, to)
  PROVE  VolumeInv'
<1>1. /\ initialized /\ media' = media /\ initialized' = initialized /\ list' = list
      /\ cur' = i /\ pc' = to /\ start' = start /\ end' = end /\ r' = r
  BY DEF Begin, Calling
<1>2. ControlOK' BY <1>1 DEF VolumeInv, ControlOK
<1>3. FlushOK' BY <1>1, QuietFlush
<1> QED BY <1>1, <1>2, <1>3 DEF VolumeInv

LEMMA DeleteKeeps ==
  ASSUME VolumeInv, NEW i \in DOMAIN list, Delete(i) PROVE VolumeInv'
<1>1. /\ initialized /\ media' = media /\ initialized' = initialized
      /\ cur' = i /\ pc' = "delete" /\ start' = start /\ end' = end /\ r' = r
  BY DEF Delete, Calling
<1>2. VolumeOK(list) /\ Matches(media, list) /\ FileOK(list[i]) /\ list[i] \in FileRecords
  BY <1>1, OpenFiles
<1> DEFINE f == [list[i] EXCEPT !.regions = <<>>]
<1>9. <<>> \in Seq(Pending) OBVIOUS
<1>3. /\ f \in FileRecords /\ f.desc = list[i].desc /\ f.addr = list[i].addr
      /\ f.open = list[i].open /\ f.name = list[i].name /\ f.size = list[i].size
      /\ f.text = list[i].text /\ f.regions = <<>>
  BY <1>2, <1>9 DEF FileRecords
<1>4. Update(i, f) BY DEF Delete
<1> HIDE DEF f
<1>5. FileOK(f) /\ EffectiveName(f) = EffectiveName(list[i])
  BY <1>2, <1>3 DEF FileOK, EffectiveName, OnDisk
<1>6. VolumeOK(list') /\ Matches(media', list') /\ DOMAIN list' = DOMAIN list
  BY <1>1, <1>2, <1>3, <1>4, <1>5, UpdateStep
<1>7. ControlOK' BY <1>1, <1>6 DEF VolumeInv, ControlOK
<1>8. FlushOK' BY <1>1, QuietFlush
<1> QED BY <1>1, <1>6, <1>7, <1>8 DEF VolumeInv
-----------------------------------------------------------------------------
(* The start of a flush.                                                   *)

LEMMA DiskFiles ==
  ASSUME VolumeOK(list)
  PROVE  /\ DiskIndices = Disk(list)
         /\ \A k \in Disk(list) : /\ k \in DOMAIN list /\ list[k].desc \in Description
                                  /\ list[k].desc.first \in Nat /\ list[k].desc.last \in Nat
                                  /\ list[k].desc.last \in Blocks
                                  /\ list[k].desc.first <= list[k].desc.last
BY FileOnDisk, Descriptions DEF DiskIndices, Disk, VolumeOK, FilesLie, Fitting

\* Where the scan of the list looks for space.
LEMMA SpaceBeforeIs ==
  ASSUME VolumeOK(list), InOrder, NEW k \in Nat
  PROVE  \E q \in Nat :
           /\ SpaceBefore(k) = q * BlockUnits
           /\ \A j \in Disk(list) : j < k => list[j].desc.last < q
           /\ q = 0 \/ \E j \in Disk(list) : j < k /\ q = list[j].desc.last + 1
<1> DEFINE earlier == {j \in DiskIndices : j < k}
<1>1. /\ DiskIndices = Disk(list)
      /\ \A j \in Disk(list) : /\ j \in DOMAIN list
                               /\ list[j].desc.first \in Nat /\ list[j].desc.last \in Nat
                               /\ list[j].desc.first <= list[j].desc.last
  BY DiskFiles
<1>2. CASE earlier = {}
  <2>1. SpaceBefore(k) = 0 BY <1>2 DEF SpaceBefore
  <2>2. \A j \in Disk(list) : ~(j < k) BY <1>1, <1>2
  <2>3. 0 * BlockUnits = 0 BY BlockSize
  <2> QED BY <2>1, <2>2, <2>3
<1>3. CASE earlier # {}
  <2>1. Len(list) \in Nat /\ DOMAIN list = 1 .. Len(list) BY DEF VolumeOK
  <2>2. earlier \in SUBSET (0 .. Len(list)) BY <1>1, <2>1
  <2> DEFINE m == Max(earlier)  q == list[m].desc.last + 1
  <2>3. m \in earlier /\ \A j \in earlier : m >= j BY <1>3, <2>1, <2>2, Greatest
  <2>4. SpaceBefore(k) = q * BlockUnits BY <1>3 DEF SpaceBefore
  <2> HIDE DEF m
  <2>5. m \in Disk(list) /\ m < k /\ q \in Nat BY <1>1, <2>3
  <2>6. ASSUME NEW j \in Disk(list), j < k PROVE list[j].desc.last < q
    <3>1. j \in earlier /\ j <= m BY <1>1, <2>3, <2>6
    <3>2. j # m => list[j].desc.last < list[m].desc.first
      BY <1>1, <2>1, <2>5, <3>1 DEF InOrder
    <3> QED BY <1>1, <2>5, <3>2
  <2> QED BY <2>4, <2>5, <2>6
<1> QED BY <1>2, <1>3

FreeFrom(q, e) == e \in Blocks /\ \A j \in Disk(list) : list[j].desc.last < q \/ e < list[j].desc.first

LEMMA GapFound ==
  ASSUME VolumeOK(list), InOrder, NEW n \in Nat, NEW k \in Gaps(n + 1)
  PROVE  \E q \in Nat : SpaceBefore(k) = q * BlockUnits /\ FreeFrom(q, q + (n \div BlockUnits))
<1> DEFINE d(j) == list[j].desc
<1>1. /\ DiskIndices = Disk(list)
      /\ \A j \in Disk(list) : /\ j \in DOMAIN list /\ d(j).first \in Nat /\ d(j).last \in Nat
                               /\ d(j).last \in Blocks /\ d(j).first <= d(j).last
  BY DiskFiles
<1>2. k \in Disk(list) /\ Fits(SpaceBefore(k), d(k).first * BlockUnits, n + 1)
  BY <1>1 DEF Gaps
<1>3. DOMAIN list = 1 .. Len(list) BY DEF VolumeOK
<1>4. k \in Nat BY <1>1, <1>2, <1>3
<1>5. PICK q \in Nat : /\ SpaceBefore(k) = q * BlockUnits
                       /\ \A j \in Disk(list) : j < k => d(j).last < q
                       /\ q = 0 \/ \E j \in Disk(list) : j < k /\ q = d(j).last + 1
  BY <1>4, SpaceBeforeIs
<1>6. \A j \in Disk(list) : j < k => d(j).last < d(k).first
  BY <1>1, <1>2 DEF InOrder
<1>7. q <= d(k).first BY <1>1, <1>2, <1>5, <1>6
<1>8. q * BlockUnits \in Nat /\ d(k).first * BlockUnits \in Nat
      /\ q * BlockUnits <= d(k).first * BlockUnits
  BY <1>1, <1>2, <1>7, Monotone
<1>9. q * BlockUnits + n + 1 <= d(k).first * BlockUnits BY <1>2, <1>5, <1>8 DEF Fits
<1> DEFINE e == q + (n \div BlockUnits)
<1>10. e < d(k).first BY <1>1, <1>2, <1>9, Taken
<1>11. e \in Nat BY Division
<1> HIDE DEF e, d
<1>12. e \in Blocks BY <1>1, <1>2, <1>10, <1>11, BlockSize DEF Blocks
<1>13. ASSUME NEW j \in Disk(list) PROVE d(j).last < q \/ e < d(j).first
  <2>1. CASE j < k BY <2>1, <1>5
  <2>2. CASE j = k BY <2>2, <1>10
  <2>3. CASE k < j
    <3>1. d(k).last < d(j).first BY <2>3, <1>1, <1>2 DEF InOrder, d
    <3> QED BY <3>1, <1>1, <1>2, <1>10, <1>11
  <2> QED BY <2>1, <2>2, <2>3, <1>1, <1>3, <1>4
<1> QED BY <1>5, <1>12, <1>13 DEF FreeFrom, e, d

LEMMA SpaceBehind ==
  ASSUME VolumeOK(list), InOrder, NEW n \in Nat,
         Fits(SpaceBefore(Len(list) + 1), EndOfMedia, n + 1)
  PROVE  \E q \in Nat : /\ SpaceBefore(Len(list) + 1) = q * BlockUnits
                        /\ FreeFrom(q, q + (n \div BlockUnits))
<1> DEFINE d(j) == list[j].desc
<1>1. \A j \in Disk(list) : j \in DOMAIN list /\ d(j).last \in Nat /\ d(j).last \in Blocks
  BY DiskFiles
<1>2. Len(list) + 1 \in Nat /\ DOMAIN list = 1 .. Len(list) BY DEF VolumeOK
<1>3. PICK q \in Nat :
        /\ SpaceBefore(Len(list) + 1) = q * BlockUnits
        /\ \A j \in Disk(list) : j < Len(list) + 1 => d(j).last < q
        /\ q = 0 \/ \E j \in Disk(list) : j < Len(list) + 1 /\ q = d(j).last + 1
  BY <1>2, SpaceBeforeIs
<1>4. \A j \in Disk(list) : d(j).last < q BY <1>1, <1>2, <1>3
<1>5. q <= LastBlock + 1 BY <1>1, <1>3, BlockSize DEF Blocks
<1>6. LastBlock + 1 \in Nat /\ q * BlockUnits \in Nat /\ (LastBlock + 1) * BlockUnits \in Nat
      /\ q * BlockUnits <= (LastBlock + 1) * BlockUnits
  BY <1>5, BlockSize, Monotone
<1>7. q * BlockUnits + n + 1 <= (LastBlock + 1) * BlockUnits
  BY <1>3, <1>6 DEF Fits, EndOfMedia
<1> DEFINE e == q + (n \div BlockUnits)
<1>8. e < LastBlock + 1 BY <1>6, <1>7, Taken
<1>11. (n \div BlockUnits) \in Nat BY Division
<1>9. e \in Nat BY <1>11
<1> HIDE DEF e
<1>10. e \in Blocks BY <1>8, <1>9, BlockSize DEF Blocks
<1> QED BY <1>3, <1>4, <1>10 DEF FreeFrom, e

LEMMA FindSpaceKeeps ==
  ASSUME VolumeOK(list), Matches(media, list), cur \in DOMAIN list, ~OnDisk(File), InOrder,
         FindSpaceForNewFile
  PROVE  /\ VolumeOK(list') /\ Matches(media, list')
         /\ cur' \in DOMAIN list' /\ list'[cur'] = list[cur] /\ start' \in Nat
         /\ pc' \in {"region", "return"}
         /\ pc' = "region" =>
              \E q \in Nat : /\ start' = q * BlockUnits
                             /\ Room(list', cur', q, q + (File.size \div BlockUnits))
<1> DEFINE n == File.size
<1>1. FileOK(File) /\ File = list[cur] BY DEF VolumeOK, File
<1>2. n \in Nat BY <1>1 DEF FileOK, FileRecords
<1>3. list \in Seq(FileRecords) /\ DOMAIN list = 1 .. Len(list) /\ Len(list) \in Nat BY DEF VolumeOK
<1>4. DiskIndices = Disk(list) /\ Disk(list) \subseteq DOMAIN list BY DiskFiles DEF Disk
<1> HIDE DEF n
<1>5. CASE /\ Gaps(n + 1) # {}
           /\ LinkBefore(cur, Min(Gaps(n + 1)))
           /\ start' = SpaceBefore(Min(Gaps(n + 1)))
           /\ pc' = "region"
  <2> DEFINE k == Min(Gaps(n + 1))  to == IF cur < k THEN k - 1 ELSE k
  <2>1. Gaps(n + 1) \subseteq Disk(list) BY <1>4 DEF Gaps
  <2>2. Gaps(n + 1) \in SUBSET Nat BY <2>1, <1>3, <1>4
  <2>3. k \in Gaps(n + 1) BY <1>5, <2>2, Least
  <2>4. list' = InsertAt(RemoveAt(list, cur), to, list[cur]) /\ cur' = to
    BY <1>5 DEF LinkBefore
  <2> HIDE DEF k
  <2>5. k \in Disk(list) /\ k \in 1 .. Len(list) BY <2>1, <2>3, <1>3, <1>4
  <2>6. k # cur BY <2>5, <1>1 DEF Disk
  <2>7. to \in 1 .. Len(list) BY <2>5, <2>6, <1>3
  <2> HIDE DEF to
  <2> DEFINE p == LinkMap(Len(list), cur, to)
  <2>8. to \in DOMAIN list BY <2>7, <1>3
  <2>9. /\ list' \in Seq(FileRecords) /\ DOMAIN list' = DOMAIN list
        /\ p[to] = cur /\ Reordering(list, list', p)
    <3>1. list' = InsertAt(RemoveAt(list, cur), to, list[cur]) BY <2>4
    <3> HIDE DEF p
    <3>2. p = LinkMap(Len(list), cur, to) BY DEF p
    <3>3. list \in Seq(FileRecords) /\ cur \in DOMAIN list BY <1>3
    <3> QED BY ONLY <3>1, <3>2, <3>3, <2>8, Linked
  <2> HIDE DEF p
  <2>10. /\ p \in [DOMAIN list' -> DOMAIN list]
         /\ \A j \in DOMAIN list' : list'[j] = list[p[j]]
         /\ \A j, h \in DOMAIN list' : j # h => p[j] # p[h]
         /\ \A h \in DOMAIN list : \E j \in DOMAIN list' : p[j] = h
    BY <2>9 DEF Reordering
  <2>11. to \in DOMAIN list' BY <2>8, <2>9
  <2>12. /\ VolumeOK(list')
         /\ \A m : Matches(m, list) => Matches(m, list')
         /\ \A c \in DOMAIN list' : \A lo, hi : Clear(list, p[c], lo, hi) => Clear(list', c, lo, hi)
    BY <2>9, <2>10, OrderKeeps
  <2>13. PICK q \in Nat : SpaceBefore(k) = q * BlockUnits /\ FreeFrom(q, q + (n \div BlockUnits))
    BY <1>2, <2>3, GapFound
  <2>14. Clear(list, cur, q, q + (n \div BlockUnits)) /\ q + (n \div BlockUnits) \in Blocks
    BY <2>13 DEF FreeFrom, Clear
  <2>15. Room(list', to, q, q + (n \div BlockUnits)) BY <2>9, <2>11, <2>12, <2>14 DEF Room
  <2>16. start' = q * BlockUnits BY <1>5, <2>13 DEF k
  <2>17. start' \in Nat BY <2>16, BlockSize
  <2>18. list'[cur'] = list[cur] BY <2>4, <2>9, <2>10, <2>11
  <2> QED BY <1>5, <2>4, <2>11, <2>12, <2>15, <2>16, <2>17, <2>18 DEF n
<1>6. CASE /\ Gaps(n + 1) = {}
           /\ start' = SpaceBefore(Len(list) + 1)
           /\ pc' = IF Fits(start', EndOfMedia, n + 1) THEN "region" ELSE "return"
           /\ UNCHANGED <<list, cur>>
  <2>1. start' \in Nat
    <3>1. Len(list) + 1 \in Nat BY <1>3
    <3>2. PICK q \in Nat : SpaceBefore(Len(list) + 1) = q * BlockUnits
      BY <3>1, SpaceBeforeIs
    <3> QED BY <3>2, <1>6, BlockSize
  <2>2. ASSUME pc' = "region"
        PROVE  \E q \in Nat : /\ start' = q * BlockUnits
                              /\ Room(list', cur', q, q + (n \div BlockUnits))
    <3>1. Fits(SpaceBefore(Len(list) + 1), EndOfMedia, n + 1) BY <1>6, <2>2
    <3>2. PICK q \in Nat : /\ SpaceBefore(Len(list) + 1) = q * BlockUnits
                           /\ FreeFrom(q, q + (n \div BlockUnits))
      BY <3>1, <1>2, SpaceBehind
    <3>3. Room(list, cur, q, q + (n \div BlockUnits)) BY <3>2 DEF FreeFrom, Room, Clear
    <3> QED BY <3>2, <3>3, <1>6
  <2> QED BY <1>6, <2>1, <2>2 DEF n
<1> QED BY <1>5, <1>6 DEF FindSpaceForNewFile, n

LEMMA EnterKeeps ==
  ASSUME VolumeInv, Good', Enter PROVE VolumeInv'
<1>1. /\ pc = "enter" /\ initialized /\ cur \in DOMAIN list /\ start \in Nat /\ end \in Nat /\ r \in Nat
      /\ VolumeOK(list) /\ Matches(media, list) /\ MediumOK(media)
  BY DEF VolumeInv, ControlOK, Enter
<1>2. media' = media /\ initialized' = initialized BY DEF Enter
<1>3. FileOK(File) /\ File = list[cur] BY <1>1 DEF VolumeOK, File
<1>4. CASE /\ ~File.open \/ ~File.write
           /\ pc' = "return"
           /\ UNCHANGED <<list, cur, start, end, r, spoilt>>
  <2>1. ControlOK' BY <1>1, <1>2, <1>4 DEF VolumeInv, ControlOK
  <2>2. FlushOK' BY <1>4, QuietFlush
  <2> QED BY <1>1, <1>2, <1>4, <2>1, <2>2 DEF VolumeInv
<1>5. CASE /\ File.open /\ File.write /\ r' = 1
           /\ ~OnDisk(File) /\ FindSpaceForNewFile /\ Spoil(Disorder)
           /\ end' = start' + File.desc.size
  <2>1. InOrder BY <1>5 DEF Spoil, Disorder, Good
  <2>2. /\ VolumeOK(list') /\ Matches(media, list')
        /\ cur' \in DOMAIN list' /\ list'[cur'] = list[cur] /\ start' \in Nat
        /\ pc' \in {"region", "return"}
        /\ pc' = "region" =>
             \E q \in Nat : /\ start' = q * BlockUnits
                            /\ Room(list', cur', q, q + (File.size \div BlockUnits))
    BY <1>1, <1>5, <2>1, FindSpaceKeeps
  <2>3. end' = start' BY <1>5, <2>2 DEF OnDisk, NoDesc
  <2>4. ControlOK' BY <1>1, <1>2, <1>5, <2>2, <2>3 DEF VolumeInv, ControlOK
  <2>5. File' = File BY <1>3, <2>2 DEF File
  <2>6. FlushOK'
    <3>1. CASE pc' = "return" BY <3>1, QuietFlush
    <3>2. CASE pc' = "region"
      <4>1. PICK q \in Nat : /\ start' = q * BlockUnits
                             /\ Room(list', cur', q, q + (File.size \div BlockUnits))
        BY <2>2, <3>2
      <4>2. Block' = q BY <4>1, BlockStart DEF Block
      <4>3. FlushingOK' BY <1>5, <2>3, <2>5, <4>1, <4>2 DEF FlushingOK, OnDisk
      <4> QED BY <3>2, <4>3 DEF FlushOK
    <3> QED BY <2>2, <3>1, <3>2
  <2> QED BY <1>1, <1>2, <2>2, <2>4, <2>6 DEF VolumeInv
<1>6. CASE /\ File.open /\ File.write /\ r' = 1
           /\ OnDisk(File) /\ start' = File.desc.first * BlockUnits /\ pc' = "region"
           /\ UNCHANGED <<list, cur, spoilt>>
           /\ end' = start' + File.desc.size
  <2> DEFINE d == File.desc
  <2>1. d \in Description /\ cur \in Disk(list) BY <1>1, <1>3, <1>6, FileOnDisk DEF Disk
  <2>2. d.first \in Nat /\ d.last \in Nat /\ d.size \in Nat BY <2>1, Descriptions
  <2>3. d.first <= d.last /\ d.size + 1 <= (d.last - d.first + 1) * BlockUnits
    BY <1>1, <1>3, <2>1 DEF VolumeOK, FilesLie, Fitting
  <2>4. start' \in Nat /\ Block' = d.first BY <1>6, <2>2, BlockStart DEF Block
  <2>5. (d.last + 1) * BlockUnits = d.first * BlockUnits + (d.last - d.first + 1) * BlockUnits
        /\ (d.last - d.first + 1) * BlockUnits \in Nat
    BY <2>2, <2>3, BlockSize
  <2>6. end' \in Nat /\ end' + 1 <= (d.last + 1) * BlockUnits
    BY <1>6, <2>2, <2>3, <2>4, <2>5
  <2>7. ControlOK' BY <1>1, <1>2, <1>6, <2>4, <2>6 DEF VolumeInv, ControlOK
  <2>8. File' = File BY <1>6 DEF File
  <2>9. FlushingOK' BY <1>6, <2>4, <2>6, <2>8 DEF FlushingOK, OnDisk
  <2>10. FlushOK' BY <1>6, <2>9 DEF FlushOK
  <2> QED BY <1>1, <1>2, <1>6, <2>7, <2>10 DEF VolumeInv
<1> QED BY <1>4, <1>5, <1>6 DEF Enter
-----------------------------------------------------------------------------
(* The regions of a flush.                                                 *)

\* What is known while a call is under way.
LEMMA UnderWay ==
  ASSUME VolumeInv, pc # "idle"
  PROVE  /\ initialized /\ ControlOK /\ cur \in DOMAIN list /\ MediumOK(media)
         /\ VolumeOK(list) /\ Matches(media, list) /\ FileOK(File) /\ File = list[cur]
         /\ start \in Nat /\ end \in Nat /\ r \in Nat
<1>1. initialized /\ ControlOK /\ cur \in DOMAIN list BY DEF VolumeInv, ControlOK
<1>2. VolumeOK(list) /\ Matches(media, list) /\ MediumOK(media) BY <1>1 DEF VolumeInv
<1> QED BY <1>1, <1>2 DEF VolumeOK, File, ControlOK

LEMMA RegionInTurn ==
  ASSUME FileOK(File), r \in Nat, r > 0, r <= Len(File.regions)
  PROVE  /\ Region.off \in Nat /\ Region.len \in Nat
         /\ Region.off + Region.len <= Len(File.text) /\ Len(File.text) \in Nat
<1>1. File.regions \in Seq(Pending) /\ File.text \in Seq(Texts) BY DEF FileOK, FileRecords
<1>2. r \in DOMAIN File.regions BY <1>1
<1>3. Region \in Pending BY <1>1, <1>2 DEF Region
<1> QED BY <1>1, <1>2, <1>3 DEF Pending, Region, FileOK

LEMMA FlushingStays ==
  ASSUME FlushingOK, list' = list, cur' = cur, start' = start, end' = end, r' > 0
  PROVE  FlushingOK' /\ File' = File /\ Block' = Block
BY DEF FlushingOK, File, Block

\* The space of the region in turn, when it is an append.
LEMMA AppendSpace ==
  ASSUME ControlOK, VolumeOK(list), cur \in DOMAIN list, FlushingOK,
         r <= Len(File.regions),
         LET size == Region.off + Region.len + 1
         IN  \/ size <= PhysicalSize(File)
             \/ InOrder /\ NextOnDisk /\ Fits(start, EndOfAppendSpace, size)
  PROVE  RegionOK
<1> DEFINE n == Region.off + Region.len  c == n \div BlockUnits  d(j) == list[j].desc
<1>1. FileOK(File) /\ File = list[cur] /\ File.open BY DEF VolumeOK, File, FlushingOK
<1>2. r \in Nat /\ r > 0 /\ start \in Nat BY DEF ControlOK, FlushingOK
<1>3. n \in Nat /\ n <= Len(File.text) /\ Len(File.text) \in Nat BY <1>1, <1>2, RegionInTurn
<1>4. c \in Nat BY <1>3, Division
<1>5. Block \in Nat /\ start = Block * BlockUnits BY <1>2, Division DEF Block, FlushingOK
<1>6. \A j \in Disk(list) : /\ j \in DOMAIN list /\ d(j).first \in Nat /\ d(j).last \in Nat
                            /\ d(j).last \in Blocks /\ d(j).first <= d(j).last
  BY DiskFiles
<1>7. DOMAIN list = 1 .. Len(list) /\ Len(list) \in Nat /\ DiskIndices = Disk(list)
  BY DiskFiles DEF VolumeOK
<1> HIDE DEF d
<1>8. Room(list, cur, Block, Block + c)
  <2>1. CASE ~OnDisk(File)
    <3> DEFINE e == File.size \div BlockUnits
    <3>1. n <= File.size /\ File.size \in Nat BY <1>1, <1>3 DEF FileOK
    <3>2. e \in Nat /\ c <= e BY <1>3, <3>1, Division, DivisionMonotone
    <3>3. Room(list, cur, Block, Block + e) BY <2>1 DEF FlushingOK
    <3> HIDE DEF c, e
    <3>4. Block + c \in Blocks BY <1>4, <1>5, <3>2, <3>3, BlockSize DEF Room, Blocks
    <3>5. Clear(list, cur, Block, Block + c)
      <4>1. Clear(list, cur, Block, Block + e) BY <3>3 DEF Room
      <4>2. ASSUME NEW j \in Disk(list) \ {cur}
            PROVE  list[j].desc.last < Block \/ Block + c < list[j].desc.first
        <5>1. list[j].desc.last < Block \/ Block + e < list[j].desc.first BY <4>1 DEF Clear
        <5>2. list[j].desc.first \in Nat BY <1>6 DEF d
        <5> QED BY <5>1, <5>2, <1>4, <1>5, <3>2
      <4> QED BY <4>2 DEF Clear
    <3> QED BY <3>4, <3>5 DEF Room
  <2>2. CASE OnDisk(File)
    <3>1. cur \in Disk(list) /\ File.desc = d(cur) /\ Block = d(cur).first
      BY <2>2, <1>1 DEF Disk, d, FlushingOK
    <3>2. /\ d(cur).last \in Nat /\ d(cur).last \in Blocks /\ d(cur).first \in Nat
          /\ d(cur).first <= d(cur).last
      BY <3>1, <1>6
    <3>3. CASE n + 1 <= PhysicalSize(File)
      <4> DEFINE f == d(cur).first  l == d(cur).last
      <4>1. n + 1 <= (l - f + 1) * BlockUnits BY <3>3, <3>1, <2>2 DEF PhysicalSize
      <4> HIDE DEF f, l
      <4>2. f \in Nat /\ l \in Nat /\ f <= l BY <3>2 DEF f, l
      <4>3. (l + 1) * BlockUnits = f * BlockUnits + (l - f + 1) * BlockUnits BY <4>2, BlockSize
      <4>4. f * BlockUnits \in Nat /\ (l - f + 1) * BlockUnits \in Nat BY <4>2, BlockSize
      <4>5. f * BlockUnits + n + 1 <= (l + 1) * BlockUnits BY <1>3, <4>1, <4>3, <4>4
      <4>6. f + c < l + 1 BY <1>3, <4>2, <4>5, Taken
      <4> HIDE DEF c
      <4>7. Block + c <= d(cur).last BY <1>4, <4>2, <4>6, <3>1 DEF f, l
      <4>8. Clear(list, cur, Block, d(cur).last) BY <3>1, OwnBlocks DEF d
      <4>9. Block + c \in Blocks BY <1>4, <1>5, <3>2, <4>7, BlockSize DEF Blocks
      <4>10. ASSUME NEW j \in Disk(list) \ {cur}
             PROVE  list[j].desc.last < Block \/ Block + c < list[j].desc.first
        <5>1. list[j].desc.last < Block \/ d(cur).last < list[j].desc.first BY <4>8 DEF Clear
        <5>2. list[j].desc.first \in Nat BY <1>6 DEF d
        <5> QED BY <5>1, <5>2, <1>4, <1>5, <3>2, <4>7
      <4> QED BY <4>9, <4>10 DEF Room, Clear
    <3>4. CASE InOrder /\ NextOnDisk /\ Fits(start, EndOfAppendSpace, n + 1)
      <4>1. ASSUME NEW j \in Disk(list), j < cur PROVE d(j).last < Block
        BY <4>1, <3>1, <3>4, <1>7 DEF InOrder, d
      <4>2. CASE cur < Len(list)
        <5> DEFINE x == cur + 1
        <5>1. x \in Disk(list) BY <4>2, <3>4, <1>7 DEF NextOnDisk, Disk
        <5>2. EndOfAppendSpace = d(x).first * BlockUnits BY <4>2 DEF EndOfAppendSpace, d
        <5> HIDE DEF x
        <5>3. cur < x /\ x \in Nat /\ \A j \in DOMAIN list : j < cur \/ j = cur \/ j = x \/ x < j
          BY <1>7 DEF x
        <5>4. d(x).first \in Nat /\ d(x).last \in Nat /\ d(x).first <= d(x).last
              /\ d(x).last \in Blocks
          BY <5>1, <1>6
        <5>5. Block < d(x).first
          <6>1. d(cur).last < d(x).first BY <5>1, <5>3, <3>1, <3>4, <1>7 DEF InOrder, d
          <6> QED BY <6>1, <5>4, <3>1, <3>2
        <5>6. d(x).first * BlockUnits \in Nat /\ Block * BlockUnits \in Nat
              /\ Block * BlockUnits <= d(x).first * BlockUnits
          BY <5>4, <5>5, <1>5, Monotone
        <5>7. Block * BlockUnits + n + 1 <= d(x).first * BlockUnits
          BY <5>2, <5>6, <3>4, <1>3, <1>5 DEF Fits
        <5>8. Block + c < d(x).first BY <5>4, <5>7, <1>3, <1>5, Taken
        <5> HIDE DEF c
        <5>9. Block + c \in Blocks BY <5>4, <5>8, <1>4, <1>5, BlockSize DEF Blocks
        <5>10. ASSUME NEW j \in Disk(list) \ {cur} PROVE d(j).last < Block \/ Block + c < d(j).first
          <6>1. j \in DOMAIN list BY <1>6
          <6>2. CASE j < cur BY <6>2, <4>1
          <6>3. CASE j = x BY <6>3, <5>8
          <6>4. CASE x < j
            <7>1. d(x).last < d(j).first BY <6>4, <5>1, <3>4, <1>7 DEF InOrder, d
            <7>2. d(j).first \in Nat BY <1>6
            <7> QED BY <7>1, <7>2, <5>4, <5>8, <1>4, <1>5
          <6> QED BY <6>1, <6>2, <6>3, <6>4, <5>3
        <5> QED BY <5>9, <5>10 DEF Room, Clear, d
      <4>3. CASE ~(cur < Len(list))
        <5>1. EndOfAppendSpace = (LastBlock + 1) * BlockUnits
          BY <4>3 DEF EndOfAppendSpace, EndOfMedia
        <5>2. Block <= LastBlock BY <3>1, <3>2, BlockSize DEF Blocks
        <5>3. LastBlock + 1 \in Nat /\ (LastBlock + 1) * BlockUnits \in Nat
              /\ Block * BlockUnits \in Nat
              /\ Block * BlockUnits <= (LastBlock + 1) * BlockUnits
          BY <5>2, <1>5, BlockSize, Monotone
        <5>4. Block * BlockUnits + n + 1 <= (LastBlock + 1) * BlockUnits
          BY <5>1, <5>3, <3>4, <1>3, <1>5 DEF Fits
        <5>5. Block + c < LastBlock + 1 BY <5>3, <5>4, <1>3, <1>5, Taken
        <5> HIDE DEF c
        <5>6. Block + c \in Blocks BY <5>5, <1>4, <1>5, BlockSize DEF Blocks
        <5>7. \A j \in Disk(list) \ {cur} : d(j).last < Block BY <4>1, <4>3, <1>6, <1>7
        <5> QED BY <5>6, <5>7 DEF Room, Clear, d
      <4> QED BY <4>2, <4>3
    <3> QED BY <3>3, <3>4
  <2> QED BY <2>1, <2>2
<1> QED BY <1>8 DEF RegionOK

LEMMA EmptyRegionKeeps ==
  ASSUME VolumeInv, EmptyRegion PROVE VolumeInv'
<1>1. pc = "region" /\ r' = r + 1
      /\ UNCHANGED <<media, initialized, list, pc, cur, start, end>>
  BY DEF EmptyRegion
<1>2. r \in Nat /\ FlushingOK BY <1>1, UnderWay DEF VolumeInv, FlushOK
<1>3. FlushingOK' BY <1>1, <1>2, FlushingStays
<1>4. ControlOK' BY <1>1, <1>2 DEF VolumeInv, ControlOK
<1>5. FlushOK' BY <1>1, <1>3 DEF FlushOK
<1> QED BY <1>1, <1>4, <1>5 DEF VolumeInv

LEMMA NextRegionKeeps ==
  ASSUME VolumeInv, Good', NextRegion PROVE VolumeInv'
<1>1. /\ pc = "region" /\ media' = media /\ initialized' = initialized /\ cur' = cur
      /\ start' = start /\ end' = end /\ r' = r
  BY DEF NextRegion
<1>2. /\ initialized /\ ControlOK /\ cur \in DOMAIN list /\ MediumOK(media)
      /\ VolumeOK(list) /\ Matches(media, list) /\ FileOK(File) /\ File = list[cur]
      /\ start \in Nat /\ end \in Nat /\ r \in Nat
  BY <1>1, UnderWay
<1>3. FlushingOK BY <1>1 DEF VolumeInv, FlushOK
<1>4. CASE r > Len(File.regions) /\ pc' = "finish" /\ Update(cur, [File EXCEPT !.regions = <<>>])
  <2> DEFINE f == [File EXCEPT !.regions = <<>>]
  <2>1. File \in FileRecords BY <1>2 DEF FileOK
  <2>2. <<>> \in Seq(Pending) OBVIOUS
  <2>3. /\ f \in FileRecords /\ f.desc = File.desc /\ f.addr = File.addr /\ f.open = File.open
        /\ f.name = File.name /\ f.size = File.size /\ f.text = File.text /\ f.regions = <<>>
    BY <2>1, <2>2 DEF FileRecords
  <2>4. Update(cur, f) BY <1>4
  <2> HIDE DEF f
  <2>5. FileOK(f) /\ EffectiveName(f) = EffectiveName(list[cur])
    BY <1>2, <2>3 DEF FileOK, EffectiveName, OnDisk
  <2>6. /\ VolumeOK(list') /\ Matches(media', list') /\ Replaced(list, cur, f, list')
        /\ DOMAIN list' = DOMAIN list
        /\ \A c, lo, hi : Clear(list, c, lo, hi) => Clear(list', c, lo, hi)
    BY <1>1, <1>2, <2>3, <2>4, <2>5, UpdateStep
  <2>7. File' = f BY <1>1, <1>2, <2>6 DEF File, Replaced
  <2>8. ControlOK' BY <1>1, <1>2, <1>4, <2>6 DEF ControlOK
  <2>9. FlushingOK'
    <3>1. \A lo, hi : Room(list, cur, lo, hi) => Room(list', cur', lo, hi)
      BY <2>6, <1>1 DEF Room
    <3>2. Block' = Block BY <1>1 DEF Block
    <3> QED BY <1>1, <1>3, <2>3, <2>7, <3>1, <3>2 DEF FlushingOK, OnDisk
  <2>10. FlushOK' BY <1>4, <2>9 DEF FlushOK
  <2> QED BY <1>1, <1>2, <2>6, <2>8, <2>10 DEF VolumeInv
<1>5. CASE /\ r <= Len(File.regions) /\ list' = list
           /\ start + Region.off + Region.len < end /\ pc' = "edit"
  <2>1. FlushingOK' /\ File' = File BY <1>1, <1>3, <1>5, FlushingStays DEF FlushingOK
  <2>2. Region' = Region BY <1>1, <2>1 DEF Region
  <2>3. EditOK' BY <1>1, <1>5, <2>1, <2>2 DEF EditOK
  <2>4. ControlOK' BY <1>1, <1>2, <1>5 DEF ControlOK
  <2>5. FlushOK' BY <1>5, <2>1, <2>3 DEF FlushOK
  <2> QED BY <1>1, <1>2, <1>5, <2>4, <2>5 DEF VolumeInv
<1>6. CASE /\ r <= Len(File.regions) /\ list' = list /\ pc' = "return"
  <2>1. ControlOK' BY <1>1, <1>2, <1>6 DEF ControlOK
  <2>2. FlushOK' BY <1>6, QuietFlush
  <2> QED BY <1>1, <1>2, <1>6, <2>1, <2>2 DEF VolumeInv
<1>7. CASE /\ r <= Len(File.regions) /\ list' = list
           /\ pc' = IF File.addr # 0 THEN "invalidate" ELSE "data"
           /\ \/ Region.off + Region.len + 1 <= PhysicalSize(File)
              \/ InOrder /\ NextOnDisk
                 /\ Fits(start, EndOfAppendSpace, Region.off + Region.len + 1)
  <2>1. FlushingOK' /\ File' = File /\ Block' = Block
    BY <1>1, <1>3, <1>7, FlushingStays DEF FlushingOK
  <2>2. Region' = Region BY <1>1, <2>1 DEF Region
  <2>3. RegionOK BY <1>2, <1>3, <1>7, AppendSpace
  <2>4. RegionOK' BY <1>1, <1>7, <2>1, <2>2, <2>3 DEF RegionOK
  <2>5. OnDisk(File) <=> pc' = "invalidate"
    <3>1. CASE OnDisk(File)
      <4>1. File.desc.last \in Nat /\ File.addr = DescUnit(File.desc.last)
        BY <3>1, <1>2, FileOnDisk, Descriptions
      <4>2. DescUnit(File.desc.last) # 0 BY <4>1, DescUnits
      <4> QED BY <3>1, <4>1, <4>2, <1>7
    <3>2. CASE ~OnDisk(File) BY <3>2, <1>2, <1>7 DEF FileOK
    <3> QED BY <3>1, <3>2
  <2>6. pc' = "data" => DescriptionInvalid' BY <2>1, <2>5 DEF DescriptionInvalid
  <2>7. ControlOK' BY <1>1, <1>2, <1>7 DEF ControlOK
  <2>8. FlushOK' BY <1>7, <2>1, <2>4, <2>5, <2>6 DEF FlushOK
  <2> QED BY <1>1, <1>2, <1>7, <2>7, <2>8 DEF VolumeInv
<1>8. ASSUME r <= Len(File.regions), Region.len # 0, list' = list,
             ~(start + Region.off + Region.len < end),
             pc' = IF \/ Region.off + Region.len + 1 <= PhysicalSize(File)
                      \/ Fits(start, EndOfAppendSpace, Region.off + Region.len + 1)
                   THEN IF File.addr # 0 THEN "invalidate" ELSE "data"
                   ELSE "return",
             Spoil(IF Region.off + Region.len + 1 <= PhysicalSize(File) THEN {}
                   ELSE Disorder \cup (IF NextOnDisk THEN {} ELSE {"order"}))
      PROVE  VolumeInv'
  <2> DEFINE fitsOwn == Region.off + Region.len + 1 <= PhysicalSize(File)
             fitsGap == Fits(start, EndOfAppendSpace, Region.off + Region.len + 1)
  <2>1. fitsOwn \/ (InOrder /\ NextOnDisk) BY <1>8 DEF Spoil, Disorder, Good
  <2>2. CASE fitsOwn \/ fitsGap
    <3>1. pc' = IF File.addr # 0 THEN "invalidate" ELSE "data" BY <1>8, <2>2
    <3> QED BY <1>7, <1>8, <2>1, <2>2, <3>1
  <2>3. CASE ~(fitsOwn \/ fitsGap)
    <3>1. pc' = "return" BY <1>8, <2>3
    <3> QED BY <1>6, <1>8, <3>1
  <2> QED BY <2>2, <2>3
<1> QED BY <1>4, <1>5, <1>8 DEF NextRegion
-----------------------------------------------------------------------------
(* The writes of a flush.                                                  *)

LEMMA WriteDiskIs ==
  ASSUME NEW next, WriteDisk(next)
  PROVE  /\ Outcome /\ pc' \in {next, "return"}
         /\ pc' = next /\ next # "return" => media' = Image
         /\ Good' => Irregular \subseteq {"failed"}
<1>1. CASE Affected \subseteq Units /\ media' = Image /\ pc' = next /\ Spoil(Irregular)
  BY <1>1 DEF Outcome, Spoil, Good
<1>2. CASE Torn /\ pc' = "return" /\ Spoil(Irregular \cup {"failed"})
  BY <1>2 DEF Outcome, Spoil, Good
<1> QED BY <1>1, <1>2 DEF WriteDisk

\* The blocks of other files stay when a region is written.
LEMMA DataKeeps ==
  ASSUME VolumeInv, pc \in {"edit", "data"}, Outcome
  PROVE  /\ MediumOK(media') /\ Matches(media', list) /\ OthersKept
         /\ DescriptionInvalid /\ OnDisk(File) => ~BootMonFsIsImageValid(media', File.desc.last)
<1>1. /\ ControlOK /\ cur \in DOMAIN list /\ MediumOK(media) /\ VolumeOK(list)
      /\ Matches(media, list) /\ File = list[cur]
  BY UnderWay
<1>2. /\ FlushingOK
      /\ \/ pc = "edit" /\ EditOK
         \/ pc = "data" /\ RegionOK
  BY DEF VolumeInv, FlushOK
<1>3. /\ media' \in [Units -> Cells]
      /\ \A u \in Units : media'[u] = media[u] \/ media'[u] \in Plain
      /\ OthersKept
  BY <1>1, <1>2, DataWritten
<1>4. /\ MediumOK(media')
      /\ \A b \in Blocks : BootMonFsIsImageValid(media', b) => BootMonFsIsImageValid(media, b)
      /\ Matches(media', list)
  BY <1>1, <1>3, PlainKeeps
<1>5. OnDisk(File) => File.desc.last \in Blocks
  BY <1>1 DEF VolumeOK, FilesLie, Fitting, Disk
<1> QED BY <1>3, <1>4, <1>5 DEF DescriptionInvalid

LEMMA ZeroedKeeps ==
  ASSUME VolumeInv, pc \in {"invalidate", "delete"}, OnDisk(File), Outcome
  PROVE  /\ MediumOK(media') /\ Matches(media', list) /\ OthersKept
         /\ media' = Image => ~BootMonFsIsImageValid(media', File.desc.last)
<1>1. /\ ControlOK /\ cur \in DOMAIN list /\ MediumOK(media) /\ VolumeOK(list)
      /\ Matches(media, list)
  BY UnderWay
<1>2. /\ media' \in [Units -> Cells]
      /\ \A u \in Units : media'[u] = media[u] \/ media'[u] \in Plain
      /\ OthersKept
      /\ media' = Image => ~BootMonFsIsImageValid(media', File.desc.last)
  BY <1>1, DescriptionZeroed
<1>3. MediumOK(media') /\ Matches(media', list) BY <1>1, <1>2, PlainKeeps
<1> QED BY <1>2, <1>3

LEMMA DescribingKeeps ==
  ASSUME VolumeInv, pc \in {"describe", "finish"}, Irregular \subseteq {"failed"}, Outcome
  PROVE  VolumeOK(Described) /\ Matches(media', Described) /\ MediumOK(media') /\ OthersKept
<1>1. /\ ControlOK /\ cur \in DOMAIN list /\ MediumOK(media) /\ VolumeOK(list)
      /\ Matches(media, list)
  BY UnderWay
<1>2. FlushingOK /\ (pc = "describe" => RegionOK /\ DescriptionInvalid) BY DEF VolumeInv, FlushOK
<1> QED BY <1>1, <1>2, DescriptionWritten

LEMMA WriteEditKeeps ==
  ASSUME VolumeInv, WriteEdit PROVE VolumeInv' /\ OthersKept
<1>1. /\ pc = "edit" /\ r' = r + 1 /\ Outcome /\ pc' \in {"region", "return"}
      /\ UNCHANGED <<initialized, list, cur, start, end>>
  BY WriteDiskIs DEF WriteEdit
<1>2. /\ initialized /\ ControlOK /\ cur \in DOMAIN list /\ VolumeOK(list) /\ r \in Nat
  BY <1>1, UnderWay
<1>3. MediumOK(media') /\ Matches(media', list) /\ OthersKept BY <1>1, DataKeeps
<1>4. FlushingOK BY <1>1 DEF VolumeInv, FlushOK
<1>5. FlushingOK' BY <1>1, <1>2, <1>4, FlushingStays
<1>6. ControlOK' BY <1>1, <1>2 DEF ControlOK
<1>7. FlushOK' BY <1>1, <1>5 DEF FlushOK
<1> QED BY <1>1, <1>2, <1>3, <1>6, <1>7 DEF VolumeInv

LEMMA InvalidateKeeps ==
  ASSUME VolumeInv, InvalidateImageDescription PROVE VolumeInv' /\ OthersKept
<1>1. /\ pc = "invalidate" /\ Outcome /\ pc' \in {"data", "return"}
      /\ pc' = "data" => media' = Image
      /\ UNCHANGED <<initialized, list, cur, start, end, r>>
  BY WriteDiskIs DEF InvalidateImageDescription, flush
<1>2. /\ initialized /\ ControlOK /\ cur \in DOMAIN list /\ VolumeOK(list) /\ r \in Nat
  BY <1>1, UnderWay
<1>3. FlushingOK /\ RegionOK /\ OnDisk(File) BY <1>1 DEF VolumeInv, FlushOK
<1>4. /\ MediumOK(media') /\ Matches(media', list) /\ OthersKept
      /\ media' = Image => ~BootMonFsIsImageValid(media', File.desc.last)
  BY <1>1, <1>3, ZeroedKeeps
<1>5. FlushingOK' /\ File' = File /\ Block' = Block
  BY <1>1, <1>3, FlushingStays DEF FlushingOK
<1>6. RegionOK' BY <1>1, <1>3, <1>5 DEF RegionOK, Region
<1>7. pc' = "data" => DescriptionInvalid' BY <1>1, <1>4, <1>5 DEF DescriptionInvalid
<1>8. ControlOK' BY <1>1, <1>2 DEF ControlOK
<1>9. FlushOK' BY <1>1, <1>5, <1>6, <1>7 DEF FlushOK
<1> QED BY <1>1, <1>2, <1>4, <1>8, <1>9 DEF VolumeInv

LEMMA WriteDataKeeps ==
  ASSUME VolumeInv, WriteData PROVE VolumeInv' /\ OthersKept
<1>1. /\ pc = "data" /\ Outcome /\ pc' \in {"describe", "return"}
      /\ UNCHANGED <<initialized, list, cur, start, end, r>>
  BY WriteDiskIs DEF WriteData, flush
<1>2. /\ initialized /\ ControlOK /\ cur \in DOMAIN list /\ VolumeOK(list) /\ r \in Nat
  BY <1>1, UnderWay
<1>3. FlushingOK /\ RegionOK /\ DescriptionInvalid BY <1>1 DEF VolumeInv, FlushOK
<1>4. /\ MediumOK(media') /\ Matches(media', list) /\ OthersKept
      /\ OnDisk(File) => ~BootMonFsIsImageValid(media', File.desc.last)
  BY <1>1, <1>3, DataKeeps
<1>5. FlushingOK' /\ File' = File /\ Block' = Block
  BY <1>1, <1>3, FlushingStays DEF FlushingOK
<1>6. RegionOK' BY <1>1, <1>3, <1>5 DEF RegionOK, Region
<1>7. DescriptionInvalid' BY <1>4, <1>5 DEF DescriptionInvalid
<1>8. ControlOK' BY <1>1, <1>2 DEF ControlOK
<1>9. FlushOK' BY <1>1, <1>5, <1>6, <1>7 DEF FlushOK
<1> QED BY <1>1, <1>2, <1>4, <1>8, <1>9 DEF VolumeInv

\* The file after its description was written.
LEMMA DescribedFile ==
  ASSUME VolumeOK(list), cur \in DOMAIN list, list' = Described, cur' = cur, NewDesc \in Description
  PROVE  /\ DOMAIN list' = DOMAIN list /\ File'.desc = NewDesc /\ File'.open = File.open
         /\ File'.size = File.size
<1>1. list \in Seq(FileRecords) /\ File \in FileRecords BY DEF VolumeOK, FileOK, File
<1> DEFINE f == [File EXCEPT !.desc = NewDesc, !.addr = DescUnit(NewDesc.last)]
<1>2. DOMAIN list' = DOMAIN list /\ File' = f BY <1>1 DEF Described, File
<1>3. f.desc = NewDesc /\ f.open = File.open /\ f.size = File.size BY <1>1 DEF FileRecords
<1> QED BY <1>2, <1>3

LEMMA WriteFileDescriptionKeeps ==
  ASSUME VolumeInv, Good', WriteFileDescription PROVE VolumeInv' /\ OthersKept
<1>1. /\ pc = "describe" /\ r' = r + 1 /\ Outcome /\ pc' \in {"region", "return"}
      /\ Irregular \subseteq {"failed"} /\ list' = Described
      /\ UNCHANGED <<initialized, cur, start, end>>
  BY WriteDiskIs DEF WriteFileDescription, Describe, Update, Described
<1>2. /\ initialized /\ ControlOK /\ cur \in DOMAIN list /\ VolumeOK(list) /\ FileOK(File)
      /\ start \in Nat /\ end \in Nat /\ r \in Nat
  BY <1>1, UnderWay
<1>3. FlushingOK /\ RegionOK BY <1>1 DEF VolumeInv, FlushOK
<1>4. VolumeOK(list') /\ Matches(media', list') /\ MediumOK(media') /\ OthersKept
  BY <1>1, DescribingKeeps
<1>5. /\ NewDesc \in Description /\ NewDesc.first = Block
      /\ NewDesc.last = Block + (NewSize \div BlockUnits) /\ NewSize \in Nat
      /\ OnDisk(File) => File.desc.first = NewDesc.first /\ File.desc.last <= NewDesc.last
  BY <1>1, <1>2, <1>3, DescriptionPlaced
<1>6. /\ DOMAIN list' = DOMAIN list /\ File'.desc = NewDesc /\ File'.open = File.open
  BY <1>1, <1>2, <1>5, DescribedFile
<1>7. Block' = Block /\ Block \in Nat /\ start = Block * BlockUnits
  BY <1>1, <1>2, <1>3, Division DEF Block, FlushingOK
<1>8. end + 1 <= (NewDesc.last + 1) * BlockUnits
  <2>1. NewDesc.last \in Nat /\ Block <= NewDesc.last BY <1>5, <1>7, Division, Descriptions
  <2>2. CASE OnDisk(File)
    <3>1. end + 1 <= (File.desc.last + 1) * BlockUnits BY <2>2, <1>3 DEF FlushingOK
    <3>2. File.desc.last \in Nat BY <2>2, <1>2, FileOnDisk, Descriptions
    <3>3. /\ (File.desc.last + 1) * BlockUnits \in Nat
          /\ (File.desc.last + 1) * BlockUnits <= (NewDesc.last + 1) * BlockUnits
      BY <2>1, <2>2, <3>2, <1>5, Monotone
    <3>4. (NewDesc.last + 1) * BlockUnits \in Nat BY <2>1, BlockSize
    <3> QED BY <3>1, <3>3, <3>4, <1>2
  <2>3. CASE ~OnDisk(File)
    <3>1. end = Block * BlockUnits BY <2>3, <1>3, <1>7 DEF FlushingOK
    <3>2. (Block + 1) * BlockUnits <= (NewDesc.last + 1) * BlockUnits BY <2>1, <1>7, Monotone
    <3>3. Block * BlockUnits \in Nat /\ (NewDesc.last + 1) * BlockUnits \in Nat
      BY <2>1, <1>7, BlockSize
    <3> QED BY <3>1, <3>2, <3>3, <1>7, Successor, BlockSize
  <2> QED BY <2>2, <2>3
<1>9. NewDesc # NoDesc BY <1>5, Descriptions
<1>10. FlushingOK' BY <1>1, <1>2, <1>3, <1>5, <1>6, <1>7, <1>8, <1>9 DEF FlushingOK, OnDisk
<1>11. ControlOK' BY <1>1, <1>2, <1>6 DEF ControlOK
<1>12. FlushOK' BY <1>1, <1>10 DEF FlushOK
<1> QED BY <1>1, <1>2, <1>4, <1>11, <1>12 DEF VolumeInv

LEMMA FinishKeeps ==
  ASSUME VolumeInv, Good', Finish PROVE VolumeInv' /\ (OthersKept \/ media' = media)
<1>1. pc = "finish" /\ UNCHANGED <<initialized, cur, start, end, r>> BY DEF Finish, flush
<1>2. /\ initialized /\ ControlOK /\ cur \in DOMAIN list /\ VolumeOK(list) /\ FileOK(File)
      /\ MediumOK(media) /\ Matches(media, list)
  BY <1>1, UnderWay
<1>3. CASE WriteDisk("return") /\ Describe
  <2>1. Outcome /\ pc' = "return" /\ Irregular \subseteq {"failed"} /\ list' = Described
    BY <1>3, WriteDiskIs DEF Describe, Update, Described
  <2>2. VolumeOK(list') /\ Matches(media', list') /\ MediumOK(media') /\ OthersKept
    BY <1>1, <2>1, DescribingKeeps
  <2>3. DOMAIN list' = DOMAIN list BY <2>1 DEF Described
  <2>4. ControlOK' BY <1>1, <1>2, <2>1, <2>3 DEF ControlOK
  <2>5. FlushOK' BY <2>1, QuietFlush
  <2> QED BY <1>1, <1>2, <2>2, <2>4, <2>5 DEF VolumeInv
<1>4. CASE pc' = "return" /\ UNCHANGED <<media, list, spoilt>>
  <2>1. ControlOK' BY <1>1, <1>2, <1>4 DEF ControlOK
  <2>2. FlushOK' BY <1>4, QuietFlush
  <2> QED BY <1>1, <1>2, <1>4, <2>1, <2>2 DEF VolumeInv
<1> QED BY <1>3, <1>4 DEF Finish
-----------------------------------------------------------------------------
(* The end of a call.                                                      *)

LEMMA ReturnKeeps ==
  ASSUME VolumeInv, Return PROVE VolumeInv'
<1>1. pc = "return" /\ media' = media /\ initialized' = initialized BY DEF Return
<1>2. /\ initialized /\ ControlOK /\ cur \in DOMAIN list /\ VolumeOK(list) /\ FileOK(File)
      /\ MediumOK(media) /\ Matches(media, list) /\ File = list[cur] /\ File \in FileRecords
      /\ start \in Nat /\ end \in Nat /\ r \in Nat
  BY <1>1, UnderWay DEF FileOK
<1>3. ASSUME BeIdle, VolumeOK(list'), Matches(media', list') PROVE VolumeInv'
  <2>1. ControlOK' BY <1>1, <1>2, <1>3 DEF BeIdle, ControlOK
  <2>2. FlushOK' BY <1>3, QuietFlush DEF BeIdle
  <2> QED BY <1>1, <1>2, <1>3, <2>1, <2>2 DEF VolumeInv
<1>4. ASSUME NEW f, FileOK(f), f.desc = File.desc,
             EffectiveName(f) \in {NoName, EffectiveName(File)}, BeIdle, Update(cur, f)
      PROVE  VolumeInv'
  <2>1. VolumeOK(list') /\ Matches(media', list') BY <1>1, <1>2, <1>4, UpdateStep
  <2> QED BY <2>1, <1>3, <1>4
<1>5. CASE then \in {"flush", "delete"} /\ BeIdle /\ UNCHANGED list
  BY <1>1, <1>2, <1>3, <1>5
<1>6. CASE then = "close" /\ BeIdle /\ Update(cur, [File EXCEPT !.open = FALSE])
  <2> DEFINE f == [File EXCEPT !.open = FALSE]
  <2>1. /\ f \in FileRecords /\ f.desc = File.desc /\ f.addr = File.addr /\ ~f.open
        /\ f.text = File.text /\ f.regions = File.regions
    BY <1>2 DEF FileRecords
  <2>2. Update(cur, f) BY <1>6
  <2> HIDE DEF f
  <2>3. FileOK(f) BY <1>2, <2>1 DEF FileOK, OnDisk
  <2>4. EffectiveName(f) \in {NoName, EffectiveName(File)}
    <3>1. CASE OnDisk(File)
      <4>1. EffectiveName(File) = File.desc.name BY <3>1, <1>2, FileOnDisk
      <4> QED BY <4>1, <2>1 DEF EffectiveName
    <3>2. CASE ~OnDisk(File)
      <4>1. f.desc.name = NoName BY <3>2, <2>1 DEF OnDisk, NoDesc
      <4> QED BY <4>1, <2>1 DEF EffectiveName
    <3> QED BY <3>1, <3>2
  <2> QED BY <1>4, <1>6, <2>1, <2>2, <2>3, <2>4
<1>7. CASE /\ then = "read" /\ BeIdle
           /\ \E p \in {File.pos} \cup {q \in Positions : File.pos <= q /\ q <= File.size} :
                Update(cur, [File EXCEPT !.pos = p])
  <2>1. PICK p \in {File.pos} \cup Positions : Update(cur, [File EXCEPT !.pos = p]) BY <1>7
  <2>2. File.pos \in Nat BY <1>2 DEF FileRecords
  <2>3. p \in Nat BY <2>2, ConstantsAssumption
  <2> DEFINE f == [File EXCEPT !.pos = p]
  <2>4. /\ f \in FileRecords /\ f.desc = File.desc /\ f.addr = File.addr /\ f.open = File.open
        /\ f.name = File.name /\ f.size = File.size
        /\ f.text = File.text /\ f.regions = File.regions
    BY <1>2, <2>3 DEF FileRecords
  <2>5. Update(cur, f) BY <2>1
  <2> HIDE DEF f
  <2>6. FileOK(f) /\ EffectiveName(f) = EffectiveName(File)
    BY <1>2, <2>4 DEF FileOK, OnDisk, EffectiveName
  <2> QED BY <1>4, <1>7, <2>4, <2>5, <2>6
<1>8. CASE /\ then = "directory" /\ UNCHANGED list
           /\ IF cur < Len(list)
                THEN cur' = cur + 1 /\ pc' = "enter" /\ UNCHANGED <<then, start, end, r>>
                ELSE BeIdle
  <2>1. CASE cur < Len(list) /\ cur' = cur + 1 /\ pc' = "enter" /\ UNCHANGED <<then, start, end, r>>
    <3>1. DOMAIN list = 1 .. Len(list) /\ Len(list) \in Nat BY <1>2 DEF VolumeOK
    <3>2. cur' \in DOMAIN list BY <1>2, <2>1, <3>1
    <3>3. ControlOK' BY <1>1, <1>2, <1>8, <2>1, <3>2 DEF ControlOK
    <3>4. FlushOK' BY <2>1, QuietFlush
    <3> QED BY <1>1, <1>2, <1>8, <3>3, <3>4 DEF VolumeInv
  <2>2. CASE BeIdle BY <2>2, <1>1, <1>2, <1>3, <1>8
  <2> QED BY <2>1, <2>2, <1>8
<1> QED BY <1>5, <1>6, <1>7, <1>8 DEF Return

\* The list without a file that is not on the medium, or no longer.
LEMMA RemovedKeeps ==
  ASSUME VolumeOK(list), cur \in DOMAIN list, NEW m, Matches(m, list),
         OnDisk(File) => ~BootMonFsIsImageValid(m, File.desc.last),
         NEW M, M = RemoveAt(list, cur)
  PROVE  VolumeOK(M) /\ Matches(m, M)
<1>1. list \in Seq(FileRecords) /\ cur \in 1 .. Len(list) BY DEF VolumeOK
<1>2. M \in Seq(FileRecords) /\ \E p : Remaining(list, M, cur, p) BY <1>1, Removed
<1>3. PICK p : Remaining(list, M, cur, p) BY <1>2
<1>4. /\ p \in [DOMAIN M -> DOMAIN list]
      /\ \A k \in DOMAIN M : M[k] = list[p[k]]
      /\ \A j, k \in DOMAIN M : j # k => p[j] # p[k]
      /\ \A k \in DOMAIN list \ {cur} : \E j \in DOMAIN M : p[j] = k
  BY <1>3 DEF Remaining
<1>5. VolumeOK(M) BY <1>2, <1>4, SelectionKeeps
<1>6. ASSUME NEW b \in Blocks, BootMonFsIsImageValid(m, b)
      PROVE  \E k \in Disk(M) :
               /\ M[k].desc.last = b
               /\ M[k].desc.first = m[DescUnit(b)].first
               /\ M[k].desc.name = m[DescUnit(b)].name
  <2>1. PICK k \in Disk(list) :
               /\ list[k].desc.last = b
               /\ list[k].desc.first = m[DescUnit(b)].first
               /\ list[k].desc.name = m[DescUnit(b)].name
    BY <1>6 DEF Matches
  <2>2. k # cur BY <1>6, <2>1 DEF File, Disk
  <2>3. k \in DOMAIN list /\ OnDisk(list[k]) BY DEF Disk
  <2>4. PICK j \in DOMAIN M : p[j] = k BY <1>4, <2>2, <2>3
  <2>5. M[j] = list[k] /\ j \in Disk(M) BY <1>4, <2>3, <2>4 DEF Disk
  <2> QED BY <2>1, <2>5
<1> QED BY <1>5, <1>6 DEF Matches

LEMMA DeleteFileKeeps ==
  ASSUME VolumeInv, DeleteFile PROVE VolumeInv' /\ (OthersKept \/ media' = media)
<1>1. pc = "delete" /\ initialized' = initialized BY DEF DeleteFile
<1>2. /\ initialized /\ ControlOK /\ cur \in DOMAIN list /\ VolumeOK(list)
      /\ MediumOK(media) /\ Matches(media, list)
  BY <1>1, UnderWay
<1>3. CASE OnDisk(File) /\ WriteDisk("deleted") /\ UNCHANGED <<list, flush>>
  <2>1. Outcome /\ pc' \in {"deleted", "return"} /\ (pc' = "deleted" => media' = Image)
        /\ UNCHANGED <<list, cur, start, end, r>>
    BY <1>3, WriteDiskIs DEF flush
  <2>2. /\ MediumOK(media') /\ Matches(media', list) /\ OthersKept
        /\ media' = Image => ~BootMonFsIsImageValid(media', File.desc.last)
    BY <1>1, <1>3, <2>1, ZeroedKeeps
  <2>3. pc' = "deleted" => DescriptionInvalid' BY <2>1, <2>2 DEF DescriptionInvalid, File
  <2>4. ControlOK' BY <1>1, <1>2, <2>1 DEF ControlOK
  <2>5. FlushOK' BY <2>1, <2>3 DEF FlushOK
  <2> QED BY <1>1, <1>2, <2>1, <2>2, <2>4, <2>5 DEF VolumeInv
<1>4. CASE ~OnDisk(File) /\ list' = RemoveAt(list, cur) /\ BeIdle /\ UNCHANGED <<media, spoilt>>
  <2>1. VolumeOK(list') /\ Matches(media, list') BY <1>2, <1>4, RemovedKeeps
  <2>2. ControlOK' BY <1>1, <1>2, <1>4 DEF BeIdle, ControlOK
  <2>3. FlushOK' BY <1>4, QuietFlush DEF BeIdle
  <2> QED BY <1>1, <1>2, <1>4, <2>1, <2>2, <2>3 DEF VolumeInv
<1> QED BY <1>3, <1>4 DEF DeleteFile

LEMMA UnlinkKeeps ==
  ASSUME VolumeInv, Unlink PROVE VolumeInv'
<1>1. /\ pc = "deleted" /\ list' = RemoveAt(list, cur) /\ BeIdle
      /\ media' = media /\ initialized' = initialized
  BY DEF Unlink
<1>2. /\ initialized /\ ControlOK /\ cur \in DOMAIN list /\ VolumeOK(list)
      /\ MediumOK(media) /\ Matches(media, list)
  BY <1>1, UnderWay
<1>3. OnDisk(File) => ~BootMonFsIsImageValid(media, File.desc.last)
  BY <1>1 DEF VolumeInv, FlushOK, DescriptionInvalid
<1>4. VolumeOK(list') /\ Matches(media, list') BY <1>1, <1>2, <1>3, RemovedKeeps
<1>5. ControlOK' BY <1>1, <1>2 DEF BeIdle, ControlOK
<1>6. FlushOK' BY <1>1, QuietFlush DEF BeIdle
<1> QED BY <1>1, <1>2, <1>4, <1>5, <1>6 DEF VolumeInv

LEMMA PowerLossKeeps ==
  ASSUME VolumeInv, Good', PowerLoss PROVE VolumeInv' /\ (OthersKept \/ media' = media)
<1>1. /\ initialized' = FALSE /\ list' = <<>> /\ BeIdle
      /\ IF Writing THEN Torn /\ Spoil(Irregular) ELSE UNCHANGED <<media, spoilt>>
  BY DEF PowerLoss
<1>2. MediumOK(media') /\ (OthersKept \/ media' = media)
  <2>1. CASE ~Writing BY <1>1, <2>1 DEF VolumeInv
  <2>2. CASE Writing
    <3>1. Outcome /\ Irregular \subseteq {"failed"} BY <1>1, <2>2 DEF Outcome, Spoil, Good
    <3>2. CASE pc \in {"edit", "data"} BY <3>1, <3>2, DataKeeps
    <3>3. CASE pc = "invalidate"
      <4>1. OnDisk(File) BY <3>3 DEF VolumeInv, FlushOK
      <4> QED BY <3>1, <3>3, <4>1, ZeroedKeeps
    <3>4. CASE pc = "delete" /\ OnDisk(File) BY <3>1, <3>4, ZeroedKeeps
    <3>5. CASE pc \in {"describe", "finish"} BY <3>1, <3>5, DescribingKeeps
    <3> QED BY <2>2, <3>2, <3>3, <3>4, <3>5 DEF Writing
  <2> QED BY <2>1, <2>2
<1>3. ControlOK' BY <1>1 DEF BeIdle, ControlOK
<1>4. FlushOK' BY <1>1, QuietFlush DEF BeIdle
<1> QED BY <1>1, <1>2, <1>3, <1>4 DEF VolumeInv
-----------------------------------------------------------------------------
(* Every step.                                                             *)

LEMMA SpoiltGrows ==
  ASSUME Next PROVE spoilt \subseteq spoilt'
<1>1. \A next : WriteDisk(next) => spoilt \subseteq spoilt' BY DEF WriteDisk, Spoil
<1>2. CASE Callers
  BY <1>2 DEF Callers, Initialize, OpenFile, WriteFile, SetPosition, SetFileSize, Flush, CloseFile,
    ReadFile, FlushDirectory, Begin, Delete, Spoil
<1>3. CASE Enter \/ EmptyRegion \/ NextRegion \/ Return \/ Unlink
  BY <1>3 DEF Enter, EmptyRegion, NextRegion, Return, Unlink, Spoil
<1>4. CASE WriteEdit \/ InvalidateImageDescription \/ WriteData \/ WriteFileDescription
  BY <1>1, <1>4 DEF WriteEdit, InvalidateImageDescription, WriteData, WriteFileDescription
<1>5. CASE Finish \/ DeleteFile
  BY <1>1, <1>5 DEF Finish, DeleteFile
<1>6. CASE PowerLoss BY <1>6 DEF PowerLoss, Spoil
<1> QED BY <1>2, <1>3, <1>4, <1>5, <1>6 DEF Next, Step

LEMMA CallersKeep ==
  ASSUME VolumeInv, Good', Callers PROVE VolumeInv' /\ media' = media
<1>1. CASE Initialize BY <1>1, InitializeKeeps DEF Initialize
<1>2. ASSUME NEW n \in Names, NEW mode \in {"read", "write", "create"}, OpenFile(n, mode)
      PROVE  VolumeInv' /\ media' = media
  BY <1>2, OpenFileKeeps DEF OpenFile, Calling
<1>3. ASSUME NEW i \in DOMAIN list, NEW len \in Lengths, NEW v \in Payloads, WriteFile(i, len, v)
      PROVE  VolumeInv' /\ media' = media
  BY <1>3, WriteFileKeeps DEF WriteFile, Calling
<1>4. ASSUME NEW i \in DOMAIN list, NEW p \in Positions, SetPosition(i, p)
      PROVE  VolumeInv' /\ media' = media
  BY <1>4, SetPositionKeeps DEF SetPosition, Calling
<1>5. ASSUME NEW i \in DOMAIN list, NEW n \in Lengths, SetFileSize(i, n)
      PROVE  VolumeInv' /\ media' = media
  BY <1>5, SetFileSizeKeeps DEF SetFileSize, Calling
<1>6. ASSUME NEW i \in DOMAIN list, Flush(i) \/ CloseFile(i) \/ ReadFile(i)
      PROVE  VolumeInv' /\ media' = media
  BY <1>6, BeginKeeps DEF Flush, CloseFile, ReadFile, Begin, Calling
<1>7. ASSUME NEW i \in DOMAIN list, Delete(i) PROVE VolumeInv' /\ media' = media
  BY <1>7, DeleteKeeps DEF Delete, Calling
<1>8. CASE FlushDirectory
  <2>1. list # <<>> /\ Begin(1, "directory", "enter") BY <1>8 DEF FlushDirectory
  <2>2. initialized /\ media' = media BY <2>1 DEF Begin, Calling
  <2>3. list \in Seq(FileRecords) BY <2>2 DEF VolumeInv, VolumeOK
  <2>4. 1 \in DOMAIN list BY <2>1, <2>3
  <2> QED BY <2>1, <2>2, <2>4, BeginKeeps
<1> QED BY <1>1, <1>2, <1>3, <1>4, <1>5, <1>6, <1>7, <1>8 DEF Callers

LEMMA StepsKeep ==
  ASSUME VolumeInv, Good', Next PROVE VolumeInv' /\ (OthersKept \/ media' = media)
<1>1. CASE Callers BY <1>1, CallersKeep
<1>2. CASE Enter BY <1>2, EnterKeeps DEF Enter
<1>3. CASE EmptyRegion BY <1>3, EmptyRegionKeeps DEF EmptyRegion
<1>4. CASE NextRegion BY <1>4, NextRegionKeeps DEF NextRegion
<1>5. CASE WriteEdit BY <1>5, WriteEditKeeps
<1>6. CASE InvalidateImageDescription BY <1>6, InvalidateKeeps
<1>7. CASE WriteData BY <1>7, WriteDataKeeps
<1>8. CASE WriteFileDescription BY <1>8, WriteFileDescriptionKeeps
<1>9. CASE Finish BY <1>9, FinishKeeps
<1>10. CASE Return BY <1>10, ReturnKeeps DEF Return
<1>11. CASE DeleteFile BY <1>11, DeleteFileKeeps
<1>12. CASE Unlink BY <1>12, UnlinkKeeps DEF Unlink
<1>13. CASE PowerLoss BY <1>13, PowerLossKeeps
<1> QED BY <1>1, <1>2, <1>3, <1>4, <1>5, <1>6, <1>7, <1>8, <1>9, <1>10, <1>11, <1>12, <1>13
        DEF Next, Step

LEMMA VolumeUnchanged ==
  ASSUME VolumeInv, UNCHANGED vars PROVE VolumeInv'
<1>1. UNCHANGED <<media, initialized, list, pc, cur, start, end, r>> BY DEF vars, flush
<1>2. File' = File /\ Block' = Block BY <1>1 DEF File, Block
<1>3. Region' = Region BY <1>1, <1>2 DEF Region
<1>4. ControlOK' BY <1>1 DEF VolumeInv, ControlOK
<1>5. FlushOK'
  <2>1. FlushingOK => FlushingOK' BY <1>1, <1>2 DEF FlushingOK
  <2>2. EditOK => EditOK' BY <1>1, <1>2, <1>3 DEF EditOK
  <2>3. RegionOK => RegionOK' BY <1>1, <1>2, <1>3 DEF RegionOK
  <2>4. DescriptionInvalid => DescriptionInvalid' BY <1>1, <1>2 DEF DescriptionInvalid
  <2> QED BY <1>1, <1>2, <2>1, <2>2, <2>3, <2>4 DEF VolumeInv, FlushOK
<1> QED BY <1>1, <1>4, <1>5 DEF VolumeInv

LEMMA Initially == Init => IInv
<1> SUFFICES ASSUME Init PROVE VolumeInv BY DEF IInv
<1>1. media \in InitialMedia /\ initialized = FALSE /\ list = <<>> /\ pc = "idle"
      /\ start = 0 /\ end = 0 /\ r = 0
  BY DEF Init
<1>2. MediumOK(media) BY <1>1, MediaAssumption DEF MediumOK, Cells
<1>3. ControlOK BY <1>1 DEF ControlOK
<1>4. FlushOK BY <1>1 DEF FlushOK
<1> QED BY <1>1, <1>2, <1>3, <1>4 DEF VolumeInv

LEMMA Inductive == IInv /\ [Next]_vars => IInv'
<1> SUFFICES ASSUME IInv, [Next]_vars, Good' PROVE VolumeInv' BY DEF IInv
<1>1. CASE Next
  <2>1. Good BY <1>1, SpoiltGrows DEF Good
  <2> QED BY <1>1, <2>1, StepsKeep DEF IInv
<1>2. CASE UNCHANGED vars
  <2>1. Good BY <1>2 DEF Good, vars
  <2> QED BY <1>2, <2>1, VolumeUnchanged DEF IInv
<1> QED BY <1>1, <1>2

(* As long as nothing but failed writes and losses of power happened of    *)
(* what the driver is not made for, the images on the medium are those of  *)
(* files that lie apart under different names, a flush writes where there  *)
(* is room, and the description is invalid when its blocks are written.    *)
THEOREM VolumeKept == Spec => []IInv
<1>1. Init => IInv BY Initially
<1>2. IInv /\ [Next]_vars => IInv' BY Inductive
<1> QED BY <1>1, <1>2, PTL DEF Spec

LEMMA LieApart == ASSUME IInv PROVE FilesApart
<1> SUFFICES ASSUME Good, NEW k \in DiskIndices
             PROVE  /\ Extent(list[k].desc) \subseteq Units
                    /\ \A j \in DiskIndices \ {k} :
                         /\ Extent(list[j].desc) \cap Extent(list[k].desc) = {}
                         /\ list[j].desc.name # list[k].desc.name
  BY DEF FilesApart, Good
<1>1. VolumeInv BY DEF IInv
<1>2. initialized
  <2>1. ~initialized => list = <<>> BY <1>1 DEF VolumeInv, ControlOK
  <2> QED BY <2>1 DEF DiskIndices
<1>3. VolumeOK(list) BY <1>1, <1>2 DEF VolumeInv
<1>4. /\ DiskIndices = Disk(list)
      /\ \A j \in Disk(list) : /\ j \in DOMAIN list /\ list[j].desc \in Description
                               /\ list[j].desc.first \in Nat /\ list[j].desc.last \in Nat
                               /\ list[j].desc.last \in Blocks
                               /\ list[j].desc.first <= list[j].desc.last
  BY <1>3, DiskFiles
<1>5. ASSUME NEW j \in Disk(list), NEW u \in Extent(list[j].desc)
      PROVE  u \in Nat /\ u \div BlockUnits \in list[j].desc.first .. list[j].desc.last
  <2> DEFINE lo == list[j].desc.first  hi == list[j].desc.last
  <2>1. lo \in Nat /\ hi \in Nat BY <1>4
  <2> HIDE DEF lo, hi
  <2>2. lo * BlockUnits \in Nat /\ (hi + 1) * BlockUnits \in Nat BY <2>1, BlockSize
  <2>3. u \in lo * BlockUnits .. (hi + 1) * BlockUnits - 1 BY <1>5 DEF Extent, lo, hi
  <2>4. u \in Nat /\ lo * BlockUnits <= u /\ u < (hi + 1) * BlockUnits BY <2>2, <2>3
  <2>5. u \div BlockUnits \in lo .. hi BY <2>1, <2>4, InBlocks
  <2> QED BY <2>4, <2>5 DEF lo, hi
<1>6. Extent(list[k].desc) \subseteq Units
  <2> SUFFICES ASSUME NEW u \in Extent(list[k].desc) PROVE u \in Units OBVIOUS
  <2>1. u \in Nat /\ u \div BlockUnits \in list[k].desc.first .. list[k].desc.last BY <1>4, <1>5
  <2>2. u \div BlockUnits \in Blocks BY <2>1, <1>4, BlockSize DEF Blocks
  <2> QED BY <2>1, <2>2, UnitsOfBlocks
<1>7. ASSUME NEW j \in DiskIndices \ {k}
      PROVE  /\ Extent(list[j].desc) \cap Extent(list[k].desc) = {}
             /\ list[j].desc.name # list[k].desc.name
  <2>1. Apart(list[j].desc, list[k].desc) BY <1>3, <1>4 DEF VolumeOK, FilesLie
  <2>2. ASSUME NEW u \in Extent(list[j].desc), u \in Extent(list[k].desc) PROVE FALSE
    <3>1. u \div BlockUnits \in list[j].desc.first .. list[j].desc.last
          /\ u \div BlockUnits \in list[k].desc.first .. list[k].desc.last
      BY <1>4, <1>5, <2>2
    <3> QED BY <3>1, <2>1, <1>4 DEF Apart
  <2>3. j \in DOMAIN list /\ k \in DOMAIN list /\ OnDisk(list[j]) /\ OnDisk(list[k])
        /\ FileOK(list[j]) /\ FileOK(list[k]) /\ j # k
    BY <1>3, <1>4 DEF Disk, VolumeOK
  <2>4. /\ EffectiveName(list[j]) = list[j].desc.name /\ EffectiveName(list[j]) # NoName
        /\ EffectiveName(list[k]) = list[k].desc.name
    BY <2>3, FileOnDisk
  <2>5. list[j].desc.name # list[k].desc.name BY <1>3, <2>3, <2>4 DEF VolumeOK, NamesDiffer
  <2> QED BY <2>2, <2>5
<1> QED BY <1>6, <1>7

(* Files lie apart, inside the medium, under different names, also after   *)
(* failed writes and losses of power.                                      *)
THEOREM FilesStayApart == Spec => []FilesApart
<1>1. IInv => FilesApart BY LieApart
<1> QED BY <1>1, VolumeKept, PTL

OthersUntouched ==
  Good' => \A k \in DiskIndices \ {cur} : \A u \in Extent(list[k].desc) : media'[u] = media[u]

LEMMA OthersStay == IInv /\ [Next]_vars => OthersUntouched \/ UNCHANGED vars
<1> SUFFICES ASSUME IInv, Next, Good' PROVE OthersKept \/ media' = media
  BY DEF OthersUntouched, OthersKept, DiskIndices, Disk
<1>1. Good BY SpoiltGrows DEF Good
<1> QED BY <1>1, StepsKeep DEF IInv

(* Whatever is done to one file, also when it fails or power is lost in    *)
(* it, no unit of the blocks of another file changes.                      *)
THEOREM OthersStayIntact == Spec => OthersIntact
<1>1. IInv /\ [Next]_vars => [OthersUntouched]_vars BY OthersStay
<1>2. Spec => [][OthersUntouched]_vars BY <1>1, VolumeKept, PTL DEF Spec
<1>3. [OthersUntouched]_vars
        => [spoilt' \subseteq {"failed"} =>
              \A k \in DiskIndices \ {cur} :
                \A u \in Extent(list[k].desc) : media'[u] = media[u]]_vars
  BY DEF OthersUntouched, Good
<1> QED BY <1>2, <1>3, PTL DEF OthersIntact
-----------------------------------------------------------------------------
(* What is on the medium while nothing happened that the driver is not     *)
(* made for.                                                               *)

\* The description of a file in memory is the one on the medium.
OnMedium(L, m, X) == \A k \in Disk(L) \ X : m[DescUnit(L[k].desc.last)] = L[k].desc

Covers(f, j, u) == f.regions[j].off < u /\ u <= f.regions[j].off + f.regions[j].len

\* The last of the pending regions of a unit has its data.
LastCovers(f) ==
  \A u \in DOMAIN f.text : \A j \in DOMAIN f.regions :
    Covers(f, j, u) /\ (\A i \in DOMAIN f.regions : i > j => ~Covers(f, i, u))
      => f.text[u] = f.regions[j].val

\* What no region from the one in turn covers is on the medium, before the
\* description, or nobody wrote it.
OnMediumFrom(f, m, from) ==
  \A u \in DOMAIN f.text :
    (\A j \in DOMAIN f.regions : j >= from => ~Covers(f, j, u)) =>
      \/ f.text[u] = Garbage
      \/ /\ OnDisk(f) /\ f.desc.first * BlockUnits + u - 1 < DescUnit(f.desc.last)
         /\ f.text[u] = m[f.desc.first * BlockUnits + u - 1]

TextOK(f, m, from) == LastCovers(f) /\ OnMediumFrom(f, m, from)

Excluded == IF pc \in {"data", "describe", "deleted"} THEN {cur} ELSE {}
From(k) == IF k = cur /\ pc \in {"region", "edit", "invalidate", "data", "describe"} THEN r ELSE 1
TextsOK ==
  \A k \in DOMAIN list :
    (pc \in {"delete", "deleted"} /\ k = cur) \/ TextOK(list[k], media, From(k))
RegionStored ==
  pc = "describe" => \A u \in 1 .. Region.len : media[start + Region.off + u - 1] = Region.val
Pristine == spoilt = {}
StoredInv == OnMedium(list, media, Excluded) /\ TextsOK /\ RegionStored

\* With more regions to go less is claimed.
LEMMA FromBefore ==
  ASSUME NEW f, NEW m, NEW from \in Nat, OnMediumFrom(f, m, from), from > 0,
         f.regions \in Seq(Pending)
  PROVE  OnMediumFrom(f, m, 1)
<1>1. \A j \in DOMAIN f.regions : j >= from => j >= 1 OBVIOUS
<1> QED BY <1>1 DEF OnMediumFrom

LEMMA SameText ==
  ASSUME NEW f, NEW g, g.desc = f.desc, g.regions = f.regions, g.text = f.text,
         NEW m, NEW from, TextOK(f, m, from)
  PROVE  TextOK(g, m, from)
BY DEF TextOK, LastCovers, OnMediumFrom, Covers, OnDisk

LEMMA WrittenIs ==
  ASSUME NEW f, FileOK(f),
         NEW off \in Nat, NEW len \in Nat, NEW v \in Payloads \cup {Zero},
         NEW g, g = Written(f, off, len, v)
  PROVE  /\ g.desc = f.desc /\ DOMAIN g.regions = 1 .. Len(f.regions) + 1
         /\ \A j \in 1 .. Len(f.regions) : g.regions[j] = f.regions[j]
         /\ LET w == g.regions[Len(f.regions) + 1] IN w.off = off /\ w.len = len /\ w.val = v
         /\ \A u \in DOMAIN g.text :
              g.text[u] = IF off < u /\ u <= off + len THEN v
                          ELSE IF u <= Len(f.text) THEN f.text[u] ELSE Garbage
         /\ DOMAIN g.text \subseteq Nat \ {0}
<1> DEFINE w == [off |-> off, len |-> len, val |-> v]
           t == Overwritten(f.text, off, len, v)
<1>1. f \in FileRecords /\ f.regions \in Seq(Pending) /\ f.text \in Seq(Texts)
  BY DEF FileOK, FileRecords
<1>2. g.desc = f.desc /\ g.regions = Append(f.regions, w) /\ g.text = t
  BY <1>1 DEF Written, FileRecords
<1>3. w \in Pending /\ w.off = off /\ w.len = len /\ w.val = v BY DEF Pending
<1> HIDE DEF w
<1>4. /\ DOMAIN g.regions = 1 .. Len(f.regions) + 1
      /\ \A j \in 1 .. Len(f.regions) : g.regions[j] = f.regions[j]
      /\ g.regions[Len(f.regions) + 1] = w
  BY <1>1, <1>2, <1>3
<1>5. /\ \A u \in DOMAIN t : t[u] = IF off < u /\ u <= off + len THEN v
                                    ELSE IF u <= Len(f.text) THEN f.text[u] ELSE Garbage
      /\ DOMAIN t \subseteq Nat \ {0}
  BY DEF Overwritten
<1> HIDE DEF t
<1> QED BY <1>2, <1>3, <1>4, <1>5

LEMMA WrittenText ==
  ASSUME NEW f, FileOK(f),
         NEW off \in Nat, NEW len \in Nat, NEW v \in Payloads \cup {Zero},
         NEW g, g = Written(f, off, len, v), NEW m, TextOK(f, m, 1)
  PROVE  TextOK(g, m, 1)
<1> DEFINE n == Len(f.regions)
<1>1. /\ f.regions \in Seq(Pending) /\ f.text \in Seq(Texts)
      /\ \A j \in DOMAIN f.regions : f.regions[j].off + f.regions[j].len <= Len(f.text)
  BY DEF FileOK, FileRecords
<1>2. n \in Nat /\ DOMAIN f.regions = 1 .. n /\ DOMAIN f.text = 1 .. Len(f.text)
      /\ Len(f.text) \in Nat
  BY <1>1
<1>3. /\ g.desc = f.desc /\ DOMAIN g.regions = 1 .. n + 1
      /\ \A j \in 1 .. n : g.regions[j] = f.regions[j]
      /\ LET w == g.regions[n + 1] IN w.off = off /\ w.len = len /\ w.val = v
      /\ \A u \in DOMAIN g.text :
           g.text[u] = IF off < u /\ u <= off + len THEN v
                       ELSE IF u <= Len(f.text) THEN f.text[u] ELSE Garbage
      /\ DOMAIN g.text \subseteq Nat \ {0}
  BY WrittenIs
<1> HIDE DEF n
<1>4. \A j \in 1 .. n : \A u : Covers(g, j, u) <=> Covers(f, j, u) BY <1>3 DEF Covers
<1>5. \A u : Covers(g, n + 1, u) <=> off < u /\ u <= off + len BY <1>3 DEF Covers
<1>6. \A j \in 1 .. n, u \in DOMAIN g.text : Covers(f, j, u) => u \in DOMAIN f.text
  <2> SUFFICES ASSUME NEW j \in 1 .. n, NEW u \in DOMAIN g.text, Covers(f, j, u)
               PROVE  u \in DOMAIN f.text
    OBVIOUS
  <2>1. f.regions[j] \in Pending BY <1>1, <1>2
  <2>2. f.regions[j].off + f.regions[j].len \in Nat BY <2>1 DEF Pending
  <2> QED BY <2>2, <1>1, <1>2, <1>3 DEF Covers
<1>7. LastCovers(g)
  <2> SUFFICES ASSUME NEW u \in DOMAIN g.text, NEW j \in DOMAIN g.regions, Covers(g, j, u),
                      \A i \in DOMAIN g.regions : i > j => ~Covers(g, i, u)
               PROVE  g.text[u] = g.regions[j].val
    BY DEF LastCovers
  <2>1. CASE j = n + 1 BY <2>1, <1>3, <1>5
  <2>2. CASE j \in 1 .. n
    <3>1. n + 1 \in DOMAIN g.regions /\ n + 1 > j BY <2>2, <1>2, <1>3
    <3>2. ~(off < u /\ u <= off + len) BY <3>1, <1>5
    <3>3. Covers(f, j, u) /\ u \in DOMAIN f.text BY <2>2, <1>4, <1>6
    <3>4. g.text[u] = f.text[u] BY <3>2, <3>3, <1>2, <1>3
    <3>5. \A i \in DOMAIN f.regions : i > j => ~Covers(f, i, u) BY <1>2, <1>3, <1>4
    <3>6. f.text[u] = f.regions[j].val BY <2>2, <3>3, <3>5, <1>2 DEF TextOK, LastCovers
    <3> QED BY <3>4, <3>6, <2>2, <1>3
  <2> QED BY <2>1, <2>2, <1>2, <1>3
<1>8. OnMediumFrom(g, m, 1)
  <2> SUFFICES ASSUME NEW u \in DOMAIN g.text,
                      \A j \in DOMAIN g.regions : j >= 1 => ~Covers(g, j, u),
                      g.text[u] # Garbage
               PROVE  /\ OnDisk(g) /\ g.desc.first * BlockUnits + u - 1 < DescUnit(g.desc.last)
                      /\ g.text[u] = m[g.desc.first * BlockUnits + u - 1]
    BY DEF OnMediumFrom
  <2>1. n + 1 \in DOMAIN g.regions /\ n + 1 >= 1 BY <1>2, <1>3
  <2>2. ~(off < u /\ u <= off + len) BY <2>1, <1>5
  <2>3. u \in DOMAIN f.text /\ g.text[u] = f.text[u] BY <2>2, <1>2, <1>3
  <2>4. \A j \in DOMAIN f.regions : j >= 1 => ~Covers(f, j, u) BY <1>2, <1>3, <1>4
  <2> QED BY <2>3, <2>4, <1>3 DEF TextOK, OnMediumFrom, OnDisk
<1> QED BY <1>7, <1>8 DEF TextOK

\* The regions that are left of a truncation.
Clipped(f, n, g, kept) ==
  /\ kept \in Seq(DOMAIN f.regions)
  /\ \A k \in DOMAIN kept : f.regions[kept[k]].off <= n
  /\ \A j, k \in DOMAIN kept : j < k => kept[j] < kept[k]
  /\ \A j \in DOMAIN f.regions : f.regions[j].off <= n => \E k \in DOMAIN kept : kept[k] = j
  /\ DOMAIN g.regions = DOMAIN kept
  /\ \A k \in DOMAIN kept : /\ g.regions[k].off = f.regions[kept[k]].off
                            /\ g.regions[k].val = f.regions[kept[k]].val
                            /\ g.regions[k].len = Smaller(f.regions[kept[k]].len, n - f.regions[kept[k]].off)
  /\ DOMAIN g.text = 1 .. n /\ \A u \in 1 .. n : g.text[u] = f.text[u]

LEMMA TruncatedIs ==
  ASSUME NEW f, FileOK(f), f.open, NEW n \in Nat, n < f.size, NEW g, g = Truncated(f, n)
  PROVE  g.desc = f.desc /\ \E kept : Clipped(f, n, g, kept)
<1> DEFINE S == {j \in DOMAIN f.regions : f.regions[j].off <= n}
           kept == Ascending(S)
           clipped(h) == [h EXCEPT !.len = Smaller(@, n - h.off)]
           R == [k \in DOMAIN kept |-> clipped(f.regions[kept[k]])]
           t == SubSeq(f.text, 1, n)
           c == Cardinality(S)
<1>1. f \in FileRecords /\ f.regions \in Seq(Pending) /\ f.text \in Seq(Texts) /\ f.size \in Nat
      /\ f.size = Len(f.text)
  BY DEF FileOK, FileRecords
<1>14. Smaller(n, Len(f.text)) = n BY <1>1 DEF Smaller
<1>2. g = [f EXCEPT !.regions = R, !.size = n, !.text = t] BY <1>14 DEF Truncated
<1>3. Len(f.regions) \in Nat /\ S \in SUBSET (0 .. Len(f.regions)) BY <1>1
<1>4. /\ c \in Nat /\ kept \in [1 .. c -> S]
      /\ \A j, k \in 1 .. c : j < k => kept[j] < kept[k]
      /\ \A x \in S : \E k \in 1 .. c : kept[k] = x
  BY <1>3, AscendingIs
<1> HIDE DEF kept, c
<1>5. \A k \in 1 .. c : kept[k] \in DOMAIN f.regions /\ f.regions[kept[k]].off <= n
  BY <1>4
<1>6. \A j \in DOMAIN f.regions : f.regions[j].off <= n => \E k \in 1 .. c : kept[k] = j
  BY <1>4
<1> HIDE DEF S
<1>7. DOMAIN kept = 1 .. c BY <1>4
<1>8. kept \in Seq(DOMAIN f.regions)
  <2>1. kept \in [1 .. c -> DOMAIN f.regions] BY <1>4, <1>5, <1>7
  <2> QED BY <2>1, <1>4
<1>9. \A k \in 1 .. c : /\ R[k].off = f.regions[kept[k]].off
                        /\ R[k].val = f.regions[kept[k]].val
                        /\ R[k].len = Smaller(f.regions[kept[k]].len, n - f.regions[kept[k]].off)
  <2> SUFFICES ASSUME NEW k \in 1 .. c
               PROVE  /\ R[k].off = f.regions[kept[k]].off
                      /\ R[k].val = f.regions[kept[k]].val
                      /\ R[k].len = Smaller(f.regions[kept[k]].len, n - f.regions[kept[k]].off)
    OBVIOUS
  <2> DEFINE h == f.regions[kept[k]]
  <2>1. h \in Pending BY <1>1, <1>5
  <2>2. R[k] = clipped(h) BY <1>7
  <2> HIDE DEF h, R
  <2>3. R[k].off = h.off /\ R[k].val = h.val /\ R[k].len = Smaller(h.len, n - h.off)
    BY <2>1, <2>2 DEF Pending
  <2> QED BY <2>3 DEF h
<1>10. DOMAIN R = 1 .. c BY <1>7
<1> HIDE DEF R
<1>11. DOMAIN t = 1 .. n /\ \A u \in 1 .. n : t[u] = f.text[u]
  <2>1. t \in Seq(Texts) /\ Len(t) = n /\ \A u \in 1 .. n : t[u] = f.text[1 + u - 1] BY <1>1, Parts
  <2> HIDE DEF t
  <2>2. \A u \in 1 .. n : 1 + u - 1 = u OBVIOUS
  <2> QED BY <2>1, <2>2
<1> HIDE DEF t
<1>12. g.desc = f.desc /\ g.text = t /\ g.regions = R BY <1>1, <1>2 DEF FileRecords
<1>13. Clipped(f, n, g, kept) BY <1>4, <1>5, <1>6, <1>7, <1>8, <1>9, <1>10, <1>11, <1>12 DEF Clipped
<1> QED BY <1>12, <1>13

LEMMA TruncatedText ==
  ASSUME NEW f, FileOK(f), f.open, NEW n \in Nat, n < f.size, NEW g, g = Truncated(f, n),
         NEW m, TextOK(f, m, 1)
  PROVE  TextOK(g, m, 1)
<1>1. f.regions \in Seq(Pending) /\ f.text \in Seq(Texts) /\ f.size = Len(f.text)
  BY DEF FileOK, FileRecords
<1>2. g.desc = f.desc BY TruncatedIs
<1>3. PICK kept : Clipped(f, n, g, kept) BY TruncatedIs
<1>4. /\ kept \in Seq(DOMAIN f.regions)
      /\ \A k \in DOMAIN kept : f.regions[kept[k]].off <= n
      /\ \A j, k \in DOMAIN kept : j < k => kept[j] < kept[k]
      /\ \A j \in DOMAIN f.regions : f.regions[j].off <= n => \E k \in DOMAIN kept : kept[k] = j
      /\ DOMAIN g.regions = DOMAIN kept
      /\ \A k \in DOMAIN kept :
           /\ g.regions[k].off = f.regions[kept[k]].off
           /\ g.regions[k].val = f.regions[kept[k]].val
           /\ g.regions[k].len = Smaller(f.regions[kept[k]].len, n - f.regions[kept[k]].off)
      /\ DOMAIN g.text = 1 .. n /\ \A u \in 1 .. n : g.text[u] = f.text[u]
  BY <1>3 DEF Clipped
<1>5. \A k \in DOMAIN kept : kept[k] \in DOMAIN f.regions BY <1>4
<1>6. \A k \in DOMAIN kept, u \in 1 .. n : Covers(g, k, u) <=> Covers(f, kept[k], u)
  <2> SUFFICES ASSUME NEW k \in DOMAIN kept, NEW u \in 1 .. n
               PROVE  Covers(g, k, u) <=> Covers(f, kept[k], u)
    OBVIOUS
  <2> DEFINE h == f.regions[kept[k]]
  <2>1. h \in Pending BY <1>1, <1>5
  <2>2. g.regions[k].off = h.off /\ g.regions[k].len = Smaller(h.len, n - h.off) BY <1>4
  <2> HIDE DEF h
  <2>3. h.off \in Nat /\ h.len \in Nat BY <2>1 DEF Pending
  <2>4. Covers(f, kept[k], u) <=> h.off < u /\ u <= h.off + h.len BY DEF Covers, h
  <2> QED BY <2>2, <2>3, <2>4 DEF Covers, Smaller
<1>7. \A j \in DOMAIN f.regions, u \in 1 .. n :
        Covers(f, j, u) => \E k \in DOMAIN kept : kept[k] = j
  <2> SUFFICES ASSUME NEW j \in DOMAIN f.regions, NEW u \in 1 .. n, Covers(f, j, u)
               PROVE  f.regions[j].off <= n
    BY <1>4
  <2>1. f.regions[j] \in Pending BY <1>1
  <2> QED BY <2>1 DEF Covers, Pending
<1>8. DOMAIN kept \subseteq Nat /\ DOMAIN f.regions \subseteq Nat BY <1>1, <1>4
<1>9. \A u \in 1 .. n : u \in DOMAIN f.text BY <1>1
<1>10. LastCovers(g)
  <2> SUFFICES ASSUME NEW u \in 1 .. n, NEW k \in DOMAIN kept, Covers(g, k, u),
                      \A i \in DOMAIN kept : i > k => ~Covers(g, i, u)
               PROVE  g.text[u] = g.regions[k].val
    BY <1>4 DEF LastCovers
  <2> DEFINE j == kept[k]
  <2>1. j \in DOMAIN f.regions /\ Covers(f, j, u) BY <1>5, <1>6
  <2>2. ASSUME NEW i \in DOMAIN f.regions, i > j, Covers(f, i, u) PROVE FALSE
    <3>1. PICK h \in DOMAIN kept : kept[h] = i BY <2>2, <1>7
    <3>2. Covers(g, h, u) BY <2>2, <3>1, <1>6
    <3>3. h \in Nat /\ k \in Nat /\ i \in Nat /\ j \in Nat BY <2>1, <1>8
    <3>4. ~(h > k) BY <3>2
    <3>5. h < k \/ h = k BY <3>3, <3>4
    <3>6. h < k => kept[h] < kept[k] BY <1>4
    <3> HIDE DEF j
    <3>7. kept[k] = j BY DEF j
    <3> QED BY <2>2, <3>1, <3>3, <3>5, <3>6, <3>7
  <2>3. f.text[u] = f.regions[j].val BY <2>1, <2>2, <1>9 DEF TextOK, LastCovers
  <2> QED BY <2>3, <1>4
<1>11. OnMediumFrom(g, m, 1)
  <2> SUFFICES ASSUME NEW u \in 1 .. n,
                      \A k \in DOMAIN kept : k >= 1 => ~Covers(g, k, u),
                      g.text[u] # Garbage
               PROVE  /\ OnDisk(g) /\ g.desc.first * BlockUnits + u - 1 < DescUnit(g.desc.last)
                      /\ g.text[u] = m[g.desc.first * BlockUnits + u - 1]
    BY <1>4 DEF OnMediumFrom
  <2>1. \A k \in DOMAIN kept : k >= 1 BY <1>4
  <2>2. \A j \in DOMAIN f.regions : ~Covers(f, j, u) BY <2>1, <1>6, <1>7
  <2>3. g.text[u] = f.text[u] BY <1>4
  <2> QED BY <2>2, <2>3, <1>2, <1>9 DEF TextOK, OnMediumFrom, OnDisk
<1> QED BY <1>10, <1>11 DEF TextOK

-----------------------------------------------------------------------------
(* All that is known of a file no step of a flush is working on.           *)

FileStored(f, m) ==
  TextOK(f, m, 1) /\ (OnDisk(f) => m[DescUnit(f.desc.last)] = f.desc)

LEMMA StoredIntro ==
  ASSUME \A k \in DOMAIN list' \ {cur'} : FileStored(list'[k], media'),
         cur' \in DOMAIN list' =>
           /\ pc' \in {"delete", "deleted"} \/ TextOK(list'[cur'], media', From(cur)')
           /\ OnDisk(list'[cur']) /\ cur' \notin Excluded'
                => media'[DescUnit(list'[cur'].desc.last)] = list'[cur'].desc,
         RegionStored'
  PROVE  StoredInv'
<1>1. OnMedium(list, media, Excluded)'
  BY DEF OnMedium, Disk, FileStored
<1>2. TextsOK' BY DEF TextsOK, FileStored, From
<1> QED BY <1>1, <1>2 DEF StoredInv

LEMMA StoredQuiet ==
  ASSUME \A k \in DOMAIN list' : FileStored(list'[k], media'),
         pc' \in {"idle", "enter", "return", "finish"} \/ (pc' = "region" /\ r' = 1)
  PROVE  StoredInv'
<1>1. From(cur)' = 1 /\ RegionStored' BY DEF From, RegionStored
<1> QED BY <1>1, StoredIntro DEF FileStored

LEMMA OthersStored ==
  ASSUME StoredInv, NEW k \in DOMAIN list \ {cur} PROVE FileStored(list[k], media)
BY DEF StoredInv, TextsOK, OnMedium, Excluded, Disk, From, FileStored

LEMMA AllStored ==
  ASSUME VolumeInv, StoredInv, pc \notin {"delete", "deleted", "data", "describe"},
         NEW k \in DOMAIN list
  PROVE  FileStored(list[k], media)
<1>1. CASE k # cur BY <1>1, OthersStored
<1>2. CASE k = cur
  <2>1. initialized
    <3>1. ~initialized => list = <<>> BY DEF VolumeInv, ControlOK
    <3> QED BY <3>1
  <2>2. FileOK(list[k]) BY <2>1 DEF VolumeInv, VolumeOK
  <2>3. TextOK(list[k], media, From(k)) BY <1>2 DEF StoredInv, TextsOK
  <2>4. TextOK(list[k], media, 1)
    <3>1. CASE From(k) = 1 BY <3>1, <2>3
    <3>2. CASE From(k) # 1
      <4>1. From(k) = r /\ pc \in {"region", "edit", "invalidate", "data", "describe"}
        BY <3>2 DEF From
      <4>2. r \in Nat /\ r > 0 BY <4>1, UnderWay DEF VolumeInv, FlushOK, FlushingOK
      <4>3. list[k].regions \in Seq(Pending) BY <2>2 DEF FileOK, FileRecords
      <4> QED BY <2>3, <4>1, <4>2, <4>3, FromBefore DEF TextOK
    <3> QED BY <3>1, <3>2
  <2> QED BY <1>2, <2>4 DEF StoredInv, OnMedium, Excluded, Disk, FileStored
<1> QED BY <1>1, <1>2

LEMMA SameStored ==
  ASSUME NEW f, NEW g, g.desc = f.desc, g.regions = f.regions, g.text = f.text,
         NEW m, FileStored(f, m)
  PROVE  FileStored(g, m)
BY SameText DEF FileStored, OnDisk

\* A file of the list changes in memory.
LEMMA UpdateStored ==
  ASSUME VolumeInv, StoredInv, pc \notin {"delete", "deleted", "data", "describe"},
         list \in Seq(FileRecords), NEW i \in DOMAIN list, NEW f, FileStored(f, media),
         Update(i, f), media' = media,
         pc' \in {"idle", "enter", "return", "finish"}
  PROVE  StoredInv'
<1>1. \A k \in DOMAIN list : FileStored(list[k], media) BY AllStored
<1>2. DOMAIN list' = DOMAIN list /\ \A k \in DOMAIN list : list'[k] = IF k = i THEN f ELSE list[k]
  BY DEF Update
<1> QED BY <1>1, <1>2, StoredQuiet

\* The list stays, or its files are moved.
LEMMA MovedStored ==
  ASSUME VolumeInv, StoredInv, pc \notin {"delete", "deleted", "data", "describe"},
         \A k \in DOMAIN list' : \E j \in DOMAIN list : list'[k] = list[j],
         media' = media,
         pc' \in {"idle", "enter", "return", "finish"} \/ (pc' = "region" /\ r' = 1)
  PROVE  StoredInv'
<1>1. \A k \in DOMAIN list : FileStored(list[k], media) BY AllStored
<1> QED BY <1>1, StoredQuiet

LEMMA RemovedStored ==
  ASSUME VolumeOK(list), StoredInv, cur \in DOMAIN list, list' = RemoveAt(list, cur),
         media' = media, pc' = "idle"
  PROVE  StoredInv'
<1>1. list \in Seq(FileRecords) /\ cur \in 1 .. Len(list) BY DEF VolumeOK
<1>2. \E p : Remaining(list, list', cur, p) BY <1>1, Removed
<1>3. PICK p : Remaining(list, list', cur, p) BY <1>2
<1>4. \A k \in DOMAIN list' : p[k] \in DOMAIN list \ {cur} /\ list'[k] = list[p[k]]
  BY <1>3 DEF Remaining
<1>5. \A k \in DOMAIN list' : FileStored(list'[k], media')
  BY <1>4, OthersStored
<1> QED BY <1>5, StoredQuiet

LEMMA FilesMoved ==
  ASSUME VolumeOK(list), cur \in DOMAIN list, ~OnDisk(File), FindSpaceForNewFile
  PROVE  \A k \in DOMAIN list' : \E j \in DOMAIN list : list'[k] = list[j]
<1> DEFINE n == File.size + 1
<1>1. list \in Seq(FileRecords) /\ DOMAIN list = 1 .. Len(list) /\ Len(list) \in Nat BY DEF VolumeOK
<1>2. CASE Gaps(n) # {} /\ LinkBefore(cur, Min(Gaps(n)))
  <2> DEFINE k == Min(Gaps(n))  to == IF cur < k THEN k - 1 ELSE k
  <2>1. Gaps(n) \subseteq DOMAIN list /\ \A j \in Gaps(n) : OnDisk(list[j])
    BY DEF Gaps, DiskIndices
  <2>2. Gaps(n) \in SUBSET Nat BY <2>1, <1>1
  <2>3. k \in Gaps(n) BY <1>2, <2>2, Least
  <2>4. list' = InsertAt(RemoveAt(list, cur), to, list[cur]) BY <1>2 DEF LinkBefore
  <2> HIDE DEF k, n
  <2>5. k \in 1 .. Len(list) /\ k # cur BY <2>1, <2>3, <1>1 DEF File
  <2>6. to \in DOMAIN list BY <2>5, <1>1
  <2> HIDE DEF to
  <2> DEFINE p == LinkMap(Len(list), cur, to)
  <2> HIDE DEF p
  <2>7. p = LinkMap(Len(list), cur, to) BY DEF p
  <2>8. list \in Seq(FileRecords) /\ cur \in DOMAIN list BY <1>1
  <2>9. Reordering(list, list', p) BY ONLY <2>4, <2>6, <2>7, <2>8, Linked
  <2>10. \A j \in DOMAIN list' : p[j] \in DOMAIN list /\ list'[j] = list[p[j]]
    BY <2>9 DEF Reordering
  <2> QED BY <2>10
<1>3. CASE UNCHANGED <<list, cur>> BY <1>3
<1> QED BY <1>2, <1>3 DEF FindSpaceForNewFile
-----------------------------------------------------------------------------
(* The blocks of a file.                                                   *)

\* All data that a description speaks of is before it.
LEMMA BeforeDescription ==
  ASSUME NEW d \in Description, Fitting(d), NEW u \in 1 .. d.size
  PROVE  d.first * BlockUnits + u - 1 < DescUnit(d.last)
<1> DEFINE q == d.first  p == d.last
<1>1. q \in Nat /\ p \in Nat /\ d.size \in Nat BY Descriptions
<1>2. q <= p /\ d.size + 1 <= (p - q + 1) * BlockUnits BY DEF Fitting
<1>3. DescUnit(p) = (p + 1) * BlockUnits - 1 BY DEF DescUnit
<1> HIDE DEF q, p
<1>4. (p + 1) * BlockUnits = q * BlockUnits + (p - q + 1) * BlockUnits BY <1>1, BlockSize
<1>5. /\ q * BlockUnits \in Nat /\ (p + 1) * BlockUnits \in Nat
      /\ (p - q + 1) * BlockUnits \in Nat
  BY <1>1, <1>2, BlockSize
<1>6. q * BlockUnits + u - 1 < DescUnit(p) BY <1>1, <1>2, <1>3, <1>4, <1>5
<1> QED BY <1>6 DEF q, p

LEMMA InExtent ==
  ASSUME NEW d \in Description, d.first <= d.last
  PROVE  /\ DescUnit(d.last) \in Extent(d)
         /\ \A u \in Nat \ {0} : d.first * BlockUnits + u - 1 < DescUnit(d.last)
                                   => d.first * BlockUnits + u - 1 \in Extent(d)
<1> DEFINE q == d.first  p == d.last
<1>1. q \in Nat /\ p \in Nat /\ q <= p BY Descriptions
<1>2. DescUnit(p) = (p + 1) * BlockUnits - 1
      /\ Extent(d) = q * BlockUnits .. (p + 1) * BlockUnits - 1
  BY DEF DescUnit, Extent
<1> HIDE DEF q, p
<1>3. q * BlockUnits \in Nat /\ p * BlockUnits \in Nat /\ q * BlockUnits <= p * BlockUnits
  BY <1>1, Monotone
<1>4. (p + 1) * BlockUnits = p * BlockUnits + BlockUnits BY <1>1, Successor
<1>5. /\ DescUnit(p) \in Extent(d)
      /\ \A u \in Nat \ {0} : q * BlockUnits + u - 1 < DescUnit(p)
                                => q * BlockUnits + u - 1 \in Extent(d)
  BY <1>2, <1>3, <1>4, BlockSize
<1> QED BY <1>5 DEF q, p

\* What is known of a file does not depend on the blocks of others.
LEMMA StoredElsewhere ==
  ASSUME NEW f, FileOK(f), OnDisk(f) => f.desc.first <= f.desc.last, NEW m, NEW n,
         OnDisk(f) => \A u \in Extent(f.desc) : n[u] = m[u], FileStored(f, m)
  PROVE  FileStored(f, n)
<1>1. f.text \in Seq(Texts) BY DEF FileOK, FileRecords
<1>2. DOMAIN f.text \subseteq Nat \ {0} BY <1>1
<1>3. CASE ~OnDisk(f) BY <1>3 DEF FileStored, TextOK, OnMediumFrom
<1>4. CASE OnDisk(f)
  <2>1. f.desc \in Description BY <1>4, FileOnDisk
  <2>2. n[DescUnit(f.desc.last)] = f.desc BY <1>4, <2>1, InExtent DEF FileStored
  <2>3. \A u \in DOMAIN f.text :
          f.desc.first * BlockUnits + u - 1 < DescUnit(f.desc.last)
            => n[f.desc.first * BlockUnits + u - 1] = m[f.desc.first * BlockUnits + u - 1]
    BY <1>2, <1>4, <2>1, InExtent
  <2>4. OnMediumFrom(f, n, 1) BY <2>3, <1>4 DEF FileStored, TextOK, OnMediumFrom
  <2> QED BY <2>2, <2>4 DEF FileStored, TextOK
<1> QED BY <1>3, <1>4

LEMMA OthersStillStored ==
  ASSUME VolumeOK(list), StoredInv, OthersKept \/ media' = media, NEW k \in DOMAIN list \ {cur}
  PROVE  FileStored(list[k], media')
<1>1. FileStored(list[k], media) BY OthersStored
<1>2. FileOK(list[k]) /\ (OnDisk(list[k]) => k \in Disk(list)) BY DEF VolumeOK, Disk
<1>3. OnDisk(list[k]) => list[k].desc.first <= list[k].desc.last
  BY <1>2 DEF VolumeOK, FilesLie, Fitting
<1>4. CASE media' = media BY <1>1, <1>4
<1>5. CASE OthersKept
  <2>1. OnDisk(list[k]) => \A u \in Extent(list[k].desc) : media'[u] = media[u]
    BY <1>2, <1>5 DEF OthersKept
  <2> QED BY <1>1, <1>2, <1>3, <2>1, StoredElsewhere
<1> QED BY <1>4, <1>5
-----------------------------------------------------------------------------
(* The calls that only change memory.                                      *)

LEMMA InitializeStores ==
  ASSUME VolumeInv, Pristine', Initialize PROVE StoredInv'
<1> DEFINE L == Discovered(Blocks)
<1>1. pc = "idle" /\ list = <<>> /\ MediumOK(media)
  BY DEF VolumeInv, ControlOK, Initialize
<1>2. list' = list \o L BY DEF Initialize, Pristine, Spoil
<1>3. VolumeOK(L) /\ \A k \in DOMAIN L : /\ L[k].regions = <<>> /\ L[k].text = Text(L[k].desc)
                                         /\ OnDisk(L[k])
                                         /\ media[DescUnit(L[k].desc.last)] = L[k].desc
  BY <1>1, DiscoveredList
<1>4. media' = media /\ pc' = "idle" BY <1>1 DEF Initialize
<1> HIDE DEF L
<1>5. L \in Seq(FileRecords) BY <1>3 DEF VolumeOK
<1>6. list' = L BY <1>1, <1>2, <1>5
<1>7. ASSUME NEW k \in DOMAIN L PROVE FileStored(L[k], media)
  <2> DEFINE f == L[k]
  <2>1. /\ FileOK(f) /\ OnDisk(f) /\ f.regions = <<>> /\ f.text = Text(f.desc)
        /\ media[DescUnit(f.desc.last)] = f.desc
    BY <1>3 DEF VolumeOK
  <2>2. Fitting(f.desc) BY <1>3, <2>1 DEF VolumeOK, FilesLie, Disk
  <2> HIDE DEF f
  <2>3. f.desc \in Description BY <2>1, FileOnDisk
  <2>4. DOMAIN f.text = 1 .. f.desc.size
        /\ \A u \in 1 .. f.desc.size : f.text[u] = media[f.desc.first * BlockUnits + u - 1]
    BY <2>1 DEF Text
  <2>5. \A u \in 1 .. f.desc.size : f.desc.first * BlockUnits + u - 1 < DescUnit(f.desc.last)
    BY <2>2, <2>3, BeforeDescription
  <2>6. OnMediumFrom(f, media, 1) BY <2>1, <2>4, <2>5 DEF OnMediumFrom
  <2>7. LastCovers(f) BY <2>1 DEF LastCovers
  <2>8. FileStored(f, media) BY <2>1, <2>6, <2>7 DEF FileStored, TextOK
  <2> QED BY <2>8 DEF f
<1> QED BY <1>4, <1>6, <1>7, StoredQuiet

LEMMA MemoryStores ==
  ASSUME VolumeInv, StoredInv, Calling, UNCHANGED <<pc, flush>>,
         NEW i \in DOMAIN list, NEW f, Update(i, f),
         FileStored(list[i], media) => FileStored(f, media)
  PROVE  StoredInv'
<1>1. pc = "idle" /\ initialized /\ media' = media /\ pc' = "idle" BY DEF Calling
<1>2. list \in Seq(FileRecords) BY <1>1 DEF VolumeInv, VolumeOK
<1>3. FileStored(list[i], media) BY <1>1, AllStored
<1> QED BY <1>1, <1>2, <1>3, UpdateStored

LEMMA OpenFileStores ==
  ASSUME VolumeInv, StoredInv, Pristine', NEW n \in Names, NEW mode, OpenFile(n, mode)
  PROVE  StoredInv'
<1> DEFINE i == SelectInSeq(list, LAMBDA f : EffectiveName(f) = n)
           S == {k \in 1 .. Len(list) : EffectiveName(list[k]) = n}
<1>1. Calling /\ UNCHANGED <<pc, flush>> BY DEF OpenFile
<1>2. initialized /\ media' = media /\ pc = "idle" /\ pc' = "idle" BY <1>1 DEF Calling
<1>3. list \in Seq(FileRecords) /\ DOMAIN list = 1 .. Len(list) BY <1>2 DEF VolumeInv, VolumeOK
<1>4. CASE i # 0 /\ Update(i, Opened(list[i], n, mode # "read"))
  <2>1. i = IF S # {} THEN Min(S) ELSE 0 BY DEF SelectInSeq
  <2>2. S \in SUBSET Nat OBVIOUS
  <2>3. S # {} => Min(S) \in S BY <2>2, Least
  <2> HIDE DEF i
  <2>4. i \in DOMAIN list BY <2>1, <2>3, <1>3, <1>4
  <2>5. list[i] \in FileRecords BY <2>4, <1>3
  <2> DEFINE f == Opened(list[i], n, mode # "read")
  <2>6. f.desc = list[i].desc /\ f.regions = list[i].regions /\ f.text = list[i].text
    BY <2>5 DEF Opened, FileRecords
  <2>7. Update(i, f) BY <1>4
  <2> HIDE DEF f
  <2>8. FileStored(list[i], media) => FileStored(f, media) BY <2>6, SameStored
  <2> QED BY <1>1, <2>4, <2>7, <2>8, MemoryStores
<1>5. CASE list' = <<Opened(NewFile(NoDesc, 0, <<>>), n, TRUE)>> \o list
  <2> DEFINE f == Opened(NewFile(NoDesc, 0, <<>>), n, TRUE)
  <2>1. FileOK(f) /\ ~OnDisk(f) BY CreatedFile
  <2>2. f.text = <<>> BY DEF Opened, NewFile
  <2>3. list' = <<f>> \o list BY <1>5
  <2> HIDE DEF f
  <2>4. f \in FileRecords BY <2>1 DEF FileOK
  <2>5. FileStored(f, media) BY <2>1, <2>2 DEF FileStored, TextOK, LastCovers, OnMediumFrom
  <2>6. \A k \in DOMAIN list' : list'[k] = f \/ \E j \in DOMAIN list : list'[k] = list[j]
    <3>1. <<f>> \in Seq(FileRecords) /\ Len(<<f>>) = 1 /\ <<f>>[1] = f BY <2>4
    <3>2. Len(list') = 1 + Len(list) /\ list' \in Seq(FileRecords)
          /\ \A k \in 1 .. 1 + Len(list) : list'[k] = IF k <= 1 THEN <<f>>[k] ELSE list[k - 1]
      BY <2>3, <3>1, <1>3, Joined
    <3>3. \A k \in 1 .. 1 + Len(list) : k <= 1 => list'[k] = f BY <3>1, <3>2
    <3>4. \A k \in 1 .. 1 + Len(list) : ~(k <= 1) => k - 1 \in DOMAIN list /\ list'[k] = list[k - 1]
      BY <3>2, <1>3
    <3>5. DOMAIN list' = 1 .. 1 + Len(list) BY <3>2, <1>3
    <3> QED BY <3>3, <3>4, <3>5
  <2>7. \A j \in DOMAIN list : FileStored(list[j], media) BY <1>2, AllStored
  <2> QED BY <2>5, <2>6, <2>7, <1>2, StoredQuiet
<1> QED BY <1>4, <1>5 DEF OpenFile

LEMMA WriteFileStores ==
  ASSUME VolumeInv, StoredInv, NEW i \in DOMAIN list, NEW len \in Lengths, NEW v \in Payloads,
         WriteFile(i, len, v)
  PROVE  StoredInv'
<1>1. Calling /\ UNCHANGED <<pc, flush>> /\ list[i].open BY DEF WriteFile
<1>2. FileOK(list[i]) /\ list[i] \in FileRecords /\ list[i].pos \in Nat
  BY <1>1, OpenFiles DEF Calling
<1>3. len \in Nat /\ v \in Payloads \cup {Zero} BY ConstantsAssumption
<1> DEFINE pos == list[i].pos
           w == Written(list[i], pos, len, v)
           f == [w EXCEPT !.pos = @ + len]
<1>4. pos \in Nat BY <1>2
<1>5. Update(i, f) BY DEF WriteFile
<1> HIDE DEF pos
<1>6. FileOK(w) /\ w.desc = list[i].desc BY <1>1, <1>2, <1>3, <1>4, WrittenFile
<1>7. TextOK(list[i], media, 1) => TextOK(w, media, 1) BY <1>2, <1>3, <1>4, WrittenText
<1> HIDE DEF w
<1>8. FileStored(list[i], media) => FileStored(w, media) BY <1>6, <1>7 DEF FileStored, OnDisk
<1>9. f.desc = w.desc /\ f.regions = w.regions /\ f.text = w.text BY <1>6 DEF FileOK, FileRecords
<1> HIDE DEF f
<1>10. FileStored(list[i], media) => FileStored(f, media) BY <1>8, <1>9, SameStored
<1> QED BY <1>1, <1>5, <1>10, MemoryStores

LEMMA SetPositionStores ==
  ASSUME VolumeInv, StoredInv, NEW i \in DOMAIN list, NEW p, SetPosition(i, p)
  PROVE  StoredInv'
<1>1. Calling /\ UNCHANGED <<pc, flush>> BY DEF SetPosition
<1>2. list[i] \in FileRecords BY <1>1, OpenFiles DEF Calling
<1> DEFINE f == [list[i] EXCEPT !.pos = p]
<1>3. f.desc = list[i].desc /\ f.regions = list[i].regions /\ f.text = list[i].text
  BY <1>2 DEF FileRecords
<1>4. Update(i, f) BY DEF SetPosition
<1> HIDE DEF f
<1>5. FileStored(list[i], media) => FileStored(f, media) BY <1>3, SameStored
<1> QED BY <1>1, <1>4, <1>5, MemoryStores

LEMMA SetFileSizeStores ==
  ASSUME VolumeInv, StoredInv, NEW i \in DOMAIN list, NEW n \in Lengths, SetFileSize(i, n)
  PROVE  StoredInv'
<1>1. Calling /\ UNCHANGED <<pc, flush>> /\ list[i].open /\ n # list[i].size BY DEF SetFileSize
<1>2. FileOK(list[i]) /\ list[i].size \in Nat BY <1>1, OpenFiles DEF Calling
<1>3. n \in Nat BY ConstantsAssumption
<1>4. CASE n < list[i].size
  <2> DEFINE f == Truncated(list[i], n)
  <2>1. FileOK(f) /\ f.desc = list[i].desc BY <1>1, <1>2, <1>3, <1>4, TruncatedFile
  <2>2. TextOK(list[i], media, 1) => TextOK(f, media, 1)
    BY <1>1, <1>2, <1>3, <1>4, TruncatedText
  <2>3. Update(i, f) BY <1>4 DEF SetFileSize
  <2> HIDE DEF f
  <2>4. FileStored(list[i], media) => FileStored(f, media) BY <2>1, <2>2 DEF FileStored, OnDisk
  <2> QED BY <1>1, <2>3, <2>4, MemoryStores
<1>5. CASE ~(n < list[i].size)
  <2> DEFINE f == Written(list[i], list[i].size, n - list[i].size, Zero)
  <2>1. n - list[i].size \in Nat BY <1>2, <1>3, <1>5
  <2>2. FileOK(f) /\ f.desc = list[i].desc BY <1>1, <1>2, <2>1, WrittenFile
  <2>3. TextOK(list[i], media, 1) => TextOK(f, media, 1) BY <1>2, <2>1, WrittenText
  <2>4. Update(i, f) BY <1>5 DEF SetFileSize
  <2> HIDE DEF f
  <2>5. FileStored(list[i], media) => FileStored(f, media) BY <2>2, <2>3 DEF FileStored, OnDisk
  <2> QED BY <1>1, <2>4, <2>5, MemoryStores
<1> QED BY <1>4, <1>5

LEMMA BeginStores ==
  ASSUME VolumeInv, StoredInv, NEW i, NEW why, Begin(i, why, "enter") PROVE StoredInv'
BY MovedStored DEF Begin, Calling

LEMMA DeleteStores ==
  ASSUME VolumeInv, StoredInv, NEW i \in DOMAIN list, Delete(i) PROVE StoredInv'
<1>1. pc = "idle" /\ initialized /\ media' = media /\ cur' = i /\ pc' = "delete"
  BY DEF Delete, Calling
<1>2. list \in Seq(FileRecords) /\ list[i] \in FileRecords BY <1>1, OpenFiles DEF VolumeOK
<1> DEFINE f == [list[i] EXCEPT !.regions = <<>>]
<1>3. f.desc = list[i].desc BY <1>2 DEF FileRecords
<1>4. Update(i, f) BY DEF Delete
<1> HIDE DEF f
<1>5. DOMAIN list' = DOMAIN list /\ \A k \in DOMAIN list : list'[k] = IF k = i THEN f ELSE list[k]
  BY <1>2, <1>4 DEF Update
<1>6. \A k \in DOMAIN list : FileStored(list[k], media) BY <1>1, AllStored
<1>7. OnDisk(f) => media[DescUnit(f.desc.last)] = f.desc
  BY <1>3, <1>6 DEF FileStored, OnDisk
<1>8. \A k \in DOMAIN list' \ {cur'} : FileStored(list'[k], media') BY <1>1, <1>5, <1>6
<1>9. RegionStored' BY <1>1 DEF RegionStored
<1>10. /\ pc' \in {"delete", "deleted"}
       /\ OnDisk(list'[cur']) => media'[DescUnit(list'[cur'].desc.last)] = list'[cur'].desc
  BY <1>1, <1>5, <1>7
<1> QED BY <1>8, <1>9, <1>10, StoredIntro
-----------------------------------------------------------------------------
(* The steps of a flush that write nothing.                                *)

\* The file in turn is now f; the others stay as they are.
Becomes(f) ==
  /\ DOMAIN list' = DOMAIN list
  /\ \A k \in DOMAIN list : list'[k] = IF k = cur THEN f ELSE list[k]

LEMMA CurStored ==
  ASSUME VolumeOK(list), StoredInv, OthersKept \/ media' = media,
         NEW f, Becomes(f), cur' = cur,
         pc' = "deleted" \/ TextOK(f, media', From(cur)'),
         OnDisk(f) /\ cur' \notin Excluded' => media'[DescUnit(f.desc.last)] = f.desc,
         RegionStored'
  PROVE  StoredInv'
<1>1. \A k \in DOMAIN list \ {cur} : FileStored(list[k], media') BY OthersStillStored
<1>2. \A k \in DOMAIN list' \ {cur'} : FileStored(list'[k], media') BY <1>1 DEF Becomes
<1>3. cur' \in DOMAIN list' => list'[cur] = f BY DEF Becomes
<1>4. cur' \in DOMAIN list' =>
        /\ pc' \in {"delete", "deleted"} \/ TextOK(list'[cur'], media', From(cur)')
        /\ OnDisk(list'[cur']) /\ cur' \notin Excluded'
             => media'[DescUnit(list'[cur'].desc.last)] = list'[cur'].desc
  BY <1>3
<1> QED BY <1>2, <1>4, StoredIntro

\* What is known of the file in turn at a region of its.
LEMMA AtRegion ==
  ASSUME VolumeInv, StoredInv, pc \in {"region", "edit", "invalidate", "data", "describe"}
  PROVE  /\ TextOK(File, media, r) /\ r > 0
         /\ OnDisk(File) /\ pc \notin {"data", "describe"}
              => media[DescUnit(File.desc.last)] = File.desc
<1>1. cur \in DOMAIN list /\ File = list[cur] BY UnderWay
<1>2. From(cur) = r BY DEF From
<1>3. TextOK(File, media, r) BY <1>1, <1>2 DEF StoredInv, TextsOK
<1>4. r > 0 BY DEF VolumeInv, FlushOK, FlushingOK
<1>5. OnDisk(File) /\ pc \notin {"data", "describe"} => media[DescUnit(File.desc.last)] = File.desc
  BY <1>1 DEF StoredInv, OnMedium, Excluded, Disk
<1> QED BY <1>3, <1>4, <1>5

LEMMA EnterStores ==
  ASSUME VolumeInv, StoredInv, Enter PROVE StoredInv'
<1>1. pc = "enter" /\ media' = media BY DEF Enter
<1>2. cur \in DOMAIN list /\ VolumeOK(list) BY <1>1, UnderWay
<1>3. CASE ~OnDisk(File) /\ FindSpaceForNewFile /\ r' = 1
  <2>1. \A k \in DOMAIN list' : \E j \in DOMAIN list : list'[k] = list[j] BY <1>2, <1>3, FilesMoved
  <2>2. pc' \in {"region", "return"} BY <1>3 DEF FindSpaceForNewFile
  <2> QED BY <1>1, <1>3, <2>1, <2>2, MovedStored
<1>4. CASE list' = list /\ (pc' = "return" \/ (pc' = "region" /\ r' = 1))
  BY <1>1, <1>4, MovedStored
<1> QED BY <1>3, <1>4 DEF Enter

LEMMA EmptyRegionStores ==
  ASSUME VolumeInv, StoredInv, EmptyRegion PROVE StoredInv'
<1>1. /\ pc = "region" /\ pc' = "region" /\ r' = r + 1 /\ Region.len = 0 /\ r <= Len(File.regions)
      /\ UNCHANGED <<media, list, cur>>
  BY DEF EmptyRegion
<1>2. VolumeOK(list) /\ FileOK(File) /\ r \in Nat /\ File = list[cur] BY <1>1, UnderWay
<1>3. TextOK(File, media, r) /\ r > 0
      /\ (OnDisk(File) => media[DescUnit(File.desc.last)] = File.desc)
  BY <1>1, AtRegion
<1>4. Region.off \in Nat BY <1>1, <1>2, <1>3, RegionInTurn
<1>5. \A u \in DOMAIN File.text : ~Covers(File, r, u)
  <2>1. DOMAIN File.text \subseteq Nat BY <1>2 DEF FileOK, FileRecords
  <2>2. \A u \in Nat : ~Covers(File, r, u) BY <1>1, <1>4 DEF Covers, Region
  <2> QED BY <2>1, <2>2
<1>6. DOMAIN File.regions \subseteq Nat BY <1>2 DEF FileOK, FileRecords
<1>7. OnMediumFrom(File, media, r + 1)
  <2> SUFFICES ASSUME NEW u \in DOMAIN File.text,
                      \A j \in DOMAIN File.regions : j >= r + 1 => ~Covers(File, j, u)
               PROVE  \A j \in DOMAIN File.regions : j >= r => ~Covers(File, j, u)
    BY <1>3 DEF TextOK, OnMediumFrom
  <2>1. \A j \in DOMAIN File.regions : j >= r => j = r \/ j >= r + 1 BY <1>2, <1>6
  <2> QED BY <2>1, <1>5
<1>8. From(cur)' = r' /\ RegionStored' BY <1>1 DEF From, RegionStored
<1>9. TextOK(File, media, From(cur)') BY <1>1, <1>3, <1>7, <1>8 DEF TextOK
<1>10. Becomes(File) BY <1>1, <1>2 DEF Becomes
<1> QED BY <1>1, <1>2, <1>3, <1>8, <1>9, <1>10, CurStored

LEMMA NextRegionStores ==
  ASSUME VolumeInv, StoredInv, NextRegion PROVE StoredInv'
<1>1. /\ pc = "region" /\ media' = media /\ cur' = cur /\ r' = r BY DEF NextRegion
<1>2. VolumeOK(list) /\ FileOK(File) /\ r \in Nat /\ File = list[cur] /\ cur \in DOMAIN list
  BY <1>1, UnderWay
<1>3. TextOK(File, media, r) /\ r > 0
      /\ (OnDisk(File) => media[DescUnit(File.desc.last)] = File.desc)
  BY <1>1, AtRegion
<1>4. list \in Seq(FileRecords) /\ File \in FileRecords BY <1>2 DEF VolumeOK, FileOK
<1>5. CASE r > Len(File.regions) /\ pc' = "finish" /\ Update(cur, [File EXCEPT !.regions = <<>>])
  <2> DEFINE f == [File EXCEPT !.regions = <<>>]
  <2>1. f.desc = File.desc /\ f.text = File.text /\ f.regions = <<>> BY <1>4 DEF FileRecords
  <2>2. Update(cur, f) BY <1>5
  <2> HIDE DEF f
  <2>3. \A j \in DOMAIN File.regions : ~(j >= r) BY <1>2, <1>4, <1>5 DEF FileRecords
  <2>4. OnMediumFrom(f, media, 1) BY <2>1, <2>3, <1>3 DEF TextOK, OnMediumFrom, OnDisk
  <2>5. LastCovers(f) BY <2>1 DEF LastCovers
  <2>6. FileStored(f, media) BY <2>1, <2>4, <2>5, <1>3 DEF FileStored, TextOK, OnDisk
  <2> QED BY <1>1, <1>2, <1>4, <1>5, <2>2, <2>6, UpdateStored
<1>6. CASE list' = list /\ pc' = "return" BY <1>1, <1>6, MovedStored
<1>7. CASE list' = list /\ pc' \in {"edit", "invalidate", "data"}
  <2>1. From(cur)' = r /\ RegionStored' BY <1>1, <1>7 DEF From, RegionStored
  <2>2. TextOK(File, media', From(cur)') BY <1>1, <1>3, <2>1
  <2>3. Becomes(File) BY <1>2, <1>7 DEF Becomes
  <2> QED BY <1>1, <1>2, <1>3, <2>1, <2>2, <2>3, CurStored
<1> QED BY <1>5, <1>6, <1>7 DEF NextRegion

LEMMA ReturnStores ==
  ASSUME VolumeInv, StoredInv, Return PROVE StoredInv'
<1>1. pc = "return" /\ media' = media /\ pc' \in {"idle", "enter"} BY DEF Return, BeIdle
<1>2. /\ VolumeOK(list) /\ FileOK(File) /\ File = list[cur] /\ cur \in DOMAIN list
      /\ list \in Seq(FileRecords) /\ File \in FileRecords
  BY <1>1, UnderWay DEF VolumeOK, FileOK
<1>3. FileStored(File, media) BY <1>1, <1>2, AllStored
<1>4. ASSUME NEW f, f.desc = File.desc, f.regions = File.regions, f.text = File.text, Update(cur, f)
      PROVE  StoredInv'
  <2>1. FileStored(f, media) BY <1>3, <1>4, SameStored
  <2> QED BY <1>1, <1>2, <1>4, <2>1, UpdateStored
<1>5. CASE list' = list BY <1>1, <1>5, MovedStored
<1>6. CASE Update(cur, [File EXCEPT !.open = FALSE])
  <2> DEFINE f == [File EXCEPT !.open = FALSE]
  <2>1. f.desc = File.desc /\ f.regions = File.regions /\ f.text = File.text
    BY <1>2 DEF FileRecords
  <2>2. Update(cur, f) BY <1>6
  <2> HIDE DEF f
  <2> QED BY <1>4, <2>1, <2>2
<1>7. ASSUME NEW p, Update(cur, [File EXCEPT !.pos = p]) PROVE StoredInv'
  <2> DEFINE f == [File EXCEPT !.pos = p]
  <2>1. f.desc = File.desc /\ f.regions = File.regions /\ f.text = File.text
    BY <1>2 DEF FileRecords
  <2>2. Update(cur, f) BY <1>7
  <2> HIDE DEF f
  <2> QED BY <1>4, <2>1, <2>2
<1> QED BY <1>5, <1>6, <1>7 DEF Return
-----------------------------------------------------------------------------
(* The writes of a flush, when they succeed.                               *)

LEMMA Succeeds ==
  ASSUME Pristine', NEW next, WriteDisk(next)
  PROVE  Affected \subseteq Units /\ media' = Image /\ pc' = next /\ Irregular = {} /\ Outcome
BY DEF WriteDisk, Spoil, Pristine, Outcome

LEMMA RegionWritten ==
  ASSUME pc \in {"edit", "data"}, start \in Nat, Region.off \in Nat, Region.len \in Nat,
         Affected \subseteq Units, media' = Image
  PROVE  /\ \A u \in 1 .. Region.len : media'[start + Region.off + u - 1] = Region.val
         /\ \A u \in Units : ~(start + Region.off <= u /\ u < start + Region.off + Region.len)
                               => media'[u] = media[u]
<1> DEFINE n == Region.len  t == start + Region.off  v == Region.val
<1>1. n \in Nat /\ t \in Nat OBVIOUS
<1>2. Target = t /\ Content = [k \in 1 .. n |-> v] BY DEF Target, Content, RegionData
<1> HIDE DEF n, t, v
<1>3. Len(Content) = n /\ \A k \in 1 .. n : Content[k] = v BY <1>1, <1>2
<1>4. Affected = t .. t + n - 1 BY <1>2, <1>3 DEF Affected
<1>5. \A u \in Units : media'[u] = IF u \in Affected THEN Content[u - t + 1] ELSE media[u]
  BY <1>2 DEF Image
<1>6. \A u \in 1 .. n : t + u - 1 \in Affected /\ t + u - 1 - t + 1 = u BY <1>1, <1>4
<1>7. ASSUME NEW u \in 1 .. n PROVE media'[t + u - 1] = v
  <2> DEFINE w == t + u - 1
  <2>1. w \in Affected /\ w \in Units BY <1>6
  <2>3. w - t + 1 = u BY <1>1
  <2> HIDE DEF w
  <2>2. media'[w] = Content[u] BY <2>1, <2>3, <1>5
  <2> QED BY <2>2, <1>3 DEF w
<1>8. \A u \in Units : u \in Affected => t <= u /\ u < t + n BY <1>1, <1>4
<1>9. \A u \in Units : ~(t <= u /\ u < t + n) => media'[u] = media[u] BY <1>5, <1>8
<1> QED BY <1>7, <1>9 DEF n, t, v

LEMMA UnitWritten ==
  ASSUME pc \in {"invalidate", "delete", "describe", "finish"}, Target \in Nat,
         Affected \subseteq Units, media' = Image
  PROVE  media'[Target] = Content[1] /\ \A u \in Units \ {Target} : media'[u] = media[u]
<1>1. Len(Content) = 1 BY DEF Content
<1>2. Affected = {Target} BY <1>1 DEF Affected
<1>3. Target - Target + 1 = 1 OBVIOUS
<1> QED BY <1>2, <1>3 DEF Image

LEMMA ExtentInside ==
  ASSUME NEW d \in Description, d.last \in Blocks PROVE Extent(d) \subseteq Units
<1> DEFINE lo == d.first  hi == d.last
<1>1. lo \in Nat /\ hi \in Nat BY Descriptions
<1>2. Extent(d) = lo * BlockUnits .. (hi + 1) * BlockUnits - 1 BY DEF Extent
<1>3. hi \in Blocks OBVIOUS
<1> HIDE DEF lo, hi
<1> SUFFICES ASSUME NEW u \in Extent(d) PROVE u \in Units OBVIOUS
<1>4. lo * BlockUnits \in Nat /\ (hi + 1) * BlockUnits \in Nat BY <1>1, BlockSize
<1>5. u \in Nat /\ lo * BlockUnits <= u /\ u < (hi + 1) * BlockUnits BY <1>2, <1>4
<1>6. u \div BlockUnits \in lo .. hi BY <1>1, <1>5, InBlocks
<1>7. u \div BlockUnits \in Blocks BY <1>1, <1>3, <1>6, BlockSize DEF Blocks
<1> QED BY <1>5, <1>7, UnitsOfBlocks

\* The units of a file.
LEMMA UnitsOfFile ==
  ASSUME NEW d \in Description, Fitting(d)
  PROVE  /\ DescUnit(d.last) \in Units /\ DescUnit(d.last) \in Nat /\ d.first * BlockUnits \in Nat
         /\ \A u \in Nat \ {0} : d.first * BlockUnits + u - 1 < DescUnit(d.last)
                                   => d.first * BlockUnits + u - 1 \in Units
<1>1. d.last \in Blocks /\ d.first <= d.last /\ d.last \in Nat /\ d.first \in Nat
  BY Descriptions DEF Fitting
<1>2. Extent(d) \subseteq Units BY <1>1, ExtentInside
<1>3. DescUnit(d.last) \in Extent(d)
      /\ \A u \in Nat \ {0} : d.first * BlockUnits + u - 1 < DescUnit(d.last)
                                => d.first * BlockUnits + u - 1 \in Extent(d)
  BY <1>1, InExtent
<1>4. DescUnit(d.last) \in Nat /\ d.first * BlockUnits \in Nat BY <1>1, DescUnits, BlockSize
<1> QED BY <1>2, <1>3, <1>4

\* The file in turn at one of its regions.
LEMMA RegionOfFile ==
  ASSUME VolumeInv, StoredInv, pc \in {"edit", "invalidate", "data", "describe"}
  PROVE  /\ r \in DOMAIN File.regions /\ r \in Nat /\ start \in Nat
         /\ Region.off \in Nat /\ Region.len \in Nat
         /\ DOMAIN File.regions \subseteq Nat /\ DOMAIN File.text \subseteq Nat \ {0}
         /\ \A u : Covers(File, r, u) <=> Region.off < u /\ u <= Region.off + Region.len
         /\ OnDisk(File) => /\ File.desc \in Description /\ Fitting(File.desc)
                            /\ start = File.desc.first * BlockUnits
<1>1. /\ cur \in DOMAIN list /\ VolumeOK(list) /\ FileOK(File) /\ File = list[cur]
      /\ start \in Nat /\ r \in Nat
  BY UnderWay
<1>2. r > 0 BY AtRegion
<1>3. FlushingOK /\ r <= Len(File.regions) BY DEF VolumeInv, FlushOK, EditOK, RegionOK
<1>4. File.regions \in Seq(Pending) /\ File.text \in Seq(Texts) BY <1>1 DEF FileOK, FileRecords
<1>5. Region.off \in Nat /\ Region.len \in Nat BY <1>1, <1>2, <1>3, RegionInTurn
<1>6. OnDisk(File) => File.desc \in Description /\ Fitting(File.desc)
  BY <1>1, FileOnDisk DEF VolumeOK, FilesLie, Disk
<1>7. OnDisk(File) => start = File.desc.first * BlockUnits BY <1>3 DEF FlushingOK
<1>8. r \in DOMAIN File.regions BY <1>1, <1>2, <1>3, <1>4
<1>9. DOMAIN File.regions \subseteq Nat /\ DOMAIN File.text \subseteq Nat \ {0} BY <1>4
<1> QED BY <1>1, <1>5, <1>6, <1>7, <1>8, <1>9 DEF Covers, Region

LEMMA WriteEditStores ==
  ASSUME VolumeInv, StoredInv, Pristine', WriteEdit PROVE StoredInv'
<1>1. /\ pc = "edit" /\ pc' = "region" /\ r' = r + 1 /\ UNCHANGED <<list, cur, start, end>>
      /\ Affected \subseteq Units /\ media' = Image /\ Outcome
  BY Succeeds DEF WriteEdit
<1>2. cur \in DOMAIN list /\ VolumeOK(list) /\ FileOK(File) /\ File = list[cur] /\ end \in Nat
  BY <1>1, UnderWay
<1>3. TextOK(File, media, r) /\ r > 0 /\ (OnDisk(File) => media[DescUnit(File.desc.last)] = File.desc)
  BY <1>1, AtRegion
<1>4. OthersKept BY <1>1, DataKeeps
<1> DEFINE off == Region.off  len == Region.len
<1>5. /\ r \in DOMAIN File.regions /\ r \in Nat /\ start \in Nat /\ off \in Nat /\ len \in Nat
      /\ DOMAIN File.regions \subseteq Nat /\ DOMAIN File.text \subseteq Nat \ {0}
      /\ \A u : Covers(File, r, u) <=> off < u /\ u <= off + len
      /\ OnDisk(File) => /\ File.desc \in Description /\ Fitting(File.desc)
                         /\ start = File.desc.first * BlockUnits
  BY <1>1, RegionOfFile
<1>6. FlushingOK /\ start + off + len < end BY <1>1 DEF VolumeInv, FlushOK, EditOK
<1>7. OnDisk(File) BY <1>5, <1>6, <1>2 DEF FlushingOK
<1> DEFINE last == DescUnit(File.desc.last)
<1>8. last \in Units /\ last \in Nat
      /\ \A u \in Nat \ {0} : start + u - 1 < last => start + u - 1 \in Units
  BY <1>5, <1>7, UnitsOfFile
<1>9. end <= last
  <2>1. end + 1 <= (File.desc.last + 1) * BlockUnits BY <1>6, <1>7 DEF FlushingOK
  <2>2. File.desc.last \in Nat BY <1>5, <1>7, Descriptions
  <2>3. (File.desc.last + 1) * BlockUnits \in Nat BY <2>2, BlockSize
  <2> QED BY <1>2, <2>1, <2>3 DEF DescUnit
<1>10. /\ \A u \in 1 .. len : media'[start + off + u - 1] = Region.val
       /\ \A u \in Units : ~(start + off <= u /\ u < start + off + len) => media'[u] = media[u]
  BY <1>1, <1>5, RegionWritten
<1>11. Region = File.regions[r] BY DEF Region
<1> HIDE DEF off, len, last
<1>12. media'[last] = media[last] BY <1>2, <1>5, <1>6, <1>8, <1>9, <1>10
<1>13. ASSUME NEW u \in DOMAIN File.text, Covers(File, r, u)
       PROVE  start + u - 1 < last /\ media'[start + u - 1] = Region.val
  <2>1. u \in Nat /\ off < u /\ u <= off + len BY <1>5, <1>13
  <2>2. u - off \in 1 .. len /\ start + off + (u - off) - 1 = start + u - 1 BY <1>5, <2>1
  <2>3. media'[start + off + (u - off) - 1] = Region.val BY <1>10, <2>2
  <2> QED BY <2>1, <2>2, <2>3, <1>2, <1>5, <1>6, <1>8, <1>9
<1>14. ASSUME NEW u \in DOMAIN File.text, ~Covers(File, r, u), start + u - 1 < last
       PROVE  media'[start + u - 1] = media[start + u - 1]
  <2>1. u \in Nat \ {0} /\ ~(off < u /\ u <= off + len) BY <1>5, <1>14
  <2>2. start + u - 1 \in Units BY <2>1, <1>8, <1>14
  <2>3. ~(start + off <= start + u - 1 /\ start + u - 1 < start + off + len) BY <1>5, <2>1
  <2> QED BY <2>2, <2>3, <1>10
<1>15. OnMediumFrom(File, media', r + 1)
  <2> SUFFICES ASSUME NEW u \in DOMAIN File.text,
                      \A j \in DOMAIN File.regions : j >= r + 1 => ~Covers(File, j, u),
                      File.text[u] # Garbage
               PROVE  start + u - 1 < last /\ File.text[u] = media'[start + u - 1]
    BY <1>5, <1>7 DEF OnMediumFrom, last
  <2>1. CASE Covers(File, r, u)
    <3>1. \A j \in DOMAIN File.regions : j > r => ~Covers(File, j, u) BY <1>5
    <3>2. File.text[u] = Region.val BY <2>1, <3>1, <1>3, <1>5, <1>11 DEF TextOK, LastCovers
    <3> QED BY <2>1, <3>2, <1>13
  <2>2. CASE ~Covers(File, r, u)
    <3>1. \A j \in DOMAIN File.regions : j >= r => j = r \/ j >= r + 1 BY <1>5
    <3>2. \A j \in DOMAIN File.regions : j >= r => ~Covers(File, j, u) BY <2>2, <3>1
    <3>3. start + u - 1 < last /\ File.text[u] = media[start + u - 1]
      BY <3>2, <1>3, <1>5, <1>7 DEF TextOK, OnMediumFrom, last
    <3> QED BY <2>2, <3>3, <1>14
  <2> QED BY <2>1, <2>2
<1>16. From(cur)' = r' /\ RegionStored' BY <1>1 DEF From, RegionStored
<1>17. TextOK(File, media', From(cur)') BY <1>1, <1>3, <1>15, <1>16 DEF TextOK
<1>18. Becomes(File) BY <1>1, <1>2 DEF Becomes
<1>19. media'[DescUnit(File.desc.last)] = File.desc BY <1>3, <1>7, <1>12 DEF last
<1> QED BY <1>1, <1>2, <1>4, <1>16, <1>17, <1>18, <1>19, CurStored

LEMMA InvalidateStores ==
  ASSUME VolumeInv, StoredInv, Pristine', InvalidateImageDescription PROVE StoredInv'
<1>1. /\ pc = "invalidate" /\ pc' = "data" /\ UNCHANGED <<list, cur, r>>
      /\ Affected \subseteq Units /\ media' = Image /\ Outcome
  BY Succeeds DEF InvalidateImageDescription, flush
<1>2. cur \in DOMAIN list /\ VolumeOK(list) /\ FileOK(File) /\ File = list[cur]
  BY <1>1, UnderWay
<1>3. TextOK(File, media, r) BY <1>1, AtRegion
<1>4. OnDisk(File) BY <1>1 DEF VolumeInv, FlushOK
<1>5. OthersKept BY <1>1, <1>4, ZeroedKeeps
<1>6. File.desc \in Description /\ Fitting(File.desc) /\ DOMAIN File.text \subseteq Nat \ {0}
  BY <1>1, <1>4, RegionOfFile
<1> DEFINE last == DescUnit(File.desc.last)
<1>7. last \in Nat /\ File.desc.first * BlockUnits \in Nat
      /\ \A u \in Nat \ {0} : File.desc.first * BlockUnits + u - 1 < last
                                => File.desc.first * BlockUnits + u - 1 \in Units
  BY <1>6, UnitsOfFile
<1>8. Target = last BY <1>1, <1>2, <1>4, FileOnDisk DEF Target
<1>9. \A u \in Units \ {last} : media'[u] = media[u] BY <1>1, <1>7, <1>8, UnitWritten
<1>10. OnMediumFrom(File, media', r)
  <2> SUFFICES ASSUME NEW u \in DOMAIN File.text, File.desc.first * BlockUnits + u - 1 < last
               PROVE  media'[File.desc.first * BlockUnits + u - 1]
                        = media[File.desc.first * BlockUnits + u - 1]
    BY <1>3 DEF TextOK, OnMediumFrom
  <2> HIDE DEF last
  <2>1. File.desc.first * BlockUnits + u - 1 \in Units \ {last} BY <1>6, <1>7
  <2> QED BY <2>1, <1>9
<1>11. From(cur)' = r' /\ RegionStored' /\ Excluded' = {cur}
  BY <1>1 DEF From, RegionStored, Excluded
<1>12. TextOK(File, media', From(cur)') BY <1>1, <1>3, <1>10, <1>11 DEF TextOK
<1>13. Becomes(File) BY <1>1, <1>2 DEF Becomes
<1> QED BY <1>1, <1>2, <1>5, <1>11, <1>12, <1>13, CurStored

LEMMA WriteDataStores ==
  ASSUME VolumeInv, StoredInv, Pristine', WriteData PROVE StoredInv'
<1>1. /\ pc = "data" /\ pc' = "describe" /\ UNCHANGED <<list, cur, start, r>>
      /\ Affected \subseteq Units /\ media' = Image /\ Outcome
  BY Succeeds DEF WriteData, flush
<1>2. cur \in DOMAIN list /\ VolumeOK(list) /\ FileOK(File) /\ File = list[cur]
  BY <1>1, UnderWay
<1>3. TextOK(File, media, r) BY <1>1, AtRegion
<1>4. OthersKept BY <1>1, DataKeeps
<1> DEFINE off == Region.off  len == Region.len
<1>5. /\ r \in DOMAIN File.regions /\ r \in Nat /\ start \in Nat /\ off \in Nat /\ len \in Nat
      /\ DOMAIN File.text \subseteq Nat \ {0}
      /\ \A u : Covers(File, r, u) <=> off < u /\ u <= off + len
      /\ OnDisk(File) => /\ File.desc \in Description /\ Fitting(File.desc)
                         /\ start = File.desc.first * BlockUnits
  BY <1>1, RegionOfFile
<1>6. /\ \A u \in 1 .. len : media'[start + off + u - 1] = Region.val
      /\ \A u \in Units : ~(start + off <= u /\ u < start + off + len) => media'[u] = media[u]
  BY <1>1, <1>5, RegionWritten
<1>7. Region' = Region BY <1>1 DEF Region, File
<1>8. RegionStored' BY <1>1, <1>6, <1>7 DEF RegionStored
<1> HIDE DEF off, len
<1>9. r \in Nat /\ r >= r BY <1>5
<1>10. OnMediumFrom(File, media', r)
  <2> SUFFICES ASSUME NEW u \in DOMAIN File.text, ~Covers(File, r, u), OnDisk(File),
                      File.desc.first * BlockUnits + u - 1 < DescUnit(File.desc.last)
               PROVE  media'[File.desc.first * BlockUnits + u - 1]
                        = media[File.desc.first * BlockUnits + u - 1]
    BY <1>3, <1>5, <1>9 DEF TextOK, OnMediumFrom
  <2>1. u \in Nat \ {0} /\ ~(off < u /\ u <= off + len) BY <1>5
  <2>2. start + u - 1 \in Units BY <2>1, <1>5, UnitsOfFile
  <2>3. ~(start + off <= start + u - 1 /\ start + u - 1 < start + off + len) BY <1>5, <2>1
  <2> QED BY <2>2, <2>3, <1>5, <1>6
<1>11. From(cur)' = r' /\ Excluded' = {cur} BY <1>1 DEF From, Excluded
<1>12. TextOK(File, media', From(cur)') BY <1>1, <1>3, <1>10, <1>11 DEF TextOK
<1>13. Becomes(File) BY <1>1, <1>2 DEF Becomes
<1> QED BY <1>1, <1>2, <1>4, <1>8, <1>11, <1>12, <1>13, CurStored

\* The description is where the data before it is on the medium.
LEMMA DescribedStores ==
  ASSUME VolumeInv, StoredInv, Irregular = {}, Affected \subseteq Units, media' = Image,
         list' = Described, cur' = cur,
         \/ pc = "describe" /\ pc' = "region" /\ r' = r + 1
         \/ pc = "finish" /\ pc' = "return"
  PROVE  StoredInv'
<1> DEFINE d == NewDesc
           f == [File EXCEPT !.desc = d, !.addr = DescUnit(d.last)]
<1>1. /\ ControlOK /\ VolumeOK(list) /\ cur \in DOMAIN list /\ FileOK(File) /\ File = list[cur]
      /\ File \in FileRecords /\ start \in Nat
  BY UnderWay DEF FileOK
<1>2. FlushingOK /\ (pc = "describe" => RegionOK) BY DEF VolumeInv, FlushOK
<1>3. /\ d \in Description /\ d.first = Block /\ d.size = NewSize /\ Fitting(d)
      /\ OnDisk(File) => File.desc.first = d.first /\ File.desc.last <= d.last
  BY <1>1, <1>2, DescriptionPlaced
<1>4. Outcome BY DEF Outcome
<1>5. OthersKept BY <1>4, DescribingKeeps
<1>6. f.desc = d /\ f.text = File.text /\ f.regions = File.regions BY <1>1 DEF FileRecords
<1>7. Becomes(f) BY <1>1 DEF Becomes, Described
<1>8. Target = DescUnit(d.last) /\ Content = <<d>> BY DEF Target, Content
<1>9. start = d.first * BlockUnits BY <1>2, <1>3 DEF FlushingOK
<1>10. pc = "describe" => NewSize = Region.off + Region.len BY DEF NewSize
<1> HIDE DEF d, f
<1>11. d.first \in Nat /\ d.last \in Nat /\ d # NoDesc BY <1>3, Descriptions
<1>12. DescUnit(d.last) \in Units /\ DescUnit(d.last) \in Nat
       /\ \A u \in Nat \ {0} : start + u - 1 < DescUnit(d.last) => start + u - 1 \in Units
  BY <1>3, <1>9, UnitsOfFile
<1>13. media'[DescUnit(d.last)] = d /\ \A u \in Units \ {DescUnit(d.last)} : media'[u] = media[u]
  <2>1. <<d>>[1] = d OBVIOUS
  <2> QED BY <1>8, <1>12, <2>1, UnitWritten
<1>14. DOMAIN File.text \subseteq Nat \ {0} /\ DOMAIN File.regions \subseteq Nat
  BY <1>1 DEF FileRecords
<1>15. \A u \in DOMAIN File.text : start + u - 1 < DescUnit(d.last)
                                     => media'[start + u - 1] = media[start + u - 1]
  BY <1>12, <1>13, <1>14, <1>1
<1>16. OnDisk(File) => DescUnit(File.desc.last) \in Nat /\ DescUnit(File.desc.last) <= DescUnit(d.last)
  <2> SUFFICES ASSUME OnDisk(File)
               PROVE  DescUnit(File.desc.last) \in Nat /\ DescUnit(File.desc.last) <= DescUnit(d.last)
    OBVIOUS
  <2> DEFINE l == File.desc.last
  <2>1. l \in Nat /\ l <= d.last BY <1>1, <1>3, FileOnDisk, Descriptions
  <2> HIDE DEF l
  <2>2. /\ (l + 1) * BlockUnits \in Nat /\ (l + 1) * BlockUnits <= (d.last + 1) * BlockUnits
    BY <2>1, <1>11, Monotone
  <2>3. (d.last + 1) * BlockUnits \in Nat BY <1>11, BlockSize
  <2>4. DescUnit(l) \in Nat BY <2>1, DescUnits
  <2>5. DescUnit(l) <= DescUnit(d.last) BY <2>2, <2>3 DEF DescUnit
  <2> QED BY <2>4, <2>5 DEF l
\* What was on the medium is before the description.
<1>17. ASSUME NEW from, TextOK(File, media, from), NEW u \in DOMAIN File.text,
              \A j \in DOMAIN File.regions : j >= from => ~Covers(File, j, u)
       PROVE  \/ File.text[u] = Garbage
              \/ start + u - 1 < DescUnit(d.last) /\ File.text[u] = media'[start + u - 1]
  <2>1. CASE File.text[u] # Garbage
    <3>1. /\ OnDisk(File)
          /\ File.desc.first * BlockUnits + u - 1 < DescUnit(File.desc.last)
          /\ File.text[u] = media[File.desc.first * BlockUnits + u - 1]
      BY <2>1, <1>17 DEF TextOK, OnMediumFrom
    <3>2. start + u - 1 < DescUnit(File.desc.last) /\ File.text[u] = media[start + u - 1]
      BY <3>1, <1>3, <1>9
    <3>3. start + u - 1 < DescUnit(d.last) BY <3>1, <3>2, <1>1, <1>12, <1>14, <1>16
    <3> QED BY <3>2, <3>3, <1>15
  <2> QED BY <2>1
<1>18. CASE pc = "describe" /\ pc' = "region" /\ r' = r + 1
  <2>1. /\ r \in DOMAIN File.regions /\ r \in Nat /\ Region.off \in Nat /\ Region.len \in Nat
        /\ \A u : Covers(File, r, u) <=> Region.off < u /\ u <= Region.off + Region.len
    BY <1>18, RegionOfFile
  <2>2. TextOK(File, media, r) BY <1>18, AtRegion
  <2>3. \A u \in 1 .. Region.len : media[start + Region.off + u - 1] = Region.val
    BY <1>18 DEF StoredInv, RegionStored
  <2> DEFINE off == Region.off  len == Region.len
  <2>4. Region = File.regions[r] BY DEF Region
  <2>5. d.size = off + len BY <1>3, <1>10, <1>18
  <2> HIDE DEF off, len
  <2>6. ASSUME NEW u \in DOMAIN File.text, Covers(File, r, u)
        PROVE  start + u - 1 < DescUnit(d.last) /\ media'[start + u - 1] = Region.val
    <3>1. u \in Nat \ {0} /\ off < u /\ u <= off + len /\ off \in Nat /\ len \in Nat
      BY <1>14, <2>1, <2>6 DEF off, len
    <3>2. u \in 1 .. d.size BY <3>1, <2>5
    <3>3. start + u - 1 < DescUnit(d.last) BY <3>2, <1>3, <1>9, BeforeDescription
    <3>4. u - off \in 1 .. len /\ start + off + (u - off) - 1 = start + u - 1 BY <3>1, <1>1
    <3>5. media[start + off + (u - off) - 1] = Region.val BY <3>4, <2>3 DEF off, len
    <3> QED BY <3>3, <3>4, <3>5, <1>15
  <2>7. OnMediumFrom(f, media', r + 1)
    <3> SUFFICES ASSUME NEW u \in DOMAIN File.text,
                        \A j \in DOMAIN File.regions : j >= r + 1 => ~Covers(File, j, u)
                 PROVE  \/ File.text[u] = Garbage
                        \/ /\ start + u - 1 < DescUnit(d.last)
                           /\ File.text[u] = media'[start + u - 1]
      BY <1>6, <1>9, <1>11 DEF OnMediumFrom, OnDisk, Covers
    <3>1. CASE Covers(File, r, u)
      <4>1. \A j \in DOMAIN File.regions : j > r => ~Covers(File, j, u) BY <1>14, <2>1
      <4>2. File.text[u] = Region.val BY <3>1, <4>1, <2>1, <2>2, <2>4 DEF TextOK, LastCovers
      <4> QED BY <3>1, <4>2, <2>6
    <3>2. CASE ~Covers(File, r, u)
      <4>1. \A j \in DOMAIN File.regions : j >= r => j = r \/ j >= r + 1 BY <1>14, <2>1
      <4>2. \A j \in DOMAIN File.regions : j >= r => ~Covers(File, j, u) BY <3>2, <4>1
      <4> QED BY <4>2, <2>2, <1>17
    <3> QED BY <3>1, <3>2
  <2>8. LastCovers(f) BY <1>6, <2>2 DEF TextOK, LastCovers, Covers
  <2>9. From(cur)' = r' /\ RegionStored' BY <1>18 DEF From, RegionStored
  <2>10. TextOK(f, media', From(cur)') BY <1>18, <2>7, <2>8, <2>9 DEF TextOK
  <2>11. media'[DescUnit(f.desc.last)] = f.desc BY <1>6, <1>13
  <2> QED BY <1>1, <1>5, <1>7, <2>9, <2>10, <2>11, CurStored
<1>19. CASE pc = "finish" /\ pc' = "return"
  <2>1. From(cur) = 1 BY <1>19 DEF From
  <2>2. TextOK(File, media, 1) BY <1>1, <1>19, <2>1 DEF StoredInv, TextsOK
  <2>3. OnMediumFrom(f, media', 1)
    <3> SUFFICES ASSUME NEW u \in DOMAIN File.text,
                        \A j \in DOMAIN File.regions : j >= 1 => ~Covers(File, j, u)
                 PROVE  \/ File.text[u] = Garbage
                        \/ /\ start + u - 1 < DescUnit(d.last)
                           /\ File.text[u] = media'[start + u - 1]
      BY <1>6, <1>9, <1>11 DEF OnMediumFrom, OnDisk, Covers
    <3> QED BY <2>2, <1>17
  <2>4. LastCovers(f) BY <1>6, <2>2 DEF TextOK, LastCovers, Covers
  <2>5. From(cur)' = 1 /\ RegionStored' BY <1>19 DEF From, RegionStored
  <2>6. TextOK(f, media', From(cur)') BY <2>3, <2>4, <2>5 DEF TextOK
  <2>7. media'[DescUnit(f.desc.last)] = f.desc BY <1>6, <1>13
  <2> QED BY <1>1, <1>5, <1>7, <2>5, <2>6, <2>7, CurStored
<1> QED BY <1>18, <1>19

LEMMA WriteFileDescriptionStores ==
  ASSUME VolumeInv, StoredInv, Pristine', WriteFileDescription PROVE StoredInv'
<1>1. /\ pc = "describe" /\ pc' = "region" /\ r' = r + 1 /\ cur' = cur /\ list' = Described
      /\ Affected \subseteq Units /\ media' = Image /\ Irregular = {}
  BY Succeeds DEF WriteFileDescription, Describe, Update, Described
<1> QED BY <1>1, DescribedStores

LEMMA FinishStores ==
  ASSUME VolumeInv, StoredInv, Pristine', Finish PROVE StoredInv'
<1>1. pc = "finish" /\ cur' = cur BY DEF Finish, flush
<1>2. CASE WriteDisk("return") /\ Describe
  <2>1. /\ pc' = "return" /\ list' = Described
        /\ Affected \subseteq Units /\ media' = Image /\ Irregular = {}
    BY <1>2, Succeeds DEF Describe, Update, Described
  <2> QED BY <1>1, <2>1, DescribedStores
<1>3. CASE pc' = "return" /\ UNCHANGED <<media, list, spoilt>> BY <1>1, <1>3, MovedStored
<1> QED BY <1>2, <1>3 DEF Finish

LEMMA DeleteFileStores ==
  ASSUME VolumeInv, StoredInv, Pristine', DeleteFile PROVE StoredInv'
<1>1. pc = "delete" BY DEF DeleteFile
<1>2. cur \in DOMAIN list /\ VolumeOK(list) /\ File = list[cur] BY <1>1, UnderWay
<1>3. CASE OnDisk(File) /\ WriteDisk("deleted") /\ UNCHANGED <<list, flush>>
  <2>1. pc' = "deleted" /\ Outcome /\ list' = list /\ cur' = cur BY <1>3, Succeeds DEF flush
  <2>2. OthersKept BY <1>1, <1>3, <2>1, ZeroedKeeps
  <2>3. RegionStored' /\ Excluded' = {cur} BY <2>1 DEF RegionStored, Excluded
  <2>4. Becomes(File) BY <1>2, <2>1 DEF Becomes
  <2> QED BY <1>2, <2>1, <2>2, <2>3, <2>4, CurStored
<1>4. CASE ~OnDisk(File) /\ list' = RemoveAt(list, cur) /\ BeIdle /\ UNCHANGED <<media, spoilt>>
  BY <1>2, <1>4, RemovedStored DEF BeIdle
<1> QED BY <1>3, <1>4 DEF DeleteFile

LEMMA UnlinkStores ==
  ASSUME VolumeInv, StoredInv, Unlink PROVE StoredInv'
<1>1. pc = "deleted" /\ list' = RemoveAt(list, cur) /\ pc' = "idle" /\ media' = media
  BY DEF Unlink, BeIdle
<1>2. cur \in DOMAIN list /\ VolumeOK(list) BY <1>1, UnderWay
<1> QED BY <1>1, <1>2, RemovedStored
-----------------------------------------------------------------------------
(* Every step.                                                             *)

StoredIInv == IInv /\ (Pristine => StoredInv)

LEMMA CallersStore ==
  ASSUME VolumeInv, StoredInv, Pristine', Callers PROVE StoredInv'
<1>1. CASE Initialize BY <1>1, InitializeStores
<1>2. ASSUME NEW n \in Names, NEW mode \in {"read", "write", "create"}, OpenFile(n, mode)
      PROVE  StoredInv'
  BY <1>2, OpenFileStores
<1>3. ASSUME NEW i \in DOMAIN list, NEW len \in Lengths, NEW v \in Payloads, WriteFile(i, len, v)
      PROVE  StoredInv'
  BY <1>3, WriteFileStores
<1>4. ASSUME NEW i \in DOMAIN list, NEW p \in Positions, SetPosition(i, p) PROVE StoredInv'
  BY <1>4, SetPositionStores
<1>5. ASSUME NEW i \in DOMAIN list, NEW n \in Lengths, SetFileSize(i, n) PROVE StoredInv'
  BY <1>5, SetFileSizeStores
<1>6. ASSUME NEW i \in DOMAIN list, Flush(i) \/ CloseFile(i) \/ ReadFile(i) PROVE StoredInv'
  BY <1>6, BeginStores DEF Flush, CloseFile, ReadFile
<1>7. ASSUME NEW i \in DOMAIN list, Delete(i) PROVE StoredInv' BY <1>7, DeleteStores
<1>8. CASE FlushDirectory BY <1>8, BeginStores DEF FlushDirectory
<1> QED BY <1>1, <1>2, <1>3, <1>4, <1>5, <1>6, <1>7, <1>8 DEF Callers

LEMMA EmptyStores ==
  ASSUME list = <<>>, pc = "idle" PROVE StoredInv
BY DEF StoredInv, OnMedium, TextsOK, RegionStored, Disk

LEMMA StepsStore ==
  ASSUME VolumeInv, StoredInv, Pristine', Next PROVE StoredInv'
<1>1. CASE Callers BY <1>1, CallersStore
<1>2. CASE Enter BY <1>2, EnterStores
<1>3. CASE EmptyRegion BY <1>3, EmptyRegionStores
<1>4. CASE NextRegion BY <1>4, NextRegionStores
<1>5. CASE WriteEdit BY <1>5, WriteEditStores
<1>6. CASE InvalidateImageDescription BY <1>6, InvalidateStores
<1>7. CASE WriteData BY <1>7, WriteDataStores
<1>8. CASE WriteFileDescription BY <1>8, WriteFileDescriptionStores
<1>9. CASE Finish BY <1>9, FinishStores
<1>10. CASE Return BY <1>10, ReturnStores
<1>11. CASE DeleteFile BY <1>11, DeleteFileStores
<1>12. CASE Unlink BY <1>12, UnlinkStores
<1>13. CASE PowerLoss
  <2>1. list' = <<>> /\ pc' = "idle" BY <1>13 DEF PowerLoss, BeIdle
  <2>2. \A k \in DOMAIN list' : FileStored(list'[k], media') BY <2>1
  <2> QED BY <2>1, <2>2, StoredQuiet
<1> QED BY <1>1, <1>2, <1>3, <1>4, <1>5, <1>6, <1>7, <1>8, <1>9, <1>10, <1>11, <1>12, <1>13
        DEF Next, Step

LEMMA StoredInductive == StoredIInv /\ [Next]_vars => StoredIInv'
<1> SUFFICES ASSUME StoredIInv, [Next]_vars PROVE StoredIInv' OBVIOUS
<1>1. IInv' BY Inductive DEF StoredIInv
<1>2. ASSUME Pristine' PROVE StoredInv'
  <2>1. CASE Next
    <3>1. Pristine BY <1>2, <2>1, SpoiltGrows DEF Pristine
    <3>2. VolumeInv /\ StoredInv BY <3>1 DEF StoredIInv, IInv, Good, Pristine
    <3> QED BY <1>2, <2>1, <3>2, StepsStore
  <2>2. CASE UNCHANGED vars
    <3>1. UNCHANGED <<media, list, pc, cur, start, r, spoilt>> BY <2>2 DEF vars, flush
    <3>2. StoredInv BY <1>2, <3>1 DEF StoredIInv, Pristine
    <3> QED BY <3>1, <3>2 DEF StoredInv, OnMedium, Excluded, TextsOK, From, RegionStored, Region, File
  <2> QED BY <2>1, <2>2
<1> QED BY <1>1, <1>2 DEF StoredIInv

(* While nothing happened that the driver is not made for, the description *)
(* of every file in memory is the one on the medium, and what no pending   *)
(* region of a file covers is at its place there: before, in and after     *)
(* every write of a flush.                                                 *)
THEOREM StoredKept == Spec => []StoredIInv
<1>1. Init => StoredIInv
  <2>1. Init => list = <<>> /\ pc = "idle" BY DEF Init
  <2> QED BY <2>1, Initially, EmptyStores DEF StoredIInv
<1>2. StoredIInv /\ [Next]_vars => StoredIInv' BY StoredInductive
<1> QED BY <1>1, <1>2, PTL DEF Spec

LEMMA ListFound ==
  ASSUME StoredIInv PROVE ScanFindsList
<1> SUFFICES ASSUME initialized, spoilt = {}
             PROVE  {media[DescUnit(b)] : b \in {c \in Blocks : BootMonFsIsImageValid(media, c)}}
                      = {list[k].desc : k \in Disk(list) \ Excluded}
  BY DEF ScanFindsList, Excluded, DiskIndices, Disk
<1>1. VolumeInv /\ StoredInv BY DEF StoredIInv, IInv, Good, Pristine
<1>2. VolumeOK(list) /\ Matches(media, list) /\ OnMedium(list, media, Excluded)
  BY <1>1 DEF VolumeInv, StoredInv
<1>3. ASSUME NEW b \in Blocks, BootMonFsIsImageValid(media, b)
      PROVE  \E k \in Disk(list) \ Excluded : media[DescUnit(b)] = list[k].desc
  <2>1. PICK k \in Disk(list) : list[k].desc.last = b BY <1>2, <1>3 DEF Matches
  <2>2. k \notin Excluded
    <3>1. SUFFICES ASSUME k = cur, pc \in {"data", "describe", "deleted"} PROVE FALSE
      BY DEF Excluded
    <3>2. DescriptionInvalid BY <1>1, <3>1 DEF VolumeInv, FlushOK
    <3>3. OnDisk(File) /\ File.desc.last = b BY <2>1, <3>1 DEF File, Disk
    <3> QED BY <1>3, <3>2, <3>3 DEF DescriptionInvalid
  <2>3. media[DescUnit(b)] = list[k].desc BY <1>2, <2>1, <2>2 DEF OnMedium
  <2> QED BY <2>2, <2>3
<1>4. ASSUME NEW k \in Disk(list) \ Excluded
      PROVE  \E b \in Blocks : BootMonFsIsImageValid(media, b) /\ media[DescUnit(b)] = list[k].desc
  <2> DEFINE d == list[k].desc
  <2>1. d \in Description /\ d.last \in Blocks /\ d.first <= d.last BY <1>2, DiskFiles
  <2>2. media[DescUnit(d.last)] = d BY <1>2 DEF OnMedium
  <2> HIDE DEF d
  <2>3. d \notin Plain BY <2>1, Descriptions
  <2>4. BootMonFsIsImageValid(media, d.last) BY <2>1, <2>2, <2>3 DEF BootMonFsIsImageValid, Plain
  <2> QED BY <2>1, <2>2, <2>4 DEF d
<1> QED BY <1>3, <1>4

(* A boot would find the files of the list, each with the description that *)
(* is in memory, but for the one that is invalid while it grows.           *)
THEOREM ListIsFound == Spec => []ScanFindsList
<1>1. StoredIInv => ScanFindsList BY ListFound
<1> QED BY <1>1, StoredKept, PTL

LEMMA FlushedIsStored ==
  ASSUME StoredIInv PROVE StoredAsWritten
<1> SUFFICES ASSUME spoilt = {}, pc \notin {"delete", "deleted"},
                    NEW k \in Disk(list), list[k].regions = <<>>,
                    NEW u \in 1 .. Smaller(Len(list[k].text), list[k].desc.size)
             PROVE  list[k].text[u] \in {Garbage, media[list[k].desc.first * BlockUnits + u - 1]}
  BY DEF StoredAsWritten, DiskIndices, Disk
<1>1. VolumeInv /\ StoredInv BY DEF StoredIInv, IInv, Good, Pristine
<1>2. k \in DOMAIN list /\ OnDisk(list[k]) BY DEF Disk
<1>3. initialized
  <2>1. ~initialized => list = <<>> BY <1>1 DEF VolumeInv, ControlOK
  <2> QED BY <1>2, <2>1
<1>4. VolumeOK(list) BY <1>1, <1>3 DEF VolumeInv
<1>5. list[k].text \in Seq(Texts) /\ list[k].desc.size \in Nat
  BY <1>2, <1>4, FileOnDisk, Descriptions DEF VolumeOK, FileOK, FileRecords
<1>6. u \in DOMAIN list[k].text BY <1>5 DEF Smaller
<1>7. OnMediumFrom(list[k], media, From(k)) BY <1>1, <1>2 DEF StoredInv, TextsOK, TextOK
<1>8. DOMAIN list[k].regions = {} OBVIOUS
<1> QED BY <1>6, <1>7, <1>8 DEF OnMediumFrom

(* What was written and flushed is on the medium at its place in the file, *)
(* whatever the order in which regions, sizes and positions were set.      *)
THEOREM FlushedStaysStored == Spec => []StoredAsWritten
<1>1. StoredIInv => StoredAsWritten BY FlushedIsStored
<1> QED BY <1>1, StoredKept, PTL
-----------------------------------------------------------------------------
(* The types of the variables, whatever happened.                          *)

Holds(d) == d.size + 1 <= (d.last - d.first + 1) * BlockUnits

\* Every image on the medium has blocks enough for its size.
MediumTyped(m) ==
  /\ m \in [Units -> Cells]
  /\ \A b \in Blocks : BootMonFsIsImageValid(m, b) => Holds(m[DescUnit(b)])

TypedFile(f) ==
  /\ f \in FileRecords
  /\ (f.addr = 0 <=> ~OnDisk(f))
  /\ f.open => f.name \in Names

TypedList(L) == L \in Seq(FileRecords) /\ \A k \in DOMAIN L : TypedFile(L[k])

FlowTyped ==
  /\ pc \in {"idle", "enter", "region", "edit", "invalidate", "data", "describe",
             "finish", "return", "delete", "deleted"}
  /\ pc # "idle" => cur \in DOMAIN list
  /\ start \in Nat /\ end \in Nat /\ r \in Nat
  /\ pc \in {"region", "edit", "invalidate", "data", "describe", "finish"} => File.open /\ r > 0
  /\ pc \in {"edit", "invalidate", "data", "describe"} => r <= Len(File.regions)

Typed == MediumTyped(media) /\ TypedList(list) /\ FlowTyped

\* The variables that no other is computed from.
Counted ==
  /\ initialized \in BOOLEAN
  /\ then \in {"flush", "close", "read", "directory", "delete"}
  /\ calls \in 0 .. MaxCalls /\ faults \in 0 .. MaxFaults
  /\ losses \in 0 .. MaxPowerLosses /\ spoilt \subseteq Reasons

\* The i-th file is another one.
LEMMA UpdateTyped ==
  ASSUME TypedList(list), NEW i \in DOMAIN list, NEW f, TypedFile(f), Update(i, f)
  PROVE  TypedList(list') /\ DOMAIN list' = DOMAIN list /\ list'[i] = f
<1>1. list \in Seq(FileRecords) /\ f \in FileRecords BY DEF TypedList, TypedFile
<1>2. Replaced(list, i, f, list') BY <1>1 DEF Update, Replaced
<1>3. /\ list' \in Seq(FileRecords) /\ DOMAIN list' = DOMAIN list
      /\ \A k \in DOMAIN list : list'[k] = IF k = i THEN f ELSE list[k]
  BY <1>2 DEF Replaced
<1> QED BY <1>3 DEF TypedList

\* The files that a scan of some of the blocks finds.
LEMMA DiscoveredTyped ==
  ASSUME MediumTyped(media), NEW bs \in SUBSET Blocks
  PROVE  TypedList(Discovered(bs))
<1> DEFINE S == {b \in bs : BootMonFsIsImageValid(media, b)}
           s == Ascending(S)
           d(b) == media[DescUnit(b)]
           L == Discovered(bs)
<1>1. S \in SUBSET (0 .. LastBlock) /\ LastBlock \in Nat BY BlockSize DEF Blocks
<1> DEFINE n == Cardinality(S)
<1>2. n \in Nat /\ s \in [1 .. n -> S] BY <1>1, AscendingIs
<1>3. L = [k \in DOMAIN s |-> NewFile(d(s[k]), DescUnit(s[k]), Text(d(s[k])))] BY DEF Discovered
<1> HIDE DEF s, n, L
<1>4. DOMAIN s = 1 .. n BY <1>2
<1>5. ASSUME NEW b \in S PROVE b \in Nat /\ d(b) \in Description /\ Fitting(d(b))
  <2>1. b \in Blocks /\ BootMonFsIsImageValid(media, b) OBVIOUS
  <2>2. d(b) \in Description /\ d(b).last = b /\ d(b).first <= b
    BY <2>1, ValidImage DEF MediumTyped
  <2>3. d(b).size + 1 <= (b - d(b).first + 1) * BlockUnits
    BY <2>1, <2>2 DEF MediumTyped, Holds
  <2> QED BY <2>1, <2>2, <2>3, BlockSize DEF Fitting, Blocks
<1> HIDE DEF S
<1>6. ASSUME NEW k \in 1 .. n PROVE TypedFile(L[k])
  <2> DEFINE b == s[k]  f == NewFile(d(b), DescUnit(b), Text(d(b)))
  <2>1. b \in S BY <1>2
  <2>2. L[k] = f BY <1>3, <1>4
  <2> HIDE DEF b
  <2>3. d(b) \in Description /\ Fitting(d(b)) /\ b \in Nat BY <2>1, <1>5
  <2>4. Text(d(b)) \in Seq(Texts) BY <2>3, ImageText DEF MediumTyped
  <2>5. DescUnit(b) \in Nat \ {0} BY <2>3, DescUnits
  <2>6. d(b) # NoDesc BY <2>3, Descriptions
  <2> HIDE DEF d
  <2>7. f \in FileRecords /\ f.desc = d(b) /\ f.addr = DescUnit(b) /\ f.open = FALSE
    BY <2>3, <2>4, <2>5 DEF NewFile, FileRecords
  <2> HIDE DEF f
  <2> QED BY <2>2, <2>5, <2>6, <2>7 DEF TypedFile, OnDisk
<1> HIDE DEF d
<1>7. L = [k \in 1 .. n |-> L[k]] BY <1>3, <1>4
<1>8. \A k \in 1 .. n : L[k] \in FileRecords BY <1>6 DEF TypedFile
<1>9. L \in Seq(FileRecords) /\ DOMAIN L = 1 .. n BY <1>2, <1>7, <1>8
<1> QED BY <1>6, <1>9 DEF TypedList, L

LEMMA JoinedTyped ==
  ASSUME NEW L, TypedList(L), NEW M, TypedList(M)
  PROVE  TypedList(L \o M)
<1>1. L \in Seq(FileRecords) /\ M \in Seq(FileRecords) BY DEF TypedList
<1>2. /\ L \o M \in Seq(FileRecords) /\ Len(L \o M) = Len(L) + Len(M)
      /\ \A k \in 1 .. Len(L) + Len(M) :
           (L \o M)[k] = IF k <= Len(L) THEN L[k] ELSE M[k - Len(L)]
  BY <1>1, Joined
<1> DEFINE N == L \o M
<1> HIDE DEF N
<1>3. ASSUME NEW k \in DOMAIN N PROVE TypedFile(N[k])
  <2>1. k \in 1 .. Len(L) + Len(M) BY <1>2 DEF N
  <2>2. CASE k <= Len(L)
    <3>1. k \in DOMAIN L /\ N[k] = L[k] BY <1>1, <1>2, <2>1, <2>2 DEF N
    <3> QED BY <3>1 DEF TypedList
  <2>3. CASE ~(k <= Len(L))
    <3>1. k - Len(L) \in DOMAIN M /\ N[k] = M[k - Len(L)] BY <1>1, <1>2, <2>1, <2>3 DEF N
    <3> QED BY <3>1 DEF TypedList
  <2> QED BY <2>2, <2>3
<1> QED BY <1>2, <1>3 DEF TypedList, N

\* The list without its i-th file.
LEMMA RemovedTyped ==
  ASSUME TypedList(list), NEW i \in DOMAIN list, list' = RemoveAt(list, i)
  PROVE  TypedList(list')
<1>1. list \in Seq(FileRecords) /\ i \in 1 .. Len(list) BY DEF TypedList
<1>2. list' \in Seq(FileRecords) /\ \E p : Remaining(list, list', i, p) BY <1>1, Removed
<1>3. PICK p : Remaining(list, list', i, p) BY <1>2
<1>4. \A k \in DOMAIN list' : p[k] \in DOMAIN list /\ list'[k] = list[p[k]] BY <1>3 DEF Remaining
<1> QED BY <1>2, <1>4 DEF TypedList

\* A call that only changes the list.
LEMMA ListTyped ==
  ASSUME Typed, Calling, TypedList(list'), UNCHANGED <<pc, flush>>
  PROVE  Typed'
<1>1. pc = "idle" /\ pc' = pc /\ media' = media /\ start' = start /\ end' = end /\ r' = r
  BY DEF Calling, flush
<1>2. FlowTyped' BY <1>1 DEF Typed, FlowTyped
<1> QED BY <1>1, <1>2 DEF Typed

LEMMA InitializeTypes ==
  ASSUME Typed, Initialize PROVE Typed'
<1>1. pc = "idle" /\ pc' = pc /\ media' = media /\ start' = start /\ end' = end /\ r' = r
  BY DEF Initialize, flush
<1>2. TypedList(list')
  <2>1. PICK bs \in SUBSET Blocks : list' = list \o Discovered(bs)
    <3>1. CASE list' = list \o Discovered(Blocks) BY <3>1
    <3>2. CASE \E b \in Blocks : list' = list \o Discovered(0 .. b - 1)
      <4>1. PICK b \in Blocks : list' = list \o Discovered(0 .. b - 1) BY <3>2
      <4>2. 0 .. b - 1 \in SUBSET Blocks BY BlockSize DEF Blocks
      <4> QED BY <4>1, <4>2
    <3> QED BY <3>1, <3>2 DEF Initialize
  <2>2. TypedList(Discovered(bs)) BY DiscoveredTyped DEF Typed
  <2>3. TypedList(list) BY DEF Typed
  <2> DEFINE D == Discovered(bs)
  <2> HIDE DEF D
  <2>4. TypedList(D) /\ list' = list \o D BY <2>1, <2>2 DEF D
  <2> QED BY <2>3, <2>4, JoinedTyped
<1>3. FlowTyped' BY <1>1 DEF Typed, FlowTyped
<1> QED BY <1>1, <1>2, <1>3 DEF Typed

LEMMA OpenFileTypes ==
  ASSUME Typed, NEW n \in Names, NEW mode, OpenFile(n, mode) PROVE Typed'
<1> DEFINE i == SelectInSeq(list, LAMBDA f : EffectiveName(f) = n)
           S == {k \in 1 .. Len(list) : EffectiveName(list[k]) = n}
<1>1. Calling /\ UNCHANGED <<pc, flush>> BY DEF OpenFile
<1>2. TypedList(list) BY DEF Typed
<1>3. list \in Seq(FileRecords) /\ DOMAIN list = 1 .. Len(list) BY <1>2 DEF TypedList
<1>4. i # 0 => i \in DOMAIN list
  <2>1. i = IF S # {} THEN Min(S) ELSE 0 BY DEF SelectInSeq
  <2>2. S \in SUBSET Nat OBVIOUS
  <2>3. S # {} => Min(S) \in S BY <2>2, Least
  <2> HIDE DEF i
  <2> QED BY <2>1, <2>3, <1>3
<1>5. CASE i # 0 /\ Update(i, Opened(list[i], n, mode # "read"))
  <2> HIDE DEF i
  <2>1. i \in DOMAIN list BY <1>4, <1>5
  <2> DEFINE f == list[i]  g == Opened(f, n, mode # "read")
  <2>2. f \in FileRecords /\ (f.addr = 0 <=> ~OnDisk(f)) BY <2>1, <1>2 DEF TypedList, TypedFile
  <2>3. Update(i, g) BY <1>5
  <2> HIDE DEF f
  <2>4. OpenedFrom(f, n, g) BY <2>2, OpenedTyped
  <2> HIDE DEF g
  <2>5. TypedFile(g) BY <2>2, <2>4 DEF OpenedFrom, TypedFile, OnDisk
  <2>6. TypedList(list') BY <1>2, <2>1, <2>3, <2>5, UpdateTyped
  <2> QED BY <2>6, <1>1, ListTyped
<1>6. CASE list' = <<Opened(NewFile(NoDesc, 0, <<>>), n, TRUE)>> \o list
  <2> DEFINE f == Opened(NewFile(NoDesc, 0, <<>>), n, TRUE)  N == <<f>>
  <2>1. FileOK(f) /\ ~OnDisk(f) BY CreatedFile
  <2>2. list' = N \o list BY <1>6
  <2> HIDE DEF f
  <2>3. TypedFile(f) BY <2>1 DEF FileOK, TypedFile
  <2>4. f \in FileRecords BY <2>1 DEF FileOK
  <2>5. N \in Seq(FileRecords) /\ DOMAIN N = {1} /\ N[1] = f BY <2>4
  <2> HIDE DEF N
  <2>6. TypedList(N) BY <2>3, <2>5 DEF TypedList
  <2>7. TypedList(list') BY <1>2, <2>2, <2>6, JoinedTyped
  <2> QED BY <2>7, <1>1, ListTyped
<1> QED BY <1>5, <1>6 DEF OpenFile

LEMMA WriteFileTypes ==
  ASSUME Typed, NEW i \in DOMAIN list, NEW len \in Lengths, NEW v \in Payloads,
         WriteFile(i, len, v)
  PROVE  Typed'
<1>1. Calling /\ UNCHANGED <<pc, flush>> BY DEF WriteFile
<1>2. TypedList(list) /\ TypedFile(list[i]) BY DEF Typed, TypedList
<1>3. len \in Nat /\ v \in Payloads \cup {Zero} BY ConstantsAssumption
<1> DEFINE e == list[i]  pos == e.pos  w == Written(e, pos, len, v)
           f == [w EXCEPT !.pos = @ + len]
<1>4. e \in FileRecords /\ (e.addr = 0 <=> ~OnDisk(e)) /\ (e.open => e.name \in Names)
      /\ pos \in Nat
  BY <1>2 DEF TypedFile, FileRecords
<1>5. Update(i, f) BY DEF WriteFile
<1>6. w.pos = e.pos BY <1>4 DEF Written, FileRecords
<1> HIDE DEF e, pos
<1>7. WrittenFrom(e, pos, len, v, w) BY <1>3, <1>4, WrittenTyped
<1>8. w.pos + len \in Nat BY <1>3, <1>4, <1>6 DEF pos
<1> HIDE DEF w
<1>9. w \in FileRecords /\ w.desc = e.desc /\ w.addr = e.addr /\ w.open = e.open /\ w.name = e.name
  BY <1>7 DEF WrittenFrom
<1>10. f \in FileRecords /\ f.desc = w.desc /\ f.addr = w.addr /\ f.open = w.open /\ f.name = w.name
  BY <1>8, <1>9 DEF FileRecords
<1> HIDE DEF f
<1>11. TypedFile(f) BY <1>4, <1>9, <1>10 DEF TypedFile, OnDisk
<1>12. TypedList(list') BY <1>2, <1>5, <1>11, UpdateTyped
<1> QED BY <1>1, <1>12, ListTyped

LEMMA SetPositionTypes ==
  ASSUME Typed, NEW i \in DOMAIN list, NEW p \in Positions, SetPosition(i, p)
  PROVE  Typed'
<1>1. Calling /\ UNCHANGED <<pc, flush>> BY DEF SetPosition
<1>2. TypedList(list) /\ TypedFile(list[i]) BY DEF Typed, TypedList
<1>3. p \in Nat BY ConstantsAssumption
<1> DEFINE f == [list[i] EXCEPT !.pos = p]
<1>4. TypedFile(f) BY <1>2, <1>3 DEF TypedFile, FileRecords, OnDisk
<1>5. Update(i, f) BY DEF SetPosition
<1> HIDE DEF f
<1>6. TypedList(list') BY <1>2, <1>4, <1>5, UpdateTyped
<1> QED BY <1>1, <1>6, ListTyped

LEMMA SetFileSizeTypes ==
  ASSUME Typed, NEW i \in DOMAIN list, NEW n \in Lengths, SetFileSize(i, n)
  PROVE  Typed'
<1>1. Calling /\ UNCHANGED <<pc, flush>> BY DEF SetFileSize
<1>2. TypedList(list) /\ TypedFile(list[i]) BY DEF Typed, TypedList
<1>3. n \in Nat BY ConstantsAssumption
<1> DEFINE e == list[i]  size == e.size
<1>4. e \in FileRecords /\ (e.addr = 0 <=> ~OnDisk(e)) /\ (e.open => e.name \in Names)
      /\ size \in Nat
  BY <1>2 DEF TypedFile, FileRecords
<1>5. PICK g : Update(i, g) /\ g = IF n < size THEN Truncated(e, n)
                                   ELSE Written(e, size, n - size, Zero)
  BY DEF SetFileSize
<1> HIDE DEF e, size
<1>6. g \in FileRecords /\ g.desc = e.desc /\ g.addr = e.addr /\ g.open = e.open /\ g.name = e.name
  <2>1. CASE n < size
    <3>1. g = Truncated(e, n) BY <1>5, <2>1
    <3>2. TruncatedFrom(e, n, g) BY <1>3, <1>4, <3>1, TruncatedTyped
    <3> QED BY <3>2 DEF TruncatedFrom
  <2>2. CASE ~(n < size)
    <3> DEFINE len == n - size
    <3>1. len \in Nat /\ Zero \in Payloads \cup {Zero} BY <1>3, <1>4, <2>2
    <3>2. g = Written(e, size, len, Zero) BY <1>5, <2>2
    <3> HIDE DEF len
    <3>3. WrittenFrom(e, size, len, Zero, g) BY <1>4, <3>1, <3>2, WrittenTyped
    <3> QED BY <3>3 DEF WrittenFrom
  <2> QED BY <2>1, <2>2
<1>7. TypedFile(g) BY <1>4, <1>6 DEF TypedFile, OnDisk
<1>8. TypedList(list') BY <1>2, <1>5, <1>7, UpdateTyped
<1> QED BY <1>1, <1>8, ListTyped

LEMMA BeginTypes ==
  ASSUME Typed, NEW i \in DOMAIN list, NEW why, Begin(i, why, "enter")
  PROVE  Typed'
<1>1. /\ media' = media /\ list' = list /\ cur' = i /\ pc' = "enter"
      /\ start' = start /\ end' = end /\ r' = r
  BY DEF Begin, Calling
<1>2. FlowTyped' BY <1>1 DEF Typed, FlowTyped
<1> QED BY <1>1, <1>2 DEF Typed

LEMMA DeleteTypes ==
  ASSUME Typed, NEW i \in DOMAIN list, Delete(i) PROVE Typed'
<1>1. /\ media' = media /\ cur' = i /\ pc' = "delete" /\ start' = start /\ end' = end /\ r' = r
  BY DEF Delete, Calling
<1>2. TypedList(list) /\ TypedFile(list[i]) BY DEF Typed, TypedList
<1> DEFINE f == [list[i] EXCEPT !.regions = <<>>]
<1>3. <<>> \in Seq(Pending) OBVIOUS
<1>4. TypedFile(f) BY <1>2, <1>3 DEF TypedFile, FileRecords, OnDisk
<1>5. Update(i, f) BY DEF Delete
<1> HIDE DEF f
<1>6. TypedList(list') /\ DOMAIN list' = DOMAIN list BY <1>2, <1>4, <1>5, UpdateTyped
<1>7. FlowTyped' BY <1>1, <1>6 DEF Typed, FlowTyped
<1> QED BY <1>1, <1>6, <1>7 DEF Typed

\* Where the scan of the list for space is.
LEMMA SpaceTyped ==
  ASSUME TypedList(list), NEW k \in Nat PROVE SpaceBefore(k) \in Nat
<1> DEFINE earlier == {j \in DiskIndices : j < k}
<1>1. list \in Seq(FileRecords) /\ Len(list) \in Nat /\ DOMAIN list = 1 .. Len(list)
  BY DEF TypedList
<1>2. CASE earlier = {} BY <1>2 DEF SpaceBefore
<1>3. CASE earlier # {}
  <2>1. earlier \in SUBSET (0 .. Len(list)) BY <1>1 DEF DiskIndices
  <2> DEFINE m == Max(earlier)
  <2>2. m \in earlier BY <1>1, <1>3, <2>1, Greatest
  <2>3. SpaceBefore(k) = (list[m].desc.last + 1) * BlockUnits BY <1>3 DEF SpaceBefore
  <2> HIDE DEF m
  <2>4. m \in DOMAIN list /\ OnDisk(list[m]) BY <2>2 DEF DiskIndices
  <2>5. list[m] \in FileRecords BY <2>4, <1>1
  <2>6. list[m].desc \in Description BY <2>4, <2>5 DEF FileRecords, OnDisk
  <2>7. list[m].desc.last \in Nat BY <2>6, Descriptions
  <2> QED BY <2>3, <2>7, BlockSize
<1> QED BY <1>2, <1>3

LEMMA FindSpaceTypes ==
  ASSUME TypedList(list), cur \in DOMAIN list, ~OnDisk(File), FindSpaceForNewFile
  PROVE  /\ TypedList(list') /\ cur' \in DOMAIN list' /\ list'[cur'] = list[cur]
         /\ start' \in Nat /\ pc' \in {"region", "return"}
<1> DEFINE n == File.size
<1>1. list \in Seq(FileRecords) /\ DOMAIN list = 1 .. Len(list) /\ Len(list) \in Nat
  BY DEF TypedList
<1> HIDE DEF n
<1>2. CASE /\ Gaps(n + 1) # {}
           /\ LinkBefore(cur, Min(Gaps(n + 1)))
           /\ start' = SpaceBefore(Min(Gaps(n + 1)))
           /\ pc' = "region"
  <2> DEFINE k == Min(Gaps(n + 1))  to == IF cur < k THEN k - 1 ELSE k
  <2>1. Gaps(n + 1) \subseteq DiskIndices BY DEF Gaps
  <2>2. DiskIndices \subseteq DOMAIN list BY DEF DiskIndices
  <2>3. Gaps(n + 1) \in SUBSET Nat BY <2>1, <2>2, <1>1
  <2>4. k \in Gaps(n + 1) BY <1>2, <2>3, Least
  <2>5. list' = InsertAt(RemoveAt(list, cur), to, list[cur]) /\ cur' = to
    BY <1>2 DEF LinkBefore
  <2>6. start' = SpaceBefore(k) BY <1>2
  <2> HIDE DEF k
  <2>7. k \in 1 .. Len(list) /\ OnDisk(list[k]) BY <2>1, <2>2, <2>4, <1>1 DEF DiskIndices
  <2>8. k # cur BY <2>7 DEF File
  <2>9. to \in 1 .. Len(list) BY <2>7, <2>8, <1>1
  <2> HIDE DEF to
  <2> DEFINE p == LinkMap(Len(list), cur, to)
  <2>10. to \in DOMAIN list BY <2>9, <1>1
  <2>11. /\ list' \in Seq(FileRecords) /\ DOMAIN list' = DOMAIN list
         /\ p[to] = cur /\ Reordering(list, list', p)
    <3>1. list' = InsertAt(RemoveAt(list, cur), to, list[cur]) BY <2>5
    <3> HIDE DEF p
    <3>2. p = LinkMap(Len(list), cur, to) BY DEF p
    <3>3. list \in Seq(FileRecords) /\ cur \in DOMAIN list BY <1>1
    <3> QED BY ONLY <3>1, <3>2, <3>3, <2>10, Linked
  <2> HIDE DEF p
  <2>12. \A j \in DOMAIN list' : p[j] \in DOMAIN list /\ list'[j] = list[p[j]]
    BY <2>11 DEF Reordering
  <2>13. TypedList(list') BY <2>11, <2>12 DEF TypedList
  <2>14. start' \in Nat BY <2>6, <2>7, SpaceTyped
  <2> QED BY <1>2, <2>5, <2>10, <2>11, <2>12, <2>13, <2>14
<1>3. CASE /\ start' = SpaceBefore(Len(list) + 1)
           /\ pc' = IF Fits(start', EndOfMedia, n + 1) THEN "region" ELSE "return"
           /\ UNCHANGED <<list, cur>>
  <2>1. Len(list) + 1 \in Nat BY <1>1
  <2>2. start' \in Nat BY <2>1, <1>3, SpaceTyped
  <2> QED BY <1>3, <2>2
<1> QED BY <1>2, <1>3 DEF FindSpaceForNewFile, n

\* What is known while a call is under way.
LEMMA TypedFlow ==
  ASSUME Typed, pc # "idle"
  PROVE  /\ MediumTyped(media) /\ TypedList(list) /\ cur \in DOMAIN list
         /\ File = list[cur] /\ TypedFile(File) /\ File \in FileRecords
         /\ start \in Nat /\ end \in Nat /\ r \in Nat
BY DEF Typed, FlowTyped, TypedList, TypedFile, File

LEMMA EnterTypes ==
  ASSUME Typed, Enter PROVE Typed'
<1>1. /\ pc = "enter" /\ media' = media BY DEF Enter
<1>2. /\ MediumTyped(media) /\ TypedList(list) /\ cur \in DOMAIN list
      /\ File = list[cur] /\ File \in FileRecords
      /\ start \in Nat /\ end \in Nat /\ r \in Nat
  BY <1>1, TypedFlow
<1>3. File.desc.size \in Nat /\ (File.desc.first * BlockUnits) \in Nat
  <2>1. File.desc \in Description \cup {NoDesc} BY <1>2 DEF FileRecords
  <2>2. File.desc.size \in Nat /\ File.desc.first \in Nat BY <2>1 DEF Description, NoDesc
  <2> QED BY <2>2, BlockSize
<1>4. CASE pc' = "return" /\ UNCHANGED <<list, cur, start, end, r>>
  <2>1. FlowTyped' BY <1>2, <1>4 DEF FlowTyped
  <2> QED BY <1>1, <1>2, <1>4, <2>1 DEF Typed
<1>5. CASE /\ File.open /\ r' = 1 /\ ~OnDisk(File) /\ FindSpaceForNewFile
           /\ end' = start' + File.desc.size
  <2>1. /\ TypedList(list') /\ cur' \in DOMAIN list' /\ list'[cur'] = list[cur]
        /\ start' \in Nat /\ pc' \in {"region", "return"}
    BY <1>2, <1>5, FindSpaceTypes
  <2>2. end' \in Nat BY <1>3, <1>5, <2>1
  <2>3. File' = File BY <1>2, <2>1 DEF File
  <2>4. FlowTyped' BY <1>5, <2>1, <2>2, <2>3 DEF FlowTyped
  <2> QED BY <1>1, <1>2, <2>1, <2>4 DEF Typed
<1>6. CASE /\ File.open /\ r' = 1 /\ start' = File.desc.first * BlockUnits /\ pc' = "region"
           /\ UNCHANGED <<list, cur>> /\ end' = start' + File.desc.size
  <2>1. start' \in Nat /\ end' \in Nat BY <1>3, <1>6
  <2>2. File' = File BY <1>6 DEF File
  <2>3. FlowTyped' BY <1>2, <1>6, <2>1, <2>2 DEF FlowTyped
  <2> QED BY <1>1, <1>2, <1>6, <2>3 DEF Typed
<1> QED BY <1>4, <1>5, <1>6 DEF Enter

LEMMA EmptyRegionTypes ==
  ASSUME Typed, EmptyRegion PROVE Typed'
<1>1. pc = "region" /\ r' = r + 1 /\ UNCHANGED <<media, list, pc, cur, start, end>>
  BY DEF EmptyRegion
<1>2. File' = File BY <1>1 DEF File
<1>3. FlowTyped' BY <1>1, <1>2 DEF Typed, FlowTyped
<1> QED BY <1>1, <1>3 DEF Typed

LEMMA NextRegionTypes ==
  ASSUME Typed, NextRegion PROVE Typed'
<1>1. pc = "region" /\ UNCHANGED <<media, cur, start, end, r>> BY DEF NextRegion
<1>2. /\ MediumTyped(media) /\ TypedList(list) /\ cur \in DOMAIN list
      /\ File = list[cur] /\ TypedFile(File)
      /\ start \in Nat /\ end \in Nat /\ r \in Nat
  BY <1>1, TypedFlow
<1>3. File.open /\ r > 0 BY <1>1 DEF Typed, FlowTyped
<1>4. CASE pc' = "finish" /\ Update(cur, [File EXCEPT !.regions = <<>>])
  <2> DEFINE f == [File EXCEPT !.regions = <<>>]
  <2>1. <<>> \in Seq(Pending) OBVIOUS
  <2>2. TypedFile(f) /\ f.open = File.open BY <1>2, <2>1 DEF TypedFile, FileRecords, OnDisk
  <2>3. Update(cur, f) BY <1>4
  <2> HIDE DEF f
  <2>4. TypedList(list') /\ DOMAIN list' = DOMAIN list /\ list'[cur] = f
    BY <1>2, <2>2, <2>3, UpdateTyped
  <2>5. File' = f BY <1>1, <2>4 DEF File
  <2>6. FlowTyped' BY <1>1, <1>2, <1>3, <1>4, <2>2, <2>4, <2>5 DEF FlowTyped
  <2> QED BY <1>1, <1>2, <2>4, <2>6 DEF Typed
<1>5. CASE /\ r <= Len(File.regions) /\ UNCHANGED list
           /\ pc' \in {"edit", "invalidate", "data", "return"}
  <2>1. File' = File BY <1>1, <1>5 DEF File
  <2>2. FlowTyped' BY <1>1, <1>2, <1>3, <1>5, <2>1 DEF FlowTyped
  <2> QED BY <1>1, <1>2, <1>5, <2>2 DEF Typed
<1>6. ASSUME r <= Len(File.regions), NextRegion, ~(r > Len(File.regions))
      PROVE  UNCHANGED list /\ pc' \in {"edit", "invalidate", "data", "return"}
  <2> DEFINE e == start + Region.off + Region.len < end
             g == \/ Region.off + Region.len + 1 <= PhysicalSize(File)
                  \/ Fits(start, EndOfAppendSpace, Region.off + Region.len + 1)
  <2>1. /\ UNCHANGED list
        /\ \/ e /\ pc' = "edit"
           \/ ~e /\ pc' = IF g THEN IF File.addr # 0 THEN "invalidate" ELSE "data" ELSE "return"
    BY <1>6 DEF NextRegion
  <2> HIDE DEF e, g
  <2> QED BY <2>1
<1>7. Len(File.regions) \in Nat
  <2>1. File.regions \in Seq(Pending) BY <1>2 DEF TypedFile, FileRecords
  <2> QED BY <2>1
<1>8. CASE r > Len(File.regions)
  <2>1. pc' = "finish" /\ Update(cur, [File EXCEPT !.regions = <<>>])
    BY <1>2, <1>7, <1>8 DEF NextRegion
  <2> QED BY <2>1, <1>4
<1>9. CASE ~(r > Len(File.regions)) BY <1>2, <1>5, <1>6, <1>7, <1>9
<1> QED BY <1>8, <1>9

\* A write of data, zeros or the description of an image with blocks enough.
LEMMA MediumWritten ==
  ASSUME MediumTyped(media), Target \in Nat, Len(Content) \in Nat,
         \A k \in 1 .. Len(Content) :
           Content[k] \in Cells /\ (Content[k] \notin Plain => Holds(Content[k])),
         Outcome
  PROVE  MediumTyped(media')
<1>1. /\ media' \in [Units -> Cells]
      /\ \A u \in Units :
           \/ media'[u] = media[u]
           \/ /\ \E v \in Affected \cap Units : v \div BlockUnits = u \div BlockUnits
              /\ media'[u] = Erased \/ (u \in Affected /\ media'[u] = Content[u - Target + 1])
  BY Outcomes DEF MediumTyped
<1>2. \A u \in Affected : u - Target + 1 \in 1 .. Len(Content) BY DEF Affected
<1>3. ASSUME NEW b \in Blocks, BootMonFsIsImageValid(media', b)
      PROVE  Holds(media'[DescUnit(b)])
  <2> DEFINE u == DescUnit(b)
  <2>1. u \in Units BY BlockSize, DescUnits DEF Blocks
  <2>2. media'[u] \notin Plain BY <1>3 DEF BootMonFsIsImageValid, Plain
  <2> HIDE DEF u
  <2>3. CASE media'[u] = media[u]
    <3>1. BootMonFsIsImageValid(media, b) BY <1>3, <2>3 DEF BootMonFsIsImageValid, u
    <3> QED BY <2>3, <3>1 DEF MediumTyped, u
  <2>4. CASE media'[u] = Erased BY <2>2, <2>4 DEF Plain
  <2>5. CASE u \in Affected /\ media'[u] = Content[u - Target + 1]
    <3>1. Holds(media'[u]) BY <1>2, <2>2, <2>5
    <3> QED BY <3>1 DEF u
  <2> QED BY <1>1, <2>1, <2>3, <2>4, <2>5
<1> QED BY <1>1, <1>3 DEF MediumTyped

LEMMA RegionTyped ==
  ASSUME File \in FileRecords, r \in Nat, r > 0, r <= Len(File.regions)
  PROVE  Region.off \in Nat /\ Region.len \in Nat /\ Region.val \in Payloads \cup {Zero}
<1>1. File.regions \in Seq(Pending) BY DEF FileRecords
<1>2. r \in DOMAIN File.regions BY <1>1
<1>3. Region \in Pending BY <1>1, <1>2 DEF Region
<1> QED BY <1>3 DEF Pending

\* The description of a file that is open.
LEMMA NewDescTyped ==
  ASSUME TypedFile(File), File.open, start \in Nat, r \in Nat, r > 0,
         pc = "finish" \/ (pc = "describe" /\ r <= Len(File.regions))
  PROVE  NewDesc \in Description /\ Holds(NewDesc) /\ NewDesc.last \in Nat
<1>1. File \in FileRecords /\ File.name \in Names BY DEF TypedFile
<1> DEFINE n == NewSize  q == start \div BlockUnits  c == (n + 1) \div BlockUnits
<1>2. n \in Nat
  <2>1. CASE pc = "finish" BY <2>1, <1>1 DEF NewSize, FileRecords
  <2>2. CASE pc = "describe" /\ r <= Len(File.regions)
    <3>1. Region.off \in Nat /\ Region.len \in Nat BY <1>1, <2>2, RegionTyped
    <3> QED BY <2>2, <3>1 DEF NewSize
  <2> QED BY <2>1, <2>2
<1>3. q \in Nat BY Division
<1> HIDE DEF n
<1>4. c \in Nat /\ n + 1 < c * BlockUnits + BlockUnits BY <1>2, Division
<1>5. NewDesc = [name |-> File.name, size |-> n, first |-> q, last |-> q + c]
  BY DEF NewDesc, DescriptionOf, n
<1> HIDE DEF q, c
<1>6. NewDesc \in Description /\ NewDesc.size = n /\ NewDesc.first = q /\ NewDesc.last = q + c
  BY <1>1, <1>2, <1>3, <1>4, <1>5 DEF Description
<1>7. n + 1 <= (c + 1) * BlockUnits
  <2>1. c * BlockUnits \in Nat BY <1>4, BlockSize
  <2> QED BY <2>1, <1>2, <1>4, Successor, BlockSize
<1>8. NewDesc.last - NewDesc.first + 1 = c + 1 BY <1>3, <1>4, <1>6
<1>9. Holds(NewDesc) BY <1>6, <1>7, <1>8 DEF Holds
<1> QED BY <1>3, <1>4, <1>6, <1>9

\* What any write leaves on the medium.
LEMMA WriteTypes ==
  ASSUME Typed, pc \in {"edit", "invalidate", "data", "describe", "finish", "delete"}, Outcome
  PROVE  MediumTyped(media')
<1>1. /\ MediumTyped(media) /\ TypedFile(File) /\ File \in FileRecords
      /\ start \in Nat /\ r \in Nat
  BY TypedFlow
<1>2. CASE pc \in {"edit", "data"}
  <2>1. r > 0 /\ r <= Len(File.regions) BY <1>2 DEF Typed, FlowTyped
  <2>2. Region.off \in Nat /\ Region.len \in Nat /\ Region.val \in Payloads \cup {Zero}
    BY <1>1, <2>1, RegionTyped
  <2>3. Target = start + Region.off /\ Content = [k \in 1 .. Region.len |-> Region.val]
    BY <1>2 DEF Target, Content, RegionData
  <2>4. Target \in Nat BY <1>1, <2>2, <2>3
  <2>5. Len(Content) = Region.len /\ \A k \in 1 .. Len(Content) : Content[k] \in Plain \cap Cells
    BY <2>2, <2>3 DEF Plain, Cells
  <2> QED BY <1>1, <2>2, <2>4, <2>5, MediumWritten
<1>3. CASE pc \in {"invalidate", "delete"}
  <2>1. Target = File.addr /\ Content = <<Zero>> BY <1>3 DEF Target, Content
  <2>2. Target \in Nat BY <1>1, <2>1 DEF FileRecords
  <2>3. Len(Content) = 1 /\ Content[1] \in Plain \cap Cells BY <2>1 DEF Plain, Cells
  <2> QED BY <1>1, <2>2, <2>3, MediumWritten
<1>4. CASE pc \in {"describe", "finish"}
  <2>1. File.open /\ r > 0 /\ (pc = "describe" => r <= Len(File.regions))
    BY <1>4 DEF Typed, FlowTyped
  <2>2. NewDesc \in Description /\ Holds(NewDesc) /\ NewDesc.last \in Nat
    BY <1>1, <1>4, <2>1, NewDescTyped
  <2>3. Target = DescUnit(NewDesc.last) /\ Content = <<NewDesc>> BY <1>4 DEF Target, Content
  <2>4. Target \in Nat BY <2>2, <2>3, DescUnits
  <2>5. Len(Content) = 1 /\ Content[1] = NewDesc /\ NewDesc \in Cells BY <2>2, <2>3 DEF Cells
  <2> QED BY <1>1, <2>2, <2>4, <2>5, MediumWritten
<1> QED BY <1>2, <1>3, <1>4

\* The description in memory.
LEMMA DescribeTypes ==
  ASSUME Typed, pc \in {"describe", "finish"}, Describe, cur' = cur
  PROVE  TypedList(list') /\ DOMAIN list' = DOMAIN list /\ File'.open
<1>1. /\ TypedList(list) /\ TypedFile(File) /\ File \in FileRecords /\ cur \in DOMAIN list
      /\ start \in Nat /\ r \in Nat
  BY TypedFlow
<1>2. File.open /\ r > 0 /\ (pc = "describe" => r <= Len(File.regions))
  BY DEF Typed, FlowTyped
<1> DEFINE d == NewDesc  a == DescUnit(d.last)
           f == [File EXCEPT !.desc = d, !.addr = a]
<1>3. d \in Description /\ d.last \in Nat BY <1>1, <1>2, NewDescTyped
<1>4. Update(cur, f) BY DEF Describe
<1> HIDE DEF d
<1>5. a \in Nat \ {0} BY <1>3, DescUnits
<1>6. d # NoDesc BY <1>3, Descriptions
<1> HIDE DEF a
<1>7. f \in FileRecords /\ f.desc = d /\ f.addr = a /\ f.open = File.open /\ f.name = File.name
  BY <1>1, <1>3, <1>5 DEF FileRecords
<1> HIDE DEF f
<1>8. TypedFile(f) BY <1>1, <1>5, <1>6, <1>7 DEF TypedFile, OnDisk
<1>9. TypedList(list') /\ DOMAIN list' = DOMAIN list /\ list'[cur] = f
  BY <1>1, <1>4, <1>8, UpdateTyped
<1> QED BY <1>2, <1>7, <1>9 DEF File

LEMMA WriteEditTypes ==
  ASSUME Typed, WriteEdit PROVE Typed'
<1>1. /\ pc = "edit" /\ r' = r + 1 /\ Outcome /\ pc' \in {"region", "return"}
      /\ UNCHANGED <<list, cur, start, end>>
  BY WriteDiskIs DEF WriteEdit
<1>2. MediumTyped(media') BY <1>1, WriteTypes
<1>3. File' = File BY <1>1 DEF File
<1>4. FlowTyped' BY <1>1, <1>3 DEF Typed, FlowTyped
<1> QED BY <1>1, <1>2, <1>4 DEF Typed

LEMMA InvalidateTypes ==
  ASSUME Typed, InvalidateImageDescription PROVE Typed'
<1>1. /\ pc = "invalidate" /\ Outcome /\ pc' \in {"data", "return"}
      /\ UNCHANGED <<list, cur, start, end, r>>
  BY WriteDiskIs DEF InvalidateImageDescription, flush
<1>2. MediumTyped(media') BY <1>1, WriteTypes
<1>3. File' = File BY <1>1 DEF File
<1>4. FlowTyped' BY <1>1, <1>3 DEF Typed, FlowTyped
<1> QED BY <1>1, <1>2, <1>4 DEF Typed

LEMMA WriteDataTypes ==
  ASSUME Typed, WriteData PROVE Typed'
<1>1. /\ pc = "data" /\ Outcome /\ pc' \in {"describe", "return"}
      /\ UNCHANGED <<list, cur, start, end, r>>
  BY WriteDiskIs DEF WriteData, flush
<1>2. MediumTyped(media') BY <1>1, WriteTypes
<1>3. File' = File BY <1>1 DEF File
<1>4. FlowTyped' BY <1>1, <1>3 DEF Typed, FlowTyped
<1> QED BY <1>1, <1>2, <1>4 DEF Typed

LEMMA WriteFileDescriptionTypes ==
  ASSUME Typed, WriteFileDescription PROVE Typed'
<1>1. /\ pc = "describe" /\ r' = r + 1 /\ Outcome /\ pc' \in {"region", "return"} /\ Describe
      /\ UNCHANGED <<cur, start, end>>
  BY WriteDiskIs DEF WriteFileDescription
<1>2. MediumTyped(media') BY <1>1, WriteTypes
<1>3. TypedList(list') /\ DOMAIN list' = DOMAIN list /\ File'.open BY <1>1, DescribeTypes
<1>4. FlowTyped' BY <1>1, <1>3 DEF Typed, FlowTyped
<1> QED BY <1>2, <1>3, <1>4 DEF Typed

LEMMA FinishTypes ==
  ASSUME Typed, Finish PROVE Typed'
<1>1. pc = "finish" /\ UNCHANGED <<cur, start, end, r>> BY DEF Finish, flush
<1>2. CASE WriteDisk("return") /\ Describe
  <2>1. Outcome /\ pc' = "return" BY <1>2, WriteDiskIs
  <2>2. MediumTyped(media') BY <1>1, <2>1, WriteTypes
  <2>3. TypedList(list') /\ DOMAIN list' = DOMAIN list BY <1>1, <1>2, DescribeTypes
  <2>4. FlowTyped' BY <1>1, <2>1, <2>3 DEF Typed, FlowTyped
  <2> QED BY <2>2, <2>3, <2>4 DEF Typed
<1>3. CASE pc' = "return" /\ UNCHANGED <<media, list>>
  <2>1. FlowTyped' BY <1>1, <1>3 DEF Typed, FlowTyped
  <2> QED BY <1>3, <2>1 DEF Typed
<1> QED BY <1>2, <1>3 DEF Finish

LEMMA ReturnTypes ==
  ASSUME Typed, Return PROVE Typed'
<1>1. pc = "return" /\ media' = media BY DEF Return
<1>2. /\ MediumTyped(media) /\ TypedList(list) /\ cur \in DOMAIN list
      /\ TypedFile(File) /\ File \in FileRecords /\ start \in Nat /\ end \in Nat /\ r \in Nat
  BY <1>1, TypedFlow
<1>3. ASSUME BeIdle, TypedList(list') PROVE Typed'
  <2>1. FlowTyped' BY <1>3 DEF BeIdle, FlowTyped
  <2> QED BY <1>1, <1>2, <1>3, <2>1 DEF Typed
<1>4. CASE BeIdle /\ UNCHANGED list BY <1>2, <1>3, <1>4
<1>5. CASE BeIdle /\ Update(cur, [File EXCEPT !.open = FALSE])
  <2> DEFINE f == [File EXCEPT !.open = FALSE]
  <2>1. TypedFile(f) BY <1>2 DEF TypedFile, FileRecords, OnDisk
  <2>2. Update(cur, f) BY <1>5
  <2> HIDE DEF f
  <2>3. TypedList(list') BY <1>2, <2>1, <2>2, UpdateTyped
  <2> QED BY <1>3, <1>5, <2>3
<1>6. CASE /\ BeIdle
           /\ \E p \in {File.pos} \cup {q \in Positions : File.pos <= q /\ q <= File.size} :
                Update(cur, [File EXCEPT !.pos = p])
  <2>1. PICK p \in {File.pos} \cup Positions : Update(cur, [File EXCEPT !.pos = p]) BY <1>6
  <2>2. File.pos \in Nat BY <1>2 DEF FileRecords
  <2>3. p \in Nat BY <2>2, ConstantsAssumption
  <2> DEFINE f == [File EXCEPT !.pos = p]
  <2>4. TypedFile(f) BY <1>2, <2>3 DEF TypedFile, FileRecords, OnDisk
  <2>5. Update(cur, f) BY <2>1
  <2> HIDE DEF f
  <2>6. TypedList(list') BY <1>2, <2>4, <2>5, UpdateTyped
  <2> QED BY <1>3, <1>6, <2>6
<1>7. CASE /\ UNCHANGED list
           /\ IF cur < Len(list)
                THEN cur' = cur + 1 /\ pc' = "enter" /\ UNCHANGED <<then, start, end, r>>
                ELSE BeIdle
  <2>1. CASE cur < Len(list) /\ cur' = cur + 1 /\ pc' = "enter" /\ UNCHANGED <<start, end, r>>
    <3>1. DOMAIN list = 1 .. Len(list) /\ Len(list) \in Nat BY <1>2 DEF TypedList
    <3>2. cur' \in DOMAIN list BY <1>2, <2>1, <3>1
    <3>3. FlowTyped' BY <1>2, <1>7, <2>1, <3>2 DEF FlowTyped
    <3> QED BY <1>1, <1>2, <1>7, <3>3 DEF Typed
  <2>2. CASE BeIdle BY <2>2, <1>2, <1>3, <1>7
  <2> QED BY <2>1, <2>2, <1>7
<1> QED BY <1>4, <1>5, <1>6, <1>7 DEF Return

LEMMA DeleteFileTypes ==
  ASSUME Typed, DeleteFile PROVE Typed'
<1>1. pc = "delete" BY DEF DeleteFile
<1>2. /\ MediumTyped(media) /\ TypedList(list) /\ cur \in DOMAIN list BY <1>1, TypedFlow
<1>3. CASE WriteDisk("deleted") /\ UNCHANGED <<list, flush>>
  <2>1. Outcome /\ pc' \in {"deleted", "return"} /\ UNCHANGED <<list, cur, start, end, r>>
    BY <1>3, WriteDiskIs DEF flush
  <2>2. MediumTyped(media') BY <1>1, <2>1, WriteTypes
  <2>3. FlowTyped' BY <1>1, <2>1 DEF Typed, FlowTyped
  <2> QED BY <1>2, <2>1, <2>2, <2>3 DEF Typed
<1>4. CASE list' = RemoveAt(list, cur) /\ BeIdle /\ UNCHANGED media
  <2>1. TypedList(list') BY <1>2, <1>4, RemovedTyped
  <2>2. FlowTyped' BY <1>4 DEF BeIdle, FlowTyped
  <2> QED BY <1>2, <1>4, <2>1, <2>2 DEF Typed
<1> QED BY <1>3, <1>4 DEF DeleteFile

LEMMA UnlinkTypes ==
  ASSUME Typed, Unlink PROVE Typed'
<1>1. pc = "deleted" /\ list' = RemoveAt(list, cur) /\ BeIdle /\ media' = media BY DEF Unlink
<1>2. TypedList(list') BY <1>1, TypedFlow, RemovedTyped
<1>3. FlowTyped' BY <1>1 DEF BeIdle, FlowTyped
<1> QED BY <1>1, <1>2, <1>3 DEF Typed

LEMMA PowerLossTypes ==
  ASSUME Typed, PowerLoss PROVE Typed'
<1>1. list' = <<>> /\ BeIdle /\ IF Writing THEN Torn ELSE media' = media BY DEF PowerLoss
<1>2. MediumTyped(media')
  <2>1. CASE Writing
    <3>1. pc \in {"edit", "invalidate", "data", "describe", "finish", "delete"}
      BY <2>1 DEF Writing
    <3>2. Outcome BY <1>1, <2>1 DEF Outcome
    <3> QED BY <3>1, <3>2, WriteTypes
  <2>2. CASE ~Writing BY <1>1, <2>2 DEF Typed
  <2> QED BY <2>1, <2>2
<1>3. TypedList(list')
  <2>1. <<>> \in Seq(FileRecords) OBVIOUS
  <2>2. DOMAIN list' = {} BY <1>1
  <2> QED BY <1>1, <2>1, <2>2 DEF TypedList
<1>4. FlowTyped' BY <1>1 DEF BeIdle, FlowTyped
<1> QED BY <1>2, <1>3, <1>4 DEF Typed

LEMMA CallersType ==
  ASSUME Typed, Callers PROVE Typed'
<1>1. CASE Initialize BY <1>1, InitializeTypes
<1>2. ASSUME NEW n \in Names, NEW mode \in {"read", "write", "create"}, OpenFile(n, mode)
      PROVE  Typed'
  BY <1>2, OpenFileTypes
<1>3. ASSUME NEW i \in DOMAIN list, NEW len \in Lengths, NEW v \in Payloads, WriteFile(i, len, v)
      PROVE  Typed'
  BY <1>3, WriteFileTypes
<1>4. ASSUME NEW i \in DOMAIN list, NEW p \in Positions, SetPosition(i, p) PROVE Typed'
  BY <1>4, SetPositionTypes
<1>5. ASSUME NEW i \in DOMAIN list, NEW n \in Lengths, SetFileSize(i, n) PROVE Typed'
  BY <1>5, SetFileSizeTypes
<1>6. ASSUME NEW i \in DOMAIN list, Flush(i) \/ CloseFile(i) \/ ReadFile(i) PROVE Typed'
  BY <1>6, BeginTypes DEF Flush, CloseFile, ReadFile
<1>7. ASSUME NEW i \in DOMAIN list, Delete(i) PROVE Typed'
  BY <1>7, DeleteTypes
<1>8. CASE FlushDirectory
  <2>1. list # <<>> /\ Begin(1, "directory", "enter") BY <1>8 DEF FlushDirectory
  <2>2. list \in Seq(FileRecords) BY DEF Typed, TypedList
  <2>3. 1 \in DOMAIN list BY <2>1, <2>2
  <2> QED BY <2>1, <2>3, BeginTypes
<1> QED BY <1>1, <1>2, <1>3, <1>4, <1>5, <1>6, <1>7, <1>8 DEF Callers

LEMMA TypedUnchanged ==
  ASSUME Typed, UNCHANGED vars PROVE Typed'
<1>1. UNCHANGED <<media, list, pc, cur, start, end, r>> BY DEF vars, flush
<1>2. File' = File BY <1>1 DEF File
<1>3. FlowTyped' BY <1>1, <1>2 DEF Typed, FlowTyped
<1> QED BY <1>1, <1>3 DEF Typed

LEMMA TypedInductive == Typed /\ [Next]_vars => Typed'
<1> SUFFICES ASSUME Typed, [Next]_vars PROVE Typed' OBVIOUS
<1>1. CASE Callers BY <1>1, CallersType
<1>2. CASE Enter BY <1>2, EnterTypes
<1>3. CASE EmptyRegion BY <1>3, EmptyRegionTypes
<1>4. CASE NextRegion BY <1>4, NextRegionTypes
<1>5. CASE WriteEdit BY <1>5, WriteEditTypes
<1>6. CASE InvalidateImageDescription BY <1>6, InvalidateTypes
<1>7. CASE WriteData BY <1>7, WriteDataTypes
<1>8. CASE WriteFileDescription BY <1>8, WriteFileDescriptionTypes
<1>9. CASE Finish BY <1>9, FinishTypes
<1>10. CASE Return BY <1>10, ReturnTypes
<1>11. CASE DeleteFile BY <1>11, DeleteFileTypes
<1>12. CASE Unlink BY <1>12, UnlinkTypes
<1>13. CASE PowerLoss BY <1>13, PowerLossTypes
<1>14. CASE UNCHANGED vars BY <1>14, TypedUnchanged
<1> QED BY <1>1, <1>2, <1>3, <1>4, <1>5, <1>6, <1>7, <1>8, <1>9, <1>10, <1>11, <1>12, <1>13,
           <1>14 DEF Next, Step

LEMMA TypedInitially == Init => Typed /\ Counted
<1> SUFFICES ASSUME Init PROVE Typed /\ Counted OBVIOUS
<1>1. media \in InitialMedia /\ initialized = FALSE /\ list = <<>> /\ pc = "idle"
      /\ start = 0 /\ end = 0 /\ r = 0
  BY DEF Init
<1>2. media \in [Units -> Cells] /\ ImagesApart(media) BY <1>1, MediaAssumption DEF Cells
<1>3. ASSUME NEW b \in Blocks, BootMonFsIsImageValid(media, b)
      PROVE  Holds(media[DescUnit(b)])
  <2>1. media[DescUnit(b)].last = b BY <1>3 DEF BootMonFsIsImageValid
  <2>2. media[DescUnit(b)].size + 1 <= (b - media[DescUnit(b)].first + 1) * BlockUnits
    BY <1>2, <1>3 DEF ImagesApart
  <2> QED BY <2>1, <2>2 DEF Holds
<1>4. MediumTyped(media) BY <1>2, <1>3 DEF MediumTyped
<1>5. TypedList(list)
  <2>1. <<>> \in Seq(FileRecords) OBVIOUS
  <2>2. DOMAIN list = {} BY <1>1
  <2> QED BY <1>1, <2>1, <2>2 DEF TypedList
<1>6. FlowTyped BY <1>1 DEF FlowTyped
<1>7. Counted
  <2>1. /\ initialized = FALSE /\ then = "flush" /\ calls = 0 /\ faults = 0 /\ losses = 0
        /\ spoilt = {}
    BY DEF Init
  <2>2. 0 \in 0 .. MaxCalls /\ 0 \in 0 .. MaxFaults /\ 0 \in 0 .. MaxPowerLosses
    BY ConstantsAssumption
  <2> QED BY <2>1, <2>2 DEF Counted
<1> QED BY <1>4, <1>5, <1>6, <1>7 DEF Typed

LEMMA FaultCounted == Counted /\ Fault => faults' \in 0 .. MaxFaults
BY ConstantsAssumption DEF Counted, Fault

LEMMA WriteCounted ==
  ASSUME Counted, NEW next, WriteDisk(next)
  PROVE  faults' \in 0 .. MaxFaults /\ spoilt' \subseteq Reasons
<1>1. Irregular \subseteq Reasons BY DEF Irregular, Reasons
<1>2. faults' \in 0 .. MaxFaults
  <2>1. CASE UNCHANGED faults BY <2>1 DEF Counted
  <2>2. CASE Fault BY <2>2, FaultCounted
  <2> QED BY <2>1, <2>2 DEF WriteDisk, NoFault
<1>3. spoilt' \subseteq spoilt \cup Irregular \cup {"failed"} BY DEF WriteDisk, Spoil
<1> QED BY <1>1, <1>2, <1>3 DEF Counted, Reasons

LEMMA CallingCounted ==
  ASSUME Counted, Calling
  PROVE  calls' \in 0 .. MaxCalls /\ UNCHANGED <<initialized, faults, losses>>
BY ConstantsAssumption DEF Counted, Calling

LEMMA CallersCounted ==
  ASSUME Counted, Callers PROVE Counted'
<1>1. CASE Initialize
  <2>1. UNCHANGED <<then, calls, losses>> /\ initialized' \in BOOLEAN
    BY <1>1 DEF Initialize, flush, bounds
  <2>2. faults' \in 0 .. MaxFaults
    <3>1. CASE UNCHANGED faults BY <3>1 DEF Counted
    <3>2. CASE Fault BY <3>2, FaultCounted
    <3> QED BY <1>1, <3>1, <3>2 DEF Initialize, NoFault
  <2>3. spoilt' \subseteq Reasons BY <1>1 DEF Initialize, Spoil, Counted, Reasons
  <2> QED BY <2>1, <2>2, <2>3 DEF Counted
<1>2. ASSUME NEW n \in Names, NEW mode, OpenFile(n, mode) PROVE Counted'
  <2>1. Calling /\ UNCHANGED flush BY <1>2 DEF OpenFile
  <2>2. spoilt' \subseteq Reasons BY <1>2 DEF OpenFile, Spoil, Counted, Reasons
  <2> QED BY <2>1, <2>2, CallingCounted DEF Counted, flush
<1>3. ASSUME Calling, UNCHANGED <<spoilt>>,
             then' \in {"flush", "close", "read", "directory", "delete"}
      PROVE  Counted'
  BY <1>3, CallingCounted DEF Counted
<1>4. ASSUME NEW i \in DOMAIN list
      PROVE  /\ \A len \in Lengths, v \in Payloads : WriteFile(i, len, v) => Counted'
             /\ \A p \in Positions : SetPosition(i, p) => Counted'
             /\ \A n \in Lengths : SetFileSize(i, n) => Counted'
             /\ Flush(i) \/ CloseFile(i) \/ ReadFile(i) \/ Delete(i) => Counted'
  <2>1. \A len \in Lengths, v \in Payloads : WriteFile(i, len, v) => Counted'
    BY <1>3 DEF WriteFile, flush, Counted
  <2>2. \A p \in Positions : SetPosition(i, p) => Counted'
    BY <1>3 DEF SetPosition, flush, Counted
  <2>3. \A n \in Lengths : SetFileSize(i, n) => Counted'
    BY <1>3 DEF SetFileSize, flush, Counted
  <2>4. Flush(i) \/ CloseFile(i) \/ ReadFile(i) \/ Delete(i) => Counted'
    BY <1>3 DEF Flush, CloseFile, ReadFile, Delete, Begin
  <2> QED BY <2>1, <2>2, <2>3, <2>4
<1>5. CASE FlushDirectory BY <1>3, <1>5 DEF FlushDirectory, Begin
<1> QED BY <1>1, <1>2, <1>4, <1>5 DEF Callers

LEMMA CountedInductive == Counted /\ [Next]_vars => Counted'
<1> SUFFICES ASSUME Counted, [Next]_vars PROVE Counted' OBVIOUS
<1>1. CASE Callers BY <1>1, CallersCounted
<1>2. CASE Enter
  <2>1. spoilt' \subseteq Reasons BY <1>2 DEF Enter, Spoil, Disorder, Counted, Reasons
  <2> QED BY <1>2, <2>1 DEF Enter, bounds, Counted
<1>3. CASE EmptyRegion BY <1>3 DEF EmptyRegion, bounds, Counted
<1>4. CASE NextRegion
  <2>1. spoilt' \subseteq spoilt \cup {"order"} BY <1>4 DEF NextRegion, Spoil, Disorder
  <2> QED BY <1>4, <2>1 DEF NextRegion, bounds, Counted, Reasons
<1>5. CASE WriteEdit \/ InvalidateImageDescription \/ WriteData \/ WriteFileDescription
  <2>1. \E next : WriteDisk(next)
    BY <1>5 DEF WriteEdit, InvalidateImageDescription, WriteData, WriteFileDescription
  <2>2. UNCHANGED <<initialized, then, calls, losses>>
    BY <1>5 DEF WriteEdit, InvalidateImageDescription, WriteData, WriteFileDescription, flush, bounds
  <2> QED BY <2>1, <2>2, WriteCounted DEF Counted
<1>6. CASE Finish
  <2>1. UNCHANGED <<initialized, then, calls, losses>> BY <1>6 DEF Finish, flush, bounds
  <2>2. CASE WriteDisk("return") BY <2>1, <2>2, WriteCounted DEF Counted
  <2>3. CASE UNCHANGED <<faults, spoilt>> BY <2>1, <2>3 DEF Counted
  <2> QED BY <1>6, <2>2, <2>3 DEF Finish, NoFault
<1>7. CASE Return BY <1>7 DEF Return, BeIdle, bounds, Counted
<1>8. CASE DeleteFile
  <2>1. UNCHANGED <<initialized, calls, losses>> BY <1>8 DEF DeleteFile, bounds
  <2>2. CASE WriteDisk("deleted") /\ UNCHANGED flush
    BY <2>1, <2>2, WriteCounted DEF Counted, flush
  <2>3. CASE BeIdle /\ NoFault /\ UNCHANGED spoilt BY <2>1, <2>3 DEF Counted, BeIdle, NoFault
  <2> QED BY <1>8, <2>2, <2>3 DEF DeleteFile
<1>9. CASE Unlink BY <1>9 DEF Unlink, BeIdle, bounds, Counted
<1>10. CASE PowerLoss
  <2>1. Irregular \subseteq Reasons BY DEF Irregular, Reasons
  <2>2. spoilt' \subseteq Reasons BY <1>10, <2>1 DEF PowerLoss, Spoil, Counted
  <2>3. losses' \in 0 .. MaxPowerLosses BY <1>10, ConstantsAssumption DEF PowerLoss, Counted
  <2> QED BY <1>10, <2>2, <2>3 DEF PowerLoss, BeIdle, Counted
<1>11. CASE UNCHANGED vars BY <1>11 DEF vars, flush, bounds, Counted
<1> QED BY <1>1, <1>2, <1>3, <1>4, <1>5, <1>6, <1>7, <1>8, <1>9, <1>10, <1>11 DEF Next, Step

(* The types of the variables: also after truncations of files whose       *)
(* length was taken for too long, failed writes and losses of power.       *)
THEOREM TypesKept == Spec => []TypeOK
<1>1. Typed /\ Counted => TypeOK
  <2> SUFFICES ASSUME Typed, Counted PROVE TypeOK OBVIOUS
  <2>1. media \in [Units -> Payloads \cup {Zero, Erased} \cup Description]
    BY DEF Typed, MediumTyped, Cells
  <2>2. ASSUME NEW k \in DOMAIN list
        PROVE  /\ list[k].desc \in Description \cup {NoDesc}
               /\ list[k].name \in Names \cup {NoName} /\ (list[k].open => list[k].name \in Names)
               /\ (list[k].addr = 0 <=> ~OnDisk(list[k]))
               /\ \A j \in DOMAIN list[k].regions : list[k].regions[j].len \in Nat
               /\ \A j \in DOMAIN list[k].text : list[k].text[j] \in Texts
    <3>1. TypedFile(list[k]) BY DEF Typed, TypedList
    <3>2. list[k].regions \in Seq(Pending) /\ list[k].text \in Seq(Texts)
      BY <3>1 DEF TypedFile, FileRecords
    <3>3. ASSUME NEW j \in DOMAIN list[k].regions PROVE list[k].regions[j].len \in Nat
      <4>1. list[k].regions[j] \in Pending BY <3>2
      <4> QED BY <4>1 DEF Pending
    <3>4. \A j \in DOMAIN list[k].text : list[k].text[j] \in Texts BY <3>2
    <3> QED BY <3>1, <3>3, <3>4 DEF TypedFile, FileRecords
  <2> QED BY <2>1, <2>2 DEF TypeOK, Typed, FlowTyped, Counted
<1>2. Spec => [](Typed /\ Counted)
  <2>1. Typed /\ Counted /\ [Next]_vars => (Typed /\ Counted)'
    BY TypedInductive, CountedInductive
  <2> QED BY <2>1, TypedInitially, PTL DEF Spec
<1> QED BY <1>1, <1>2, PTL
=============================================================================
