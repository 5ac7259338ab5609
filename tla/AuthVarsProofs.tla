--------------------------- MODULE AuthVarsProofs ---------------------------
(***************************************************************************)
(* The allocator of OpteeMem keeps its state well formed and implements    *)
(* the abstract heap under any sequence of calls, and every step of        *)
(* AuthVars is such a call: whatever is loaded, called, called back, freed *)
(* by the secure world or lost, no page belongs to two blocks.             *)
(***************************************************************************)
EXTENDS AuthVars, TLAPS

(* A header in place is that of an allocated block and stands on its first *)
(* page.                                                                   *)
HeadersStand ==
  \A p \in Page : header[p] # NoHeader => header[p] \in gcd /\ header[p].base = p

(* What the GCD has allocated lies in the region and does not overlap.     *)
GcdApart ==
  /\ \A b \in gcd : Heap!InPool(b)
  /\ \A b, c \in gcd : b # c => Heap!Disjoint(b, c)

NothingBefore == ~mapped => gcd = {}

MemInv == MemTypeOK /\ HeadersStand /\ GcdApart /\ NothingBefore

-----------------------------------------------------------------------------
(* Arithmetic.                                                             *)

(* The remainder of a counter is a counter value again.                    *)
LEMMA WrapRange ==
  ASSUME NEW x \in Nat
  PROVE  x % Wrap \in 0 .. (Wrap - 1)
BY WrapAssumption, SMT

(* Increments and decrements of one counter of the array keep its type.    *)
LEMMA CountersTyped ==
  ASSUME NEW f \in [Clients -> 0 .. (Wrap - 1)], NEW i \in Clients, NEW n \in Nat
  PROVE  /\ [f EXCEPT ![i] = (@ + n) % Wrap] \in [Clients -> 0 .. (Wrap - 1)]
         /\ [f EXCEPT ![i] = (@ + Wrap - (n % Wrap)) % Wrap]
              \in [Clients -> 0 .. (Wrap - 1)]
<1>1. f[i] \in 0 .. (Wrap - 1) OBVIOUS
<1>2. f[i] + n \in Nat BY <1>1, WrapAssumption
<1>3. n % Wrap \in 0 .. (Wrap - 1) BY WrapRange
<1>4. f[i] + Wrap - (n % Wrap) \in Nat BY <1>1, <1>3, WrapAssumption
<1>5. (f[i] + n) % Wrap \in 0 .. (Wrap - 1) BY <1>2, WrapRange
<1>6. (f[i] + Wrap - (n % Wrap)) % Wrap \in 0 .. (Wrap - 1) BY <1>4, WrapRange
<1> QED BY <1>5, <1>6

(* Wrapping around by one: the same with n = 1.                            *)
LEMMA CountDownTyped ==
  ASSUME NEW f \in [Clients -> 0 .. (Wrap - 1)], NEW i \in Clients
  PROVE  [f EXCEPT ![i] = (@ + Wrap - 1) % Wrap] \in [Clients -> 0 .. (Wrap - 1)]
<1>1. f[i] \in 0 .. (Wrap - 1) OBVIOUS
<1>2. f[i] + Wrap - 1 \in Nat BY <1>1, WrapAssumption
<1>3. (f[i] + Wrap - 1) % Wrap \in 0 .. (Wrap - 1) BY <1>2, WrapRange
<1> QED BY <1>3

-----------------------------------------------------------------------------
(* The steps of the allocator.                                             *)

(* A block the search finds.                                               *)
LEMMA FoundIsFree ==
  ASSUME NEW n \in 2 .. PoolPages, NEW b \in TopDown(n)
  PROVE  /\ b \in Block /\ b.pages = n /\ b.base \in Page
         /\ mapped /\ Heap!InPool(b)
         /\ \A c \in gcd : Heap!Disjoint(b, c)
BY DEF TopDown, Fits, Block, Heap!Block, Page

(* A block overlaps itself: its base page is one of its pages.             *)
LEMMA OwnPages ==
  ASSUME NEW b \in Block
  PROVE  /\ b.base \in Pages(b) /\ b.base \in Page
         /\ b.pages \in Nat
         /\ ~ Heap!Disjoint(b, b)
BY PoolAssumption DEF Block, Heap!Block, Pages, Heap!Pages, Heap!Disjoint, Page

(* An allocation: one more block, apart from the others.                   *)
LEMMA AllocatedKeeps ==
  ASSUME MemInv, NEW i \in Clients, NEW n \in 2 .. PoolPages, NEW b \in TopDown(n),
         Allocated(i, n, b)
  PROVE  MemInv' /\ Heap!HeapNext
<1> USE DEF MemInv
<1>1. /\ b \in Block /\ b.pages = n /\ b.base \in Page /\ mapped /\ Heap!InPool(b)
      /\ \A c \in gcd : Heap!Disjoint(b, c)
  BY FoundIsFree
<1>2. /\ gcd' = gcd \cup {b}
      /\ header' = [header EXCEPT ![b.base] = b]
      /\ fenced' = fenced \ Pages(b)
      /\ count' = [count EXCEPT ![i] = (@ + 1) % Wrap]
      /\ size' = [size EXCEPT ![i] = (@ + n) % Wrap]
      /\ mapped' = mapped /\ stray' = stray /\ stuck' = stuck
  BY DEF Allocated
<1>3. header \in [Page -> Block \cup {NoHeader}] BY DEF MemTypeOK
<1>4. ~ Heap!Disjoint(b, b) BY <1>1, OwnPages
<1>5. b \notin gcd BY <1>1, <1>4
<1>6. b # NoHeader BY <1>1, NoHeaderAssumption
<1>7. header[b.base] = NoHeader
  <2> SUFFICES ASSUME header[b.base] # NoHeader PROVE FALSE
    OBVIOUS
  <2> DEFINE c == header[b.base]
  <2>1. c \in gcd /\ c.base = b.base BY <1>1 DEF HeadersStand
  <2>2. c \in Block BY <2>1 DEF MemTypeOK
  <2>3. b.base \in Pages(c) BY <2>1, <2>2, OwnPages
  <2>4. b.base \in Pages(b) BY <1>1, OwnPages
  <2>5. ~ Heap!Disjoint(b, c) BY <2>3, <2>4 DEF Heap!Disjoint, Pages
  <2> QED BY <2>1, <2>5, <1>1
<1>8. MemTypeOK'
  <2> n \in Nat BY PoolAssumption
  <2>1. gcd' \subseteq Block BY <1>1, <1>2 DEF MemTypeOK
  <2>2. header' \in [Page -> Block \cup {NoHeader}] BY <1>1, <1>2, <1>3
  <2>3. count' \in [Clients -> 0 .. (Wrap - 1)] BY <1>2, CountersTyped DEF MemTypeOK
  <2>4. size' \in [Clients -> 0 .. (Wrap - 1)] BY <1>2, CountersTyped DEF MemTypeOK
  <2> QED BY <1>2, <2>1, <2>2, <2>3, <2>4 DEF MemTypeOK
<1>9. HeadersStand' BY <1>1, <1>2, <1>3 DEF HeadersStand
<1>10. \A c, d : Heap!Disjoint(c, d) <=> Heap!Disjoint(d, c) BY DEF Heap!Disjoint
<1>11. GcdApart'
  <2>1. \A c \in gcd' : Heap!InPool(c) BY <1>1, <1>2 DEF GcdApart
  <2>2. \A c, d \in gcd' : c # d => Heap!Disjoint(c, d)
    BY <1>1, <1>2, <1>10 DEF GcdApart
  <2> QED BY <2>1, <2>2 DEF GcdApart
<1>12. NothingBefore' BY <1>1, <1>2 DEF NothingBefore
<1>13. Live' = Live \cup {b}
  <2>1. \A p \in Page : header'[p] = IF p = b.base THEN b ELSE header[p]
    BY <1>2, <1>3
  <2> QED BY <2>1, <1>1, <1>6, <1>7 DEF Live
<1>14. Live \subseteq gcd BY DEF Live, HeadersStand
<1>15. Heap!Grant(b) BY <1>1, <1>13, <1>14 DEF Heap!Grant, Block
<1> QED BY <1>5, <1>8, <1>9, <1>11, <1>12, <1>13, <1>14, <1>15 DEF Heap!HeapNext

(* The fencing of a free wipes the header of its block and of no other.    *)
LEMMA FencedKeeps ==
  ASSUME MemInv, NEW base \in Page, HeaderAt(base) # NoHeader, Fenced(HeaderAt(base))
  PROVE  /\ HeaderAt(base) \in gcd /\ HeaderAt(base) \in Live
         /\ HeaderAt(base).pages \in Nat
         /\ \A p \in Page : header'[p] = IF p = base THEN NoHeader ELSE header[p]
         /\ header' \in [Page -> Block \cup {NoHeader}]
         /\ fenced' \subseteq Page
         /\ Live' = Live \ {HeaderAt(base)}
<1> USE DEF MemInv
<1> DEFINE b == HeaderAt(base)
<1>1. b = header[base] BY DEF HeaderAt
<1>2. b \in gcd /\ b.base = base BY <1>1 DEF HeadersStand
<1>3. b \in Block /\ Heap!InPool(b) BY <1>2 DEF MemTypeOK, GcdApart
<1>4. b \in Live BY <1>1 DEF Live
<1>5. header \in [Page -> Block \cup {NoHeader}] BY DEF MemTypeOK
<1>6. \A p \in Page : p \in Pages(b) /\ header[p] # NoHeader => p = base
  <2> SUFFICES ASSUME NEW p \in Page, p \in Pages(b), header[p] # NoHeader
               PROVE  p = base
    OBVIOUS
  <2>1. header[p] \in gcd /\ header[p].base = p BY DEF HeadersStand
  <2>2. header[p] \in Block BY <2>1 DEF MemTypeOK
  <2>3. p \in Pages(header[p]) BY <2>1, <2>2, OwnPages
  <2>4. ~ Heap!Disjoint(b, header[p]) BY <2>3 DEF Heap!Disjoint, Pages
  <2>5. header[p] = b BY <2>1, <2>4, <1>2 DEF GcdApart
  <2> QED BY <2>1, <2>5, <1>2
<1>7. /\ fenced' = fenced \cup Pages(b)
      /\ header' = [p \in Page |-> IF p \in Pages(b) THEN NoHeader ELSE header[p]]
  BY DEF Fenced
<1>8. base \in Pages(b) BY <1>2, <1>3, OwnPages
<1>9. \A p \in Page : header'[p] = IF p = base THEN NoHeader ELSE header[p]
  BY <1>6, <1>7, <1>8
<1>10. header' \in [Page -> Block \cup {NoHeader}] BY <1>5, <1>7
<1>11. Pages(b) \subseteq Page
  BY <1>3, PoolAssumption DEF Heap!InPool, Pages, Heap!Pages, Page, Block, Heap!Block
<1>12. fenced' \subseteq Page BY <1>7, <1>11 DEF MemTypeOK
<1>13. b.pages \in Nat BY <1>3, OwnPages
<1>14. \A p \in Page : header[p] = b /\ b # NoHeader => p = base
  BY <1>2 DEF HeadersStand
<1>15. Live' = Live \ {b} BY <1>1, <1>9, <1>14 DEF Live
<1> QED BY <1>2, <1>4, <1>9, <1>10, <1>12, <1>13, <1>15

(* A free: the block is retired, whether or not the GCD takes it back.     *)
LEMMA FreedKeeps ==
  ASSUME MemInv, NEW base \in Page,
         FreeFails(base) \/ \E i \in Clients : Freed(i, base)
  PROVE  MemInv' /\ Heap!HeapNext
<1> USE DEF MemInv
<1> DEFINE b == HeaderAt(base)
<1>1. b # NoHeader /\ Fenced(b) BY DEF FreeFails, Freed
<1>2. /\ b \in gcd /\ b \in Live /\ b.pages \in Nat
      /\ \A p \in Page : header'[p] = IF p = base THEN NoHeader ELSE header[p]
      /\ header' \in [Page -> Block \cup {NoHeader}]
      /\ fenced' \subseteq Page
      /\ Live' = Live \ {b}
  BY <1>1, FencedKeeps
<1>3. mapped' = mapped /\ stray' = stray /\ stuck' \in Nat
  BY DEF FreeFails, Freed, MemTypeOK
<1>4. gcd' = gcd \/ gcd' = gcd \ {b} BY DEF FreeFails, Freed
<1>5. \A c \in gcd : c # b => c \in gcd' BY <1>4
<1>6. gcd' \subseteq gcd BY <1>4
<1>7. count' \in [Clients -> 0 .. (Wrap - 1)] /\ size' \in [Clients -> 0 .. (Wrap - 1)]
  <2>1. CASE FreeFails(base) BY <2>1 DEF FreeFails, MemTypeOK
  <2>2. CASE \E i \in Clients : Freed(i, base)
    <3>1. PICK i \in Clients : Freed(i, base) BY <2>2
    <3>2. /\ count' = [count EXCEPT ![i] = (@ + Wrap - 1) % Wrap]
          /\ size' = [size EXCEPT ![i] = (@ + Wrap - (b.pages % Wrap)) % Wrap]
      BY <3>1 DEF Freed, Uncount
    <3>3. count \in [Clients -> 0 .. (Wrap - 1)] /\ size \in [Clients -> 0 .. (Wrap - 1)]
      BY DEF MemTypeOK
    <3>4. count' \in [Clients -> 0 .. (Wrap - 1)] BY <3>2, <3>3, CountDownTyped
    <3>5. size' \in [Clients -> 0 .. (Wrap - 1)] BY <3>2, <3>3, <1>2, CountersTyped
    <3> QED BY <3>4, <3>5
  <2> QED BY <2>1, <2>2
<1>8. MemTypeOK' BY <1>2, <1>3, <1>6, <1>7 DEF MemTypeOK
<1>9. HeadersStand'
  <2>1. \A p \in Page : header[p] = b => p = base
    BY <1>1 DEF HeadersStand, HeaderAt
  <2> QED BY <1>2, <1>5, <2>1 DEF HeadersStand
<1>10. GcdApart' BY <1>6 DEF GcdApart
<1>11. NothingBefore' BY <1>3, <1>6 DEF NothingBefore
<1>12. Heap!Retire(b) BY <1>2 DEF Heap!Retire
<1>13. b \in Live \ Live' BY <1>2
<1> QED BY <1>8, <1>9, <1>10, <1>11, <1>12, <1>13 DEF Heap!HeapNext

(* Steps that leave the headers alone, or find none.                       *)
LEMMA OthersKeep ==
  ASSUME MemInv,
         \/ Initialized \/ InitializeFails
         \/ \E n \in 2 .. PoolPages : NotAllocated(n)
         \/ \E base \in Page : Refused(base)
         \/ \E b \in Live : Overrun(b)
         \/ UNCHANGED memVars
  PROVE  MemInv' /\ UNCHANGED Live
<1> USE DEF MemInv
<1>1. CASE UNCHANGED memVars
  <2>1. /\ mapped' = mapped /\ gcd' = gcd /\ header' = header /\ fenced' = fenced
        /\ count' = count /\ size' = size /\ stray' = stray /\ stuck' = stuck
    BY <1>1 DEF memVars
  <2>2. MemTypeOK' BY <2>1 DEF MemTypeOK
  <2>3. HeadersStand' /\ GcdApart' /\ NothingBefore'
    BY <2>1 DEF HeadersStand, GcdApart, NothingBefore
  <2> QED BY <2>1, <2>2, <2>3 DEF Live
<1>2. CASE Initialized /\ ~ UNCHANGED memVars
  <2>1. /\ ~mapped /\ mapped' = TRUE /\ fenced' = Page
        /\ header' = [p \in Page |-> NoHeader]
        /\ gcd' = gcd \/ gcd' = Region
        /\ count' = count /\ size' = size /\ stray' = stray /\ stuck' = stuck
    BY <1>2 DEF Initialized
  <2>2. gcd = {} BY <2>1 DEF NothingBefore
  <2>3. Live = {} BY <2>2 DEF Live, HeadersStand
  <2>4. Live' = {} BY <2>1 DEF Live
  <2>5. gcd' \subseteq Region BY <2>1, <2>2
  <2>6. MemTypeOK' BY <2>1, <2>5 DEF MemTypeOK, Region
  <2>7. HeadersStand' /\ NothingBefore' BY <2>1 DEF HeadersStand, NothingBefore
  <2>8. /\ \A b \in Region : Heap!InPool(b)
        /\ \A b, c \in Region : b = c
    BY PoolAssumption DEF Region, Heap!InPool, Block, Heap!Block
  <2>9. GcdApart' BY <2>5, <2>8 DEF GcdApart
  <2> QED BY <2>3, <2>4, <2>6, <2>7, <2>9
<1>3. CASE InitializeFails
  <2>1. /\ ~mapped /\ mapped' \in BOOLEAN
        /\ gcd' = gcd /\ header' = header /\ fenced' = fenced
        /\ count' = count /\ size' = size /\ stray' = stray /\ stuck' = stuck
    BY <1>3 DEF InitializeFails
  <2>2. gcd = {} BY <2>1 DEF NothingBefore
  <2>3. MemTypeOK' BY <2>1 DEF MemTypeOK
  <2>4. HeadersStand' /\ GcdApart' /\ NothingBefore'
    BY <2>1, <2>2 DEF HeadersStand, GcdApart, NothingBefore
  <2> QED BY <2>1, <2>3, <2>4 DEF Live
<1>4. CASE \E n \in 2 .. PoolPages : NotAllocated(n) /\ ~ UNCHANGED memVars
  <2>1. PICK n \in 2 .. PoolPages : NotAllocated(n) /\ ~ UNCHANGED memVars BY <1>4
  <2>2. PICK b \in TopDown(n) :
          /\ gcd' = gcd \cup {b} /\ stray' = stray + 1
          /\ mapped' = mapped /\ header' = header /\ fenced' = fenced
          /\ count' = count /\ size' = size /\ stuck' = stuck
    BY <2>1 DEF NotAllocated
  <2>3. /\ b \in Block /\ mapped /\ Heap!InPool(b)
        /\ \A c \in gcd : Heap!Disjoint(b, c)
    BY FoundIsFree
  <2>4. \A c, d : Heap!Disjoint(c, d) <=> Heap!Disjoint(d, c) BY DEF Heap!Disjoint
  <2>5. gcd' \subseteq Block /\ stray' \in Nat BY <2>2, <2>3 DEF MemTypeOK
  <2>6. MemTypeOK' BY <2>2, <2>5 DEF MemTypeOK
  <2>7. HeadersStand' /\ NothingBefore' BY <2>2, <2>3 DEF HeadersStand, NothingBefore
  <2>8. GcdApart' BY <2>2, <2>3, <2>4 DEF GcdApart
  <2> QED BY <2>2, <2>6, <2>7, <2>8 DEF Live
<1>5. CASE \E base \in Page : Refused(base)
  BY <1>1, <1>5 DEF Refused
<1>6. CASE \E b \in Live : Overrun(b)
  <2>1. /\ mapped' = mapped /\ gcd' = gcd /\ header' = header /\ fenced' \subseteq fenced
        /\ count' = count /\ size' = size /\ stray' = stray /\ stuck' = stuck
    BY <1>6 DEF Overrun
  <2>2. MemTypeOK' BY <2>1 DEF MemTypeOK
  <2>3. HeadersStand' /\ GcdApart' /\ NothingBefore'
    BY <2>1 DEF HeadersStand, GcdApart, NothingBefore
  <2> QED BY <2>1, <2>2, <2>3 DEF Live
<1> QED BY <1>1, <1>2, <1>3, <1>4, <1>5, <1>6

(* Every step of the allocator keeps its invariant and is one of the heap. *)
LEMMA MemStep ==
  MemInv /\ [MemNext]_memVars => MemInv' /\ [Heap!HeapNext]_Live
<1> SUFFICES ASSUME MemInv, [MemNext]_memVars
             PROVE  MemInv' /\ (Heap!HeapNext \/ UNCHANGED Live)
  BY DEF Live
<1>1. CASE \E n \in 2 .. PoolPages :
             \E i \in Clients, b \in TopDown(n) : Allocated(i, n, b)
  BY <1>1, AllocatedKeeps
<1>2. CASE \E base \in Page : FreeFails(base) \/ \E i \in Clients : Freed(i, base)
  BY <1>2, FreedKeeps
<1>3. CASE \/ Initialized \/ InitializeFails
           \/ \E n \in 2 .. PoolPages : NotAllocated(n)
           \/ \E base \in Page : Refused(base)
           \/ \E b \in Live : Overrun(b)
           \/ UNCHANGED memVars
  BY <1>3, OthersKeep
<1> QED BY <1>1, <1>2, <1>3 DEF MemNext

LEMMA MemStart == MemInit => MemInv /\ Heap!HeapInit
<1> SUFFICES ASSUME MemInit PROVE MemInv /\ Heap!HeapInit
  OBVIOUS
<1>1. 0 \in 0 .. (Wrap - 1) BY WrapAssumption
<1>2. MemTypeOK BY <1>1 DEF MemInit, MemTypeOK
<1>3. HeadersStand /\ GcdApart /\ NothingBefore
  BY DEF MemInit, HeadersStand, GcdApart, NothingBefore
<1>4. Live = {} BY DEF MemInit, Live
<1> QED BY <1>2, <1>3, <1>4 DEF MemInv, Heap!HeapInit

(* The allocator under any calls implements the abstract heap              *)
(* (OpteeClientMem.c): it grants only free pages of the pool and takes     *)
(* back one block at a time.                                               *)
THEOREM AllocatorIsHeap == MemSpec => HeapSpec
<1>1. MemInit => MemInv /\ Heap!HeapInit BY MemStart
<1>2. MemInv /\ [MemNext]_memVars => MemInv' /\ [Heap!HeapNext]_Live BY MemStep
<1> QED BY <1>1, <1>2, PTL DEF MemSpec, HeapSpec, Heap!Spec

(* And its variables keep their types: a counter never leaves its width.   *)
THEOREM AllocatorTyped == MemSpec => []MemTypeOK
<1>1. MemInit => MemInv BY MemStart
<1>2. MemInv /\ [MemNext]_memVars => MemInv' BY MemStep
<1>3. MemInv => MemTypeOK BY DEF MemInv
<1> QED BY <1>1, <1>2, <1>3, PTL DEF MemSpec

-----------------------------------------------------------------------------
-----------------------------------------------------------------------------
(* The drivers, the callbacks and the secure world use the allocator only  *)
(* through its operations.                                                 *)

LEMMA ClientIsClient == \A req : Client(req) \in Clients
BY ClientsAssumption DEF Client

(* The calls of the allocator of an initialised instance.                  *)
Requested ==
  \E n \in Nat \ {0, 1} :
    NotAllocated(n) \/ \E i \in Clients, b \in TopDown(n) : Allocated(i, n, b)
Returned ==
  \E a : Refused(a) \/ FreeFails(a) \/ \E i \in Clients : Freed(i, a)
Regular == Requested \/ Returned \/ UNCHANGED memVars

(* A request for any number of pages is a step of the allocator, one the   *)
(* pool can never meet included; so is a free of any address, one that is  *)
(* no page included.                                                       *)
LEMMA RegularIsMemStep == Regular => [MemNext]_memVars
<1>1. ASSUME Requested PROVE [MemNext]_memVars
  <2>1. PICK n \in Nat \ {0, 1} :
          NotAllocated(n) \/ \E i \in Clients, b \in TopDown(n) : Allocated(i, n, b)
    BY <1>1 DEF Requested
  <2>2. CASE n \in 2 .. PoolPages BY <2>1, <2>2 DEF MemNext
  <2>3. CASE n \notin 2 .. PoolPages
    <3>1. n > PoolPages BY <2>3, PoolAssumption
    <3>2. Fits(n) = {} BY <3>1, PoolAssumption DEF Fits, Heap!InPool, Page
    <3>3. TopDown(n) = {} BY <3>2 DEF TopDown
    <3>4. UNCHANGED memVars BY <2>1, <3>3 DEF NotAllocated
    <3> QED BY <3>4
  <2> QED BY <2>2, <2>3
<1>2. ASSUME Returned PROVE [MemNext]_memVars
  <2>1. PICK a : Refused(a) \/ FreeFails(a) \/ \E i \in Clients : Freed(i, a)
    BY <1>2 DEF Returned
  <2>2. CASE a \in Page BY <2>1, <2>2 DEF MemNext
  <2>3. CASE a \notin Page
    <3>1. HeaderAt(a) = NoHeader BY <2>3 DEF HeaderAt
    <3> QED BY <2>1, <3>1 DEF Refused, FreeFails, Freed
  <2> QED BY <2>2, <2>3
<1> QED BY <1>1, <1>2 DEF Regular

(* What each step of the model is to the allocator, and what it does to    *)
(* the record of abuse.                                                    *)
StepKind ==
  \/ Regular /\ abused' = abused
  \/ Initialized /\ abused' = abused
  \/ InitializeFails /\ abused' = (abused \/ mapped')
  \/ (\E b \in Live : Overrun(b)) /\ abused' = TRUE

LEMMA StepsAreKinds == [Next]_vars => StepKind
<1> SUFFICES ASSUME [Next]_vars PROVE StepKind
  OBVIOUS
<1> USE DEF StepKind
<1> MsgPages \in Nat \ {0, 1} /\ BufferPages \in Nat \ {0, 1}
  BY DEF MsgPages, BufferPages
<1> "av" \in Clients /\ "tpm" \in Clients BY ClientsAssumption
<1>1. CASE UNCHANGED vars BY <1>1 DEF vars, histVars, Regular
<1>2. CASE SendMessage
  BY <1>2, ClientIsClient DEF SendMessage, Regular, Requested
<1>3. CASE FreeMessage
  <2>1. Returned BY <1>3, ClientIsClient DEF FreeMessage, Returned
  <2> QED BY <1>3, <2>1 DEF FreeMessage, Regular, histVars
<1>4. CASE RpcAlloc
  BY <1>4, ClientIsClient DEF RpcAlloc, Regular, Requested
<1>5. CASE RpcFree
  <2>1. Returned BY <1>5, ClientIsClient DEF RpcFree, Returned
  <2> QED BY <1>5, <2>1 DEF RpcFree, Regular, histVars
<1>6. CASE TpmLoad
  BY <1>6 DEF TpmLoad, LibraryInitialized
<1>7. CASE TpmReleases
  <2>1. Returned BY <1>7 DEF TpmReleases, Returned
  <2> QED BY <1>7, <2>1 DEF TpmReleases, Regular, histVars
<1>8. ASSUME NEW s, NEW by, SubmitStarts(s, by) PROVE Requested
  BY <1>8 DEF SubmitStarts, Requested
<1>9. SubmitStarves => Requested
  BY DEF SubmitStarves, Requested
<1>10. CASE TpmCalls
  BY <1>8, <1>9, <1>10 DEF TpmCalls, Regular
<1>11. CASE HookMeasures
  BY <1>8, <1>9, <1>11 DEF HookMeasures, Regular
<1>12. CASE CallbackSubmits
  BY <1>8, <1>9, <1>12 DEF CallbackSubmits, Regular
<1>13. CASE Load
  BY <1>13 DEF Load, LibraryInitialized
<1>14. CASE AllocateBuffers
  BY <1>14 DEF AllocateBuffers, Regular, Requested
<1>15. CASE ReleaseBuffers
  <2>1. Released(paramMem) \/ Released(resultMem) BY <1>15 DEF ReleaseBuffers
  <2>2. Returned BY <2>1 DEF Released, Returned
  <2> QED BY <1>15, <2>2 DEF ReleaseBuffers, Regular, histVars
<1>16. CASE MemoryOverrun
  BY <1>16 DEF MemoryOverrun
<1>17. CASE Answer \/ TpmReturns
  BY <1>17 DEF Answer, TpmReturns, Regular, histVars
<1>18. CASE HookReads \/ HookHasRead
  BY <1>18 DEF HookReads, HookHasRead, Regular, histVars
<1>19. CASE CallbackReturns \/ CallbackCalls
  BY <1>19 DEF CallbackReturns, CallbackCalls, Regular, histVars
<1>20. ASSUME NEW stage, Returning(stage) PROVE UNCHANGED memVars /\ abused' = abused
  BY <1>20 DEF Returning
<1>21. CASE SessionOpened \/ Probed \/ EnableRead
  BY <1>20, <1>21 DEF SessionOpened, Probed, EnableRead, Regular
<1>22. CASE VariablesSet
  BY <1>20, <1>22 DEF VariablesSet, StageSet, Regular
<1>23. CASE CallerReturns \/ Signalled \/ SessionClosed
  BY <1>20, <1>23 DEF CallerReturns, Signalled, SessionClosed, Regular
<1>24. CASE StageBegins \/ Publish
  BY <1>24 DEF StageBegins, Publish, Regular, histVars
<1>25. CASE CallerCalls \/ ExitBootServices
  BY <1>25 DEF CallerCalls, ExitBootServices, Regular, histVars
<1> QED
  BY <1>1, <1>2, <1>3, <1>4, <1>5, <1>6, <1>7, <1>10, <1>11, <1>12, <1>13, <1>14,
     <1>15, <1>16, <1>17, <1>18, <1>19, <1>21, <1>22, <1>23, <1>24, <1>25
  DEF Next, Progress

LEMMA StepIsMemStep == [Next]_vars => [MemNext]_memVars
<1>1. Initialized \/ InitializeFails \/ (\E b \in Live : Overrun(b)) => MemNext
  BY DEF MemNext
<1> QED BY <1>1, StepsAreKinds, RegularIsMemStep DEF StepKind

(* The two drivers, timer callbacks and the secure world, with every       *)
(* failure, use the shared memory as one allocator under legal calls.      *)
THEOREM UsesAllocator == Spec => MemSpec
<1>1. Init => MemInit BY DEF Init
<1>2. [Next]_vars => [MemNext]_memVars BY StepIsMemStep
<1> QED BY <1>1, <1>2, PTL DEF Spec, MemSpec

(* Hence no page ever belongs to two blocks held by the drivers, the calls *)
(* and the secure world, on any interleaving and failure.                  *)
THEOREM SharedMemoryIsHeap == Spec => HeapSpec
BY UsesAllocator, AllocatorIsHeap

-----------------------------------------------------------------------------
(* The fence.  Unless somebody overran a block or the first instance gave  *)
(* up between adding the region and fencing it, whatever is not allocated  *)
(* is fenced, so that no allocation finds a broken fence.                  *)

FenceStands ==
  ~abused =>
    /\ stray = 0
    /\ mapped => \A p \in Page : p \in fenced \/ \E b \in gcd : p \in Pages(b)

FenceInv == MemInv /\ FenceStands

LEMMA FenceStep == FenceInv /\ [Next]_vars => FenceInv'
<1> SUFFICES ASSUME FenceInv, [Next]_vars PROVE FenceInv'
  OBVIOUS
<1> USE DEF FenceInv
<1>1. MemInv' BY StepIsMemStep, MemStep
<1>2. StepKind BY StepsAreKinds
<1>3. \A n \in Nat : \A b \in TopDown(n) :
        mapped /\ \A p \in Pages(b) : p \in Page /\ \A c \in gcd : p \notin Pages(c)
  <2> SUFFICES ASSUME NEW n \in Nat, NEW b \in TopDown(n)
               PROVE  /\ mapped
                      /\ \A p \in Pages(b) : p \in Page /\ \A c \in gcd : p \notin Pages(c)
    OBVIOUS
  <2>1. /\ b.base \in Page /\ b.pages = n /\ mapped /\ Heap!InPool(b)
        /\ \A c \in gcd : Heap!Disjoint(b, c)
    BY DEF TopDown, Fits
  <2>2. \A p \in Pages(b) : p \in Page
    BY <2>1, PoolAssumption DEF Heap!InPool, Pages, Heap!Pages, Page
  <2>3. \A c \in gcd : Pages(b) \cap Pages(c) = {}
    BY <2>1 DEF Heap!Disjoint, Pages
  <2> QED BY <2>1, <2>2, <2>3
<1>4. ASSUME Requested, abused' = abused PROVE FenceStands'
  <2>1. PICK n \in Nat \ {0, 1} :
          NotAllocated(n) \/ \E i \in Clients, b \in TopDown(n) : Allocated(i, n, b)
    BY <1>4 DEF Requested
  <2>2. CASE UNCHANGED memVars BY <2>2, <1>4 DEF memVars, FenceStands
  <2>3. CASE NotAllocated(n) /\ ~ UNCHANGED memVars
    <3>1. PICK b \in TopDown(n) : ~ (Pages(b) \subseteq fenced)
      BY <2>3 DEF NotAllocated
    <3>2. abused BY <3>1, <1>3 DEF FenceStands
    <3> QED BY <3>2, <1>4 DEF FenceStands
  <2>4. CASE \E i \in Clients, b \in TopDown(n) : Allocated(i, n, b)
    <3>1. PICK b \in TopDown(n) :
            /\ gcd' = gcd \cup {b} /\ fenced' = fenced \ Pages(b)
            /\ mapped' = mapped /\ stray' = stray
      BY <2>4 DEF Allocated
    <3> QED BY <3>1, <1>4 DEF FenceStands
  <2> QED BY <2>1, <2>2, <2>3, <2>4
<1>5. ASSUME Returned, abused' = abused PROVE FenceStands'
  <2>1. PICK a : Refused(a) \/ FreeFails(a) \/ \E i \in Clients : Freed(i, a)
    BY <1>5 DEF Returned
  <2>2. CASE Refused(a) BY <2>2, <1>5 DEF Refused, memVars, FenceStands
  <2>3. CASE FreeFails(a)
    <3>1. /\ gcd' = gcd /\ fenced' = fenced \cup Pages(HeaderAt(a))
          /\ mapped' = mapped /\ stray' = stray
      BY <2>3 DEF FreeFails, Fenced
    <3> QED BY <3>1, <1>5 DEF FenceStands
  <2>4. CASE \E i \in Clients : Freed(i, a)
    <3>1. /\ gcd' = gcd \ {HeaderAt(a)} /\ fenced' = fenced \cup Pages(HeaderAt(a))
          /\ mapped' = mapped /\ stray' = stray
      BY <2>4 DEF Freed, Fenced
    <3> QED BY <3>1, <1>5 DEF FenceStands
  <2> QED BY <2>1, <2>2, <2>3, <2>4
<1>6. ASSUME UNCHANGED memVars, abused' = abused PROVE FenceStands'
  BY <1>6 DEF memVars, FenceStands
<1>7. ASSUME Initialized, abused' = abused PROVE FenceStands'
  <2>1. CASE UNCHANGED memVars BY <2>1, <1>6, <1>7
  <2>2. CASE ~ UNCHANGED memVars
    <3>1. fenced' = Page /\ stray' = stray BY <1>7, <2>2 DEF Initialized
    <3> QED BY <3>1, <1>7 DEF FenceStands, Page
  <2> QED BY <2>1, <2>2
<1>8. ASSUME InitializeFails, abused' = (abused \/ mapped') PROVE FenceStands'
  <2>1. stray' = stray BY <1>8 DEF InitializeFails
  <2>2. ~abused' => ~abused /\ ~mapped' BY <1>8
  <2> QED BY <2>1, <2>2 DEF FenceStands
<1>9. ASSUME abused' = TRUE PROVE FenceStands'
  BY <1>9 DEF FenceStands
<1> QED BY <1>1, <1>2, <1>4, <1>5, <1>6, <1>7, <1>8, <1>9 DEF StepKind, Regular

(* The overflow assertion of InternalMemAlloc never accuses a user of the  *)
(* memory who kept within his block, whatever the drivers, the callbacks   *)
(* and the secure world allocate and free, and whatever fails.             *)
THEOREM NoFalseAccusation == Spec => []NoFalseOverflow
<1>1. Init => FenceInv
  <2>1. Init => MemInv BY MemStart DEF Init
  <2>2. Init => FenceStands BY DEF Init, MemInit, FenceStands
  <2> QED BY <2>1, <2>2 DEF FenceInv
<1>2. FenceInv /\ [Next]_vars => FenceInv' BY FenceStep
<1>3. FenceInv => NoFalseOverflow BY DEF FenceInv, FenceStands, NoFalseOverflow
<1> QED BY <1>1, <1>2, <1>3, PTL DEF Spec

=============================================================================
