------------------------------ MODULE OpteeMem ------------------------------
(***************************************************************************)
(* OpteeClientMem.c: the allocator of the memory shared with OP-TEE.  The  *)
(* space is a reserved region of the GCD map; a block is a page that ends  *)
(* in a header and the data pages behind it, and memory that belongs to no *)
(* block holds the fence value 0xCC.  Every client is an instance of the   *)
(* library in a driver of its own: the counters are per instance, the      *)
(* space and what it holds are one.                                        *)
(*                                                                         *)
(* Pages are the unit: GCD blocks are page aligned and the rest of a       *)
(* block's last page can start no other block.                             *)
(***************************************************************************)
EXTENDS Naturals, FiniteSets

CONSTANTS
  PoolPages,  \* pages of the shared memory behind the one that is reserved
  Clients,    \* the instances of the library
  Wrap,       \* the counters are unsigned: arithmetic is modulo Wrap (2^64)
  NoHeader    \* what a page without a valid header signature reads as

ASSUME PoolAssumption == PoolPages \in Nat
ASSUME WrapAssumption == Wrap \in Nat \ {0}

VARIABLES
  mapped,     \* the GCD knows the region as reserved memory
  gcd,        \* the blocks allocated in the GCD memory space map
  header,     \* the header at the end of each page
  fenced,     \* the pages that hold the fence value
  count,      \* mSharedMemAllocationCount of each instance
  size,       \* mSharedMemAllocSize of each instance, in pages
  stray,      \* history: blocks abandoned because their fence was broken
  stuck       \* history: blocks the GCD did not take back

memVars == <<mapped, gcd, header, fenced, count, size, stray, stuck>>

Page == 1 .. PoolPages

\* The heap the clients see: the blocks whose header is in place.
Live == {header[p] : p \in {q \in Page : header[q] # NoHeader}}
Heap == INSTANCE SharedHeap WITH held <- Live
Block == Heap!Block
Pages(b) == Heap!Pages(b)

ASSUME NoHeaderAssumption == NoHeader \notin Block

HeapSpec == Heap!Spec

MemTypeOK ==
  /\ mapped \in BOOLEAN
  /\ gcd \subseteq Block
  /\ header \in [Page -> Block \cup {NoHeader}]
  /\ fenced \subseteq Page
  /\ count \in [Clients -> 0 .. (Wrap - 1)]
  /\ size \in [Clients -> 0 .. (Wrap - 1)]
  /\ stray \in Nat
  /\ stuck \in Nat

MemInit ==
  /\ mapped = FALSE
  /\ gcd = {}
  /\ header = [p \in Page |-> NoHeader]
  /\ fenced = {}
  /\ count = [c \in Clients |-> 0]
  /\ size = [c \in Clients |-> 0]
  /\ stray = 0
  /\ stuck = 0

---------------------------------------------------------------------------
(* OpteeClientMemInit: the first instance adds the region and fences it,   *)
(* later ones find it in the GCD map.                                      *)

\* A later instance that fences the region again.
InitializedAgain ==
  /\ mapped' = TRUE
  /\ fenced' = Page
  /\ header' = [p \in Page |-> NoHeader]
  /\ UNCHANGED <<gcd, count, size, stray, stuck>>

\* The region as one block of the GCD.
Region == {b \in Block : b.base = 1 /\ b.pages = PoolPages}

\* To be fenced the region is allocated; that giving it back failed is not
\* noticed (GcdSharedMemoryInit tests the status of an earlier call).
Initialized ==
  \/ /\ ~mapped
     /\ mapped' = TRUE
     /\ fenced' = Page
     /\ header' = [p \in Page |-> NoHeader]
     /\ gcd' = gcd \/ gcd' = Region
     /\ UNCHANGED <<count, size, stray, stuck>>
  \/ mapped /\ UNCHANGED memVars

\* AddMemorySpace fails, or it succeeds and the region cannot be taken for
\* fencing: the next instance finds it in the map and does not fence it.
InitializeFails ==
  /\ ~mapped
  /\ mapped' \in BOOLEAN
  /\ UNCHANGED <<gcd, header, fenced, count, size, stray, stuck>>

---------------------------------------------------------------------------
(* InternalMemAlloc.  The GCD searches from the top of the region down.    *)

Fits(n) ==
  {b \in [base : Page, pages : {n}] :
     mapped /\ Heap!InPool(b) /\ \A c \in gcd : Heap!Disjoint(b, c)}

TopDown(n) == LET fits == Fits(n)
              IN  {b \in fits : \A c \in fits : c.base <= b.base}

Allocated(i, n, b) ==
  /\ Pages(b) \subseteq fenced
  /\ gcd' = gcd \cup {b}
  /\ header' = [header EXCEPT ![b.base] = b]
  /\ fenced' = fenced \ Pages(b)
  /\ count' = [count EXCEPT ![i] = (@ + 1) % Wrap]
  /\ size' = [size EXCEPT ![i] = (@ + n) % Wrap]
  /\ UNCHANGED <<mapped, stray, stuck>>

\* No room, or a fence that somebody wrote over: that block stays allocated.
NotAllocated(n) ==
  \/ Fits(n) = {} /\ UNCHANGED memVars
  \/ \E b \in TopDown(n) :
       /\ ~ (Pages(b) \subseteq fenced)
       /\ gcd' = gcd \cup {b}
       /\ stray' = stray + 1
       /\ UNCHANGED <<mapped, header, fenced, count, size, stuck>>

---------------------------------------------------------------------------
(* OpteeClientMemFree of the data that follows page base.                  *)

HeaderAt(base) == IF base \in Page THEN header[base] ELSE NoHeader

Refused(base) == HeaderAt(base) = NoHeader /\ UNCHANGED memVars

\* Only the data is fenced: the page that ends in the header is forgotten.
FencedBehindHeader(b) ==
  /\ fenced' = fenced \cup (Pages(b) \ {b.base})
  /\ header' = [p \in Page |-> IF p \in Pages(b) THEN NoHeader ELSE header[p]]

Fenced(b) ==
  /\ fenced' = fenced \cup Pages(b)
  /\ header' = [p \in Page |-> IF p \in Pages(b) THEN NoHeader ELSE header[p]]

\* Counters that are not unsigned.
UncountSigned(i, b) ==
  /\ count' = [count EXCEPT ![i] = @ - 1]
  /\ size' = [size EXCEPT ![i] = @ - b.pages]

Uncount(i, b) ==
  /\ count' = [count EXCEPT ![i] = (@ + Wrap - 1) % Wrap]
  /\ size' = [size EXCEPT ![i] = (@ + Wrap - (b.pages % Wrap)) % Wrap]

Freed(i, base) ==
  LET b == HeaderAt(base)
  IN  /\ b # NoHeader
      /\ Fenced(b)
      /\ gcd' = gcd \ {b}
      /\ Uncount(i, b)
      /\ UNCHANGED <<mapped, stray, stuck>>

\* The counters go down although the block stays allocated.
FreeFailsUncounted(base) ==
  LET b == HeaderAt(base)
  IN  /\ b # NoHeader
      /\ Fenced(b)
      /\ stuck' = stuck + 1
      /\ \E i \in Clients : Uncount(i, b)
      /\ UNCHANGED <<mapped, gcd, stray>>

\* FreeMemorySpace fails after the block was fenced.
FreeFails(base) ==
  LET b == HeaderAt(base)
  IN  /\ b # NoHeader
      /\ Fenced(b)
      /\ stuck' = stuck + 1
      /\ UNCHANGED <<mapped, gcd, count, size, stray>>

---------------------------------------------------------------------------
(* A user of a block writes on behind its end: what the fence is there for.*)

Overrun(b) ==
  /\ b.base + b.pages \in fenced
  /\ fenced' = fenced \ {b.base + b.pages}
  /\ UNCHANGED <<mapped, gcd, header, count, size, stray, stuck>>

---------------------------------------------------------------------------
(* The allocator under any sequence of calls of any instance.              *)

MemNext ==
  \/ Initialized
  \/ InitializeFails
  \/ \E n \in 2 .. PoolPages :
       NotAllocated(n) \/ \E i \in Clients, b \in TopDown(n) : Allocated(i, n, b)
  \/ \E base \in Page :
       \/ Refused(base)
       \/ FreeFails(base)
       \/ \E i \in Clients : Freed(i, base)
  \/ \E b \in Live : Overrun(b)

MemSpec == MemInit /\ [][MemNext]_memVars
=============================================================================
