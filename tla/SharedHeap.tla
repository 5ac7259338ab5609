----------------------------- MODULE SharedHeap -----------------------------
(***************************************************************************)
(* What the users of the OP-TEE shared memory count on: a pool of pages    *)
(* from which blocks are granted and retired, and no page belongs to two   *)
(* granted blocks.  Who asks, which block is chosen, why a request is      *)
(* refused and what becomes of the pages in between is left open.          *)
(***************************************************************************)
EXTENDS Naturals

CONSTANT PoolPages   \* pages of the pool

\* A block starts with the page that ends in its header; its data follows.
Block == [base : 1 .. PoolPages, pages : 2 .. PoolPages]
Pages(b) == b.base .. (b.base + b.pages - 1)
InPool(b) == b.base + b.pages <= PoolPages + 1
Disjoint(b, c) == Pages(b) \cap Pages(c) = {}

VARIABLE held        \* the blocks granted and not yet retired

HeapInit == held = {}

Grant(b) == /\ b \in Block /\ InPool(b)
            /\ \A c \in held : Disjoint(b, c)
            /\ held' = held \cup {b}

Retire(b) == held' = held \ {b}

HeapNext == \/ \E b \in held' \ held : Grant(b)
            \/ \E b \in held \ held' : Retire(b)

Spec == HeapInit /\ [][HeapNext]_held
=============================================================================
