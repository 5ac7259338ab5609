----------------------------- MODULE MCNorFlash -----------------------------
(* Model checking of NorFlash: two blocks of four two-byte words, one bit  *)
(* per byte.  The headers take the first two words of block 0; the first   *)
(* of them is what ValidateFvHeader looks at.                              *)
EXTENDS NorFlash

CONSTANT bit

MCBits == {bit}

Bytes(zeros) == [i \in Offsets |-> IF i \in zeros THEN {} ELSE Bits]

MCHeaders == Bytes(0 .. HeadersLength - 1)

(* Fresh from the factory, and with a volume that holds some data.         *)
MCFactoryImages ==
  {[b \in Blocks |-> Blank],
   [b \in Blocks |-> IF b = 0 THEN Bytes((0 .. HeadersLength - 1) \cup {5}) ELSE Bytes({1, 2})]}

MCBuffers == {Blank, Bytes(Offsets), Bytes({0, 3}), Bytes({1, 2})}

At(b, o, n) == [lba |-> b, off |-> o, len |-> n]

(* Whole words, parts of one word, several words with a rest, a block, and *)
(* a request that leaves the block: none starts unaligned and goes on.     *)
WordAligned == {At(0, 4, 3), At(0, 5, 1), At(1, 0, 4), At(1, 2, 1), At(0, 0, 8), At(1, 6, 4)}

(* Also requests that start within a word and go past it.                  *)
Unaligned == {At(1, 1, 2), At(0, 5, 3), At(1, 0, 4)}
=============================================================================
