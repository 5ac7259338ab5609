----------------------------- MODULE MCBootMonFs -----------------------------
(* Model checking of BootMonFs: four blocks of three units.                *)
EXTENDS BootMonFs

CONSTANTS a, b, c

MCNames == {a, b, c}

Desc(n, size, first) ==
  [name |-> n, size |-> size, first |-> first, last |-> first + ((size + 1) \div BlockUnits)]

Holding(ds) ==
  [u \in Units |->
     LET at == {d \in ds : u = DescUnit(d.last)}
         in == {d \in ds : d.first * BlockUnits <= u /\ u < d.first * BlockUnits + d.size}
     IN  IF at # {} THEN CHOOSE d \in at : TRUE
         ELSE IF in # {} THEN Zero ELSE Erased]

(* Empty; two files with a gap behind each; a file of two blocks and one   *)
(* behind it.                                                              *)
MCMedia ==
  {Holding({}), Holding({Desc(a, 1, 0), Desc(b, 1, 2)}), Holding({Desc(a, 4, 0), Desc(b, 1, 2)})}
=============================================================================
