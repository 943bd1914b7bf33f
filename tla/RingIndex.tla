----------------------------- MODULE RingIndex -----------------------------
(***************************************************************************)
(* The index arithmetic both ring buffers of async_runtime/src/utils.rs    *)
(* share: data is an array of SIZE slots and an index moves one slot       *)
(* further modulo SIZE.                                                    *)
(***************************************************************************)
EXTENDS Naturals

CONSTANT Size

ASSUME SizeAssumption == Size \in Nat \ {0}

Slots == 0 .. Size - 1

Advance(i) == (i + 1) % Size

(* For the refinement mappings: the slot k places after slot s, k <= Size, *)
(* and the slot before slot s.                                             *)
Slot(s, k) == IF s + k < Size THEN s + k ELSE s + k - Size

Pred(s) == IF s = 0 THEN Size - 1 ELSE s - 1
=============================================================================
