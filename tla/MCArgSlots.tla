----------------------------- MODULE MCArgSlots -----------------------------
(* Every argument list of at most MaxArgs arguments. *)
EXTENDS ArgSlots

CONSTANT MaxArgs

MCArgLists == UNION {[1..n -> [bank : {"int", "float"}, wide : BOOLEAN]] : n \in 0..MaxArgs}
=============================================================================
