--------------------------- MODULE MCCallBoundary ---------------------------
(* Every call of at most MaxArgs arguments, fixed or variadic. *)
EXTENDS CallBoundary

CONSTANT MaxArgs

MCArgLists == UNION {[1..n -> [bank : {"int", "float"}, wide : BOOLEAN]] : n \in 0..MaxArgs}
MCWords == -8..13
=============================================================================
