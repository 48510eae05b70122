------------------------- MODULE MCOptimizedProgram -------------------------
EXTENDS OptimizedProgram, Optimizer, ProgramFamilies

CONSTANT Families   \* the families that are run

(* The larger families are thinned: a run ends in minutes. *)
Chosen(family) ==
  CASE family = "pointers"   -> {k \in KeysOf(family) : k[2] \in {1, 9, 15}}
    [] family = "known"      -> {k \in KeysOf(family) : IF k[1] = "tested" THEN k[2] \in {"div", "and", "lt", "eq"} /\ k[3] = 4 ELSE k[3] \in {1, 4}}
    [] family = "turns"      -> {k \in KeysOf(family) : k[3] = IF k[1] = "for" THEN 1 ELSE 2}
    [] family = "restricted" -> {k \in KeysOf(family) : k[1] \in {7, 10} \/ k[2] = 6}
    [] OTHER                 -> KeysOf(family)
MCPrograms == [p \in UNION {{family} \X Chosen(family) : family \in Families} |-> ProgramOf(p[1], p[2])]
MCInputs   == {-2, 1}
MCPointers == {4, 8}
MCBuffers  == {<<228, 255, 1>>}
MCOracles  == {<<1, 0, 1>>}
AllOptions == {"constantFolding", "algebraicSimplification", "branchSimplification", "conditionalConstants",
  "strengthReduction", "commonSubexpressionElimination", "copyPropagation", "loadForwarding", "deadStoreElimination",
  "deadCodeElimination", "unusedFunctionElimination", "jumpThreading", "unreachableBlockElimination", "blockLayout",
  "loopInvariantMotion", "inductionStrengthReduction", "loopIdioms", "inlining"}
O2 == AllOptions
Og == AllOptions \ {"inlining", "inductionStrengthReduction", "loopIdioms"}
MCOptionSets == {O2, Og}
=============================================================================
