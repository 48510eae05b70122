-------------------------- MODULE MCLoweredProgram --------------------------
(* Lowered code of the families of ProgramFamilies. *)
EXTENDS LoweredProgram, ProgramFamilies

CONSTANT Families   \* the families that are run

(* The larger families are thinned: a run ends in minutes. *)
Chosen(family) ==
  CASE family = "switches"   -> {k \in KeysOf(family) : k[4] # 3}
    [] family = "arithmetic" -> {k \in KeysOf(family) : k[2] \in {"add", "mul", "div", "shr", "lt", "ge"}}
    [] family = "known"      -> {<<"right", "div", 1>>, <<"right", "mod", 1>>}
    [] OTHER                 -> KeysOf(family)
MCPrograms == [p \in UNION {{family} \X Chosen(family) : family \in Families} |-> ProgramOf(p[1], p[2])]
MCInputs   == {-2, 1}
MCPointers == {4, 8}
MCBuffers  == {<<228, 255, 1>>}
MCOracles  == {<<0, 1>>, <<1, 0, 1>>}
=============================================================================
