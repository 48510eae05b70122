---------------------------- MODULE MCBlockLayout ----------------------------
(* Every function of N blocks whose blocks end in the given ways. *)
EXTENDS BlockLayout

CONSTANT Tests      \* the kinds of conditional jump

MCTerminators ==
  {Return, Open, TableJump} \cup {JumpTo(b) : b \in Blocks}
    \cup {CondJump(t, f, k) : t \in Blocks, f \in Blocks, k \in Tests}

(* Closed blocks whose two arms differ. *)
MCClosed == {d \in MCTerminators : d.op # "open" /\ (d.op = "condjump" => d.to[1] # d.to[2])}
=============================================================================
