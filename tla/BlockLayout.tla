----------------------------- MODULE BlockLayout -----------------------------
(***************************************************************************)
(* Block layout, layoutBlocks of the IR optimizer: put a block after the   *)
(* one that would rather fall into it, and keep the new order when it      *)
(* costs no more jumps than the old one.  The optimizer runs the pass      *)
(* again in every round, here twice.                                       *)
(*                                                                         *)
(* Blocks are named by their place in the order the pass first finds, and  *)
(* a block is its terminator.                                              *)
(***************************************************************************)
EXTENDS Integers, Sequences, FiniteSets

CONSTANTS
  N,             \* how many blocks the function has
  Terminators    \* what a block may end with

ASSUME NAssumption == N \in Nat /\ N >= 1

Blocks == 1..N
Entry  == 1
None   == 0

(* A conditional jump tests an integer, as it does for a comparison of     *)
(* integers, tests a float against zero, or tests the result of a float    *)
(* comparison, which the code generator fuses with the jump.               *)
JumpTo(b)         == [op |-> "jump", to |-> <<b>>, test |-> ""]
CondJump(t, f, k) == [op |-> "condjump", to |-> <<t, f>>, test |-> k]
TableJump         == [op |-> "tablejump", to |-> [b \in Blocks |-> b], test |-> ""]
Return            == [op |-> "return", to |-> << >>, test |-> ""]
Open              == [op |-> "open", to |-> << >>, test |-> ""]    \* no terminator

TerminatorForms ==
  {Return, Open, TableJump} \cup {JumpTo(b) : b \in Blocks}
    \cup {CondJump(t, f, k) : t \in Blocks, f \in Blocks, k \in {"int", "float", "fused"}}

ASSUME TerminatorsAssumption == Terminators \subseteq TerminatorForms

VARIABLES
  last,        \* what each block ends with
  emission,    \* the order the function's blocks are in
  order,       \* the order being built
  cursor,      \* the block the trace goes on with, None when it has ended
  round,       \* how many times the pass has begun
  pc           \* "trace" or "done"
vars == <<last, emission, order, cursor, round, pc>>

MaxRounds == 2

Placed == {order[k] : k \in DOMAIN order}

(* The block that b would rather fall into. *)
Preferred(b) ==
  LET to == last[b].to
  IN  CASE last[b].op = "jump" -> to[1]
        [] last[b].op = "condjump" ->
             IF last[to[1]].op = "jump" /\ last[to[1]].to[1] = to[2] THEN to[1] ELSE to[2]
        [] OTHER -> None

(* explicitJumps: how many jumps an order leaves that cannot be dropped, as *)
(* the pass reckons it.                                                     *)
Follower(seq, k) == IF k < Len(seq) THEN seq[k + 1] ELSE None
IsExplicit(b, next) ==
  \/ last[b].op = "jump" /\ last[b].to[1] # next
  \/ /\ last[b].op = "condjump"
     /\ last[b].to[2] # next
     /\ last[b].test = "float" \/ last[b].to[1] # next
ExplicitJumps(seq) == Cardinality({k \in DOMAIN seq : IsExplicit(seq[k], Follower(seq, k))})

-----------------------------------------------------------------------------
Init ==
  /\ last \in [Blocks -> Terminators]
  /\ emission = [b \in Blocks |-> b]
  /\ order = << >>
  /\ cursor = Entry
  /\ round = 1
  /\ pc = "trace"

(* Mutant of AllTerminated: the pass does not look. *)
AllTerminatedUnchecked == TRUE

AllTerminated == \A b \in Blocks : last[b].op # "open"

(* The pass refuses a function with one block or a block left open. *)
Refuse ==
  /\ pc = "trace" /\ order = << >>
  /\ N = 1 \/ ~AllTerminated
  /\ pc' = "done"
  /\ UNCHANGED <<last, emission, order, cursor, round>>

(* Mutant of Place: the successor is followed though it has its place. *)
PlaceAgain ==
  /\ pc = "trace" /\ cursor # None /\ N > 1 /\ AllTerminated
  /\ order' = Append(order, cursor)
  /\ cursor' = IF Len(order) < N THEN Preferred(cursor) ELSE None
  /\ UNCHANGED <<last, emission, round, pc>>

(* One step of a trace: place the block, go on with what it would rather   *)
(* fall into unless that has its place.                                    *)
Place ==
  /\ pc = "trace" /\ cursor # None /\ N > 1 /\ AllTerminated
  /\ order' = Append(order, cursor)
  /\ cursor' = LET next == Preferred(cursor)
               IN IF next # None /\ next \notin Placed /\ next # cursor THEN next ELSE None
  /\ UNCHANGED <<last, emission, round, pc>>

(* Mutant of StartTrace: the last block left, not the first. *)
StartTraceAtEnd ==
  /\ pc = "trace" /\ cursor = None
  /\ \E k \in DOMAIN emission :
       /\ emission[k] \notin Placed
       /\ \A j \in (k + 1)..N : emission[j] \in Placed
       /\ cursor' = emission[k]
  /\ UNCHANGED <<last, emission, order, round, pc>>

(* A new trace starts at the first block, in the present order, that none  *)
(* has reached.                                                            *)
StartTrace ==
  /\ pc = "trace" /\ cursor = None
  /\ \E k \in DOMAIN emission :
       /\ emission[k] \notin Placed
       /\ \A j \in 1..(k - 1) : emission[j] \in Placed
       /\ cursor' = emission[k]
  /\ UNCHANGED <<last, emission, order, round, pc>>

(* reorderBlocks refuses what is not a permutation that keeps the entry.   *)
IsReordering(seq) ==
  /\ Len(seq) = Len(emission)
  /\ {seq[k] : k \in DOMAIN seq} = {emission[k] : k \in DOMAIN emission}
  /\ seq[1] = emission[1]

(* Mutant of Pays: any order will do. *)
PaysAlways(seq) == TRUE

Pays(seq) == ExplicitJumps(seq) <= ExplicitJumps(emission)

(* Every block has its place: commit the order if it pays. *)
Commit ==
  /\ pc = "trace" /\ cursor = None
  /\ \A k \in DOMAIN emission : emission[k] \in Placed
  /\ emission' = IF Len(order) = N /\ Pays(order) /\ IsReordering(order) THEN order ELSE emission
  /\ pc' = "done"
  /\ UNCHANGED <<last, order, cursor, round>>

(* Another round of the optimizer. *)
RunAgain ==
  /\ pc = "done" /\ round < MaxRounds
  /\ order' = << >> /\ cursor' = emission[1] /\ round' = round + 1 /\ pc' = "trace"
  /\ UNCHANGED <<last, emission>>

Next == Refuse \/ Place \/ StartTrace \/ Commit \/ RunAgain

Spec == Init /\ [][Next]_vars /\ WF_vars(Next)

-----------------------------------------------------------------------------
(* What the code generator makes of an order: the jumps it emits.  A jump  *)
(* to the next block is dropped, and a test whose true arm is next is       *)
(* inverted, unless a float comparison is fused with it: the code generator *)
(* looks at the comparison it fused, never at the jump's own float flag.    *)
EmitsJump(b, next) ==
  \/ last[b].op = "jump" /\ last[b].to[1] # next
  \/ /\ last[b].op = "condjump"
     /\ last[b].to[2] # next
     /\ last[b].test = "fused" \/ last[b].to[1] # next
EmittedJumps(seq) == Cardinality({k \in DOMAIN seq : EmitsJump(seq[k], Follower(seq, k))})

(* The blocks control can reach from b, in an order: an open block falls   *)
(* into the next one.                                                      *)
PlaceOf(seq, b) == CHOOSE k \in DOMAIN seq : seq[k] = b
SuccessorsOf(seq, b) ==
  IF last[b].op # "open" THEN {last[b].to[k] : k \in DOMAIN last[b].to}
  ELSE {Follower(seq, PlaceOf(seq, b))} \ {None}

TypeOK ==
  /\ last \in [Blocks -> Terminators]
  /\ emission \in [Blocks -> Blocks]
  /\ order \in Seq(Blocks)
  /\ cursor \in Blocks \cup {None}
  /\ round \in 1..MaxRounds
  /\ pc \in {"trace", "done"}

(* The trace places no block twice and the entry before every other: the   *)
(* order under construction is always the beginning of a reordering.       *)
PlacedOnce ==
  /\ \A j, k \in DOMAIN order : order[j] = order[k] => j = k
  /\ order # << >> => order[1] = Entry
  /\ cursor # None => cursor \notin Placed

(* When no block is left the order is a reordering of all of them: the     *)
(* checks of the pass and of reorderBlocks refuse nothing it builds.       *)
NothingRefused ==
  pc = "trace" /\ cursor = None /\ (\A k \in DOMAIN emission : emission[k] \in Placed)
    => Len(order) = N /\ IsReordering(order)

(* The function never loses or repeats a block, and starts at its entry.   *)
BlocksKept ==
  /\ \A b \in Blocks : \E k \in Blocks : emission[k] = b
  /\ emission[1] = Entry

(* No block goes on anywhere else than it did before: what falls through   *)
(* by its place is never moved.                                            *)
SuccessorsKept ==
  [][\A b \in Blocks : SuccessorsOf(emission', b) = SuccessorsOf(emission, b)]_vars

FloatBranches == {b \in Blocks : last[b].test \in {"float", "fused"}}

(* "Commit only when the new order is no worse in explicit jumps - never   *)
(* trade a fall-through away for a reordering that does not pay for it"    *)
(* (ir_optimizer.cpp:1381), of the jumps the code generator emits.  The    *)
(* pass reckons branches on floats wrongly: it charges a jump for a float  *)
(* tested against zero, which the code generator inverts, and none for a   *)
(* fused float comparison, which it does not.  So each of these may cost   *)
(* one jump, and nothing else ever does.                                   *)
NeverTradesFallThrough ==
  [][EmittedJumps(emission') <= EmittedJumps(emission) + Cardinality(FloatBranches)]_vars

(* The order a pass leaves is the one it would choose again: the rounds of *)
(* the optimizer do not chase each other.                                  *)
SecondRoundIdle == [][round = MaxRounds => emission' = emission]_vars

(* The pass always ends. *)
Ends == <>(pc = "done" /\ round = MaxRounds)
=============================================================================
