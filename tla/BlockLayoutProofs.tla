-------------------------- MODULE BlockLayoutProofs --------------------------
(***************************************************************************)
(* Block layout, proved for every number of blocks and every way they end. *)
(* The inductive invariant IInv says that the order being built lists       *)
(* blocks without repetition from the entry on, that it is begun only when  *)
(* every block is terminated, and that the function's own order always      *)
(* names every block.                                                       *)
(***************************************************************************)
EXTENDS BlockLayout, FiniteSetTheorems, TLAPS

(* The trace starts with the entry, and starts only on closed blocks. *)
FirstIsEntry ==
  /\ pc = "trace" /\ order = << >> => cursor = Entry
  /\ order # << >> => AllTerminated

IInv == TypeOK /\ PlacedOnce /\ BlocksKept /\ FirstIsEntry

-----------------------------------------------------------------------------
(* A terminator names blocks of the function. *)
LEMMA ArmsAreBlocks ==
  \A d \in TerminatorForms :
    /\ d.op = "jump" => d.to[1] \in Blocks
    /\ d.op = "condjump" => d.to[1] \in Blocks /\ d.to[2] \in Blocks
<1>. SUFFICES ASSUME NEW d \in TerminatorForms
              PROVE  /\ d.op = "jump" => d.to[1] \in Blocks
                     /\ d.op = "condjump" => d.to[1] \in Blocks /\ d.to[2] \in Blocks
  OBVIOUS
<1>1. CASE d \in {Return, Open, TableJump}
  <2>1. Return.op = "return" /\ Open.op = "open"
    BY DEF Return, Open
  <2>2. TableJump.op = "tablejump"
    BY DEF TableJump
  <2>. QED  BY <1>1, <2>1, <2>2
<1>2. CASE \E b \in Blocks : d = JumpTo(b)
  <2>1. PICK b \in Blocks : d = JumpTo(b)
    BY <1>2
  <2>2. d.op = "jump" /\ d.to = <<b>>
    BY <2>1 DEF JumpTo
  <2>. QED  BY <2>2
<1>3. CASE \E t \in Blocks, f \in Blocks, k \in {"int", "float", "fused"} : d = CondJump(t, f, k)
  BY <1>3 DEF CondJump
<1>. QED  BY <1>1, <1>2, <1>3 DEF TerminatorForms

(* What a trace goes on with is a block or nothing. *)
LEMMA PreferredType ==
  ASSUME TypeOK, NEW b \in Blocks
  PROVE  Preferred(b) \in Blocks \cup {None}
<1>1. last[b] \in TerminatorForms
  BY TerminatorsAssumption DEF TypeOK
<1>. QED  BY <1>1, ArmsAreBlocks DEF Preferred

(* The order, as a function on its places. *)
LEMMA SequenceShape ==
  ASSUME NEW seq \in Seq(Blocks)
  PROVE  /\ Len(seq) \in Nat /\ DOMAIN seq = 1..Len(seq)
         /\ seq \in [1..Len(seq) -> Blocks]
         /\ \A x : /\ Len(Append(seq, x)) = Len(seq) + 1
                   /\ Append(seq, x) # << >>
                   /\ DOMAIN Append(seq, x) = 1..(Len(seq) + 1)
                   /\ Append(seq, x)[Len(seq) + 1] = x
                   /\ \A k \in 1..Len(seq) : Append(seq, x)[k] = seq[k]
  OBVIOUS

(* An order that repeats nothing and leaves nothing out has N places. *)
LEMMA CompleteOrderLength ==
  ASSUME NAssumption, NEW seq \in Seq(Blocks),
         \A j, k \in DOMAIN seq : seq[j] = seq[k] => j = k,
         \A b \in Blocks : \E k \in DOMAIN seq : seq[k] = b
  PROVE  Len(seq) = N
<1>. DEFINE S == 1..Len(seq)
<1>1. Len(seq) \in Nat /\ seq \in [S -> Blocks] /\ DOMAIN seq = S
  BY SequenceShape
<1>2. seq \in Surjection(S, Blocks)
  BY <1>1 DEF Surjection
<1>3. seq \in Injection(S, Blocks)
  BY <1>1 DEF Injection, IsInjective
<1>4. IsFiniteSet(S) /\ Cardinality(S) = Len(seq)
  BY <1>1, FS_Interval
<1>5. Cardinality(Blocks) = N
  BY FS_Interval, NAssumption DEF Blocks
<1>6. Cardinality(Blocks) = Cardinality(S)
  BY <1>2, <1>3, <1>4, FS_Surjection
<1>. QED  BY <1>4, <1>5, <1>6

-----------------------------------------------------------------------------
LEMMA InitIInv == Init => IInv
<1>. SUFFICES ASSUME Init PROVE IInv
  OBVIOUS
<1>. USE NAssumption DEF Init, Blocks, Entry, None
<1>1. TypeOK
  BY DEF TypeOK, MaxRounds
<1>2. PlacedOnce
  BY DEF PlacedOnce, Placed
<1>3. BlocksKept
  BY DEF BlocksKept
<1>4. FirstIsEntry
  BY DEF FirstIsEntry
<1>. QED  BY <1>1, <1>2, <1>3, <1>4 DEF IInv

(* Placing a block keeps the order free of repetition: the cursor never    *)
(* stands on a block that has its place.                                   *)
LEMMA PlaceIInv ==
  ASSUME IInv, Place
  PROVE  IInv'
<1>. USE DEF IInv
<1>1. cursor \in Blocks /\ cursor \notin Placed /\ order \in Seq(Blocks)
  BY DEF Place, TypeOK, PlacedOnce
<1>2. order' = Append(order, cursor) /\ emission' = emission /\ last' = last /\ pc' = pc /\ round' = round
  BY DEF Place
<1>3. TypeOK'
  <2>1. order' \in Seq(Blocks)
    BY <1>1, <1>2
  <2>2. cursor' \in Blocks \cup {None}
    BY <1>1, PreferredType DEF Place
  <2>. QED  BY <1>2, <2>1, <2>2 DEF TypeOK
<1>4. PlacedOnce'
  <2>1. \A j, k \in DOMAIN order' : order'[j] = order'[k] => j = k
    BY <1>1, <1>2, SequenceShape DEF Placed, PlacedOnce
  <2>2. order'[1] = Entry
    <3>1. CASE order = << >>
      BY <3>1, <1>2 DEF FirstIsEntry, Place
    <3>2. CASE order # << >>
      <4>1. order[1] = Entry /\ 1 \in 1..Len(order)
        BY <3>2, <1>1 DEF PlacedOnce
      <4>. QED  BY <4>1, <1>1, <1>2, SequenceShape
    <3>. QED  BY <3>1, <3>2
  <2>3. Placed' = Placed \cup {cursor}
    BY <1>1, <1>2, SequenceShape DEF Placed
  <2>4. cursor' # None => cursor' \notin Placed'
    BY <2>3 DEF Place
  <2>. QED  BY <2>1, <2>2, <2>4 DEF PlacedOnce
<1>5. BlocksKept'
  BY <1>2 DEF BlocksKept
<1>6. FirstIsEntry'
  <2>1. order' # << >>
    BY <1>1, <1>2, SequenceShape
  <2>. QED  BY <1>2, <2>1 DEF FirstIsEntry, Place, AllTerminated
<1>. QED  BY <1>3, <1>4, <1>5, <1>6

(* A committed order names every block, since what is committed is a       *)
(* reordering of what did.                                                 *)
LEMMA CommitIInv ==
  ASSUME IInv, Commit
  PROVE  IInv'
<1>. USE DEF IInv
<1>1. order' = order /\ cursor' = cursor /\ last' = last /\ round' = round /\ pc' = "done"
  BY DEF Commit
<1>2. CASE emission' = emission
  BY <1>1, <1>2 DEF TypeOK, PlacedOnce, Placed, BlocksKept, FirstIsEntry, AllTerminated
<1>3. CASE emission' = order /\ Len(order) = N /\ IsReordering(order)
  <2>1. order \in [Blocks -> Blocks]
    BY <1>3, SequenceShape DEF TypeOK, Blocks
  <2>2. DOMAIN emission = Blocks /\ DOMAIN order = Blocks
    BY <2>1 DEF TypeOK
  <2>3. {order[k] : k \in Blocks} = {emission[k] : k \in Blocks}
    BY <1>3, <2>2 DEF IsReordering
  <2>4. \A b \in Blocks : b \in {emission[k] : k \in Blocks}
    BY DEF BlocksKept
  <2>5. \A b \in Blocks : \E k \in Blocks : order[k] = b
    BY <2>3, <2>4
  <2>6. order[1] = Entry
    BY <1>3 DEF IsReordering, BlocksKept
  <2>7. TypeOK'
    BY <1>1, <1>3, <2>1 DEF TypeOK
  <2>8. BlocksKept'
    BY <1>3, <2>5, <2>6 DEF BlocksKept
  <2>. QED  BY <1>1, <2>7, <2>8 DEF PlacedOnce, Placed, FirstIsEntry, AllTerminated
<1>. QED  BY <1>2, <1>3 DEF Commit

LEMMA NextIInv == IInv /\ [Next]_vars => IInv'
<1>. SUFFICES ASSUME IInv, [Next]_vars PROVE IInv'
  OBVIOUS
<1>1. CASE Refuse
  BY <1>1 DEF Refuse, IInv, TypeOK, PlacedOnce, Placed, BlocksKept, FirstIsEntry, AllTerminated
<1>2. CASE Place
  BY <1>2, PlaceIInv
<1>3. CASE StartTrace
  <2>1. PICK k \in DOMAIN emission : emission[k] \notin Placed /\ cursor' = emission[k]
    BY <1>3 DEF StartTrace
  <2>2. cursor' \in Blocks
    BY <2>1 DEF IInv, TypeOK
  <2>3. cursor = None /\ order' = order /\ emission' = emission /\ last' = last /\ round' = round /\ pc' = pc /\ pc = "trace"
    BY <1>3 DEF StartTrace
  <2>4. order # << >>
    BY <2>3, NAssumption DEF IInv, FirstIsEntry, Entry, None
  <2>. QED  BY <2>1, <2>2, <2>3, <2>4
            DEF IInv, TypeOK, PlacedOnce, Placed, BlocksKept, FirstIsEntry, AllTerminated
<1>4. CASE Commit
  BY <1>4, CommitIInv
<1>5. CASE RunAgain
  <2>1. order' = << >> /\ cursor' = emission[1] /\ round' = round + 1 /\ pc' = "trace"
        /\ last' = last /\ emission' = emission /\ round < MaxRounds
    BY <1>5 DEF RunAgain
  <2>2. cursor' = Entry /\ Entry \in Blocks
    BY <2>1, NAssumption DEF IInv, BlocksKept, Entry, Blocks
  <2>3. TypeOK'
    BY <2>1, <2>2 DEF IInv, TypeOK, MaxRounds
  <2>4. PlacedOnce'
    BY <2>1 DEF PlacedOnce, Placed
  <2>5. BlocksKept' /\ FirstIsEntry'
    BY <2>1, <2>2 DEF IInv, BlocksKept, FirstIsEntry
  <2>. QED  BY <2>3, <2>4, <2>5 DEF IInv
<1>6. CASE UNCHANGED vars
  BY <1>6 DEF vars, IInv, TypeOK, PlacedOnce, Placed, BlocksKept, FirstIsEntry, AllTerminated
<1>. QED  BY <1>1, <1>2, <1>3, <1>4, <1>5, <1>6 DEF Next

(* IInv holds in every state of every run of the pass. *)
THEOREM IInvHolds == Spec => []IInv
  BY InitIInv, NextIInv, PTL DEF Spec

(* The orders, the cursor and the blocks keep their types. *)
THEOREM LayoutTypeCorrect == Spec => []TypeOK
<1>1. IInv => TypeOK
  BY DEF IInv
<1>. QED  BY <1>1, IInvHolds, PTL

(* layoutBlocks places no block twice, whatever the blocks jump to. *)
THEOREM LayoutPlacesOnce == Spec => []PlacedOnce
<1>1. IInv => PlacedOnce
  BY DEF IInv
<1>. QED  BY <1>1, IInvHolds, PTL

(* No block is ever lost from the function, and its entry stays first. *)
THEOREM LayoutKeepsBlocks == Spec => []BlocksKept
<1>1. IInv => BlocksKept
  BY DEF IInv
<1>. QED  BY <1>1, IInvHolds, PTL

(* The order layoutBlocks builds always passes the checks it makes of it   *)
(* and those of reorderBlocks: they are never what stops it.               *)
THEOREM LayoutNeverRefused == Spec => []NothingRefused
<1>1. IInv => NothingRefused
  <2>. SUFFICES ASSUME IInv, pc = "trace", cursor = None,
                       \A k \in DOMAIN emission : emission[k] \in Placed
                PROVE  Len(order) = N /\ IsReordering(order)
    BY DEF NothingRefused
  <2>1. order \in Seq(Blocks) /\ emission \in [Blocks -> Blocks]
    BY DEF IInv, TypeOK
  <2>2. \A b \in Blocks : \E k \in DOMAIN order : order[k] = b
    BY <2>1 DEF IInv, BlocksKept, Placed
  <2>3. Len(order) = N
    BY <2>1, <2>2, CompleteOrderLength, NAssumption DEF IInv, PlacedOnce
  <2>4. order \in [Blocks -> Blocks] /\ DOMAIN order = Blocks
    BY <2>1, <2>3, SequenceShape DEF Blocks
  <2>5. {order[k] : k \in DOMAIN order} = Blocks
    BY <2>2, <2>4
  <2>6. {emission[k] : k \in DOMAIN emission} = Blocks
    BY <2>1 DEF IInv, BlocksKept
  <2>7. Len(emission) = N
    BY <2>1, NAssumption DEF Blocks
  <2>8. order[1] = emission[1]
    <3>1. order # << >>
      BY NAssumption DEF IInv, FirstIsEntry, Entry, None
    <3>. QED  BY <3>1 DEF IInv, PlacedOnce, BlocksKept
  <2>. QED  BY <2>3, <2>5, <2>6, <2>7, <2>8 DEF IsReordering
<1>. QED  BY <1>1, IInvHolds, PTL

-----------------------------------------------------------------------------
(* Only Commit moves a block, and it has placed one by then. *)
LEMMA MovesOnlyClosed ==
  ASSUME IInv, [Next]_vars, emission' # emission
  PROVE  AllTerminated /\ last' = last /\ emission' = order /\ Pays(order)
<1>1. Commit
  BY DEF Next, Refuse, Place, StartTrace, Commit, RunAgain, vars
<1>2. order # << >>
  BY <1>1, NAssumption DEF Commit, IInv, FirstIsEntry, Entry, None
<1>. QED  BY <1>1, <1>2 DEF Commit, IInv, FirstIsEntry

(* Reordering never changes where control goes from a block. *)
THEOREM LayoutKeepsSuccessors == Spec => SuccessorsKept
<1>1. IInv /\ [Next]_vars => [\A b \in Blocks : SuccessorsOf(emission', b) = SuccessorsOf(emission, b)]_vars
  <2>. SUFFICES ASSUME IInv, [Next]_vars, emission' # emission, NEW b \in Blocks
                PROVE  SuccessorsOf(emission', b) = SuccessorsOf(emission, b)
    OBVIOUS
  <2>1. last[b].op # "open"
    BY MovesOnlyClosed DEF AllTerminated
  <2>. QED  BY <2>1 DEF SuccessorsOf
<1>. QED  BY <1>1, IInvHolds, PTL DEF Spec, SuccessorsKept

(* An order that repeats no block has as many places for blocks of S as    *)
(* there are blocks in S at most.                                          *)
LEMMA PlacesOfBlocks ==
  ASSUME NEW seq \in Seq(Blocks), NEW S \in SUBSET Blocks,
         \A j, k \in DOMAIN seq : seq[j] = seq[k] => j = k
  PROVE  /\ IsFiniteSet({k \in DOMAIN seq : seq[k] \in S})
         /\ Cardinality({k \in DOMAIN seq : seq[k] \in S}) <= Cardinality(S)
<1>. DEFINE P == {k \in DOMAIN seq : seq[k] \in S}
            f == [k \in P |-> seq[k]]
<1>1. IsFiniteSet(Blocks)
  BY NAssumption, FS_Interval DEF Blocks
<1>2. IsFiniteSet(S)
  BY <1>1, FS_Subset
<1>3. f \in Injection(P, S)
  <2>1. f \in [P -> S]
    OBVIOUS
  <2>2. \A j, k \in P : f[j] = f[k] => j = k
    OBVIOUS
  <2>. HIDE DEF f, P
  <2>. QED  BY <2>1, <2>2 DEF Injection, IsInjective
<1>. HIDE DEF f
<1>. QED  BY <1>2, <1>3, FS_Injection

(* An order the function is in repeats no block. *)
LEMMA EmissionOnce ==
  ASSUME IInv
  PROVE  \A j, k \in DOMAIN emission : emission[j] = emission[k] => j = k
<1>1. emission \in [Blocks -> Blocks] /\ \A b \in Blocks : \E k \in Blocks : emission[k] = b
  BY DEF IInv, TypeOK, BlocksKept
<1>2. emission \in Surjection(Blocks, Blocks)
  BY <1>1 DEF Surjection
<1>3. IsFiniteSet(Blocks)
  BY NAssumption, FS_Interval DEF Blocks
<1>4. emission \in Injection(Blocks, Blocks)
  BY <1>2, <1>3, FS_SurjSameCardinalityImpliesInj
<1>. QED  BY <1>1, <1>4 DEF Injection, IsInjective

(* What cannot be dropped and what is emitted differ by the branches of    *)
(* one kind: only a fused comparison costs more than is reckoned, only a   *)
(* float tested against zero less.                                         *)
LEMMA Misreckoned ==
  ASSUME NEW seq \in Seq(Blocks), \A j, k \in DOMAIN seq : seq[j] = seq[k] => j = k
  PROVE  /\ EmittedJumps(seq) \in Nat /\ ExplicitJumps(seq) \in Nat
         /\ EmittedJumps(seq) <= ExplicitJumps(seq) + Cardinality({b \in Blocks : last[b].test = "fused"})
         /\ ExplicitJumps(seq) <= EmittedJumps(seq) + Cardinality({b \in Blocks : last[b].test = "float"})
<1>. DEFINE At(t) == {k \in DOMAIN seq : seq[k] \in {b \in Blocks : last[b].test = t}}
            E == {k \in DOMAIN seq : IsExplicit(seq[k], Follower(seq, k))}
            J == {k \in DOMAIN seq : EmitsJump(seq[k], Follower(seq, k))}
<1>1. \A k \in DOMAIN seq : seq[k] \in Blocks
  BY SequenceShape
<1>2. IsFiniteSet(DOMAIN seq)
  BY SequenceShape, FS_Interval
<1>3. J \subseteq E \cup At("fused") /\ E \subseteq J \cup At("float")
  BY <1>1 DEF IsExplicit, EmitsJump
<1>4. \A t : IsFiniteSet(At(t)) /\ Cardinality(At(t)) \in Nat
             /\ Cardinality(At(t)) <= Cardinality({b \in Blocks : last[b].test = t})
  <2>. SUFFICES ASSUME NEW t
                PROVE  IsFiniteSet(At(t)) /\ Cardinality(At(t)) \in Nat
                       /\ Cardinality(At(t)) <= Cardinality({b \in Blocks : last[b].test = t})
    OBVIOUS
  <2>1. IsFiniteSet(At(t)) /\ Cardinality(At(t)) <= Cardinality({b \in Blocks : last[b].test = t})
    BY PlacesOfBlocks
  <2>. QED  BY <2>1, FS_CardinalityType
<1>5. \A t : Cardinality({b \in Blocks : last[b].test = t}) \in Nat
  <2>1. IsFiniteSet(Blocks)
    BY NAssumption, FS_Interval DEF Blocks
  <2>. QED  BY <2>1, FS_Subset, FS_CardinalityType
<1>6. IsFiniteSet(E) /\ IsFiniteSet(J)
  BY <1>2, FS_Subset
<1>7. ExplicitJumps(seq) = Cardinality(E) /\ EmittedJumps(seq) = Cardinality(J)
  BY DEF ExplicitJumps, EmittedJumps
<1>. HIDE DEF At, E, J
<1>8. Cardinality(E) \in Nat /\ Cardinality(J) \in Nat
  BY <1>6, FS_CardinalityType
<1>9. \A S, T, U : IsFiniteSet(S) /\ IsFiniteSet(T) /\ U \subseteq S \cup T
                    => Cardinality(U) <= Cardinality(S) + Cardinality(T)
  <2>. SUFFICES ASSUME NEW S, NEW T, NEW U, IsFiniteSet(S), IsFiniteSet(T), U \subseteq S \cup T
                PROVE  Cardinality(U) <= Cardinality(S) + Cardinality(T)
    OBVIOUS
  <2>1. /\ IsFiniteSet(S \cup T)
        /\ Cardinality(S \cup T) = Cardinality(S) + Cardinality(T) - Cardinality(S \cap T)
    BY FS_Union
  <2>2. Cardinality(S \cap T) \in Nat
    BY FS_Intersection, FS_CardinalityType
  <2>3. Cardinality(U) <= Cardinality(S \cup T) /\ IsFiniteSet(U)
    BY <2>1, FS_Subset
  <2>4. Cardinality(U) \in Nat /\ Cardinality(S) \in Nat /\ Cardinality(T) \in Nat
    BY <2>3, FS_CardinalityType
  <2>. QED  BY <2>1, <2>2, <2>3, <2>4
<1>10. Cardinality(J) <= Cardinality(E) + Cardinality(At("fused"))
  BY <1>3, <1>4, <1>6, <1>9
<1>11. Cardinality(E) <= Cardinality(J) + Cardinality(At("float"))
  BY <1>3, <1>4, <1>6, <1>9
<1>. DEFINE blocksOf(t) == {b \in Blocks : last[b].test = t}
<1>12. /\ Cardinality(At("fused")) \in Nat /\ Cardinality(blocksOf("fused")) \in Nat
       /\ Cardinality(At("fused")) <= Cardinality(blocksOf("fused"))
       /\ Cardinality(At("float")) \in Nat /\ Cardinality(blocksOf("float")) \in Nat
       /\ Cardinality(At("float")) <= Cardinality(blocksOf("float"))
  BY <1>4, <1>5
<1>. HIDE DEF blocksOf
<1>13. /\ Cardinality(J) <= Cardinality(E) + Cardinality(blocksOf("fused"))
       /\ Cardinality(E) <= Cardinality(J) + Cardinality(blocksOf("float"))
  BY <1>8, <1>10, <1>11, <1>12
<1>. QED  BY <1>7, <1>8, <1>13 DEF blocksOf

(* The two kinds of misreckoned branch are all the branches on floats. *)
LEMMA FloatBranchesCounted ==
  /\ Cardinality({b \in Blocks : last[b].test = "float"}) \in Nat
  /\ Cardinality({b \in Blocks : last[b].test = "fused"}) \in Nat
  /\ Cardinality(FloatBranches) = Cardinality({b \in Blocks : last[b].test = "float"})
                                    + Cardinality({b \in Blocks : last[b].test = "fused"})
<1>. DEFINE S == {b \in Blocks : last[b].test = "float"}
            T == {b \in Blocks : last[b].test = "fused"}
<1>1. IsFiniteSet(Blocks)
  BY NAssumption, FS_Interval DEF Blocks
<1>2. IsFiniteSet(S) /\ IsFiniteSet(T)
  BY <1>1, FS_Subset
<1>3. FloatBranches = S \cup T /\ S \cap T = {}
  BY DEF FloatBranches
<1>. HIDE DEF S, T
<1>4. Cardinality(S \cup T) = Cardinality(S) + Cardinality(T) - Cardinality(S \cap T)
  BY <1>2, FS_Union
<1>5. Cardinality(S) \in Nat /\ Cardinality(T) \in Nat /\ Cardinality({}) = 0
  BY <1>2, FS_CardinalityType, FS_EmptySet
<1>6. Cardinality(S \cap T) = 0
  BY <1>3, <1>5
<1>7. Cardinality(FloatBranches) = Cardinality(S) + Cardinality(T)
  <2>1. Cardinality(S \cup T) = Cardinality(S) + Cardinality(T)
    BY <1>4, <1>5, <1>6
  <2>. QED  BY <1>3, <2>1
<1>. QED  BY <1>5, <1>7 DEF S, T

(* No reordering costs more emitted jumps than there are branches on       *)
(* floats, which are all that the pass can reckon wrongly.                 *)
THEOREM LayoutNeverCosts == Spec => NeverTradesFallThrough
<1>1. IInv /\ [Next]_vars => [EmittedJumps(emission') <= EmittedJumps(emission) + Cardinality(FloatBranches)]_vars
  <2>. SUFFICES ASSUME IInv, [Next]_vars
                PROVE  EmittedJumps(emission') <= EmittedJumps(emission) + Cardinality(FloatBranches)
    OBVIOUS
  <2>1. emission \in Seq(Blocks) /\ order \in Seq(Blocks)
    <3>1. emission \in [1..N -> Blocks] /\ N \in Nat
      BY NAssumption DEF IInv, TypeOK, Blocks
    <3>2. emission \in Seq(Blocks)
      BY <3>1
    <3>. QED  BY <3>2 DEF IInv, TypeOK
  <2>2. /\ EmittedJumps(emission) \in Nat /\ ExplicitJumps(emission) \in Nat
        /\ ExplicitJumps(emission) <= EmittedJumps(emission) + Cardinality({b \in Blocks : last[b].test = "float"})
    BY <2>1, EmissionOnce, Misreckoned
  <2>3. CASE emission' = emission
    BY <2>2, <2>3, FloatBranchesCounted
  <2>4. CASE emission' # emission
    <3>1. emission' = order /\ ExplicitJumps(order) <= ExplicitJumps(emission)
      BY <2>4, MovesOnlyClosed DEF Pays
    <3>2. \A j, k \in DOMAIN order : order[j] = order[k] => j = k
      BY DEF IInv, PlacedOnce
    <3>3. /\ EmittedJumps(order) \in Nat /\ ExplicitJumps(order) \in Nat
          /\ EmittedJumps(order) <= ExplicitJumps(order) + Cardinality({b \in Blocks : last[b].test = "fused"})
      BY <2>1, <3>2, Misreckoned
    <3>. QED  BY <2>2, <3>1, <3>3, FloatBranchesCounted
  <2>. QED  BY <2>3, <2>4
<1>. QED  BY <1>1, IInvHolds, PTL DEF Spec, NeverTradesFallThrough
=============================================================================
