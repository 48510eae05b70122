-------------------------- MODULE PreprocessorProofs --------------------------
(***************************************************************************)
(* The preprocessor proved for every program, whatever its files, its      *)
(* lines and the limits it runs under: conditional groups, the include     *)
(* stack, the line map, and the types its state keeps, among them what the *)
(* replay of the warning policy comes to at each line.                     *)
(***************************************************************************)
EXTENDS Preprocessor, SequenceTheorems, WellFoundedInduction, TLAPS

(* A sequence, of whatever it holds: what a line expands to is not typed.  *)
IsSequence(s) == s \in Seq({s[i] : i \in DOMAIN s})

GroupType ==
  [parentActive : BOOLEAN, active : BOOLEAN, branchTaken : BOOLEAN, sawElse : BOOLEAN,
   tested : Seq(BOOLEAN)]

(* A group remembers whether a branch of it has held, and whether the one  *)
(* around it is active.                                                    *)
GroupInv(groups, k) ==
  LET group == groups[k]
      tested == group.tested
  IN /\ group \in GroupType
     /\ tested # <<>>
     /\ group.parentActive <=> (k > 1 => groups[k - 1].active)
     /\ group.branchTaken <=> \E n \in DOMAIN tested : tested[n]
     /\ group.active <=> /\ group.parentActive
                         /\ Last(tested)
                         /\ \A n \in 1..(Len(tested) - 1) : ~tested[n]

WellNested(groups) ==
  /\ groups \in Seq(GroupType)
  /\ \A k \in DOMAIN groups : GroupInv(groups, k)

FrameFields == {"file", "position", "sourceLine", "logicalLine", "inBlockComment",
                "conditionals", "ok", "cComment", "misread"}

FrameInv(frame) ==
  /\ DOMAIN frame = FrameFields
  /\ frame = [field \in FrameFields |-> frame[field]]
  /\ frame.file \in Files \ Unreadable
  /\ frame.position \in Nat
  /\ frame.sourceLine = frame.position
  /\ WellNested(frame.conditionals)

-----------------------------------------------------------------------------
(* Sequences.                                                              *)

LEMMA AllButLast ==
  ASSUME NEW m \in Nat, m > 0
  PROVE  /\ (m - 1) + 1 = m
         /\ m \in 1..m
         /\ \A i \in 1..(m - 1) : i \in 1..m /\ i # m /\ (i > 1 => i - 1 \in 1..(m - 1))
         /\ \A i \in 1..m : i \in 1..(m - 1) \/ i = m
         /\ m > 1 => m - 1 \in 1..(m - 1)
OBVIOUS

LEMMA SequenceFacts ==
  ASSUME NEW s, IsSequence(s)
  PROVE  /\ Len(s) \in Nat
         /\ DOMAIN s = 1..Len(s)
         /\ s # <<>> <=> Len(s) > 0
<1>. DEFINE S == {s[i] : i \in DOMAIN s}
<1>1. s \in Seq(S)
  BY DEF IsSequence
<1>. QED  BY <1>1, LenProperties, EmptySeq

LEMMA AnySequence ==
  ASSUME NEW S, NEW s \in Seq(S)
  PROVE  IsSequence(s)
<1>1. Len(s) \in Nat /\ DOMAIN s = 1..Len(s) /\ s \in [1..Len(s) -> S]
  BY LenProperties
<1>2. s \in [1..Len(s) -> {s[i] : i \in DOMAIN s}]
  BY <1>1
<1>. QED  BY <1>1, <1>2, SeqDef DEF IsSequence

LEMMA LastReplaced ==
  ASSUME NEW s, IsSequence(s), s # <<>>, NEW e
  PROVE  LET t == ReplaceAt(s, Len(s), e)
         IN /\ IsSequence(t)
            /\ Len(t) = Len(s)
            /\ t # <<>>
            /\ Last(t) = e
            /\ \A i \in 1..Len(s) : t[i] = IF i = Len(s) THEN e ELSE s[i]
<1>. DEFINE S == {s[i] : i \in DOMAIN s} \cup {e}
            t == ReplaceAt(s, Len(s), e)
<1>1. Len(s) \in Nat /\ Len(s) > 0
  BY SequenceFacts
<1>2. s \in Seq(S)
  BY SeqMonotonic, s \in Seq({s[i] : i \in DOMAIN s}) DEF IsSequence
<1>3. t \in Seq(S) /\ Len(t) = Len(s) /\ \A i \in 1..Len(s) : t[i] = IF i = Len(s) THEN e ELSE s[i]
  BY <1>1, <1>2, ExceptSeq DEF ReplaceAt
<1>4. IsSequence(t)
  BY <1>3, AnySequence
<1>5. t # <<>>
  BY <1>1, <1>3, <1>4, SequenceFacts
<1>. QED  BY <1>1, <1>3, <1>4, <1>5 DEF Last

LEMMA Appended ==
  ASSUME NEW s, IsSequence(s), NEW e
  PROVE  LET t == Append(s, e)
         IN /\ IsSequence(t)
            /\ Len(t) = Len(s) + 1
            /\ t # <<>>
            /\ Last(t) = e
            /\ \A i \in 1..Len(t) : t[i] = IF i = Len(t) THEN e ELSE s[i]
<1>. DEFINE S == {s[i] : i \in DOMAIN s} \cup {e}
            t == Append(s, e)
<1>1. s \in Seq(S) /\ e \in S
  BY SeqMonotonic, s \in Seq({s[i] : i \in DOMAIN s}) DEF IsSequence
<1>2. /\ t \in Seq(S) /\ Len(t) = Len(s) + 1 /\ Len(s) \in Nat
      /\ \A i \in 1..Len(t) : t[i] = IF i = Len(t) THEN e ELSE s[i]
  BY <1>1
<1>3. IsSequence(t)
  BY <1>2, AnySequence
<1>. QED  BY <1>2, <1>3, SequenceFacts DEF Last

LEMMA Shortened ==
  ASSUME NEW s, IsSequence(s), s # <<>>
  PROVE  LET t == Front(s)
         IN /\ IsSequence(t)
            /\ Len(t) = Len(s) - 1
            /\ \A i \in 1..Len(t) : t[i] = s[i]
<1>. DEFINE S == {s[i] : i \in DOMAIN s}
            t == Front(s)
<1>1. s \in Seq(S) /\ Len(s) \in Nat /\ Len(s) > 0 /\ DOMAIN s = 1..Len(s)
  BY SequenceFacts DEF IsSequence
<1>2. \A i \in 1..(Len(s) - 1) : s[i] \in S
  BY <1>1
<1>3. /\ t \in Seq(S) /\ Len(t) = Len(s) - 1
      /\ \A i \in 1..Len(t) : t[i] = s[i]
  BY <1>1, <1>2, SubSeqProperties DEF Front
<1>. QED  BY <1>3, AnySequence

-----------------------------------------------------------------------------
(* Groups.                                                                 *)

(* A group opened inside the others (the lambda `condition`).              *)
LEMMA GroupOpened ==
  ASSUME NEW groups, WellNested(groups), NEW value \in BOOLEAN,
         NEW active \in BOOLEAN, active <=> (groups # <<>> => Last(groups).active)
  PROVE  WellNested(Append(groups,
           [parentActive |-> active, active |-> active /\ value, branchTaken |-> value,
            sawElse |-> FALSE, tested |-> <<value>>]))
<1>. DEFINE group == [parentActive |-> active, active |-> active /\ value, branchTaken |-> value,
                      sawElse |-> FALSE, tested |-> <<value>>]
            opened == Append(groups, group)
<1>1. groups \in Seq(GroupType) /\ group \in GroupType
  BY DEF WellNested, GroupType
<1>2. /\ opened \in Seq(GroupType)
      /\ Len(groups) \in Nat
      /\ Len(opened) = Len(groups) + 1
      /\ DOMAIN opened = 1..(Len(groups) + 1)
      /\ DOMAIN groups = 1..Len(groups)
      /\ opened[Len(groups) + 1] = group
      /\ \A i \in DOMAIN groups : opened[i] = groups[i]
      /\ groups # <<>> <=> Len(groups) > 0
  BY <1>1
<1>3. SUFFICES ASSUME NEW k \in DOMAIN opened
               PROVE  GroupInv(opened, k)
  BY <1>2 DEF WellNested
<1>4. CASE k \in DOMAIN groups
  <2>1. opened[k] = groups[k] /\ (k > 1 => opened[k - 1] = groups[k - 1])
    BY <1>2, <1>4
  <2>2. GroupInv(groups, k)
    BY <1>4 DEF WellNested
  <2>. QED  BY <2>1, <2>2 DEF GroupInv
<1>5. CASE k = Len(groups) + 1
  <2>1. opened[k] = group
    BY <1>2, <1>5
  <2>5. k > 1 => opened[k - 1] = Last(groups) /\ groups # <<>>
    <3>1. k > 1 => k - 1 = Len(groups) /\ Len(groups) \in DOMAIN groups
      BY <1>2, <1>5
    <3>. QED  BY <1>2, <3>1 DEF Last
  <2>2. group.tested = <<value>> /\ Len(<<value>>) = 1 /\ Last(<<value>>) = value
        /\ DOMAIN <<value>> = {1}
    BY DEF Last
  <2>3. active <=> (k > 1 => opened[k - 1].active)
    <3>1. k > 1 <=> groups # <<>>
      BY <1>2, <1>5
    <3>. QED  BY <2>5, <3>1
  <2>6. \A n \in 1..(Len(<<value>>) - 1) : ~(<<value>>)[n]
    OBVIOUS
  <2>7. (active /\ value) <=> active /\ Last(<<value>>) /\ \A n \in 1..(Len(<<value>>) - 1) : ~(<<value>>)[n]
    BY <2>2, <2>6
  <2>8. /\ opened[k].tested = <<value>> /\ opened[k].tested # <<>>
        /\ opened[k].parentActive = active
        /\ opened[k].active = (active /\ value)
        /\ opened[k].branchTaken = value
    BY <2>1
  <2>4. value <=> \E n \in DOMAIN <<value>> : <<value>>[n]
    BY <2>2
  <2>. QED  BY ZenonT(60), <1>1, <2>1, <2>3, <2>4, <2>7, <2>8 DEF GroupInv
<1>. QED  BY <1>2, <1>4, <1>5

(* The innermost group goes on with one more branch (#elif and #else).     *)
LEMMA BranchAdded ==
  ASSUME NEW groups, WellNested(groups), groups # <<>>, NEW value \in BOOLEAN,
         NEW group \in GroupType,
         group.parentActive = Last(groups).parentActive,
         group.active = (Last(groups).parentActive /\ ~Last(groups).branchTaken /\ value),
         group.branchTaken = (Last(groups).branchTaken \/ value),
         group.tested = Append(Last(groups).tested, value)
  PROVE  WellNested(Append(Front(groups), group))
<1>. DEFINE before == Last(groups)
            added == Append(Front(groups), group)
            m == Len(groups)
<1>1. groups \in Seq(GroupType) /\ IsSequence(groups)
  BY AnySequence DEF WellNested
<1>2. m \in Nat /\ m > 0 /\ DOMAIN groups = 1..m
  BY <1>1, SequenceFacts
<1>3. IsSequence(Front(groups)) /\ Len(Front(groups)) = m - 1
      /\ \A i \in 1..(m - 1) : Front(groups)[i] = groups[i]
  BY <1>1, Shortened
<1>4. /\ IsSequence(added) /\ Len(added) = m /\ added[m] = group
      /\ \A i \in 1..(m - 1) : added[i] = groups[i]
  <2>1. /\ IsSequence(added) /\ Len(added) = (m - 1) + 1
        /\ \A i \in 1..Len(added) : added[i] = IF i = Len(added) THEN group ELSE Front(groups)[i]
    BY <1>3, Appended
  <2>2. (m - 1) + 1 = m /\ m \in 1..m /\ \A i \in 1..(m - 1) : i \in 1..m /\ i # m
    BY <1>2, AllButLast
  <2>. QED  BY <1>3, <2>1, <2>2
<1>5. DOMAIN added = 1..m
  BY <1>4, SequenceFacts
<1>6. \A i \in 1..m : added[i] \in GroupType
  BY <1>1, <1>2, <1>4
<1>7. added \in Seq(GroupType)
  <2>1. added \in Seq({added[i] : i \in DOMAIN added})
    BY <1>4 DEF IsSequence
  <2>. QED  BY SMTT(30), <2>1, <1>5, <1>6, SeqMonotonic
<1>8. ASSUME NEW k \in 1..(m - 1)
      PROVE  GroupInv(added, k)
  <2>1. added[k] = groups[k] /\ (k > 1 => added[k - 1] = groups[k - 1])
    <3>1. k > 1 => k - 1 \in 1..(m - 1)
      BY <1>2, AllButLast
    <3>. QED  BY <1>4, <3>1
  <2>2. GroupInv(groups, k)
    BY <1>2 DEF WellNested
  <2>. QED  BY <2>1, <2>2 DEF GroupInv
<1>9. GroupInv(added, m)
  <2>1. GroupInv(groups, m) /\ before = groups[m]
    BY <1>2 DEF WellNested, Last
  <2>2. added[m] = group /\ (m > 1 => added[m - 1] = groups[m - 1])
    BY <1>2, <1>4, AllButLast
  <2>. DEFINE old == before.tested
              new == group.tested
  <2>3. old \in Seq(BOOLEAN) /\ Len(old) \in Nat /\ DOMAIN old = 1..Len(old)
    BY <2>1, LenProperties DEF GroupInv, GroupType
  <2>4. /\ Len(new) = Len(old) + 1
        /\ DOMAIN new = 1..(Len(old) + 1)
        /\ new[Len(old) + 1] = value
        /\ \A n \in 1..Len(old) : new[n] = old[n]
        /\ new # <<>>
        /\ Last(new) = value
    BY <2>3 DEF Last
  <2>5. before.branchTaken <=> \E n \in 1..Len(old) : old[n]
    BY <2>1, <2>3 DEF GroupInv
  <2>6. group.branchTaken <=> \E n \in DOMAIN new : new[n]
    BY <2>3, <2>4, <2>5
  <2>7. group.active <=> /\ group.parentActive
                         /\ Last(new)
                         /\ \A n \in 1..(Len(new) - 1) : ~new[n]
    <3>1. Len(new) - 1 = Len(old)
      BY <2>3, <2>4
    <3>2. (\A n \in 1..(Len(new) - 1) : ~new[n]) <=> ~before.branchTaken
      BY <2>4, <2>5, <3>1
    <3>3. group.active <=> before.parentActive /\ ~before.branchTaken /\ value
      OBVIOUS
    <3>. QED  BY <2>4, <3>2, <3>3
  <2>8. group.parentActive <=> (m > 1 => added[m - 1].active)
    BY <2>1, <2>2 DEF GroupInv
  <2>. QED  BY <2>2, <2>4, <2>6, <2>7, <2>8 DEF GroupInv
<1>10. \A k \in DOMAIN added : GroupInv(added, k)
  <2>1. \A k \in DOMAIN added : k \in 1..(m - 1) \/ k = m
    BY <1>2, <1>5, AllButLast
  <2>. QED  BY <1>8, <1>9, <2>1
<1>. QED  BY <1>7, <1>10 DEF WellNested

(* The innermost group ends (#endif).                                      *)
LEMMA GroupClosed ==
  ASSUME NEW groups, WellNested(groups), groups # <<>>
  PROVE  WellNested(Front(groups))
<1>. DEFINE rest == Front(groups)
            m == Len(groups)
<1>1. groups \in Seq(GroupType) /\ IsSequence(groups)
  BY AnySequence DEF WellNested
<1>2. m \in Nat /\ m > 0 /\ DOMAIN groups = 1..m
  BY <1>1, SequenceFacts
<1>3. IsSequence(rest) /\ Len(rest) = m - 1 /\ \A i \in 1..(m - 1) : rest[i] = groups[i]
  BY <1>1, Shortened
<1>4. DOMAIN rest = 1..(m - 1)
  BY <1>3, SequenceFacts
<1>5. rest \in Seq(GroupType)
  <2>1. rest \in Seq({rest[i] : i \in DOMAIN rest})
    BY <1>3 DEF IsSequence
  <2>2. \A i \in DOMAIN rest : rest[i] \in GroupType
    BY <1>1, <1>2, <1>3, <1>4
  <2>. QED  BY <2>1, <2>2, SeqMonotonic
<1>6. ASSUME NEW k \in DOMAIN rest
      PROVE  GroupInv(rest, k)
  <2>1. rest[k] = groups[k] /\ (k > 1 => rest[k - 1] = groups[k - 1])
    BY <1>2, <1>3, <1>4
  <2>2. GroupInv(groups, k)
    BY <1>2, <1>4 DEF WellNested
  <2>. QED  BY <2>1, <2>2 DEF GroupInv
<1>. QED  BY <1>5, <1>6 DEF WellNested

-----------------------------------------------------------------------------
(* The chain of files being expanded.                                      *)

Chain(s) ==
  /\ IsSequence(s)
  /\ \A i \in DOMAIN s : FrameInv(s[i])
  /\ Len(s) <= MaxIncludeDepth
  /\ \A i, j \in DOMAIN s : s[i].file = s[j].file => i = j

(* What a frame may become between two lines of the file.                  *)
LEMMA FrameFailed ==
  ASSUME NEW frame, FrameInv(frame)
  PROVE  /\ FrameInv(Failed(frame))
         /\ Failed(frame).ok = FALSE
         /\ \A field \in FrameFields \ {"ok"} : Failed(frame)[field] = frame[field]
BY DEF FrameInv, FrameFields, Failed

LEMMA FrameRegrouped ==
  ASSUME NEW frame, FrameInv(frame), NEW groups, WellNested(groups)
  PROVE  LET after == [frame EXCEPT !.conditionals = groups]
         IN /\ FrameInv(after)
            /\ \A field \in FrameFields \ {"conditionals"} : after[field] = frame[field]
BY DEF FrameInv, FrameFields

LEMMA ChainTop ==
  ASSUME NEW s, Chain(s), s # <<>>
  PROVE  FrameInv(Last(s))
<1>1. Len(s) \in DOMAIN s
  BY SequenceFacts DEF Chain
<1>. QED  BY <1>1 DEF Chain, Last

LEMMA ChainReplaced ==
  ASSUME NEW s, Chain(s), s # <<>>, NEW frame, FrameInv(frame), frame.file = Last(s).file
  PROVE  /\ Chain(ReplaceAt(s, Len(s), frame))
         /\ ReplaceAt(s, Len(s), frame) # <<>>
         /\ Last(ReplaceAt(s, Len(s), frame)) = frame
<1>. DEFINE t == ReplaceAt(s, Len(s), frame)
<1>1. /\ IsSequence(t) /\ Len(t) = Len(s) /\ t # <<>> /\ Last(t) = frame
      /\ \A i \in 1..Len(s) : t[i] = IF i = Len(s) THEN frame ELSE s[i]
  BY LastReplaced DEF Chain
<1>2. DOMAIN s = 1..Len(s) /\ DOMAIN t = 1..Len(s)
  BY <1>1, SequenceFacts DEF Chain
<1>3. \A i \in DOMAIN t : FrameInv(t[i]) /\ t[i].file = s[i].file
  BY <1>1, <1>2 DEF Chain, Last
<1>4. \A i, j \in DOMAIN t : t[i].file = t[j].file => i = j
  BY <1>2, <1>3 DEF Chain
<1>. QED  BY <1>1, <1>3, <1>4 DEF Chain

LEMMA ChainPushed ==
  ASSUME NEW s, Chain(s), NEW frame, FrameInv(frame), Len(s) < MaxIncludeDepth,
         \A i \in DOMAIN s : s[i].file # frame.file
  PROVE  /\ Chain(Append(s, frame))
         /\ Append(s, frame) # <<>>
         /\ Last(Append(s, frame)) = frame
<1>. DEFINE t == Append(s, frame)
<1>1. /\ IsSequence(t) /\ Len(t) = Len(s) + 1 /\ t # <<>> /\ Last(t) = frame
      /\ \A i \in 1..Len(t) : t[i] = IF i = Len(t) THEN frame ELSE s[i]
  BY Appended DEF Chain
<1>2. Len(s) \in Nat /\ DOMAIN s = 1..Len(s) /\ DOMAIN t = 1..Len(t)
  BY <1>1, SequenceFacts DEF Chain
<1>3. \A i \in DOMAIN t : i = Len(t) \/ i \in DOMAIN s
  BY <1>1, <1>2
<1>4. \A i \in DOMAIN s : i \in DOMAIN t /\ i # Len(t)
  BY <1>1, <1>2
<1>5. \A i \in DOMAIN t : FrameInv(t[i])
  BY <1>1, <1>2, <1>3 DEF Chain
<1>6. ASSUME NEW i \in DOMAIN t, NEW j \in DOMAIN t, t[i].file = t[j].file
      PROVE  i = j
  <2>1. CASE i = Len(t) /\ j = Len(t)
    BY <2>1
  <2>2. CASE i = Len(t) /\ j \in DOMAIN s
    BY <1>1, <1>2, <1>4, <1>6, <2>2
  <2>3. CASE i \in DOMAIN s /\ j = Len(t)
    BY <1>1, <1>2, <1>4, <1>6, <2>3
  <2>4. CASE i \in DOMAIN s /\ j \in DOMAIN s
    BY <1>1, <1>2, <1>4, <1>6, <2>4 DEF Chain
  <2>. QED  BY <1>3, <2>1, <2>2, <2>3, <2>4
<1>7. Len(t) <= MaxIncludeDepth
  BY <1>1, <1>2, DepthAssumption
<1>. QED  BY <1>1, <1>5, <1>6, <1>7 DEF Chain

LEMMA ChainPopped ==
  ASSUME NEW s, Chain(s), s # <<>>
  PROVE  Chain(Front(s))
<1>. DEFINE t == Front(s)
<1>1. /\ IsSequence(t) /\ Len(t) = Len(s) - 1
      /\ \A i \in 1..Len(t) : t[i] = s[i]
  BY Shortened DEF Chain
<1>2. Len(s) \in Nat /\ Len(s) > 0 /\ DOMAIN s = 1..Len(s) /\ DOMAIN t = 1..Len(t)
  BY <1>1, SequenceFacts DEF Chain
<1>3. \A i \in DOMAIN t : i \in DOMAIN s /\ t[i] = s[i]
  BY <1>1, <1>2
<1>4. \A i \in DOMAIN t : FrameInv(t[i])
  BY <1>3 DEF Chain
<1>5. \A i, j \in DOMAIN t : t[i].file = t[j].file => i = j
  BY <1>3 DEF Chain
<1>6. Len(t) <= MaxIncludeDepth
  BY <1>1, <1>2, DepthAssumption DEF Chain
<1>. QED  BY <1>1, <1>4, <1>5, <1>6 DEF Chain

-----------------------------------------------------------------------------
(* The stack is a chain of distinct, readable files; while a line is dealt *)
(* with, `logical` and the file being expanded agree on where it began.    *)

Phases == {"start", "read", "splice", "interpret", "list", "join", "done"}
OnALine == {"splice", "interpret", "list", "join"}
LogicalFields == {"dir", "text", "from", "taken", "commentOpen"}

StackInv ==
  /\ phase \in Phases
  /\ Chain(stack)
  /\ stack = <<>> <=> phase \in {"start", "done"}
  /\ DOMAIN logical = LogicalFields
  /\ logical.taken \in Nat
  /\ phase \in OnALine => logical.from = Top.logicalLine

(* A frame that differs from the one on top in nothing the line map reads. *)
SameFile(frame) ==
  /\ FrameInv(frame)
  /\ frame.file = Top.file
  /\ frame.logicalLine = Top.logicalLine

LEMMA TopFrame ==
  ASSUME StackInv, stack # <<>>
  PROVE  /\ FrameInv(Top)
         /\ SameFile(Top)
BY ChainTop DEF StackInv, SameFile, Top

LEMMA FollowedFrame ==
  ASSUME StackInv, stack # <<>>, NEW differs
  PROVE  /\ SameFile(Follow(Top, differs))
         /\ Follow(Top, differs).conditionals = Top.conditionals
         /\ Follow(Top, differs).ok = Top.ok
         /\ Follow(Top, differs).position = Top.position
<1>. DEFINE comment == EndsInComment(Text, Top.cComment)
            misread == Top.misread \/ differs
            after == [Top EXCEPT !.cComment = comment, !.misread = misread]
<1>1. Follow(Top, differs) = after
  BY DEF Follow
<1>2. /\ FrameInv(after)
      /\ \A field \in FrameFields \ {"cComment", "misread"} : after[field] = Top[field]
  <2>1. FrameInv(Top)
    BY TopFrame
  <2>. HIDE DEF comment, misread
  <2>. QED  BY <2>1 DEF FrameInv, FrameFields
<1>3. after.file = Top.file /\ after.logicalLine = Top.logicalLine
      /\ after.conditionals = Top.conditionals /\ after.ok = Top.ok /\ after.position = Top.position
  BY <1>2 DEF FrameFields
<1>. QED  BY <1>1, <1>2, <1>3 DEF SameFile

LEMMA ObeyingFrame ==
  ASSUME StackInv, stack # <<>>
  PROVE  /\ SameFile(Obeying)
         /\ SameFile(Failed(Obeying))
         /\ Obeying.conditionals = Top.conditionals
         /\ Obeying.ok = Top.ok
         /\ Failed(Obeying).ok = FALSE
         /\ Obeying.position = Top.position
         /\ Failed(Obeying).position = Top.position
<1>1. /\ SameFile(Obeying) /\ Obeying.conditionals = Top.conditionals /\ Obeying.ok = Top.ok
      /\ Obeying.position = Top.position
  BY FollowedFrame DEF Obeying
<1>2. /\ FrameInv(Failed(Obeying)) /\ Failed(Obeying).ok = FALSE
      /\ Failed(Obeying).position = Obeying.position
      /\ Failed(Obeying).file = Obeying.file
      /\ Failed(Obeying).logicalLine = Obeying.logicalLine
  BY <1>1, FrameFailed DEF SameFile, FrameFields
<1>. QED  BY <1>1, <1>2 DEF SameFile

LEMMA RegroupedFrame ==
  ASSUME StackInv, stack # <<>>, NEW groups, WellNested(groups)
  PROVE  LET after == [Obeying EXCEPT !.conditionals = groups]
         IN /\ SameFile(after) /\ after.ok = Top.ok /\ after.position = Top.position
            /\ SameFile(Failed(after)) /\ Failed(after).ok = FALSE
            /\ Failed(after).position = Top.position
<1>. DEFINE after == [Obeying EXCEPT !.conditionals = groups]
<1>1. SameFile(Obeying) /\ Obeying.ok = Top.ok /\ Obeying.position = Top.position
  BY ObeyingFrame
<1>2. /\ FrameInv(after) /\ after.file = Obeying.file /\ after.logicalLine = Obeying.logicalLine
      /\ after.ok = Obeying.ok /\ after.position = Obeying.position
  BY <1>1, FrameRegrouped DEF SameFile, FrameFields
<1>3. /\ FrameInv(Failed(after)) /\ Failed(after).ok = FALSE
      /\ Failed(after).file = after.file /\ Failed(after).position = after.position
      /\ Failed(after).logicalLine = after.logicalLine
  BY ZenonT(60), <1>2, FrameFailed DEF FrameFields
<1>. QED  BY <1>1, <1>2, <1>3 DEF SameFile

(* The conditional directives leave well-nested groups behind.             *)
LEMMA OpenedFrame ==
  ASSUME StackInv, stack # <<>>, NEW value \in BOOLEAN
  PROVE  /\ SameFile(Opened(value)) /\ Opened(value).ok = Top.ok
         /\ Opened(value).position = Top.position
         /\ SameFile(Failed(Opened(value))) /\ Failed(Opened(value)).ok = FALSE
         /\ Failed(Opened(value)).position = Top.position
<1>. DEFINE active == Active(Top)
            group == [parentActive |-> active, active |-> active /\ value,
                      branchTaken |-> value, sawElse |-> FALSE, tested |-> <<value>>]
<1>1. WellNested(Top.conditionals)
  BY TopFrame DEF FrameInv
<1>2. active \in BOOLEAN
      /\ (active <=> (Top.conditionals # <<>> => Last(Top.conditionals).active))
  BY DEF Active
<1>3. Opened(value) = [Obeying EXCEPT !.conditionals = Append(Top.conditionals, group)]
  BY ObeyingFrame DEF Opened
<1>. HIDE DEF active
<1>. DEFINE groups == Append(Top.conditionals, group)
<1>4. WellNested(groups)
  BY <1>1, <1>2, GroupOpened
<1>5. Opened(value) = [Obeying EXCEPT !.conditionals = groups]
  BY <1>3
<1>. HIDE DEF groups
<1>. DEFINE after == [Obeying EXCEPT !.conditionals = groups]
<1>6. /\ SameFile(after) /\ after.ok = Top.ok /\ after.position = Top.position
      /\ SameFile(Failed(after)) /\ Failed(after).ok = FALSE
      /\ Failed(after).position = Top.position
  BY <1>4, RegroupedFrame
<1>. HIDE DEF after
<1>7. Opened(value) = after
  BY <1>5 DEF after
<1>. QED  BY <1>6, <1>7

LEMMA BranchFrame ==
  ASSUME StackInv, stack # <<>>, Top.conditionals # <<>>, NEW value \in BOOLEAN
  PROVE  LET group == AnotherBranch(Last(Top.conditionals), value)
         IN /\ SameFile(SetConditional(group))
            /\ SetConditional(group).ok = Top.ok
            /\ SetConditional(group).position = Top.position
            /\ SameFile(SetConditional([group EXCEPT !.sawElse = TRUE]))
            /\ SetConditional([group EXCEPT !.sawElse = TRUE]).ok = Top.ok
            /\ SetConditional([group EXCEPT !.sawElse = TRUE]).position = Top.position
<1>. DEFINE before == Last(Top.conditionals)
            group == AnotherBranch(before, value)
            otherwise == [group EXCEPT !.sawElse = TRUE]
<1>1. WellNested(Top.conditionals)
  BY TopFrame DEF FrameInv
<1>2. before \in GroupType
  <2>1. Top.conditionals \in Seq(GroupType)
    BY <1>1 DEF WellNested
  <2>. QED  BY <2>1, EmptySeq, ElementOfSeq DEF Last
<1>3. before.tested \in Seq(BOOLEAN)
  BY <1>2 DEF GroupType
<1>. DEFINE active == before.parentActive /\ ~before.branchTaken /\ value
            taken == before.branchTaken \/ value
            tested == Append(before.tested, value)
<1>5. group = [before EXCEPT !.active = active, !.branchTaken = taken, !.tested = tested]
  BY DEF AnotherBranch
<1>6. active \in BOOLEAN /\ taken \in BOOLEAN /\ tested \in Seq(BOOLEAN)
  BY <1>3
<1>7. group \in GroupType /\ otherwise \in GroupType
  <2>. HIDE DEF active, taken, tested, before
  <2>. QED  BY <1>2, <1>5, <1>6 DEF GroupType
<1>4. /\ group.parentActive = before.parentActive
      /\ group.active = active
      /\ group.branchTaken = taken
      /\ group.tested = tested
  <2>. HIDE DEF active, taken, tested, before
  <2>. QED  BY <1>2, <1>5 DEF GroupType
<1>8. WellNested(Append(Front(Top.conditionals), group))
  BY <1>1, <1>4, <1>7, BranchAdded
<1>9. /\ otherwise.parentActive = before.parentActive
      /\ otherwise.active = active
      /\ otherwise.branchTaken = taken
      /\ otherwise.tested = tested
  <2>. HIDE DEF active, taken, tested, before
  <2>. QED  BY <1>4, <1>7 DEF GroupType
<1>10. WellNested(Append(Front(Top.conditionals), otherwise))
  <2>. HIDE DEF otherwise
  <2>. QED  BY <1>1, <1>7, <1>9, BranchAdded
<1>11. ASSUME NEW g
       PROVE  SetConditional(g) = [Obeying EXCEPT !.conditionals = Append(Front(Top.conditionals), g)]
  BY ObeyingFrame DEF SetConditional
<1>. QED  BY <1>8, <1>10, <1>11, RegroupedFrame

-----------------------------------------------------------------------------
(* Every step keeps the chain.                                             *)

(* One more physical line of the file has been taken.                      *)
LEMMA FrameAdvanced ==
  ASSUME NEW frame, FrameInv(frame), NEW line
  PROVE  LET taken == [frame EXCEPT !.position = @ + 1, !.sourceLine = @ + 1]
             begun == [frame EXCEPT !.position = @ + 1, !.sourceLine = @ + 1, !.logicalLine = line]
         IN /\ FrameInv(taken) /\ taken.file = frame.file /\ taken.logicalLine = frame.logicalLine
            /\ FrameInv(begun) /\ begun.file = frame.file /\ begun.logicalLine = line
            /\ taken.ok = frame.ok /\ begun.ok = frame.ok
            /\ taken.position = frame.position + 1 /\ begun.position = frame.position + 1
<1>. DEFINE next == frame.position + 1
            taken == [frame EXCEPT !.position = next, !.sourceLine = next]
            begun == [frame EXCEPT !.position = next, !.sourceLine = next, !.logicalLine = line]
<1>1. next \in Nat /\ frame.position + 1 = next /\ frame.sourceLine + 1 = next
  BY DEF FrameInv
<1>2. /\ FrameInv(taken) /\ taken.file = frame.file /\ taken.logicalLine = frame.logicalLine
      /\ FrameInv(begun) /\ begun.file = frame.file /\ begun.logicalLine = line
      /\ taken.ok = frame.ok /\ begun.ok = frame.ok /\ taken.position = next /\ begun.position = next
  <2>1. next \in Nat
    BY <1>1
  <2>. HIDE DEF next
  <2>. QED  BY <2>1 DEF FrameInv, FrameFields
<1>. QED  BY <1>1, <1>2

LEMMA SetTopKeeps ==
  ASSUME StackInv, stack # <<>>, NEW frame, SameFile(frame), SetTop(frame)
  PROVE  Chain(stack') /\ stack' # <<>> /\ Last(stack') = frame
<1>1. Chain(stack) /\ FrameInv(frame) /\ frame.file = Last(stack).file
  BY DEF StackInv, SameFile, Top
<1>. QED  BY <1>1, ChainReplaced DEF SetTop

(* Most directives: the frame has changed, and an empty line is written.   *)
LEMMA BlankKeeps ==
  ASSUME StackInv, stack # <<>>, NEW frame, SameFile(frame), Blank(frame), UNCHANGED logical
  PROVE  StackInv'
<1>1. SetTop(frame) /\ phase' = "read"
  BY DEF Blank
<1>2. Chain(stack') /\ stack' # <<>>
  BY <1>1, SetTopKeeps
<1>. QED  BY <1>1, <1>2 DEF StackInv, Phases, OnALine

(* Every line of a conditional group leaves an empty one, and the frame    *)
(* where it was in the file.                                               *)
LeavesABlank(frame) == Blank(frame) /\ SameFile(frame) /\ frame.position = Top.position

ConditionalStep == If \/ IfDefined \/ Elif \/ Else \/ Endif \/ SkipInactive

LEMMA ConditionalsBlank ==
  ASSUME StackInv, ConditionalStep
  PROVE  /\ phase = "interpret" /\ stack # <<>> /\ UNCHANGED <<files, logical>>
         /\ \E frame : LeavesABlank(frame)
<1>0. phase = "interpret" /\ stack # <<>> /\ UNCHANGED <<files, logical>>
  BY DEF StackInv, ConditionalStep, If, IfDefined, Elif, Else, Endif, SkipInactive, Directive
<1>1. CASE If
  <2>1. Blank(Opened(Valid /\ Holds)) /\ (Valid /\ Holds) \in BOOLEAN
    BY <1>1 DEF If
  <2>. DEFINE value == Valid /\ Holds
  <2>. HIDE DEF value
  <2>. QED  BY <1>0, <2>1, OpenedFrame DEF value, LeavesABlank
<1>2. CASE IfDefined
  <2>1. CASE Blank(Failed(Opened(FALSE)))
    BY <1>0, <2>1, OpenedFrame DEF LeavesABlank
  <2>. DEFINE value == (logical.dir.name \in DOMAIN macros) # (logical.dir.op = "ifndef")
  <2>2. CASE Blank(Opened(value))
    <3>1. value \in BOOLEAN
      OBVIOUS
    <3>. HIDE DEF value
    <3>. QED  BY <1>0, <2>2, <3>1, OpenedFrame DEF LeavesABlank
  <2>. QED  BY <1>2, <2>1, <2>2 DEF IfDefined
<1>3. CASE Elif
  <2>1. CASE Blank(Failed(Obeying))
    BY <1>0, <2>1, ObeyingFrame DEF LeavesABlank
  <2>2. CASE ~Unmatched /\ Blank(SetConditional(AnotherBranch(Last(Top.conditionals), Valid /\ Holds)))
    <3>. DEFINE value == Valid /\ Holds
    <3>1. Top.conditionals # <<>> /\ value \in BOOLEAN
      BY <2>2 DEF Unmatched
    <3>2. Blank(SetConditional(AnotherBranch(Last(Top.conditionals), value)))
      BY <2>2
    <3>. HIDE DEF value
    <3>. QED  BY <1>0, <3>1, <3>2, BranchFrame DEF LeavesABlank
  <2>. QED  BY <1>3, <2>1, <2>2 DEF Elif
<1>4. CASE Else
  <2>1. CASE Blank(Failed(Obeying))
    BY <1>0, <2>1, ObeyingFrame DEF LeavesABlank
  <2>2. CASE /\ ~Unmatched
             /\ Blank(SetConditional([AnotherBranch(Last(Top.conditionals), TRUE) EXCEPT !.sawElse = TRUE]))
    <3>1. Top.conditionals # <<>>
      BY <2>2 DEF Unmatched
    <3>. QED  BY <1>0, <2>2, <3>1, BranchFrame DEF LeavesABlank
  <2>. QED  BY <1>4, <2>1, <2>2 DEF Else
<1>5. CASE Endif
  <2>1. CASE Blank(Failed(Obeying))
    BY <1>0, <2>1, ObeyingFrame DEF LeavesABlank
  <2>2. CASE Top.conditionals # <<>> /\ Blank([Obeying EXCEPT !.conditionals = Front(@)])
    <3>1. WellNested(Front(Top.conditionals))
      BY <1>0, <2>2, TopFrame, GroupClosed DEF FrameInv
    <3>2. [Obeying EXCEPT !.conditionals = Front(@)] = [Obeying EXCEPT !.conditionals = Front(Top.conditionals)]
      BY <1>0, ObeyingFrame
    <3>. QED  BY <1>0, <2>2, <3>1, <3>2, RegroupedFrame DEF LeavesABlank
  <2>. QED  BY <1>5, <2>1, <2>2 DEF Endif
<1>6. CASE SkipInactive
  <2>1. \E differs : Blank(Follow(Top, differs))
    BY <1>6 DEF SkipInactive
  <2>. QED  BY <1>0, <2>1, FollowedFrame DEF LeavesABlank
<1>. QED  BY <1>0, <1>1, <1>2, <1>3, <1>4, <1>5, <1>6 DEF ConditionalStep

LEMMA ConditionalsKeepStack ==
  ASSUME StackInv, ConditionalStep
  PROVE  StackInv'
BY ConditionalsBlank, BlankKeeps DEF LeavesABlank

PlainDirective ==
  \/ IncludeNothing \/ Define \/ Undef \/ UserMessage \/ UnsupportedDirective
  \/ PragmaOnce \/ PragmaIgnored \/ PragmaPush \/ PragmaPop \/ PragmaListEnds

LEMMA PlainDirectivesBlank ==
  ASSUME StackInv, PlainDirective
  PROVE  /\ stack # <<>>
         /\ UNCHANGED logical
         /\ Blank(Obeying) \/ Blank(Failed(Obeying))
<1>1. phase \in {"interpret", "list"} /\ UNCHANGED logical
  BY DEF PlainDirective, IncludeNothing, Define, Undef, UserMessage, UnsupportedDirective, PragmaOnce,
     PragmaIgnored, PragmaPush, PragmaPop, PragmaListEnds, Pragma, ActiveDirective, Directive
<1>2. stack # <<>>
  BY <1>1 DEF StackInv
<1>3. Blank(Obeying) \/ Blank(Failed(Obeying))
  BY DEF PlainDirective, IncludeNothing, Define, Undef, UserMessage, UnsupportedDirective, PragmaOnce,
     PragmaIgnored, PragmaPush, PragmaPop, PragmaListEnds
<1>. QED  BY <1>1, <1>2, <1>3

LEMMA PlainDirectivesKeepStack ==
  ASSUME StackInv, PlainDirective
  PROVE  StackInv'
BY PlainDirectivesBlank, ObeyingFrame, BlankKeeps

LEMMA MainFrame == ASSUME NEW file \in Files \ Unreadable PROVE FrameInv(Frame(file))
<1>1. WellNested(<<>>)
  BY DEF WellNested
<1>. QED  BY <1>1 DEF FrameInv, Frame, FrameFields

LEMMA FirstFrame ==
  ASSUME NEW file \in Files \ Unreadable
  PROVE  Chain(<<Frame(file)>>)
<1>1. Chain(<<>>)
  <2>0. <<>> \in Seq({})
    OBVIOUS
  <2>1. IsSequence(<<>>)
    BY <2>0, AnySequence
  <2>2. Len(<<>>) = 0 /\ DOMAIN <<>> = {}
    OBVIOUS
  <2>. QED  BY <2>1, <2>2, DepthAssumption DEF Chain
<1>2. Chain(Append(<<>>, Frame(file)))
  <2>1. Len(<<>>) < MaxIncludeDepth /\ DOMAIN <<>> = {}
    BY DepthAssumption
  <2>. QED  BY <1>1, <2>1, MainFrame, ChainPushed
<1>. QED  BY <1>2

LEMMA ReadingKeepsStack ==
  ASSUME StackInv, Run \/ ReadLine \/ SpliceLine \/ SpliceAtEnd
  PROVE  StackInv'
<1>1. CASE Run
  <2>1. stack' = <<Frame(Main)>> /\ phase' = "read" /\ UNCHANGED logical
    BY <1>1 DEF Run
  <2>2. Chain(stack') /\ stack' # <<>>
    BY <2>1, FirstFrame, FilesAssumption
  <2>. QED  BY <2>1, <2>2 DEF StackInv, Phases, OnALine
<1>2. CASE ReadLine
  <2>. DEFINE frame == [Top EXCEPT !.position = @ + 1, !.sourceLine = @ + 1,
                                   !.logicalLine = Top.sourceLine + 1]
  <2>1. phase = "read" /\ SetTop(frame) /\ phase' \in {"splice", "interpret"}
    BY <1>2 DEF ReadLine
  <2>2. PICK line : logical' = Logical(line.dir, line.text, Top.position + 1)
    BY <1>2 DEF ReadLine
  <2>3. stack # <<>> /\ FrameInv(Top)
    BY <2>1, TopFrame DEF StackInv
  <2>4. FrameInv(frame) /\ frame.file = Top.file /\ frame.logicalLine = Top.position + 1
    <3>1. Top.sourceLine + 1 = Top.position + 1
      BY <2>3 DEF FrameInv
    <3>. QED  BY <2>3, <3>1, FrameAdvanced
  <2>5. Chain(stack') /\ stack' # <<>> /\ Last(stack') = frame
    BY <2>1, <2>3, <2>4, ChainReplaced DEF StackInv, SetTop, Top
  <2>6. /\ DOMAIN logical' = LogicalFields
        /\ logical'.taken \in Nat
        /\ logical'.from = Top.position + 1
    BY <2>2 DEF Logical, LogicalFields
  <2>. QED  BY <2>1, <2>4, <2>5, <2>6 DEF StackInv, Phases, OnALine, Top
<1>3. CASE SpliceLine
  <2>. DEFINE frame == [Top EXCEPT !.position = @ + 1, !.sourceLine = @ + 1]
  <2>1. phase = "splice" /\ SetTop(frame) /\ phase' \in {"splice", "interpret"}
    BY <1>3 DEF SpliceLine
  <2>2. \E text : logical' = [logical EXCEPT !.text = text]
    BY <1>3 DEF SpliceLine
  <2>3. stack # <<>> /\ FrameInv(Top)
    BY <2>1, TopFrame DEF StackInv
  <2>4. SameFile(frame)
    BY <2>3, FrameAdvanced DEF SameFile
  <2>5. Chain(stack') /\ stack' # <<>> /\ Last(stack') = frame
    BY <2>1, <2>3, <2>4, SetTopKeeps
  <2>6. /\ DOMAIN logical' = LogicalFields
        /\ logical'.taken \in Nat
        /\ logical'.from = Top.logicalLine
    BY <2>1, <2>2 DEF StackInv, LogicalFields, OnALine
  <2>. QED  BY <2>1, <2>4, <2>5, <2>6 DEF StackInv, SameFile, Phases, OnALine, Top
<1>4. CASE SpliceAtEnd
  BY <1>4 DEF SpliceAtEnd, StackInv, Phases, OnALine, Top
<1>. QED  BY <1>1, <1>2, <1>3, <1>4

LEMMA IncludesKeepStack ==
  ASSUME StackInv, Include
  PROVE  StackInv'
<1>1. PICK file \in Files : Enter(file)
  BY DEF Include
<1>2. phase = "interpret" /\ stack # <<>> /\ phase' = "read" /\ UNCHANGED logical
  BY <1>1 DEF StackInv, Include, Enter, ActiveDirective, Directive
<1>3. CASE SetTop(Obeying) \/ SetTop(Failed(Obeying))
  <2>1. Chain(stack') /\ stack' # <<>>
    BY <1>2, <1>3, ObeyingFrame, SetTopKeeps
  <2>. QED  BY <1>2, <2>1 DEF StackInv, Phases, OnALine
<1>4. CASE /\ file \notin Unreadable
           /\ ~BeingExpanded(file)
           /\ Len(stack) < MaxIncludeDepth
           /\ stack' = Append(ReplaceAt(stack, Len(stack), Obeying), Frame(file))
  <2>. DEFINE below == ReplaceAt(stack, Len(stack), Obeying)
  <2>1. SameFile(Obeying) /\ Chain(stack)
    BY <1>2, ObeyingFrame DEF StackInv
  <2>2. Chain(below)
    BY <1>2, <2>1, ChainReplaced DEF SameFile, Top
  <2>3. /\ Len(below) = Len(stack)
        /\ \A i \in 1..Len(stack) : below[i] = IF i = Len(stack) THEN Obeying ELSE stack[i]
    BY <1>2, <2>1, LastReplaced DEF Chain
  <2>4. DOMAIN stack = 1..Len(stack) /\ DOMAIN below = 1..Len(stack)
    BY <2>1, <2>2, <2>3, SequenceFacts DEF Chain
  <2>5. \A i \in DOMAIN below : below[i].file = stack[i].file
    BY <2>1, <2>3, <2>4 DEF SameFile, Top, Last
  <2>6. Frame(file).file = file
    BY DEF Frame
  <2>7. \A i \in DOMAIN below : below[i].file # Frame(file).file
    BY <1>4, <2>4, <2>5, <2>6 DEF BeingExpanded
  <2>8. Chain(stack') /\ stack' # <<>>
    BY <1>1, <1>4, <2>2, <2>3, <2>7, MainFrame, ChainPushed
  <2>. QED  BY <1>2, <2>8 DEF StackInv, Phases, OnALine
<1>. QED  BY <1>1, <1>3, <1>4 DEF Enter

LEMMA EndOfFileKeepsStack ==
  ASSUME StackInv, EndOfFile
  PROVE  StackInv'
<1>. DEFINE below == Front(stack)
<1>1. phase = "read" /\ stack # <<>> /\ UNCHANGED logical
  BY DEF StackInv, EndOfFile
<1>2. Chain(below)
  BY <1>1, ChainPopped DEF StackInv
<1>3. CASE below = <<>> /\ stack' = below /\ phase' = "done"
  BY <1>1, <1>2, <1>3 DEF StackInv, Phases, OnALine
<1>4. ASSUME below # <<>>, NEW fine,
             stack' = [below EXCEPT ![Len(below)].ok = @ /\ fine], phase' = phase
      PROVE  StackInv'
  <2>. DEFINE ok_ == Last(below).ok /\ fine
              frame == [Last(below) EXCEPT !.ok = ok_]
  <2>1. FrameInv(Last(below))
    BY <1>2, <1>4, ChainTop
  <2>2. FrameInv(frame) /\ frame.file = Last(below).file
    <3>. HIDE DEF ok_
    <3>. QED  BY <2>1 DEF FrameInv, FrameFields
  <2>3. Len(below) \in DOMAIN below
    BY <1>2, <1>4, SequenceFacts DEF Chain
  <2>4. stack' = ReplaceAt(below, Len(below), frame)
    BY <1>4, <2>3 DEF ReplaceAt, Last
  <2>5. Chain(stack') /\ stack' # <<>>
    BY ZenonT(60), <1>2, <1>4, <2>2, <2>4, ChainReplaced
  <2>. QED  BY <1>1, <1>4, <2>5 DEF StackInv, Phases, OnALine
<1>. QED  BY <1>3, <1>4 DEF EndOfFile

(* The list of a warning pragma is taken without touching the stack.       *)
LEMMA ListKeepsStack ==
  ASSUME StackInv, PragmaSet \/ PragmaNumber \/ PragmaBadNumber
  PROVE  StackInv'
<1>1. CASE PragmaSet
  BY <1>1 DEF PragmaSet, Pragma, ActiveDirective, Directive, StackInv, Phases, OnALine, Top
<1>2. CASE PragmaNumber \/ PragmaBadNumber
  <2>1. /\ phase = "list" /\ UNCHANGED <<phase, stack>>
        /\ logical' = [logical EXCEPT !.taken = @ + 1]
    BY <1>2 DEF PragmaNumber, PragmaBadNumber, NextNumber
  <2>2. DOMAIN logical' = LogicalFields /\ logical'.taken \in Nat /\ logical'.from = logical.from
    BY <2>1 DEF StackInv, LogicalFields
  <2>. QED  BY <2>1, <2>2 DEF StackInv, Top
<1>. QED  BY <1>1, <1>2

(* A frame whose line has been expanded.                                   *)
LEMMA EmittedFrame ==
  ASSUME StackInv, stack # <<>>, NEW frame, SameFile(frame), NEW open, NEW misread
  PROVE  LET after == [frame EXCEPT !.inBlockComment = open, !.misread = misread]
         IN SameFile(after) /\ after.ok = frame.ok /\ after.position = frame.position
BY DEF SameFile, FrameInv, FrameFields

(* What is left on top when a line has been expanded.                      *)
LEMMA EmittedTop ==
  ASSUME StackInv, stack # <<>>, NEW text, NEW frame, SameFile(frame), NEW taken,
         Emit(text, frame, taken)
  PROVE  /\ phase' = "read"
         /\ \E after : /\ SetTop(after) /\ SameFile(after)
                       /\ after.ok = frame.ok /\ after.position = frame.position
<1>1. phase' = "read"
      /\ \E open, misread : SetTop([frame EXCEPT !.inBlockComment = open, !.misread = misread])
  <2>. DEFINE open == Expanded(text, frame).open
              misread == frame.misread \/ "MacroExpansionByteLimit" \in
                                          Expanded(text, frame).errors \cap PreprocessorWarnings
  <2>1. phase' = "read" /\ SetTop([frame EXCEPT !.inBlockComment = open, !.misread = misread])
    BY DEF Emit
  <2>. HIDE DEF open, misread
  <2>. QED  BY <2>1
<1>2. PICK open, misread : SetTop([frame EXCEPT !.inBlockComment = open, !.misread = misread])
  BY <1>1
<1>. DEFINE after == [frame EXCEPT !.inBlockComment = open, !.misread = misread]
<1>3. SameFile(after) /\ after.ok = frame.ok /\ after.position = frame.position
  BY ZenonT(60), EmittedFrame
<1>. QED  BY <1>1, <1>2, <1>3

LEMMA EmitKeeps ==
  ASSUME StackInv, stack # <<>>, UNCHANGED logical,
         NEW text, NEW frame, SameFile(frame), NEW taken, Emit(text, frame, taken)
  PROVE  StackInv'
<1>1. phase' = "read" /\ Chain(stack') /\ stack' # <<>>
  BY EmittedTop, SetTopKeeps
<1>. QED  BY <1>1 DEF StackInv, Phases, OnALine

LEMMA MisreadFrame ==
  ASSUME StackInv, stack # <<>>, NEW misread
  PROVE  LET after == [Top EXCEPT !.misread = misread]
         IN SameFile(after) /\ after.ok = Top.ok /\ after.position = Top.position
<1>1. SameFile(Top)
  BY TopFrame
<1>. QED  BY <1>1 DEF SameFile, FrameInv, FrameFields

LEMMA TextKeepsStack ==
  ASSUME StackInv, EmitLine \/ StartJoin \/ JoinLine \/ EmitJoined
  PROVE  StackInv'
<1>0. phase \in {"interpret", "join"} /\ stack # <<>>
  BY DEF StackInv, EmitLine, StartJoin, JoinLine, EmitJoined
<1>1. CASE EmitLine
  BY <1>0, <1>1, FollowedFrame, EmitKeeps DEF EmitLine
<1>2. CASE StartJoin
  <2>1. PICK frame : SameFile(frame) /\ SetTop(frame)
    BY <1>0, <1>2, FollowedFrame DEF StartJoin
  <2>2. phase' = "join" /\ phase = "interpret"
    BY <1>2 DEF StartJoin
  <2>3. \E dir, text, open : logical' = [logical EXCEPT !.dir = dir, !.text = text, !.commentOpen = open]
    <3>. DEFINE open == EndsInComment(Text, Top.inBlockComment)
    <3>1. \E dir, text : logical' = [logical EXCEPT !.dir = dir, !.text = text, !.commentOpen = open]
      BY <1>2 DEF StartJoin
    <3>. HIDE DEF open
    <3>. QED  BY <3>1
  <2>4. DOMAIN logical' = LogicalFields /\ logical'.taken \in Nat /\ logical'.from = Top.logicalLine
    BY <2>2, <2>3 DEF StackInv, LogicalFields, OnALine
  <2>5. Chain(stack') /\ stack' # <<>> /\ Last(stack') = frame
    BY <1>0, <2>1, SetTopKeeps
  <2>. QED  BY <2>1, <2>2, <2>4, <2>5 DEF StackInv, SameFile, Phases, OnALine, Top
<1>3. CASE JoinLine
  <2>. DEFINE frame == [Top EXCEPT !.position = @ + 1, !.sourceLine = @ + 1]
  <2>1. PICK line, comment, text, open :
          /\ SetTop([frame EXCEPT !.cComment = comment])
          /\ logical' = [logical EXCEPT !.text = text, !.taken = @ + 1, !.commentOpen = open]
    <3>1. PICK line \in NextLines :
            LET text == JoinedTokens(line)
            IN /\ logical' = [logical EXCEPT
                    !.text = @ \o SubSeq(text, 1, LineCommentAt(text, logical.commentOpen) - 1),
                    !.taken = @ + 1,
                    !.commentOpen = EndsInComment(text, @)]
               /\ SetTop([Top EXCEPT !.position = @ + 1, !.sourceLine = @ + 1,
                                     !.cComment = EndsInComment(text, @)])
      BY <1>3 DEF JoinLine
    <3>. DEFINE comment == EndsInComment(JoinedTokens(line), Top.cComment)
                open == EndsInComment(JoinedTokens(line), logical.commentOpen)
                text == logical.text \o SubSeq(JoinedTokens(line), 1,
                          LineCommentAt(JoinedTokens(line), logical.commentOpen) - 1)
    <3>2. SetTop([Top EXCEPT !.position = @ + 1, !.sourceLine = @ + 1, !.cComment = comment])
      BY <3>1
    <3>3. logical' = [logical EXCEPT !.text = text, !.taken = @ + 1, !.commentOpen = open]
      BY <3>1
    <3>. HIDE DEF comment, open, text
    <3>4. [Top EXCEPT !.position = @ + 1, !.sourceLine = @ + 1, !.cComment = comment]
            = [frame EXCEPT !.cComment = comment]
      BY <1>0, TopFrame DEF FrameInv, FrameFields
    <3>. QED  BY <3>2, <3>3, <3>4
  <2>2. phase = "join" /\ UNCHANGED phase
    BY <1>3 DEF JoinLine
  <2>3. SameFile(frame)
    BY <1>0, TopFrame, FrameAdvanced DEF SameFile
  <2>4. SameFile([frame EXCEPT !.cComment = comment])
    <3>. HIDE DEF frame
    <3>. QED  BY <2>3 DEF SameFile, FrameInv, FrameFields
  <2>5. Chain(stack') /\ stack' # <<>> /\ Last(stack') = [frame EXCEPT !.cComment = comment]
    BY <1>0, <2>1, <2>4, SetTopKeeps
  <2>6. DOMAIN logical' = LogicalFields /\ logical'.taken \in Nat /\ logical'.from = Top.logicalLine
    BY <2>1, <2>2 DEF StackInv, LogicalFields, OnALine
  <2>. HIDE DEF frame
  <2>. QED  BY <2>2, <2>4, <2>5, <2>6 DEF StackInv, SameFile, Phases, OnALine, Top
<1>4. CASE EmitJoined
  <2>1. \E misread : Emit(logical.text, [Top EXCEPT !.misread = misread], logical.taken)
    <3>. DEFINE misread == Top.misread \/ logical.commentOpen
    <3>1. Emit(logical.text, [Top EXCEPT !.misread = misread], logical.taken)
      BY <1>4 DEF EmitJoined
    <3>. HIDE DEF misread
    <3>. QED  BY <3>1
  <2>2. UNCHANGED logical
    BY <1>4 DEF EmitJoined
  <2>. QED  BY <1>0, <2>1, <2>2, MisreadFrame, EmitKeeps
<1>. QED  BY <1>1, <1>2, <1>3, <1>4

THEOREM StackInvHolds == Spec => []StackInv
<1>1. Init => StackInv
  <2>1. <<>> \in Seq({})
    OBVIOUS
  <2>2. IsSequence(<<>>)
    BY <2>1, AnySequence
  <2>3. Len(<<>>) = 0 /\ DOMAIN <<>> = {}
    OBVIOUS
  <2>4. Chain(<<>>)
    BY <2>2, <2>3, DepthAssumption DEF Chain
  <2>. QED  BY <2>4 DEF Init, StackInv, Phases, OnALine, Logical, LogicalFields
<1>2. StackInv /\ [Next]_vars => StackInv'
  <2>1. ASSUME StackInv, UNCHANGED vars
        PROVE  StackInv'
    BY <2>1 DEF StackInv, Top, vars
  <2>. QED  BY <2>1, ReadingKeepsStack, EndOfFileKeepsStack, ConditionalsKeepStack, IncludesKeepStack,
            PlainDirectivesKeepStack, ListKeepsStack, TextKeepsStack
            DEF Next, ConditionalStep, PlainDirective, Finished
<1>. QED  BY <1>1, <1>2, PTL DEF Spec

-----------------------------------------------------------------------------
(* What follows from the chain.                                            *)

(* Whatever the conditionals of a program and of the files it includes, a  *)
(* branch is taken exactly when it is the first of its group that held and *)
(* the group stands in one that is.                                        *)
THEOREM FirstTrueBranchAlways == Spec => []FirstTrueBranch
<1>1. StackInv => FirstTrueBranch
  <2>1. SUFFICES ASSUME StackInv, NEW i \in DOMAIN stack, NEW k \in DOMAIN stack[i].conditionals
                 PROVE  LET groups == stack[i].conditionals
                            tested == groups[k].tested
                        IN groups[k].active <=> /\ k > 1 => groups[k - 1].active
                                                /\ Last(tested)
                                                /\ \A earlier \in 1..(Len(tested) - 1) : ~tested[earlier]
    BY DEF FirstTrueBranch
  <2>2. GroupInv(stack[i].conditionals, k)
    BY <2>1 DEF StackInv, Chain, FrameInv, WellNested
  <2>. QED  BY <2>2 DEF GroupInv
<1>. QED  BY <1>1, StackInvHolds, PTL

(* No file is ever being expanded twice at once, none is expanded that     *)
(* cannot be opened, and includes never nest deeper than the limit:        *)
(* #include always comes to an end, whatever includes what.                *)
IncludeChain ==
  /\ Len(stack) <= MaxIncludeDepth
  /\ \A i \in DOMAIN stack : stack[i].file \in Files \ Unreadable
  /\ \A i, j \in DOMAIN stack : stack[i].file = stack[j].file => i = j

THEOREM IncludeChainAlways == Spec => []IncludeChain
<1>1. StackInv => IncludeChain
  BY DEF StackInv, Chain, FrameInv, IncludeChain
<1>. QED  BY <1>1, StackInvHolds, PTL

-----------------------------------------------------------------------------
(* The line map.                                                           *)

MapInv == IsSequence(out) /\ MapNamesTheLine

(* An empty line may be mapped anywhere.                                   *)
LEMMA EntryAdded ==
  ASSUME MapInv, NEW entry, out' = Append(out, entry), entry.text # <<>> => entry.line = entry.from
  PROVE  MapInv'
<1>1. /\ IsSequence(out') /\ Len(out') = Len(out) + 1
      /\ \A i \in 1..Len(out') : out'[i] = IF i = Len(out') THEN entry ELSE out[i]
  BY Appended DEF MapInv
<1>2. Len(out) \in Nat /\ DOMAIN out = 1..Len(out) /\ DOMAIN out' = 1..Len(out')
  BY <1>1, SequenceFacts DEF MapInv
<1>3. \A line \in DOMAIN out' : line = Len(out') \/ line \in DOMAIN out
  BY <1>1, <1>2
<1>. QED  BY <1>1, <1>2, <1>3 DEF MapInv, MapNamesTheLine

LEMMA BlankKeepsMap ==
  ASSUME MapInv, NEW frame, Blank(frame)
  PROVE  MapInv'
<1>1. PICK entry : out' = Append(out, entry) /\ entry.text = <<>>
  BY DEF Blank, Written
<1>. QED  BY <1>1, EntryAdded

(* A line expanded is one entry, and each line joined to it one more.      *)
LEMMA EmittedLines ==
  ASSUME IsSequence(out), NEW text, NEW frame, NEW taken \in Nat, Emit(text, frame, taken)
  PROVE  /\ IsSequence(out') /\ Len(out') = Len(out) + 1 + taken
         /\ \A i \in 1..Len(out) : out'[i] = out[i]
         /\ out'[Len(out) + 1] = Written(frame.logicalLine, Expanded(text, frame).text, logical.from)
         /\ \A k \in 1..taken :
              out'[Len(out) + 1 + k] = Written(frame.logicalLine + k, <<>>, frame.position - taken + k)
<1>. DEFINE first == Written(frame.logicalLine, Expanded(text, frame).text, logical.from)
            next(k) == Written(frame.logicalLine + k, <<>>, frame.position - taken + k)
            after == [k \in 1..taken |-> next(k)]
            begun == out \o <<first>>
<1>1. out' = begun \o after
  BY DEF Emit
<1>. HIDE DEF first, next
<1>2. IsSequence(after) /\ Len(after) = taken /\ DOMAIN after = 1..taken
      /\ \A k \in 1..taken : after[k] = next(k)
  <2>. DEFINE S == {after[k] : k \in 1..taken}
  <2>1. after \in Seq(S) /\ Len(after) = taken
    BY IsASeq
  <2>. QED  BY <2>1, AnySequence
<1>. HIDE DEF after
<1>3. /\ IsSequence(begun) /\ Len(begun) = Len(out) + 1 /\ Len(out) \in Nat
      /\ \A i \in 1..Len(begun) : begun[i] = IF i = Len(begun) THEN first ELSE out[i]
  <2>1. begun = Append(out, first)
    BY DEF IsSequence
  <2>. HIDE DEF begun
  <2>2. Len(out) \in Nat
    BY SequenceFacts
  <2>. QED  BY <2>1, <2>2, Appended
<1>. HIDE DEF begun
<1>4. /\ IsSequence(out') /\ Len(out') = Len(begun) + taken
      /\ \A i \in 1..(Len(begun) + taken) :
           out'[i] = IF i <= Len(begun) THEN begun[i] ELSE after[i - Len(begun)]
  <2>. DEFINE S == {begun[i] : i \in DOMAIN begun} \cup {after[i] : i \in DOMAIN after}
  <2>1. begun \in Seq(S) /\ after \in Seq(S)
    BY <1>2, <1>3, SeqMonotonic DEF IsSequence
  <2>. HIDE DEF S
  <2>. QED  BY <1>1, <1>2, <2>1, ConcatProperties, AnySequence
<1>5. ASSUME NEW i \in 1..Len(out)
      PROVE  out'[i] = out[i]
  <2>1. i \in 1..Len(begun) /\ i # Len(begun) /\ i \in 1..(Len(begun) + taken) /\ i <= Len(begun)
    BY <1>3
  <2>. QED  BY <1>3, <1>4, <2>1
<1>6. out'[Len(out) + 1] = first
  <2>1. /\ Len(out) + 1 = Len(begun) /\ Len(begun) \in 1..Len(begun)
        /\ Len(begun) \in 1..(Len(begun) + taken) /\ Len(begun) <= Len(begun)
    BY <1>3
  <2>. QED  BY <1>3, <1>4, <2>1
<1>7. \A k \in 1..taken : out'[Len(out) + 1 + k] = next(k)
  <2>. SUFFICES ASSUME NEW k \in 1..taken
                PROVE  out'[Len(out) + 1 + k] = next(k)
    OBVIOUS
  <2>1. /\ Len(out) + 1 + k \in 1..(Len(begun) + taken) /\ ~(Len(out) + 1 + k <= Len(begun))
        /\ Len(out) + 1 + k - Len(begun) = k
    BY <1>3
  <2>. QED  BY <1>2, <1>4, <2>1
<1>. QED  BY <1>3, <1>4, <1>5, <1>6, <1>7 DEF first, next

LEMMA EmitKeepsMap ==
  ASSUME StackInv, phase \in OnALine, MapInv, NEW text, NEW frame, SameFile(frame),
         NEW taken \in Nat, Emit(text, frame, taken)
  PROVE  MapInv'
<1>1. IsSequence(out) /\ Len(out) \in Nat /\ DOMAIN out = 1..Len(out)
  BY SequenceFacts DEF MapInv
<1>2. /\ IsSequence(out') /\ Len(out') = Len(out) + 1 + taken
      /\ \A i \in 1..Len(out) : out'[i] = out[i]
      /\ out'[Len(out) + 1] = Written(frame.logicalLine, Expanded(text, frame).text, logical.from)
      /\ \A k \in 1..taken :
           out'[Len(out) + 1 + k] = Written(frame.logicalLine + k, <<>>, frame.position - taken + k)
  BY <1>1, EmittedLines
<1>3. DOMAIN out' = 1..(Len(out) + 1 + taken)
  BY <1>2, SequenceFacts
<1>4. out'[Len(out) + 1].line = out'[Len(out) + 1].from
  BY <1>2 DEF Written, SameFile, StackInv
<1>5. ASSUME NEW k \in 1..taken
      PROVE  out'[Len(out) + 1 + k].text = <<>>
  <2>1. out'[Len(out) + 1 + k] = Written(frame.logicalLine + k, <<>>, frame.position - taken + k)
    BY <1>2
  <2>. QED  BY <2>1 DEF Written
<1>6. ASSUME NEW line \in DOMAIN out', out'[line].text # <<>>
      PROVE  out'[line].line = out'[line].from
  <2>1. CASE line \in DOMAIN out
    BY <1>1, <1>2, <1>6, <2>1 DEF MapInv, MapNamesTheLine
  <2>2. CASE line = Len(out) + 1
    BY <1>4, <2>2
  <2>3. CASE line \notin DOMAIN out /\ line # Len(out) + 1
    <3>. DEFINE k == line - (Len(out) + 1)
    <3>1. k \in 1..taken /\ line = Len(out) + 1 + k
      BY <1>1, <1>3, <2>3
    <3>. QED  BY <1>5, <1>6, <3>1
  <2>. QED  BY <2>1, <2>2, <2>3
<1>. QED  BY <1>2, <1>6 DEF MapInv, MapNamesTheLine

(* The steps that write nothing.                                           *)
SilentStep ==
  \/ Run \/ ReadLine \/ SpliceLine \/ SpliceAtEnd \/ EndOfFile \/ Include
  \/ PragmaSet \/ PragmaNumber \/ PragmaBadNumber \/ StartJoin \/ JoinLine \/ Finished

LEMMA SilentSteps ==
  ASSUME SilentStep
  PROVE  UNCHANGED out
<1>1. CASE Run \/ ReadLine \/ SpliceLine \/ SpliceAtEnd \/ EndOfFile \/ Include
  BY <1>1 DEF Run, ReadLine, SpliceLine, SpliceAtEnd, EndOfFile, Include, Enter
<1>2. CASE PragmaSet \/ PragmaNumber \/ PragmaBadNumber \/ StartJoin \/ JoinLine \/ Finished
  BY <1>2 DEF PragmaSet, PragmaNumber, PragmaBadNumber, NextNumber, StartJoin, JoinLine, Finished, vars
<1>. QED  BY <1>1, <1>2 DEF SilentStep

LEMMA MapInvHolds == Spec => []MapInv
<1>1. Init => MapInv
  <2>1. <<>> \in Seq({})
    OBVIOUS
  <2>2. IsSequence(<<>>)
    BY <2>1, AnySequence
  <2>3. DOMAIN <<>> = {}
    OBVIOUS
  <2>. QED  BY <2>2, <2>3 DEF Init, MapInv, MapNamesTheLine
<1>2. StackInv /\ MapInv /\ [Next]_vars => MapInv'
  <2>. SUFFICES ASSUME StackInv, MapInv, [Next]_vars
                PROVE  MapInv'
    OBVIOUS
  <2>1. CASE UNCHANGED out
    BY <2>1 DEF MapInv, MapNamesTheLine
  <2>2. CASE ConditionalStep \/ PlainDirective
    BY <2>2, ConditionalsBlank, PlainDirectivesBlank, BlankKeepsMap DEF LeavesABlank
  <2>3. CASE EmitLine
    <3>1. phase \in OnALine /\ stack # <<>>
      BY <2>3 DEF EmitLine, OnALine, StackInv
    <3>. QED  BY <2>3, <3>1, FollowedFrame, EmitKeepsMap DEF EmitLine
  <2>4. CASE EmitJoined
    <3>1. phase \in OnALine /\ stack # <<>> /\ logical.taken \in Nat
      BY <2>4 DEF EmitJoined, OnALine, StackInv
    <3>. DEFINE misread == Top.misread \/ logical.commentOpen
                frame == [Top EXCEPT !.misread = misread]
    <3>2. Emit(logical.text, frame, logical.taken)
      BY <2>4 DEF EmitJoined
    <3>3. SameFile(frame)
      <4>. HIDE DEF misread
      <4>. QED  BY <3>1, MisreadFrame
    <3>. HIDE DEF frame
    <3>. QED  BY <3>1, <3>2, <3>3, EmitKeepsMap
  <2>. QED  BY <2>1, <2>2, <2>3, <2>4, SilentSteps
       DEF Next, ConditionalStep, PlainDirective, SilentStep, vars
<1>. QED  BY <1>1, <1>2, StackInvHolds, PTL DEF Spec

(* A line of the output that has text is mapped to the physical line its   *)
(* text begins on, whatever was spliced, joined, skipped or included       *)
(* before it.                                                              *)
THEOREM MapNamesTheLineAlways == Spec => []MapNamesTheLine
<1>1. MapInv => MapNamesTheLine
  BY DEF MapInv
<1>. QED  BY <1>1, MapInvHolds, PTL

-----------------------------------------------------------------------------
(* The types.  What the lines read are, where each file stands, what the    *)
(* directives leave in the macro table, the pragma-once list and the       *)
(* warning policy, and what the replay of that policy comes to at a line.  *)

(* The lines, as far as they have been read.                               *)
LinesInv ==
  /\ vocabulary \in Vocabularies
  /\ content \in [Files -> Seq(LineType)]
  /\ logical.dir \in DirectiveType
  /\ logical.text \in Line
  /\ \A i \in DOMAIN stack : stack[i].position <= Len(content[stack[i].file])

ListType == [op : {"pragma"}, what : {"set"}, action : Actions, numbers : Seq(STRING)]

DefineType ==
  [op : {"define"}, name : Token, functionLike : BOOLEAN, parameters : Seq(Token),
   faults : SUBSET {"InvalidMacroParameterList", "UnterminatedMacroParameterList"}]

(* What the directives set.                                                *)
SettingsInv ==
  /\ ok \in BOOLEAN
  /\ ended \in [Files -> BOOLEAN]
  /\ pragmaOnce \subseteq Files
  /\ policy \in Seq(Change)
  /\ inForce \in [current : ForceType, saved : Seq(ForceType)]
  /\ warningPragmaDepth = Len(inForce.saved)
  /\ \A name \in DOMAIN macros : macros[name] \in Macro
  /\ phase = "list" => logical.dir.op = "pragma" /\ logical.dir.what = "set"

LEMMA DefineOnly ==
  ASSUME NEW dir \in DirectiveType, dir.op = "define"
  PROVE  dir \in DefineType
BY DEF DirectiveType, DefineType

LEMMA ListOnly ==
  ASSUME NEW dir \in DirectiveType, dir.op = "pragma", dir.what = "set"
  PROVE  dir \in ListType
BY DEF DirectiveType, ListType

-----------------------------------------------------------------------------
(* Parts of a line.                                                        *)

LEMMA NatLeast ==
  ASSUME NEW S \in SUBSET Nat, S # {}
  PROVE  Min(S) \in S /\ \A y \in S : Min(S) <= y
<1>1. PICK x \in S : \A y \in S : <<y, x>> \notin OpToRel(<, Nat)
  BY NatLessThanWellFounded, WFMin
<1>2. \A y \in S : ~(y < x)
  BY <1>1 DEF OpToRel
<1>3. \A y \in S : x <= y
  BY <1>2
<1>. QED  BY <1>3 DEF Min

LEMMA LeastIsThere ==
  ASSUME NEW S \in SUBSET Nat, S # {}
  PROVE  Min(S) \in S
BY NatLeast

LEMMA Prefix ==
  ASSUME NEW text \in Line, NEW n \in 0..Len(text)
  PROVE  SubSeq(text, 1, n) \in Line
<1>1. \A i \in 1..n : text[i] \in Token
  BY DEF Line
<1>. QED  BY <1>1, SubSeqProperties DEF Line

LEMMA LineCommentPlace ==
  ASSUME NEW text \in Line, NEW open
  PROVE  LineCommentAt(text, open) - 1 \in 0..Len(text)
<1>. DEFINE S == {i \in 1..Len(text) : text[i] = "//" /\ ReadAs(text, i, open) = "code"}
                 \cup {Len(text) + 1}
<1>1. Len(text) \in Nat
  BY LenProperties DEF Line
<1>2. S \in SUBSET Nat /\ S # {} /\ S \subseteq 1..(Len(text) + 1)
  BY <1>1
<1>3. Min(S) \in 1..(Len(text) + 1)
  BY <1>2, LeastIsThere
<1>. QED  BY <1>1, <1>3 DEF LineCommentAt

LEMMA FindPlace ==
  ASSUME NEW text \in Line, NEW token
  PROVE  Find(text, token, 1) \in 1..(Len(text) + 1)
<1>. DEFINE S == {j \in 1..Len(text) : text[j] = token} \cup {Len(text) + 1}
<1>1. Len(text) \in Nat
  BY LenProperties DEF Line
<1>2. S \in SUBSET Nat /\ S # {} /\ S \subseteq 1..(Len(text) + 1)
  BY <1>1
<1>3. Min(S) \in 1..(Len(text) + 1)
  BY <1>2, LeastIsThere
<1>. QED  BY <1>3 DEF Find

LEMMA ReplacementIsALine ==
  ASSUME NEW text \in Line
  PROVE  WithoutDirectiveComment(text) \in Line
<1>. DEFINE S == {Find(text, "//", 1), Find(text, "/*", 1)}
<1>1. Len(text) \in Nat
  BY LenProperties DEF Line
<1>2. S \subseteq 1..(Len(text) + 1)
  BY FindPlace
<1>3. S \in SUBSET Nat /\ S # {}
  BY <1>1, <1>2
<1>4. Min(S) \in 1..(Len(text) + 1)
  BY <1>2, <1>3, LeastIsThere
<1>5. Min(S) - 1 \in 0..Len(text)
  BY <1>1, <1>4
<1>. QED  BY <1>5, Prefix DEF WithoutDirectiveComment

LEMMA OneToken ==
  ASSUME NEW token \in Token
  PROVE  <<token>> \in Line
BY DEF Line

LEMMA TokensAreALine ==
  ASSUME NEW line \in LineType
  PROVE  /\ line.dir \in DirectiveType
         /\ line.text \in Line
         /\ Tokens(line.dir, line.text) \in Line
         /\ JoinedTokens(line) \in Line
<1>1. line.dir \in DirectiveType /\ line.text \in Line
  BY DEF LineType
<1>2. <<"w">> \in Line /\ <<"\\">> \in Line /\ <<>> \in Line
  <2>1. "w" \in Token /\ "\\" \in Token
    BY WordsAssumption
  <2>2. <<>> \in Line
    BY DEF Line
  <2>. QED  BY <2>1, <2>2, OneToken
<1>3. Tokens(line.dir, line.text) \in Line
  BY <1>1, <1>2 DEF Tokens, Line
<1>4. JoinedTokens(line) \in Line
  BY <1>2, <1>3 DEF JoinedTokens, Line
<1>. QED  BY <1>1, <1>3, <1>4

LEMMA TextIsALine ==
  ASSUME LinesInv
  PROVE  Text \in Line
<1>1. <<"w">> \in Line
  BY OneToken, WordsAssumption
<1>. QED  BY <1>1 DEF LinesInv, Text, Tokens, Line

-----------------------------------------------------------------------------
(* The lines read.                                                         *)

(* The line an action reads is one of the vocabulary, and there is room    *)
(* for the file to stand one line further once it has been decided.        *)
LEMMA LineDecided ==
  ASSUME StackInv, LinesInv, stack # <<>>, NEW line \in NextLines, Decide(line)
  PROVE  /\ line \in LineType
         /\ vocabulary' \in Vocabularies
         /\ content' \in [Files -> Seq(LineType)]
         /\ \A file \in Files : Len(content[file]) <= Len(content'[file])
         /\ Top.position + 1 <= Len(content'[Top.file])
<1>. DEFINE lines == content[Top.file]
<1>1. Top.file \in Files /\ Top.position \in Nat
  BY TopFrame DEF FrameInv
<1>2. lines \in Seq(LineType) /\ Len(lines) \in Nat
  BY <1>1 DEF LinesInv
<1>3. vocabulary \subseteq LineType /\ vocabulary' = vocabulary
  BY VocabularyAssumption DEF LinesInv, Decide
<1>4. \A file \in Files : Len(content[file]) \in Nat
  BY DEF LinesInv
<1>5. CASE Top.position < Len(lines)
  <2>1. line = lines[Top.position + 1] /\ content' = content
    BY <1>5 DEF NextLines, Decide
  <2>2. Top.position + 1 \in 1..Len(lines)
    BY <1>1, <1>2, <1>5
  <2>3. line \in LineType
    BY <1>2, <2>1, <2>2, ElementOfSeq
  <2>. QED  BY <1>3, <1>4, <2>1, <2>2, <2>3 DEF LinesInv
<1>6. CASE ~(Top.position < Len(lines))
  <2>1. Top.position = Len(lines) /\ line \in vocabulary
    BY <1>6 DEF NextLines
  <2>2. content' = [content EXCEPT ![Top.file] = Append(lines, line)]
    BY <1>1, <1>6 DEF Decide, LinesInv
  <2>3. line \in LineType /\ Append(lines, line) \in Seq(LineType)
        /\ Len(Append(lines, line)) = Len(lines) + 1
    BY <1>2, <1>3, <2>1
  <2>. HIDE DEF lines
  <2>4. content' \in [Files -> Seq(LineType)] /\ content'[Top.file] = Append(lines, line)
    BY <1>1, <2>2, <2>3 DEF LinesInv
  <2>5. \A file \in Files : content'[file] = content[file] \/ file = Top.file
    BY <1>1, <2>2 DEF LinesInv
  <2>6. Len(content[Top.file]) <= Len(content'[Top.file])
        /\ Top.position + 1 <= Len(content'[Top.file])
    BY <1>2, <2>1, <2>3, <2>4 DEF lines
  <2>. QED  BY SMTT(30), <1>3, <1>4, <2>3, <2>4, <2>5, <2>6 DEF LinesInv
<1>. QED  BY <1>5, <1>6

(* The file on top stands within its lines, whatever it has become.        *)
LEMMA TopReplacedStands ==
  ASSUME StackInv, LinesInv, stack # <<>>,
         content' \in [Files -> Seq(LineType)],
         \A file \in Files : Len(content[file]) <= Len(content'[file]),
         NEW frame, frame.file = Top.file, SetTop(frame), frame.position <= Len(content'[Top.file])
  PROVE  \A i \in DOMAIN stack' : stack'[i].position <= Len(content'[stack'[i].file])
<1>1. IsSequence(stack)
  BY DEF StackInv, Chain
<1>2. /\ IsSequence(stack') /\ Len(stack') = Len(stack)
      /\ \A i \in 1..Len(stack) : stack'[i] = IF i = Len(stack) THEN frame ELSE stack[i]
  BY <1>1, LastReplaced DEF SetTop
<1>3. DOMAIN stack = 1..Len(stack) /\ DOMAIN stack' = 1..Len(stack)
  BY <1>1, <1>2, SequenceFacts
<1>4. ASSUME NEW i \in DOMAIN stack', i # Len(stack)
      PROVE  stack'[i].position <= Len(content'[stack'[i].file])
  <2>1. stack'[i] = stack[i] /\ i \in DOMAIN stack
    BY <1>2, <1>3, <1>4
  <2>2. stack[i].file \in Files /\ stack[i].position \in Nat
    BY <2>1 DEF StackInv, Chain, FrameInv
  <2>3. stack[i].position <= Len(content[stack[i].file])
    BY <2>1 DEF LinesInv
  <2>4. Len(content[stack[i].file]) \in Nat /\ Len(content'[stack[i].file]) \in Nat
    BY <2>2 DEF LinesInv
  <2>. QED  BY <2>1, <2>2, <2>3, <2>4
<1>5. ASSUME NEW i \in DOMAIN stack', i = Len(stack)
      PROVE  stack'[i].position <= Len(content'[stack'[i].file])
  BY <1>2, <1>3, <1>5
<1>. QED  BY <1>4, <1>5

(* The same when no line is read.                                          *)
LEMMA TopStands ==
  ASSUME StackInv, LinesInv, stack # <<>>, UNCHANGED <<vocabulary, content>>,
         NEW frame, SameFile(frame), SetTop(frame), frame.position = Top.position
  PROVE  \A i \in DOMAIN stack' : stack'[i].position <= Len(content'[stack'[i].file])
<1>1. Len(stack) \in DOMAIN stack /\ Top = stack[Len(stack)]
  BY SequenceFacts DEF StackInv, Chain, Top, Last
<1>2. Top.position <= Len(content[Top.file])
  BY <1>1 DEF LinesInv
<1>3. \A file \in Files : Len(content[file]) \in Nat
  BY DEF LinesInv
<1>. QED  BY <1>2, <1>3, TopReplacedStands DEF LinesInv, SameFile

LEMMA BlankKeepsLines ==
  ASSUME StackInv, LinesInv, stack # <<>>, UNCHANGED <<vocabulary, content, logical>>,
         NEW frame, SameFile(frame), Blank(frame), frame.position = Top.position
  PROVE  LinesInv'
<1>1. \A i \in DOMAIN stack' : stack'[i].position <= Len(content'[stack'[i].file])
  BY TopStands DEF Blank
<1>. QED  BY <1>1 DEF LinesInv

LEMMA ConditionalsKeepLines ==
  ASSUME StackInv, LinesInv, ConditionalStep
  PROVE  LinesInv'
BY ConditionalsBlank, BlankKeepsLines DEF LeavesABlank, files

LEMMA PlainDirectivesKeepLines ==
  ASSUME StackInv, LinesInv, PlainDirective
  PROVE  LinesInv'
<1>1. stack # <<>> /\ UNCHANGED logical /\ (Blank(Obeying) \/ Blank(Failed(Obeying)))
  BY PlainDirectivesBlank
<1>2. UNCHANGED <<vocabulary, content>>
  BY DEF PlainDirective, IncludeNothing, Define, Undef, UserMessage, UnsupportedDirective, PragmaOnce,
     PragmaIgnored, PragmaPush, PragmaPop, PragmaListEnds, files
<1>. QED  BY <1>1, <1>2, ObeyingFrame, BlankKeepsLines

(* An included file is at its first line.                                  *)
LEMMA IncludesKeepLines ==
  ASSUME StackInv, LinesInv, Include
  PROVE  LinesInv'
<1>1. PICK file \in Files : Enter(file)
  BY DEF Include
<1>2. stack # <<>> /\ UNCHANGED <<vocabulary, content, logical>>
  BY <1>1 DEF StackInv, Include, Enter, ActiveDirective, Directive, files
<1>3. \A i \in DOMAIN stack' : stack'[i].position <= Len(content'[stack'[i].file])
  <2>1. CASE SetTop(Obeying) \/ SetTop(Failed(Obeying))
    BY <1>2, <2>1, ObeyingFrame, TopStands
  <2>2. CASE stack' = Append(ReplaceAt(stack, Len(stack), Obeying), Frame(file))
    <3>. DEFINE below == ReplaceAt(stack, Len(stack), Obeying)
    <3>1. IsSequence(stack) /\ SameFile(Obeying) /\ Obeying.position = Top.position
      BY <1>2, ObeyingFrame DEF StackInv, Chain
    <3>2. /\ IsSequence(below) /\ Len(below) = Len(stack)
          /\ \A i \in 1..Len(stack) : below[i] = IF i = Len(stack) THEN Obeying ELSE stack[i]
      BY <1>2, <3>1, LastReplaced
    <3>3. DOMAIN stack = 1..Len(stack) /\ DOMAIN below = 1..Len(stack) /\ Len(stack) \in Nat
      BY <3>1, <3>2, SequenceFacts
    <3>4. \A i \in DOMAIN stack : below[i].position = stack[i].position /\ below[i].file = stack[i].file
      BY <3>1, <3>2, <3>3 DEF Top, Last, SameFile
    <3>. HIDE DEF below
    <3>5. /\ IsSequence(stack') /\ Len(stack') = Len(stack) + 1
          /\ \A i \in 1..Len(stack') : stack'[i] = IF i = Len(stack') THEN Frame(file) ELSE below[i]
      BY <2>2, <3>2, Appended DEF below
    <3>6. DOMAIN stack' = 1..(Len(stack) + 1)
      BY <3>5, SequenceFacts
    <3>7. Frame(file).position = 0 /\ Frame(file).file = file /\ Len(content[file]) \in Nat
      BY <1>1 DEF Frame, LinesInv
    <3>8. \A i \in DOMAIN stack' : i \in DOMAIN stack \/ i = Len(stack')
      BY <3>3, <3>5, <3>6
    <3>9. \A i \in DOMAIN stack : i \in DOMAIN stack' /\ stack'[i] = below[i]
      BY <3>3, <3>5, <3>6
    <3>10. stack'[Len(stack')] = Frame(file)
      BY <3>3, <3>5, <3>6
    <3>11. \A i \in DOMAIN stack : stack'[i].position <= Len(content[stack'[i].file])
      BY <3>4, <3>9 DEF LinesInv
    <3>12. Frame(file).position <= Len(content[Frame(file).file])
      BY <3>7
    <3>. QED  BY <1>2, <3>8, <3>10, <3>11, <3>12
  <2>. QED  BY <1>1, <2>1, <2>2 DEF Enter
<1>. QED  BY <1>2, <1>3 DEF LinesInv

LEMMA EndOfFileKeepsLines ==
  ASSUME StackInv, LinesInv, EndOfFile
  PROVE  LinesInv'
<1>. DEFINE below == Front(stack)
<1>1. stack # <<>> /\ IsSequence(stack) /\ UNCHANGED <<vocabulary, content, logical>>
  BY DEF StackInv, Chain, EndOfFile, NoMoreLines
<1>2. /\ IsSequence(below) /\ Len(below) = Len(stack) - 1
      /\ \A i \in 1..Len(below) : below[i] = stack[i]
  BY <1>1, Shortened
<1>3. DOMAIN stack = 1..Len(stack) /\ DOMAIN below = 1..Len(below) /\ Len(stack) \in Nat
  BY <1>1, <1>2, SequenceFacts
<1>4. \A i \in DOMAIN below : i \in DOMAIN stack /\ below[i] = stack[i]
  BY <1>2, <1>3
<1>5. \A i \in DOMAIN below : FrameInv(below[i])
  BY <1>4 DEF StackInv, Chain
<1>. HIDE DEF below
<1>6. \E fine : stack' = below \/ stack' = [below EXCEPT ![Len(below)].ok = fine]
  <2>. DEFINE fine == below[Len(below)].ok /\ Top.ok /\ ~(Top.conditionals # <<>>)
  <2>1. stack' = below \/ stack' = [below EXCEPT ![Len(below)].ok = @ /\ Top.ok /\ ~(Top.conditionals # <<>>)]
    BY DEF EndOfFile, below
  <2>2. below # <<>> => Len(below) \in DOMAIN below
    BY <1>2, <1>3, SequenceFacts
  <2>. QED  BY <2>1
<1>7. DOMAIN stack' = DOMAIN below
      /\ \A i \in DOMAIN below : stack'[i].position = below[i].position /\ stack'[i].file = below[i].file
  BY <1>5, <1>6 DEF FrameInv, FrameFields
<1>. QED  BY <1>1, <1>4, <1>7 DEF LinesInv

LEMMA ReadingKeepsLines ==
  ASSUME StackInv, LinesInv, Run \/ ReadLine \/ SpliceLine \/ SpliceAtEnd
  PROVE  LinesInv'
<1>1. CASE Run
  <2>1. stack' = <<Frame(Main)>> /\ UNCHANGED <<vocabulary, content, logical>>
    BY <1>1 DEF Run, files
  <2>2. Frame(Main).position = 0 /\ Frame(Main).file = Main /\ Len(content[Main]) \in Nat
    BY FilesAssumption DEF Frame, LinesInv
  <2>3. \A i \in DOMAIN stack' : stack'[i] = Frame(Main)
    BY <2>1
  <2>. QED  BY <2>1, <2>2, <2>3 DEF LinesInv
<1>2. CASE ReadLine
  <2>. DEFINE frame == [Top EXCEPT !.position = @ + 1, !.sourceLine = @ + 1,
                                   !.logicalLine = Top.sourceLine + 1]
  <2>1. stack # <<>> /\ SetTop(frame)
    BY <1>2 DEF ReadLine, StackInv
  <2>2. PICK line \in NextLines : Decide(line) /\ logical' = Logical(line.dir, line.text, Top.position + 1)
    BY <1>2 DEF ReadLine
  <2>3. FrameInv(frame) /\ frame.file = Top.file /\ frame.position = Top.position + 1
    BY <2>1, TopFrame, FrameAdvanced
  <2>4. /\ line \in LineType
        /\ vocabulary' \in Vocabularies
        /\ content' \in [Files -> Seq(LineType)]
        /\ \A file \in Files : Len(content[file]) <= Len(content'[file])
        /\ frame.position <= Len(content'[Top.file])
    BY <2>1, <2>2, <2>3, LineDecided
  <2>5. logical'.dir \in DirectiveType /\ logical'.text \in Line
    BY <2>2, <2>4, TokensAreALine DEF Logical
  <2>. HIDE DEF frame
  <2>6. \A i \in DOMAIN stack' : stack'[i].position <= Len(content'[stack'[i].file])
    BY <2>1, <2>3, <2>4, TopReplacedStands
  <2>. QED  BY <2>4, <2>5, <2>6 DEF LinesInv
<1>3. CASE SpliceLine
  <2>. DEFINE frame == [Top EXCEPT !.position = @ + 1, !.sourceLine = @ + 1]
  <2>1. stack # <<>> /\ SetTop(frame)
    BY <1>3 DEF SpliceLine, StackInv
  <2>2. PICK line \in NextLines : /\ Decide(line)
                                  /\ logical' = [logical EXCEPT !.text = @ \o Tokens(line.dir, line.text)]
    BY <1>3 DEF SpliceLine
  <2>3. FrameInv(frame) /\ frame.file = Top.file /\ frame.position = Top.position + 1
    BY <2>1, TopFrame, FrameAdvanced
  <2>4. /\ line \in LineType
        /\ vocabulary' \in Vocabularies
        /\ content' \in [Files -> Seq(LineType)]
        /\ \A file \in Files : Len(content[file]) <= Len(content'[file])
        /\ frame.position <= Len(content'[Top.file])
    BY <2>1, <2>2, <2>3, LineDecided
  <2>5. logical'.dir \in DirectiveType /\ logical'.text \in Line
    <3>. DEFINE text == logical.text \o Tokens(line.dir, line.text)
    <3>1. text \in Line
      BY <2>4, TokensAreALine DEF LinesInv, Line
    <3>2. logical' = [logical EXCEPT !.text = text]
      BY <2>2
    <3>. HIDE DEF text
    <3>. QED  BY <3>1, <3>2 DEF StackInv, LogicalFields, LinesInv
  <2>. HIDE DEF frame
  <2>6. \A i \in DOMAIN stack' : stack'[i].position <= Len(content'[stack'[i].file])
    BY <2>1, <2>3, <2>4, TopReplacedStands
  <2>. QED  BY <2>4, <2>5, <2>6 DEF LinesInv
<1>4. CASE SpliceAtEnd
  BY <1>4 DEF SpliceAtEnd, NoMoreLines, LinesInv
<1>. QED  BY <1>1, <1>2, <1>3, <1>4

LEMMA ListKeepsLines ==
  ASSUME StackInv, LinesInv, PragmaSet \/ PragmaNumber \/ PragmaBadNumber
  PROVE  LinesInv'
<1>1. UNCHANGED <<vocabulary, content, stack>>
  BY DEF PragmaSet, PragmaNumber, PragmaBadNumber, NextNumber, files
<1>2. \/ UNCHANGED logical
      \/ logical' = [logical EXCEPT !.taken = @ + 1]
  BY DEF PragmaSet, PragmaNumber, PragmaBadNumber, NextNumber
<1>3. logical'.dir = logical.dir /\ logical'.text = logical.text
  BY <1>2 DEF StackInv, LogicalFields
<1>. QED  BY <1>1, <1>3 DEF LinesInv

LEMMA EmitStands ==
  ASSUME StackInv, LinesInv, stack # <<>>,
         content' \in [Files -> Seq(LineType)],
         \A file \in Files : Len(content[file]) <= Len(content'[file]),
         NEW text, NEW frame, SameFile(frame), frame.position <= Len(content'[Top.file]),
         NEW taken, Emit(text, frame, taken)
  PROVE  \A i \in DOMAIN stack' : stack'[i].position <= Len(content'[stack'[i].file])
<1>1. PICK after : SameFile(after) /\ after.position = frame.position /\ SetTop(after)
  BY EmittedTop
<1>. QED  BY <1>1, TopReplacedStands DEF SameFile

LEMMA TextKeepsLines ==
  ASSUME StackInv, LinesInv, EmitLine \/ StartJoin \/ JoinLine \/ EmitJoined
  PROVE  LinesInv'
<1>0. stack # <<>>
  BY DEF StackInv, EmitLine, StartJoin, JoinLine, EmitJoined
<1>. DEFINE Standing == \A i \in DOMAIN stack' : stack'[i].position <= Len(content'[stack'[i].file])
<1>a. /\ \A file \in Files : Len(content[file]) \in Nat
      /\ Top.file \in Files /\ Top.position <= Len(content[Top.file])
  <2>1. Len(stack) \in DOMAIN stack /\ Top = stack[Len(stack)]
    BY <1>0, SequenceFacts DEF StackInv, Chain, Top, Last
  <2>. QED  BY <1>0, <2>1, TopFrame DEF LinesInv, FrameInv
<1>1. CASE EmitLine
  <2>1. UNCHANGED <<vocabulary, content, logical>>
    BY <1>1 DEF EmitLine, files
  <2>2. \E differs : Emit(Text, Follow(Top, differs), 0)
    BY <1>1 DEF EmitLine
  <2>3. Standing
    <3>1. PICK differs : Emit(Text, Follow(Top, differs), 0)
      BY <2>2
    <3>. DEFINE frame == Follow(Top, differs)
    <3>2. SameFile(frame) /\ frame.position = Top.position
      BY <1>0, FollowedFrame
    <3>. HIDE DEF frame
    <3>. QED  BY <1>0, <1>a, <2>1, <3>1, <3>2, EmitStands DEF LinesInv, frame
  <2>. QED  BY <2>1, <2>3 DEF LinesInv
<1>2. CASE StartJoin
  <2>1. UNCHANGED <<vocabulary, content>>
    BY <1>2 DEF StartJoin, files
  <2>2. Standing
    BY <1>0, <1>2, <2>1, FollowedFrame, TopStands DEF StartJoin
  <2>3. logical'.dir \in DirectiveType /\ logical'.text \in Line
    <3>. DEFINE text == SubSeq(Text, 1, LineCommentAt(Text, Top.inBlockComment) - 1)
                open == EndsInComment(Text, Top.inBlockComment)
    <3>1. text \in Line
      BY TextIsALine, LineCommentPlace, Prefix
    <3>2. logical' = [logical EXCEPT !.dir = NoDirective, !.text = text, !.commentOpen = open]
      BY <1>2 DEF StartJoin
    <3>3. NoDirective \in DirectiveType
      BY DEF NoDirective, DirectiveType
    <3>. HIDE DEF text, open
    <3>. QED  BY <3>1, <3>2, <3>3 DEF StackInv, LogicalFields
  <2>. QED  BY <2>1, <2>2, <2>3 DEF LinesInv
<1>3. CASE JoinLine
  <2>1. PICK line \in NextLines :
          /\ Decide(line)
          /\ logical' = [logical EXCEPT
               !.text = @ \o SubSeq(JoinedTokens(line), 1, LineCommentAt(JoinedTokens(line), logical.commentOpen) - 1),
               !.taken = @ + 1,
               !.commentOpen = EndsInComment(JoinedTokens(line), @)]
          /\ SetTop([Top EXCEPT !.position = @ + 1, !.sourceLine = @ + 1,
                                !.cComment = EndsInComment(JoinedTokens(line), @)])
    BY <1>3 DEF JoinLine
  <2>2. /\ line \in LineType
        /\ vocabulary' \in Vocabularies
        /\ content' \in [Files -> Seq(LineType)]
        /\ \A file \in Files : Len(content[file]) <= Len(content'[file])
        /\ Top.position + 1 <= Len(content'[Top.file])
    BY <1>0, <2>1, LineDecided
  <2>3. Standing
    <3>. DEFINE comment == EndsInComment(JoinedTokens(line), Top.cComment)
                frame == [Top EXCEPT !.position = @ + 1, !.sourceLine = @ + 1, !.cComment = comment]
    <3>1. SetTop(frame)
      BY <2>1
    <3>2. frame.file = Top.file /\ frame.position = Top.position + 1
      <4>. HIDE DEF comment
      <4>. QED  BY <1>0, TopFrame DEF FrameInv, FrameFields
    <3>. HIDE DEF frame
    <3>. QED  BY <1>0, <2>2, <3>1, <3>2, TopReplacedStands
  <2>4. logical'.dir \in DirectiveType /\ logical'.text \in Line
    <3>. DEFINE added == SubSeq(JoinedTokens(line), 1, LineCommentAt(JoinedTokens(line), logical.commentOpen) - 1)
                text == logical.text \o added
                open == EndsInComment(JoinedTokens(line), logical.commentOpen)
    <3>1. JoinedTokens(line) \in Line
      BY <2>2, TokensAreALine
    <3>2. added \in Line
      BY <3>1, LineCommentPlace, Prefix
    <3>3. text \in Line
      <4>. HIDE DEF added
      <4>. QED  BY <3>2 DEF LinesInv, Line
    <3>4. logical' = [logical EXCEPT !.text = text, !.taken = @ + 1, !.commentOpen = open]
      BY <2>1
    <3>. HIDE DEF text, open
    <3>. QED  BY <3>3, <3>4 DEF StackInv, LogicalFields, LinesInv
  <2>. QED  BY <2>2, <2>3, <2>4 DEF LinesInv
<1>4. CASE EmitJoined
  <2>1. /\ UNCHANGED logical
        /\ vocabulary' \in Vocabularies
        /\ content' \in [Files -> Seq(LineType)]
        /\ \A file \in Files : Len(content[file]) <= Len(content'[file])
    <3>1. UNCHANGED logical
      BY <1>4 DEF EmitJoined
    <3>2. CASE UNCHANGED <<vocabulary, content>>
      BY <1>a, <3>1, <3>2 DEF LinesInv
    <3>3. CASE \E line \in NextLines : Decide(line)
      BY <1>0, <3>1, <3>3, LineDecided
    <3>. QED  BY <1>4, <3>2, <3>3 DEF EmitJoined, JoinEnds, NoMoreLines, files
  <2>2. \E misread : Emit(logical.text, [Top EXCEPT !.misread = misread], logical.taken)
    <3>. DEFINE misread == Top.misread \/ logical.commentOpen
    <3>1. Emit(logical.text, [Top EXCEPT !.misread = misread], logical.taken)
      BY <1>4 DEF EmitJoined
    <3>. HIDE DEF misread
    <3>. QED  BY <3>1
  <2>3. Standing
    <3>1. PICK misread : Emit(logical.text, [Top EXCEPT !.misread = misread], logical.taken)
      BY <2>2
    <3>. DEFINE frame == [Top EXCEPT !.misread = misread]
    <3>2. SameFile(frame) /\ frame.position = Top.position
      BY <1>0, MisreadFrame
    <3>3. Top.position \in Nat /\ Len(content'[Top.file]) \in Nat
      BY <1>0, <1>a, <2>1, TopFrame DEF FrameInv
    <3>4. frame.position <= Len(content'[Top.file])
      BY <1>a, <2>1, <3>2, <3>3
    <3>. HIDE DEF frame
    <3>. QED  BY <1>0, <2>1, <3>1, <3>2, <3>4, EmitStands DEF frame
  <2>. QED  BY <2>1, <2>3 DEF LinesInv
<1>. QED  BY <1>1, <1>2, <1>3, <1>4

THEOREM LinesInvHolds == Spec => []LinesInv
<1>1. Init => LinesInv
  <2>1. ASSUME Init
        PROVE  LinesInv
    <3>1. NoDirective \in DirectiveType /\ <<>> \in Line
      BY DEF NoDirective, DirectiveType, Line
    <3>2. DOMAIN <<>> = {}
      OBVIOUS
    <3>3. logical.dir = NoDirective /\ logical.text = <<>>
      BY <2>1 DEF Init, Logical
    <3>. QED  BY <2>1, <3>1, <3>2, <3>3 DEF Init, LinesInv
  <2>. QED  BY <2>1
<1>2. StackInv /\ LinesInv /\ [Next]_vars => LinesInv'
  <2>1. ASSUME LinesInv, UNCHANGED vars
        PROVE  LinesInv'
    BY <2>1 DEF LinesInv, vars, files
  <2>. QED  BY <2>1, ReadingKeepsLines, EndOfFileKeepsLines, ConditionalsKeepLines, IncludesKeepLines,
            PlainDirectivesKeepLines, ListKeepsLines, TextKeepsLines
            DEF Next, ConditionalStep, PlainDirective, Finished
<1>. QED  BY <1>1, <1>2, StackInvHolds, PTL DEF Spec

-----------------------------------------------------------------------------
(* What the directives set.                                                *)

LEMMA SettingsUntouched ==
  ASSUME SettingsInv, UNCHANGED <<macros, pragmas, ok>>, UNCHANGED ended \/ NoMoreLines,
         phase' # "list"
  PROVE  SettingsInv'
<1>1. ended' \in [Files -> BOOLEAN]
  BY DEF SettingsInv, NoMoreLines
<1>. QED  BY <1>1 DEF SettingsInv, pragmas

LEMMA ReadingKeepsSettings ==
  ASSUME SettingsInv,
         Run \/ ReadLine \/ SpliceLine \/ SpliceAtEnd \/ EmitLine \/ StartJoin \/ JoinLine \/ EmitJoined
  PROVE  SettingsInv'
<1>1. CASE Run \/ EmitLine \/ StartJoin
  BY <1>1, SettingsUntouched DEF Run, EmitLine, StartJoin, Emit, files
<1>2. CASE ReadLine \/ SpliceLine \/ JoinLine
  BY <1>2, SettingsUntouched DEF ReadLine, SpliceLine, JoinLine, Decide
<1>3. CASE SpliceAtEnd
  BY <1>3, SettingsUntouched DEF SpliceAtEnd
<1>4. CASE EmitJoined
  BY <1>4, SettingsUntouched DEF EmitJoined, Emit, JoinEnds, Decide, files
<1>. QED  BY <1>1, <1>2, <1>3, <1>4

(* The directives that leave the settings alone.                           *)
LEMMA DirectivesKeepSettings ==
  ASSUME SettingsInv,
         \/ If \/ IfDefined \/ Elif \/ Else \/ Endif \/ SkipInactive
         \/ Include \/ IncludeNothing \/ UserMessage \/ UnsupportedDirective
         \/ PragmaIgnored \/ PragmaListEnds
  PROVE  SettingsInv'
<1>1. CASE If \/ IfDefined \/ Elif \/ Else \/ Endif \/ SkipInactive
  BY <1>1, SettingsUntouched DEF If, IfDefined, Elif, Else, Endif, SkipInactive, Blank, files
<1>2. CASE Include \/ IncludeNothing
  BY <1>2, SettingsUntouched DEF Include, Enter, IncludeNothing, Blank, files
<1>3. CASE UserMessage \/ UnsupportedDirective \/ PragmaIgnored \/ PragmaListEnds
  BY <1>3, SettingsUntouched DEF UserMessage, UnsupportedDirective, PragmaIgnored, PragmaListEnds, Blank, files
<1>. QED  BY <1>1, <1>2, <1>3

LEMMA EndOfFileKeepsSettings ==
  ASSUME SettingsInv, EndOfFile
  PROVE  SettingsInv'
<1>1. UNCHANGED <<logical, macros, pragmas>> /\ NoMoreLines /\ phase' # "list" /\ ok' \in BOOLEAN
  BY DEF EndOfFile, SettingsInv
<1>2. ended' \in [Files -> BOOLEAN]
  BY <1>1 DEF SettingsInv, NoMoreLines
<1>. QED  BY <1>1, <1>2 DEF SettingsInv, pragmas

LEMMA MacrosKeepSettings ==
  ASSUME LinesInv, SettingsInv, Define \/ Undef
  PROVE  SettingsInv'
<1>1. UNCHANGED <<files, logical, pragmas, ok>> /\ phase' # "list"
  BY DEF Define, Undef, Blank
<1>2. \A name \in DOMAIN macros' : macros'[name] \in Macro
  <2>1. CASE UNCHANGED macros
    BY <2>1 DEF SettingsInv
  <2>2. CASE Define /\ ~UNCHANGED macros
    <3>. DEFINE macro == [functionLike |-> logical.dir.functionLike, parameters |-> logical.dir.parameters,
                          replacement |-> WithoutDirectiveComment(logical.text)]
    <3>1. logical.dir \in DefineType
      BY <2>2, DefineOnly DEF Define, ActiveDirective, Directive, LinesInv
    <3>2. macro \in Macro
      BY <3>1, ReplacementIsALine DEF LinesInv, DefineType, Macro
    <3>3. macros' = [name \in DOMAIN macros \cup {logical.dir.name} |->
                       IF name = logical.dir.name THEN macro ELSE macros[name]]
      BY <2>2 DEF Define
    <3>. HIDE DEF macro
    <3>. QED  BY <3>2, <3>3 DEF SettingsInv
  <2>3. CASE Undef /\ ~UNCHANGED macros
    BY <2>3 DEF Undef, SettingsInv, Restrict
  <2>. QED  BY <2>1, <2>2, <2>3
<1>. QED  BY <1>1, <1>2 DEF SettingsInv, files, pragmas

LEMMA PragmasKeepSettings ==
  ASSUME StackInv, MapInv, SettingsInv, PragmaOnce \/ PragmaPush \/ PragmaPop
  PROVE  SettingsInv'
<1>1. UNCHANGED <<files, logical, macros, ok>> /\ phase' # "list" /\ stack # <<>>
  BY DEF PragmaOnce, PragmaPush, PragmaPop, Pragma, ActiveDirective, Directive, Blank, StackInv
<1>2. OutputLine \in Nat
  BY SequenceFacts DEF OutputLine, MapInv
<1>3. Push(OutputLine) \in Change /\ Pop(OutputLine) \in Change
  BY <1>2 DEF Push, Pop, Set, Change, Actions
<1>4. CASE PragmaOnce
  <2>1. Top.file \in Files
    BY <1>1, TopFrame DEF FrameInv
  <2>. QED  BY <1>1, <1>4, <2>1 DEF PragmaOnce, SettingsInv, files
<1>5. CASE PragmaPush
  <2>1. /\ policy' = Append(policy, Push(OutputLine))
        /\ warningPragmaDepth' = warningPragmaDepth + 1
        /\ inForce' = [inForce EXCEPT !.saved = Append(@, inForce.current)]
        /\ UNCHANGED pragmaOnce
    BY <1>5 DEF PragmaPush
  <2>2. policy' \in Seq(Change)
    BY <1>3, <2>1 DEF SettingsInv
  <2>3. inForce.current \in ForceType /\ inForce.saved \in Seq(ForceType)
    BY DEF SettingsInv
  <2>4. /\ Append(inForce.saved, inForce.current) \in Seq(ForceType)
        /\ Len(Append(inForce.saved, inForce.current)) = Len(inForce.saved) + 1
    BY <2>3
  <2>5. inForce' \in [current : ForceType, saved : Seq(ForceType)]
        /\ inForce'.saved = Append(inForce.saved, inForce.current)
    <3>. DEFINE saved == Append(inForce.saved, inForce.current)
    <3>1. inForce' = [inForce EXCEPT !.saved = saved]
      BY <2>1
    <3>. HIDE DEF saved
    <3>2. saved \in Seq(ForceType)
      BY <2>4 DEF saved
    <3>3. inForce' \in [current : ForceType, saved : Seq(ForceType)] /\ inForce'.saved = saved
      BY <3>1, <3>2 DEF SettingsInv
    <3>. QED  BY <3>3 DEF saved
  <2>. QED  BY <1>1, <2>1, <2>2, <2>4, <2>5 DEF SettingsInv, files
<1>6. CASE PragmaPop
  <2>1. CASE UNCHANGED <<warningPragmaDepth, policy, inForce>>
    BY <1>1, <1>6, <2>1 DEF PragmaPop, SettingsInv, files
  <2>2. CASE /\ warningPragmaDepth > 0
             /\ warningPragmaDepth' = warningPragmaDepth - 1
             /\ policy' = Append(policy, Pop(OutputLine))
             /\ inForce' = [current |-> Last(inForce.saved), saved |-> Front(inForce.saved)]
    <3>1. policy' \in Seq(Change)
      BY <1>3, <2>2 DEF SettingsInv
    <3>2. inForce.saved \in Seq(ForceType) /\ Len(inForce.saved) \in Nat /\ Len(inForce.saved) > 0
      BY <2>2 DEF SettingsInv
    <3>3. Last(inForce.saved) \in ForceType
      BY <3>2, ElementOfSeq DEF Last
    <3>4. Front(inForce.saved) \in Seq(ForceType) /\ Len(Front(inForce.saved)) = Len(inForce.saved) - 1
      <4>1. \A i \in 1..(Len(inForce.saved) - 1) : inForce.saved[i] \in ForceType
        BY <3>2, ElementOfSeq
      <4>. QED  BY <3>2, <4>1, SubSeqProperties DEF Front
    <3>. QED  BY <1>1, <1>6, <2>2, <3>1, <3>3, <3>4 DEF PragmaPop, SettingsInv, files
  <2>. QED  BY <1>6, <2>1, <2>2 DEF PragmaPop
<1>. QED  BY <1>4, <1>5, <1>6

LEMMA ListKeepsSettings ==
  ASSUME StackInv, LinesInv, MapInv, SettingsInv, PragmaSet \/ PragmaNumber \/ PragmaBadNumber
  PROVE  SettingsInv'
<1>1. CASE PragmaSet
  BY <1>1 DEF PragmaSet, Pragma, ActiveDirective, Directive, SettingsInv, files, pragmas
<1>2. ASSUME PragmaNumber \/ PragmaBadNumber
      PROVE  /\ UNCHANGED <<files, macros, pragmaOnce, warningPragmaDepth, ok, phase>>
             /\ logical'.dir = logical.dir
             /\ logical.dir \in ListType
  <2>1. /\ phase = "list"
        /\ UNCHANGED <<files, macros, pragmaOnce, warningPragmaDepth, ok, phase>>
        /\ logical' = [logical EXCEPT !.taken = @ + 1]
    BY <1>2 DEF PragmaNumber, PragmaBadNumber, NextNumber
  <2>2. logical'.dir = logical.dir
    BY <2>1 DEF StackInv, LogicalFields
  <2>3. logical.dir \in ListType
    BY <2>1, ListOnly DEF SettingsInv, LinesInv
  <2>. QED  BY <2>1, <2>2, <2>3
<1>3. CASE PragmaBadNumber
  BY <1>2, <1>3 DEF PragmaBadNumber, SettingsInv, files
<1>4. CASE PragmaNumber
  <2>1. OutputLine \in Nat
    BY SequenceFacts DEF OutputLine, MapInv
  <2>2. logical.dir.action \in Actions
    BY <1>2, <1>4 DEF ListType
  <2>3. Set(OutputLine, Number, logical.dir.action) \in Change
    BY <1>4, <2>1, <2>2 DEF PragmaNumber, Set, Change
  <2>4. policy' \in Seq(Change)
    BY <1>4, <2>3 DEF PragmaNumber, SettingsInv
  <2>. DEFINE force == [id \in WarningIds |->
                          IF Number \in {id, "all"} THEN logical.dir.action ELSE inForce.current[id]]
  <2>5. force \in ForceType
    BY <2>2 DEF ForceType, SettingsInv
  <2>6. inForce' = [inForce EXCEPT !.current = force]
    BY <1>4 DEF PragmaNumber
  <2>7. inForce' \in [current : ForceType, saved : Seq(ForceType)] /\ inForce'.saved = inForce.saved
    <3>. HIDE DEF force
    <3>. QED  BY <2>5, <2>6 DEF SettingsInv
  <2>. QED  BY <1>2, <1>4, <2>4, <2>7 DEF SettingsInv, files
<1>. QED  BY <1>1, <1>3, <1>4

THEOREM SettingsInvHolds == Spec => []SettingsInv
<1>1. Init => SettingsInv
  <2>1. ASSUME Init
        PROVE  SettingsInv
    <3>1. <<>> \in Seq(Change) /\ <<>> \in Seq(ForceType) /\ Len(<<>>) = 0
      OBVIOUS
    <3>2. [id \in WarningIds |-> "Default"] \in ForceType
      BY DEF ForceType, Actions
    <3>3. DOMAIN macros = {}
      BY <2>1 DEF Init, NoMacros
    <3>. QED  BY <2>1, <3>1, <3>2, <3>3 DEF Init, SettingsInv
  <2>. QED  BY <2>1
<1>2. StackInv /\ LinesInv /\ MapInv /\ SettingsInv /\ [Next]_vars => SettingsInv'
  <2>1. ASSUME SettingsInv, UNCHANGED vars
        PROVE  SettingsInv'
    BY <2>1 DEF SettingsInv, vars, files, pragmas
  <2>. QED  BY <2>1, ReadingKeepsSettings, EndOfFileKeepsSettings, DirectivesKeepSettings,
            MacrosKeepSettings, PragmasKeepSettings, ListKeepsSettings
            DEF Next, Finished
<1>. QED  BY <1>1, <1>2, StackInvHolds, LinesInvHolds, MapInvHolds, PTL DEF Spec

(* Every variable has its type, the stack of pushed warning states is as   *)
(* deep as the code counts, and no file is read past its end.              *)
THEOREM TypeCorrect == Spec => []TypeOK
<1>1. StackInv /\ LinesInv /\ SettingsInv => TypeOK
  <2>1. ASSUME StackInv, LinesInv, SettingsInv
        PROVE  TypeOK
    <3>1. \A i \in DOMAIN policy : policy[i] \in Change
      BY <2>1 DEF SettingsInv
    <3>2. Len(stack) <= MaxIncludeDepth
          /\ \A i, j \in DOMAIN stack : stack[i].file = stack[j].file => i = j
      BY <2>1 DEF StackInv, Chain
    <3>3. (phase = "done") = (stack = <<>> /\ phase # "start")
      BY <2>1 DEF StackInv
    <3>. QED  BY <2>1, <3>1, <3>2, <3>3 DEF SettingsInv, LinesInv, StackInv, Phases, TypeOK
  <2>. QED  BY <2>1
<1>. QED  BY <1>1, StackInvHolds, LinesInvHolds, SettingsInvHolds, PTL

-----------------------------------------------------------------------------
(* What a pragma reaches.                                                  *)

LEMMA LastReached ==
  ASSUME NEW S, NEW m \in Nat, S \subseteq 0..m, 0 \in S,
         \A n \in S : \A k \in 0..n : k \in S
  PROVE  (CHOOSE n \in S : \A k \in S : k <= n) \in S
<1>. DEFINE outside == {n \in 1..(m + 1) : n \notin S}
            first == Min(outside)
<1>1. outside \in SUBSET Nat /\ m + 1 \in outside
  OBVIOUS
<1>2. first \in outside
  BY <1>1, LeastIsThere
<1>3. \A k \in outside : first <= k
  BY <1>1, NatLeast
<1>. HIDE DEF first
<1>4. first - 1 \in S
  <2>1. CASE first = 1
    BY <2>1
  <2>2. CASE first # 1
    <3>1. first - 1 \in 1..(m + 1) /\ ~(first <= first - 1)
      BY <1>2, <2>2
    <3>. QED  BY <1>3, <3>1
  <2>. QED  BY <2>1, <2>2
<1>5. \A k \in S : k <= first - 1
  <2>1. ASSUME NEW k \in S, k >= first
        PROVE  FALSE
    <3>1. first \in 0..k
      BY <1>2, <2>1
    <3>. QED  BY <1>2, <3>1
  <2>2. \A k \in S : k \in Int /\ first \in Int
    BY <1>2
  <2>. QED  BY <2>1, <2>2
<1>. QED  BY <1>4, <1>5

(* A change made at a later line is not among the ones up to this one.     *)
LEMMA LaterChangeUnseen ==
  ASSUME NEW changes \in Seq(Change), NEW change \in Change, NEW line \in Nat, change.line > line
  PROVE  UpTo(Append(changes, change), line) = UpTo(changes, line)
<1>. DEFINE after == Append(changes, change)
            reached(p) == {n \in 0..Len(p) : \A i \in 1..n : p[i].line <= line}
            last(p) == CHOOSE n \in reached(p) : \A m \in reached(p) : m <= n
<1>1. /\ after \in Seq(Change) /\ Len(changes) \in Nat /\ Len(after) = Len(changes) + 1
      /\ after[Len(changes) + 1] = change
      /\ \A i \in 1..Len(changes) : after[i] = changes[i]
  OBVIOUS
<1>2. change.line \in Nat /\ ~(change.line <= line)
  BY DEF Change
<1>3. reached(after) = reached(changes)
  <2>1. Len(changes) + 1 \notin reached(after)
    BY <1>1, <1>2
  <2>2. \A n \in reached(after) : n \in 0..Len(changes)
    BY <1>1, <2>1
  <2>3. \A n \in 0..Len(changes) : \A i \in 1..n : i \in 1..Len(changes)
    BY <1>1
  <2>. QED  BY <1>1, <2>2, <2>3
<1>4. last(after) = last(changes)
  BY <1>3
<1>5. last(changes) \in reached(changes)
  <2>. DEFINE S == reached(changes)
  <2>1. S \subseteq 0..Len(changes) /\ 0 \in S
    BY <1>1
  <2>2. \A n \in S : \A k \in 0..n : k \in S
    BY <1>1
  <2>. HIDE DEF S
  <2>3. (CHOOSE n \in S : \A k \in S : k <= n) \in S
    BY <1>1, <2>1, <2>2, LastReached
  <2>. QED  BY <2>3 DEF S
<1>. DEFINE n == last(changes)
<1>6. n \in 0..Len(changes)
  BY <1>5
<1>. HIDE DEF n
<1>7. SubSeq(after, 1, n) = SubSeq(changes, 1, n)
  <2>1. \A i \in 1..n : i \in 1..Len(changes) /\ after[i] = changes[i] /\ changes[i] \in Change
    BY <1>1, <1>6, ElementOfSeq
  <2>2. /\ SubSeq(after, 1, n) \in Seq(Change) /\ SubSeq(changes, 1, n) \in Seq(Change)
        /\ Len(SubSeq(after, 1, n)) = Len(SubSeq(changes, 1, n))
        /\ \A i \in 1..n : SubSeq(after, 1, n)[i] = after[i] /\ SubSeq(changes, 1, n)[i] = changes[i]
        /\ Len(SubSeq(changes, 1, n)) = n
    BY <1>6, <2>1, SubSeqProperties
  <2>. QED  BY <2>1, <2>2, SeqEqual
<1>. QED  BY <1>4, <1>7 DEF UpTo, n

(* A step adds at most one change, at the line to be written next.         *)
LEMMA ChangesAreAppended ==
  ASSUME MapInv, StackInv, LinesInv, SettingsInv, [Next]_vars
  PROVE  \/ policy' = policy
         \/ \E change \in Change : change.line = OutputLine /\ policy' = Append(policy, change)
<1>1. CASE PragmaPush \/ PragmaPop
  <2>1. OutputLine \in Nat
    BY SequenceFacts DEF OutputLine, MapInv
  <2>2. Push(OutputLine) \in Change /\ Pop(OutputLine) \in Change
        /\ Push(OutputLine).line = OutputLine /\ Pop(OutputLine).line = OutputLine
    BY <2>1 DEF Push, Pop, Set, Change, Actions
  <2>. QED  BY <1>1, <2>2 DEF PragmaPush, PragmaPop
<1>2. CASE PragmaNumber
  <2>1. OutputLine \in Nat
    BY SequenceFacts DEF OutputLine, MapInv
  <2>2. logical.dir \in ListType
    BY <1>2, ListOnly DEF PragmaNumber, SettingsInv, LinesInv
  <2>3. Set(OutputLine, Number, logical.dir.action) \in Change
        /\ Set(OutputLine, Number, logical.dir.action).line = OutputLine
    BY <1>2, <2>1, <2>2 DEF PragmaNumber, Set, Change, ListType
  <2>. QED  BY <1>2, <2>3 DEF PragmaNumber
<1>3. CASE UNCHANGED vars \/ Run \/ ReadLine \/ SpliceLine \/ SpliceAtEnd \/ EndOfFile
  BY <1>3 DEF vars, pragmas, Run, ReadLine, SpliceLine, SpliceAtEnd, EndOfFile
<1>4. CASE If \/ IfDefined \/ Elif \/ Else \/ Endif \/ SkipInactive
  BY <1>4 DEF If, IfDefined, Elif, Else, Endif, SkipInactive, pragmas
<1>5. CASE Include \/ IncludeNothing \/ Define \/ Undef \/ UserMessage \/ UnsupportedDirective
  BY <1>5 DEF Include, Enter, IncludeNothing, Define, Undef, UserMessage, UnsupportedDirective, pragmas
<1>6. CASE PragmaOnce \/ PragmaIgnored \/ PragmaSet \/ PragmaBadNumber \/ PragmaListEnds
  BY <1>6 DEF PragmaOnce, PragmaIgnored, PragmaSet, PragmaBadNumber, PragmaListEnds, pragmas
<1>7. CASE EmitLine \/ StartJoin \/ JoinLine \/ EmitJoined
  BY <1>7 DEF EmitLine, StartJoin, JoinLine, EmitJoined, pragmas
<1>. QED  BY <1>1, <1>2, <1>3, <1>4, <1>5, <1>6, <1>7 DEF Next, Finished

(* A line that has been written is out of reach of what follows.           *)
LEMMA WrittenLinesKept ==
  ASSUME MapInv, StackInv, LinesInv, SettingsInv, [Next]_vars, NEW line \in DOMAIN out, NEW id
  PROVE  ActionFor(policy', id, line) = ActionFor(policy, id, line)
<1>1. line \in Nat /\ OutputLine > line
  BY SequenceFacts DEF MapInv, OutputLine
<1>2. UpTo(policy', line) = UpTo(policy, line)
  <2>1. CASE policy' = policy
    BY <2>1
  <2>2. ASSUME NEW change \in Change, change.line = OutputLine, policy' = Append(policy, change)
        PROVE  UpTo(policy', line) = UpTo(policy, line)
    BY <1>1, <2>2, LaterChangeUnseen DEF SettingsInv
  <2>. QED  BY <2>1, <2>2, ChangesAreAppended
<1>. QED  BY <1>2 DEF ActionFor

(* A pragma never changes what is in force at a line already written,      *)
(* whatever pushes, pops and lists follow it and in whatever file.         *)
THEOREM PragmasNeverReachBackAlways == Spec => PragmasNeverReachBack
<1>1. MapInv /\ StackInv /\ LinesInv /\ SettingsInv /\ [Next]_vars
        => [\A line \in DOMAIN out : \A id \in WarningIds :
              ActionFor(policy', id, line) = ActionFor(policy, id, line)]_vars
  BY WrittenLinesKept
<1>. QED  BY <1>1, MapInvHolds, StackInvHolds, LinesInvHolds, SettingsInvHolds, PTL
        DEF Spec, PragmasNeverReachBack

-----------------------------------------------------------------------------
(* What the replay of the changes comes to.                                *)

LEMMA NatSetInduction ==
  ASSUME NEW S, 0 \in S, \A n \in Nat : n \in S => n + 1 \in S
  PROVE  \A n \in Nat : n \in S
<1>. DEFINE outside == {n \in Nat : n \notin S}
            first == Min(outside)
<1>. SUFFICES ASSUME outside # {}
              PROVE  FALSE
  OBVIOUS
<1>1. first \in outside /\ \A n \in outside : first <= n
  BY NatLeast
<1>. HIDE DEF first
<1>2. first - 1 \in Nat /\ first - 1 \notin outside
  BY <1>1
<1>3. first - 1 \in S /\ (first - 1) + 1 = first
  BY <1>1, <1>2
<1>. QED  BY <1>1, <1>2, <1>3

(* What a loop over N things has made of `first` after each of its turns.  *)
TurnByTurn(f, N, S, first, turn) ==
  f \in [0..N -> S] /\ \A n \in 0..N : f[n] = IF n = 0 THEN first ELSE turn[<<n, f[n - 1]>>]

LEMMA LoopsEnd ==
  ASSUME NEW N \in Nat, NEW S, NEW first \in S, NEW turn \in [(1..N) \X S -> S]
  PROVE  \E f : TurnByTurn(f, N, S, first, turn)
<1>. DEFINE UpToTurn(k, f) ==
              f \in [0..k -> S] /\ \A n \in 0..k : f[n] = IF n = 0 THEN first ELSE turn[<<n, f[n - 1]>>]
            K == {k \in Nat : k <= N => \E f : UpToTurn(k, f)}
<1>1. 0 \in K
  <2>1. UpToTurn(0, [n \in 0..0 |-> first])
    OBVIOUS
  <2>. QED  BY <2>1
<1>2. ASSUME NEW k \in Nat, k \in K
      PROVE  k + 1 \in K
  <2>. SUFFICES ASSUME k + 1 <= N
                PROVE  \E f : UpToTurn(k + 1, f)
    OBVIOUS
  <2>1. PICK f : UpToTurn(k, f)
    BY <1>2
  <2>. DEFINE next == turn[<<k + 1, f[k]>>]
              g == [n \in 0..(k + 1) |-> IF n = k + 1 THEN next ELSE f[n]]
  <2>2. f[k] \in S /\ k + 1 \in 1..N /\ next \in S
    BY <2>1
  <2>3. \A n \in 0..k : n \in 0..(k + 1) /\ n # k + 1 /\ g[n] = f[n] /\ f[n] \in S
    BY <2>1
  <2>4. g[k + 1] = next /\ g \in [0..(k + 1) -> S]
    BY <2>1, <2>2, <2>3
  <2>. HIDE DEF g
  <2>5. ASSUME NEW n \in 0..(k + 1)
        PROVE  g[n] = IF n = 0 THEN first ELSE turn[<<n, g[n - 1]>>]
    <3>1. CASE n = k + 1
      <4>1. n # 0 /\ n - 1 = k /\ k \in 0..k
        BY <3>1
      <4>. QED  BY <2>3, <2>4, <3>1, <4>1
    <3>2. CASE n # k + 1
      <4>1. n \in 0..k /\ (n # 0 => n - 1 \in 0..k)
        BY <3>2
      <4>. QED  BY <2>1, <2>3, <4>1
    <3>. QED  BY <3>1, <3>2
  <2>. QED  BY <2>4, <2>5
<1>. HIDE DEF K
<1>3. N \in K
  BY <1>1, <1>2, NatSetInduction
<1>. QED  BY <1>3 DEF K, TurnByTurn

(* Two functions that begin alike and go on alike are alike.               *)
Alike(f, g, N) == \A n \in 0..N : f[n] = g[n]
GoOnAlike(f, g, N) == f[0] = g[0] /\ \A n \in 1..N : f[n - 1] = g[n - 1] => f[n] = g[n]

LEMMA SameTurns ==
  ASSUME NEW N \in Nat, NEW f, NEW g, GoOnAlike(f, g, N)
  PROVE  Alike(f, g, N)
<1>. DEFINE same == {n \in Nat : n <= N => f[n] = g[n]}
<1>1. 0 \in same
  BY DEF GoOnAlike
<1>2. ASSUME NEW n \in Nat, n \in same
      PROVE  n + 1 \in same
  <2>1. n + 1 <= N => n + 1 \in 1..N /\ (n + 1) - 1 = n
    OBVIOUS
  <2>. QED  BY <1>2, <2>1 DEF GoOnAlike
<1>. HIDE DEF same
<1>3. \A n \in Nat : n \in same
  BY <1>1, <1>2, NatSetInduction
<1>. QED  BY <1>3 DEF same, Alike

ReplayType == [state : Seq(Change), saved : Seq(Seq(Change))]

LEMMA ReplayStep ==
  ASSUME NEW r \in ReplayType, NEW change \in Change
  PROVE  /\ Replay(r, change) \in ReplayType
         /\ change.number = "push" =>
              Replay(r, change).state = r.state /\ Replay(r, change).saved = Append(r.saved, r.state)
         /\ change.number = "pop" /\ r.saved # <<>> =>
              Replay(r, change).state = Last(r.saved) /\ Replay(r, change).saved = Front(r.saved)
         /\ change.number \notin {"push", "pop"} =>
              Replay(r, change).state = Append(r.state, change) /\ Replay(r, change).saved = r.saved
<1>1. CASE change.number = "push"
  <2>. DEFINE saved == Append(r.saved, r.state)
  <2>1. Replay(r, change) = [r EXCEPT !.saved = saved]
    BY <1>1 DEF Replay
  <2>2. saved \in Seq(Seq(Change))
    BY DEF ReplayType
  <2>. HIDE DEF saved
  <2>3. /\ [r EXCEPT !.saved = saved] \in ReplayType
        /\ [r EXCEPT !.saved = saved].state = r.state /\ [r EXCEPT !.saved = saved].saved = saved
    BY <2>2 DEF ReplayType
  <2>. QED  BY <1>1, <2>1, <2>3 DEF saved
<1>2. CASE change.number = "pop" /\ r.saved # <<>>
  <2>1. Replay(r, change) = [state |-> Last(r.saved), saved |-> Front(r.saved)] /\ change.number # "push"
    BY <1>2 DEF Replay
  <2>2. r.saved \in Seq(Seq(Change)) /\ Len(r.saved) \in Nat /\ Len(r.saved) > 0
    BY <1>2 DEF ReplayType
  <2>3. Last(r.saved) \in Seq(Change)
    BY <2>2, ElementOfSeq DEF Last
  <2>4. Front(r.saved) \in Seq(Seq(Change))
    <3>1. \A i \in 1..(Len(r.saved) - 1) : r.saved[i] \in Seq(Change)
      BY <2>2, ElementOfSeq
    <3>. QED  BY <2>2, <3>1, SubSeqProperties DEF Front
  <2>. QED  BY <1>2, <2>1, <2>3, <2>4 DEF ReplayType
<1>3. CASE change.number = "pop" /\ r.saved = <<>>
  BY <1>3 DEF Replay
<1>4. CASE change.number \notin {"push", "pop"}
  <2>. DEFINE state == Append(r.state, change)
  <2>1. Replay(r, change) = [r EXCEPT !.state = state]
    BY <1>4 DEF Replay
  <2>2. state \in Seq(Change)
    BY DEF ReplayType
  <2>. HIDE DEF state
  <2>3. /\ [r EXCEPT !.state = state] \in ReplayType
        /\ [r EXCEPT !.state = state].saved = r.saved /\ [r EXCEPT !.state = state].state = state
    BY <2>2 DEF ReplayType
  <2>. QED  BY <1>4, <2>1, <2>3 DEF state
<1>. QED  BY <1>1, <1>2, <1>3, <1>4

NothingAsked == [state |-> <<>>, saved |-> <<>>]

(* The replay, change by change.                                           *)
Replays(f, changes) ==
  /\ f \in [0..Len(changes) -> ReplayType]
  /\ \A n \in 0..Len(changes) : f[n] = IF n = 0 THEN NothingAsked ELSE Replay(f[n - 1], changes[n])
  /\ f[Len(changes)] = Replayed(changes)

LEMMA ReplaysAll ==
  ASSUME NEW changes \in Seq(Change)
  PROVE  \E f : Replays(f, changes)
<1>. DEFINE N == Len(changes)
            turn == [x \in (1..N) \X ReplayType |-> Replay(x[2], changes[x[1]])]
            Loop(f) == f = [n \in 0..N |-> IF n = 0 THEN NothingAsked ELSE Replay(f[n - 1], changes[n])]
<1>1. N \in Nat /\ \A n \in 1..N : changes[n] \in Change
  BY ElementOfSeq
<1>2. Replayed(changes) = (CHOOSE f : Loop(f))[N]
  BY DEF Replayed, NothingAsked
<1>3. NothingAsked \in ReplayType
  BY DEF NothingAsked, ReplayType
<1>4. turn \in [(1..N) \X ReplayType -> ReplayType]
      /\ \A n \in 1..N, r \in ReplayType : turn[<<n, r>>] = Replay(r, changes[n])
  BY <1>1, ReplayStep
<1>. HIDE DEF turn, N
<1>5. PICK f : TurnByTurn(f, N, ReplayType, NothingAsked, turn)
  BY <1>1, <1>3, <1>4, LoopsEnd
<1>6. \A n \in 0..N : f[n] = IF n = 0 THEN NothingAsked ELSE Replay(f[n - 1], changes[n])
  <2>1. \A n \in 0..N : n # 0 => n \in 1..N /\ n - 1 \in 0..N
    BY <1>1
  <2>. QED  BY <1>4, <1>5, <2>1 DEF TurnByTurn
<1>7. Loop(f)
  BY <1>5, <1>6 DEF TurnByTurn
<1>. HIDE DEF Loop
<1>8. PICK g : g = (CHOOSE h : Loop(h)) /\ Loop(g)
  BY <1>7
<1>9. \A n \in 0..N : g[n] = IF n = 0 THEN NothingAsked ELSE Replay(g[n - 1], changes[n])
  BY <1>8 DEF Loop
<1>10. f[N] = g[N]
  <2>1. f[0] = g[0]
    BY <1>1, <1>6, <1>9
  <2>2. ASSUME NEW n \in 1..N, f[n - 1] = g[n - 1]
        PROVE  f[n] = g[n]
    <3>1. n \in 0..N /\ n # 0
      BY <1>1
    <3>. QED  BY <1>6, <1>9, <2>2, <3>1
  <2>3. GoOnAlike(f, g, N)
    BY <2>1, <2>2 DEF GoOnAlike
  <2>4. Alike(f, g, N)
    BY <1>1, <2>3, SameTurns
  <2>. QED  BY <1>1, <2>4 DEF Alike
<1>11. f[N] = Replayed(changes)
  BY <1>2, <1>8, <1>10
<1>12. f \in [0..N -> ReplayType]
  BY <1>5 DEF TurnByTurn
<1>13. Replays(f, changes)
  BY <1>6, <1>11, <1>12 DEF Replays, N
<1>. QED  BY <1>13

LEMMA ReplayedAppends ==
  ASSUME NEW changes \in Seq(Change), NEW change \in Change
  PROVE  /\ Replayed(changes) \in ReplayType
         /\ Replayed(Append(changes, change)) = Replay(Replayed(changes), change)
<1>. DEFINE N == Len(changes)
            after == Append(changes, change)
<1>1. /\ N \in Nat /\ after \in Seq(Change) /\ Len(after) = N + 1 /\ after[N + 1] = change
      /\ \A n \in 1..N : after[n] = changes[n]
  OBVIOUS
<1>2. PICK f : Replays(f, changes)
  BY ReplaysAll
<1>. HIDE DEF after
<1>3. PICK g : Replays(g, after)
  BY <1>1, ReplaysAll
<1>. HIDE DEF N
<1>4. \A n \in 0..N : f[n] = IF n = 0 THEN NothingAsked ELSE Replay(f[n - 1], changes[n])
  BY <1>2 DEF Replays, N
<1>5. \A n \in 0..(N + 1) : g[n] = IF n = 0 THEN NothingAsked ELSE Replay(g[n - 1], after[n])
  BY <1>1, <1>3 DEF Replays
<1>6. f[0] = g[0]
  <2>1. 0 \in 0..N /\ 0 \in 0..(N + 1)
    BY <1>1
  <2>. QED  BY <1>4, <1>5, <2>1
<1>7. f[N] = g[N]
  <2>1. ASSUME NEW n \in 1..N, f[n - 1] = g[n - 1]
        PROVE  f[n] = g[n]
    <3>1. n \in 0..N /\ n \in 0..(N + 1) /\ n # 0 /\ after[n] = changes[n]
      BY <1>1
    <3>. QED  BY <1>4, <1>5, <2>1, <3>1
  <2>2. N \in Nat
    BY <1>1
  <2>3. Alike(f, g, N)
    <3>1. GoOnAlike(f, g, N)
      BY <1>6, <2>1 DEF GoOnAlike
    <3>. QED  BY <2>2, <3>1, SameTurns
  <2>. QED  BY <2>2, <2>3 DEF Alike
<1>8. N + 1 \in 0..(N + 1) /\ N + 1 # 0 /\ (N + 1) - 1 = N /\ N \in 0..N
  BY <1>1
<1>9. f[N] = Replayed(changes) /\ f[N] \in ReplayType
  BY <1>2, <1>8 DEF Replays, N
<1>10. g[N + 1] = Replayed(after) /\ g[N + 1] = Replay(g[N], change)
  BY <1>1, <1>3, <1>8 DEF Replays
<1>. QED  BY <1>7, <1>9, <1>10 DEF after

LEMMA NothingReplayed ==
  Replayed(<<>>) = NothingAsked
<1>1. <<>> \in Seq(Change) /\ Len(<<>>) = 0
  OBVIOUS
<1>2. PICK f : Replays(f, <<>>)
  BY <1>1, ReplaysAll
<1>. QED  BY <1>1, <1>2 DEF Replays

-----------------------------------------------------------------------------
(* What the changes in force decide.                                       *)

Names(change, id) == change.number \in {id, "all"}

(* The decision, change by change.                                         *)
Decides(f, changes, id) ==
  /\ \A n \in 0..Len(changes) :
       f[n] = IF n = 0 THEN "Default"
              ELSE IF Names(changes[n], id) THEN changes[n].action ELSE f[n - 1]
  /\ f[Len(changes)] = Decided(changes, id)

LEMMA DecidesAll ==
  ASSUME NEW changes \in Seq(Change), NEW id
  PROVE  \E f : Decides(f, changes, id)
<1>. DEFINE N == Len(changes)
            turn == [x \in (1..N) \X Actions |->
                       IF Names(changes[x[1]], id) THEN changes[x[1]].action ELSE x[2]]
            Loop(f) == f = [n \in 0..N |->
                              IF n = 0 THEN "Default"
                              ELSE IF Names(changes[n], id) THEN changes[n].action ELSE f[n - 1]]
<1>1. N \in Nat /\ \A n \in 1..N : changes[n].action \in Actions
  <2>1. N \in Nat /\ \A n \in 1..N : changes[n] \in Change
    BY ElementOfSeq
  <2>. QED  BY <2>1 DEF Change
<1>2. Decided(changes, id) = (CHOOSE f : Loop(f))[N]
  BY DEF Decided, Names
<1>3. "Default" \in Actions
  BY DEF Actions
<1>4. turn \in [(1..N) \X Actions -> Actions]
      /\ \A n \in 1..N, a \in Actions :
           turn[<<n, a>>] = IF Names(changes[n], id) THEN changes[n].action ELSE a
  BY <1>1
<1>. HIDE DEF turn, N
<1>5. PICK f : TurnByTurn(f, N, Actions, "Default", turn)
  BY <1>1, <1>3, <1>4, LoopsEnd
<1>6. \A n \in 0..N : f[n] = IF n = 0 THEN "Default"
                             ELSE IF Names(changes[n], id) THEN changes[n].action ELSE f[n - 1]
  <2>1. \A n \in 0..N : /\ f[n] = IF n = 0 THEN "Default" ELSE turn[<<n, f[n - 1]>>]
                        /\ f[n] \in Actions
    BY <1>5 DEF TurnByTurn
  <2>2. ASSUME NEW n \in 1..N
        PROVE  f[n] = IF Names(changes[n], id) THEN changes[n].action ELSE f[n - 1]
    <3>1. n \in 0..N /\ n # 0 /\ n - 1 \in 0..N
      BY <1>1
    <3>2. f[n] = turn[<<n, f[n - 1]>>] /\ f[n - 1] \in Actions
      BY <2>1, <3>1
    <3>. QED  BY <1>4, <3>2
  <2>3. f[0] = "Default"
    <3>1. 0 \in 0..N
      BY <1>1
    <3>2. f[0] = IF 0 = 0 THEN "Default" ELSE turn[<<0, f[0 - 1]>>]
      BY <2>1, <3>1
    <3>. QED  BY <3>2
  <2>4. ASSUME NEW n \in 0..N
        PROVE  f[n] = IF n = 0 THEN "Default"
                      ELSE IF Names(changes[n], id) THEN changes[n].action ELSE f[n - 1]
    <3>1. CASE n = 0
      BY <2>3, <3>1
    <3>2. CASE n \in 1..N
      BY <1>1, <2>2, <3>2
    <3>. QED  BY <1>1, <3>1, <3>2
  <2>. QED  BY <2>4
<1>7. Loop(f)
  BY <1>5, <1>6 DEF TurnByTurn
<1>. HIDE DEF Loop
<1>8. PICK g : g = (CHOOSE h : Loop(h)) /\ Loop(g)
  BY <1>7
<1>9. \A n \in 0..N : g[n] = IF n = 0 THEN "Default"
                             ELSE IF Names(changes[n], id) THEN changes[n].action ELSE g[n - 1]
  BY <1>8 DEF Loop
<1>. QED  BY <1>2, <1>8, <1>9 DEF Decides, N

LEMMA DecidedAppends ==
  ASSUME NEW changes \in Seq(Change), NEW change \in Change, NEW id
  PROVE  Decided(Append(changes, change), id) =
           IF change.number \in {id, "all"} THEN change.action ELSE Decided(changes, id)
<1>. DEFINE N == Len(changes)
            after == Append(changes, change)
<1>1. /\ N \in Nat /\ after \in Seq(Change) /\ Len(after) = N + 1 /\ after[N + 1] = change
      /\ \A n \in 1..N : after[n] = changes[n]
  OBVIOUS
<1>2. PICK f : Decides(f, changes, id)
  BY DecidesAll
<1>. HIDE DEF after
<1>3. PICK g : Decides(g, after, id)
  BY <1>1, DecidesAll
<1>. HIDE DEF N
<1>4. \A n \in 0..N : f[n] = IF n = 0 THEN "Default"
                             ELSE IF Names(changes[n], id) THEN changes[n].action ELSE f[n - 1]
  BY <1>2 DEF Decides, N
<1>5. \A n \in 0..(N + 1) : g[n] = IF n = 0 THEN "Default"
                                   ELSE IF Names(after[n], id) THEN after[n].action ELSE g[n - 1]
  BY <1>1, <1>3 DEF Decides
<1>6. f[N] = g[N]
  <2>1. N \in Nat
    BY <1>1
  <2>2. f[0] = g[0]
    <3>1. 0 \in 0..N /\ 0 \in 0..(N + 1)
      BY <2>1
    <3>. QED  BY <1>4, <1>5, <3>1
  <2>3. ASSUME NEW n \in 1..N, f[n - 1] = g[n - 1]
        PROVE  f[n] = g[n]
    <3>1. n \in 0..N /\ n \in 0..(N + 1) /\ n # 0 /\ after[n] = changes[n]
      BY <1>1
    <3>. QED  BY <1>4, <1>5, <2>3, <3>1
  <2>4. Alike(f, g, N)
    <3>1. GoOnAlike(f, g, N)
      BY <2>2, <2>3 DEF GoOnAlike
    <3>. QED  BY <2>1, <3>1, SameTurns
  <2>. QED  BY <2>1, <2>4 DEF Alike
<1>7. N + 1 \in 0..(N + 1) /\ N + 1 # 0 /\ (N + 1) - 1 = N
  BY <1>1
<1>8. g[N + 1] = IF Names(change, id) THEN change.action ELSE g[N]
  BY <1>1, <1>5, <1>7
<1>9. f[N] = Decided(changes, id) /\ g[N + 1] = Decided(after, id)
  BY <1>1, <1>2, <1>3 DEF Decides, N
<1>. QED  BY <1>6, <1>8, <1>9 DEF Names, after

LEMMA NothingDecided ==
  ASSUME NEW id
  PROVE  Decided(<<>>, id) = "Default"
<1>1. <<>> \in Seq(Change) /\ Len(<<>>) = 0
  OBVIOUS
<1>2. PICK f : Decides(f, <<>>, id)
  BY <1>1, DecidesAll
<1>. QED  BY <1>1, <1>2 DEF Decides

-----------------------------------------------------------------------------
(* The changes and what they came to when they were written.               *)

Means(changes, force) == \A id \in WarningIds : Decided(changes, id) = force[id]

(* What the replay has in force and has saved decides as the history says. *)
ReplayInv ==
  /\ Means(Replayed(policy).state, inForce.current)
  /\ Len(Replayed(policy).saved) = Len(inForce.saved)
  /\ \A i \in 1..Len(inForce.saved) : Means(Replayed(policy).saved[i], inForce.saved[i])

(* No change is past the line to be written next.                          *)
ReachInv == \A i \in 1..Len(policy) : policy[i].line <= OutputLine

(* Only these three directives touch the policy.                           *)
LEMMA PragmasChange ==
  ASSUME [Next]_vars, ~UNCHANGED <<policy, inForce>>
  PROVE  PragmaPush \/ PragmaPop \/ PragmaNumber
<1>1. ~(UNCHANGED vars \/ Run \/ ReadLine \/ SpliceLine \/ SpliceAtEnd \/ EndOfFile)
  BY DEF vars, pragmas, Run, ReadLine, SpliceLine, SpliceAtEnd, EndOfFile
<1>2. ~(If \/ IfDefined \/ Elif \/ Else \/ Endif \/ SkipInactive)
  BY DEF If, IfDefined, Elif, Else, Endif, SkipInactive, pragmas
<1>3. ~(Include \/ IncludeNothing \/ Define \/ Undef \/ UserMessage \/ UnsupportedDirective)
  BY DEF Include, Enter, IncludeNothing, Define, Undef, UserMessage, UnsupportedDirective, pragmas
<1>4. ~(PragmaOnce \/ PragmaIgnored \/ PragmaSet \/ PragmaBadNumber \/ PragmaListEnds)
  BY DEF PragmaOnce, PragmaIgnored, PragmaSet, PragmaBadNumber, PragmaListEnds, pragmas
<1>5. ~(EmitLine \/ StartJoin \/ JoinLine \/ EmitJoined)
  BY DEF EmitLine, StartJoin, JoinLine, EmitJoined, pragmas
<1>. QED  BY <1>1, <1>2, <1>3, <1>4, <1>5 DEF Next, Finished

LEMMA PushReplayed ==
  ASSUME StackInv, LinesInv, MapInv, SettingsInv, ReplayInv, PragmaPush
  PROVE  ReplayInv'
<1>. DEFINE r == Replayed(policy)
            change == Push(OutputLine)
<1>1. OutputLine \in Nat
  BY SequenceFacts DEF OutputLine, MapInv
<1>2. policy \in Seq(Change) /\ change \in Change /\ change.number = "push"
  BY <1>1 DEF SettingsInv, Push, Set, Change, Actions
<1>3. policy' = Append(policy, change) /\ inForce' = [inForce EXCEPT !.saved = Append(@, inForce.current)]
  BY DEF PragmaPush
<1>. HIDE DEF change
<1>4. r \in ReplayType /\ Replayed(policy') = Replay(r, change)
  BY <1>2, <1>3, ReplayedAppends
<1>. HIDE DEF r
<1>5. Replayed(policy').state = r.state /\ Replayed(policy').saved = Append(r.saved, r.state)
  BY <1>2, <1>4, ReplayStep
<1>6. /\ inForce'.current = inForce.current /\ inForce'.saved = Append(inForce.saved, inForce.current)
      /\ inForce.saved \in Seq(ForceType) /\ inForce.current \in ForceType
  BY <1>3 DEF SettingsInv
<1>7. r.saved \in Seq(Seq(Change)) /\ r.state \in Seq(Change) /\ Len(r.saved) = Len(inForce.saved)
  BY <1>4 DEF ReplayType, ReplayInv, r
<1>. DEFINE N == Len(inForce.saved)
<1>8. N \in Nat /\ Len(Append(r.saved, r.state)) = N + 1 /\ Len(inForce'.saved) = N + 1
  BY <1>6, <1>7
<1>9. ASSUME NEW i \in 1..(N + 1)
      PROVE  Means(Append(r.saved, r.state)[i], Append(inForce.saved, inForce.current)[i])
  <2>1. CASE i = N + 1
    <3>1. Append(r.saved, r.state)[i] = r.state /\ Append(inForce.saved, inForce.current)[i] = inForce.current
      BY <1>6, <1>7, <2>1
    <3>. QED  BY <3>1 DEF ReplayInv, r
  <2>2. CASE i # N + 1
    <3>1. i \in 1..N /\ Append(r.saved, r.state)[i] = r.saved[i]
          /\ Append(inForce.saved, inForce.current)[i] = inForce.saved[i]
      BY <1>6, <1>7, <2>2
    <3>. QED  BY <3>1 DEF ReplayInv, r
  <2>. QED  BY <2>1, <2>2
<1>10. Means(r.state, inForce.current)
  BY DEF ReplayInv, r
<1>. QED  BY <1>5, <1>6, <1>8, <1>9, <1>10 DEF ReplayInv, Means

LEMMA PopReplayed ==
  ASSUME StackInv, LinesInv, MapInv, SettingsInv, ReplayInv, PragmaPop
  PROVE  ReplayInv'
<1>1. CASE UNCHANGED <<policy, inForce>>
  BY <1>1 DEF ReplayInv, Means
<1>2. CASE /\ warningPragmaDepth > 0
           /\ policy' = Append(policy, Pop(OutputLine))
           /\ inForce' = [current |-> Last(inForce.saved), saved |-> Front(inForce.saved)]
  <2>. DEFINE r == Replayed(policy)
              change == Pop(OutputLine)
              N == Len(inForce.saved)
  <2>1. OutputLine \in Nat
    BY SequenceFacts DEF OutputLine, MapInv
  <2>2. policy \in Seq(Change) /\ change \in Change /\ change.number = "pop"
    BY <2>1 DEF SettingsInv, Pop, Set, Change, Actions
  <2>3. policy' = Append(policy, change)
    BY <1>2
  <2>. HIDE DEF change
  <2>4. r \in ReplayType /\ Replayed(policy') = Replay(r, change)
    BY <2>2, <2>3, ReplayedAppends
  <2>5. inForce.saved \in Seq(ForceType) /\ N \in Nat /\ N > 0 /\ Len(r.saved) = N
        /\ Means(r.saved[N], inForce.saved[N]) /\ \A i \in 1..N : Means(r.saved[i], inForce.saved[i])
    BY <1>2 DEF SettingsInv, ReplayInv
  <2>. HIDE DEF r, N
  <2>6. r.saved \in Seq(Seq(Change)) /\ r.saved # <<>>
    <3>1. r.saved \in Seq(Seq(Change))
      BY <2>4 DEF ReplayType
    <3>. QED  BY <2>5, <3>1, EmptySeq
  <2>7. Replayed(policy').state = Last(r.saved) /\ Replayed(policy').saved = Front(r.saved)
    BY <2>2, <2>4, <2>6, ReplayStep
  <2>8. /\ Last(r.saved) = r.saved[N] /\ Last(inForce.saved) = inForce.saved[N]
        /\ Front(r.saved) = SubSeq(r.saved, 1, N - 1) /\ Front(inForce.saved) = SubSeq(inForce.saved, 1, N - 1)
    BY <2>5 DEF Last, Front, N
  <2>9. /\ Len(Front(r.saved)) = N - 1 /\ \A i \in 1..(N - 1) : Front(r.saved)[i] = r.saved[i]
    <3>1. \A i \in 1..(N - 1) : r.saved[i] \in Seq(Change)
      BY <2>5, <2>6, ElementOfSeq
    <3>. QED  BY <2>5, <2>6, <2>8, <3>1, SubSeqProperties
  <2>10. /\ Len(Front(inForce.saved)) = N - 1 /\ \A i \in 1..(N - 1) : Front(inForce.saved)[i] = inForce.saved[i]
    <3>1. \A i \in 1..(N - 1) : inForce.saved[i] \in ForceType
      BY <2>5, ElementOfSeq DEF N
    <3>. QED  BY <2>5, <2>8, <3>1, SubSeqProperties DEF N
  <2>11. inForce'.current = inForce.saved[N] /\ inForce'.saved = Front(inForce.saved)
    BY <1>2, <2>8
  <2>12. ASSUME NEW i \in 1..(N - 1)
         PROVE  Means(Front(r.saved)[i], Front(inForce.saved)[i])
    <3>1. i \in 1..N
      BY <2>5
    <3>. QED  BY <2>5, <2>9, <2>10, <3>1
  <2>. QED  BY <2>5, <2>7, <2>8, <2>9, <2>10, <2>11, <2>12 DEF ReplayInv, Means
<1>. QED  BY <1>1, <1>2 DEF PragmaPop

LEMMA NumberReplayed ==
  ASSUME StackInv, LinesInv, MapInv, SettingsInv, ReplayInv, PragmaNumber
  PROVE  ReplayInv'
<1>. DEFINE r == Replayed(policy)
            change == Set(OutputLine, Number, logical.dir.action)
            force == [id \in WarningIds |->
                        IF Number \in {id, "all"} THEN logical.dir.action ELSE inForce.current[id]]
<1>1. OutputLine \in Nat
  BY SequenceFacts DEF OutputLine, MapInv
<1>2. logical.dir.action \in Actions
  <2>1. logical.dir \in ListType
    BY ListOnly DEF PragmaNumber, SettingsInv, LinesInv
  <2>. QED  BY <2>1 DEF ListType
<1>3. Number \in WarningIds \cup {"all"}
  BY DEF PragmaNumber
<1>4. /\ policy \in Seq(Change) /\ change \in Change
      /\ change.number = Number /\ change.action = logical.dir.action /\ change.number \notin {"push", "pop"}
  BY <1>1, <1>2, <1>3, NumbersAssumption DEF SettingsInv, Set, Change
<1>5. policy' = Append(policy, change) /\ inForce' = [inForce EXCEPT !.current = force]
  BY DEF PragmaNumber
<1>. HIDE DEF change
<1>6. r \in ReplayType /\ Replayed(policy') = Replay(r, change)
  BY <1>4, <1>5, ReplayedAppends
<1>. HIDE DEF r
<1>7. Replayed(policy').state = Append(r.state, change) /\ Replayed(policy').saved = r.saved
  BY <1>4, <1>6, ReplayStep
<1>8. r.state \in Seq(Change)
  BY <1>6 DEF ReplayType
<1>9. inForce'.current = force /\ inForce'.saved = inForce.saved
  <2>. HIDE DEF force
  <2>. QED  BY <1>5 DEF SettingsInv
<1>10. ASSUME NEW id \in WarningIds
       PROVE  Decided(Append(r.state, change), id) = force[id]
  <2>1. Decided(Append(r.state, change), id) =
          IF Number \in {id, "all"} THEN logical.dir.action ELSE Decided(r.state, id)
    BY <1>4, <1>8, DecidedAppends
  <2>2. Decided(r.state, id) = inForce.current[id]
    BY DEF ReplayInv, Means, r
  <2>. QED  BY <2>1, <2>2
<1>. HIDE DEF force
<1>. QED  BY <1>7, <1>9, <1>10 DEF ReplayInv, Means, r

LEMMA ReplayInvHolds == Spec => []ReplayInv
<1>1. Init => ReplayInv
  <2>1. ASSUME Init
        PROVE  ReplayInv
    <3>1. Replayed(policy) = NothingAsked /\ inForce.saved = <<>>
          /\ inForce.current = [id \in WarningIds |-> "Default"]
      BY <2>1, NothingReplayed DEF Init
    <3>2. Len(<<>>) = 0 /\ NothingAsked.state = <<>> /\ NothingAsked.saved = <<>>
      BY DEF NothingAsked
    <3>. QED  BY <3>1, <3>2, NothingDecided DEF ReplayInv, Means
  <2>. QED  BY <2>1
<1>2. StackInv /\ LinesInv /\ MapInv /\ SettingsInv /\ ReplayInv /\ [Next]_vars => ReplayInv'
  <2>. SUFFICES ASSUME StackInv, LinesInv, MapInv, SettingsInv, ReplayInv, [Next]_vars
                PROVE  ReplayInv'
    OBVIOUS
  <2>1. CASE UNCHANGED <<policy, inForce>>
    BY <2>1 DEF ReplayInv, Means
  <2>2. CASE ~UNCHANGED <<policy, inForce>>
    <3>1. PragmaPush \/ PragmaPop \/ PragmaNumber
      BY <2>2, PragmasChange
    <3>. QED  BY <3>1, PushReplayed, PopReplayed, NumberReplayed
  <2>. QED  BY <2>1, <2>2
<1>. QED  BY <1>1, <1>2, StackInvHolds, LinesInvHolds, MapInvHolds, SettingsInvHolds, PTL DEF Spec

(* What a step writes is governed by what is in force once it is written,  *)
(* and nothing written before is touched.                                  *)
LinesGoverned ==
  /\ IsSequence(out') /\ Len(out') >= Len(out)
  /\ \A i \in 1..Len(out) : out'[i] = out[i]
  /\ \A i \in (Len(out) + 1)..Len(out') : out'[i].governed = inForce'.current

LEMMA BlankGoverned ==
  ASSUME MapInv, NEW frame, Blank(frame)
  PROVE  LinesGoverned
<1>. DEFINE entry == Written(frame.logicalLine, <<>>, logical.from)
<1>1. out' = Append(out, entry) /\ entry.governed = inForce'.current
  BY DEF Blank, Written
<1>. HIDE DEF entry
<1>2. /\ IsSequence(out') /\ Len(out') = Len(out) + 1 /\ Len(out) \in Nat
      /\ \A i \in 1..Len(out') : out'[i] = IF i = Len(out') THEN entry ELSE out[i]
  BY <1>1, Appended, SequenceFacts DEF MapInv
<1>3. \A i \in 1..Len(out) : i \in 1..Len(out') /\ i # Len(out')
  BY <1>2
<1>4. \A i \in (Len(out) + 1)..Len(out') : i \in 1..Len(out') /\ i = Len(out')
  BY <1>2
<1>. QED  BY <1>1, <1>2, <1>3, <1>4 DEF LinesGoverned

LEMMA EmitGoverned ==
  ASSUME MapInv, NEW text, NEW frame, NEW taken \in Nat, Emit(text, frame, taken)
  PROVE  LinesGoverned
<1>1. Len(out) \in Nat /\ IsSequence(out)
  BY SequenceFacts DEF MapInv
<1>2. /\ IsSequence(out') /\ Len(out') = Len(out) + 1 + taken
      /\ \A i \in 1..Len(out) : out'[i] = out[i]
      /\ out'[Len(out) + 1] = Written(frame.logicalLine, Expanded(text, frame).text, logical.from)
      /\ \A k \in 1..taken :
           out'[Len(out) + 1 + k] = Written(frame.logicalLine + k, <<>>, frame.position - taken + k)
  BY <1>1, EmittedLines
<1>3. ASSUME NEW i \in (Len(out) + 1)..Len(out')
      PROVE  out'[i].governed = inForce'.current
  <2>1. CASE i = Len(out) + 1
    BY <1>2, <2>1 DEF Written
  <2>2. CASE i # Len(out) + 1
    <3>. DEFINE k == i - (Len(out) + 1)
    <3>1. k \in 1..taken /\ Len(out) + 1 + k = i
      BY <1>1, <1>2, <2>2
    <3>. HIDE DEF k
    <3>2. out'[i] = Written(frame.logicalLine + k, <<>>, frame.position - taken + k)
      BY <1>2, <3>1
    <3>. QED  BY <3>2 DEF Written
  <2>. QED  BY <2>1, <2>2
<1>. QED  BY <1>1, <1>2, <1>3 DEF LinesGoverned

LEMMA StepGoverned ==
  ASSUME StackInv, MapInv, [Next]_vars
  PROVE  LinesGoverned
<1>1. CASE UNCHANGED out
  <2>1. Len(out) \in Nat
    BY SequenceFacts DEF MapInv
  <2>. QED  BY <1>1, <2>1 DEF LinesGoverned, MapInv
<1>2. CASE ConditionalStep \/ PlainDirective
  BY <1>2, ConditionalsBlank, PlainDirectivesBlank, BlankGoverned DEF LeavesABlank
<1>3. CASE EmitLine
  BY <1>3, EmitGoverned DEF EmitLine
<1>4. CASE EmitJoined
  <2>1. logical.taken \in Nat
    BY <1>4 DEF EmitJoined, StackInv
  <2>. QED  BY <1>4, <2>1, EmitGoverned DEF EmitJoined
<1>. QED  BY <1>1, <1>2, <1>3, <1>4, SilentSteps
     DEF Next, ConditionalStep, PlainDirective, SilentStep, vars

(* From the last change on, all of them are in force.                      *)
LEMMA AllReached ==
  ASSUME NEW changes \in Seq(Change), NEW line \in Nat, \A i \in 1..Len(changes) : changes[i].line <= line
  PROVE  UpTo(changes, line) = changes
<1>. DEFINE N == Len(changes)
            reached == {n \in 0..N : \A i \in 1..n : changes[i].line <= line}
            last == CHOOSE n \in reached : \A m \in reached : m <= n
<1>1. N \in Nat
  OBVIOUS
<1>2. reached = 0..N
  <2>1. \A n \in 0..N : \A i \in 1..n : i \in 1..N
    BY <1>1
  <2>. QED  BY <2>1
<1>. HIDE DEF N
<1>3. \A n \in reached : (\A m \in reached : m <= n) <=> n = N
  <2>. HIDE DEF reached
  <2>. QED  BY <1>1, <1>2
<1>4. last = N
  <2>. HIDE DEF reached
  <2>1. N \in reached
    BY <1>1, <1>2
  <2>. QED  BY <1>3, <2>1
<1>5. UpTo(changes, line) = SubSeq(changes, 1, N)
  BY <1>4 DEF UpTo, N
<1>6. SubSeq(changes, 1, N) = changes
  <2>1. \A i \in 1..N : changes[i] \in Change
    BY ElementOfSeq DEF N
  <2>2. /\ SubSeq(changes, 1, N) \in Seq(Change) /\ Len(SubSeq(changes, 1, N)) = N
        /\ \A i \in 1..N : SubSeq(changes, 1, N)[i] = changes[i]
    BY <1>1, <2>1, SubSeqProperties
  <2>. QED  BY <1>1, <2>2, SeqEqual DEF N
<1>. QED  BY <1>5, <1>6

(* No step makes a change past the line that was next to be written.       *)
LEMMA ChangesReachOutput ==
  ASSUME StackInv, LinesInv, MapInv, SettingsInv, ReachInv, [Next]_vars
  PROVE  \A i \in 1..Len(policy') : policy'[i].line \in Nat /\ policy'[i].line <= OutputLine
<1>1. policy \in Seq(Change) /\ \A i \in 1..Len(policy) : policy[i].line \in Nat
  <2>1. policy \in Seq(Change)
    BY DEF SettingsInv
  <2>2. \A i \in 1..Len(policy) : policy[i] \in Change
    BY <2>1, ElementOfSeq
  <2>. QED  BY <2>1, <2>2 DEF Change
<1>2. CASE policy' = policy
  BY <1>1, <1>2 DEF ReachInv
<1>3. ASSUME NEW change \in Change, change.line = OutputLine, policy' = Append(policy, change)
      PROVE  \A i \in 1..Len(policy') : policy'[i].line \in Nat /\ policy'[i].line <= OutputLine
  <2>1. /\ Len(policy) \in Nat /\ Len(policy') = Len(policy) + 1
        /\ \A i \in 1..Len(policy') : policy'[i] = IF i = Len(policy') THEN change ELSE policy[i]
    BY <1>1, <1>3
  <2>2. change.line \in Nat
    BY DEF Change
  <2>3. ASSUME NEW i \in 1..Len(policy')
        PROVE  policy'[i].line \in Nat /\ policy'[i].line <= OutputLine
    <3>1. CASE i = Len(policy')
      BY <1>3, <2>1, <2>2, <3>1
    <3>2. CASE i # Len(policy')
      <4>1. i \in 1..Len(policy) /\ policy'[i] = policy[i]
        BY <2>1, <3>2
      <4>. QED  BY <1>1, <4>1 DEF ReachInv
    <3>. QED  BY <3>1, <3>2
  <2>. QED  BY <2>3
<1>. QED  BY <1>2, <1>3, ChangesAreAppended

LEMMA ReachInvHolds == Spec => []ReachInv
<1>1. Init => ReachInv
  BY DEF Init, ReachInv
<1>2. StackInv /\ LinesInv /\ MapInv /\ SettingsInv /\ ReachInv /\ [Next]_vars => ReachInv'
  <2>. SUFFICES ASSUME StackInv, LinesInv, MapInv, SettingsInv, ReachInv, [Next]_vars
                PROVE  ReachInv'
    OBVIOUS
  <2>1. OutputLine \in Nat /\ OutputLine' \in Nat /\ OutputLine <= OutputLine'
    BY StepGoverned, SequenceFacts DEF LinesGoverned, MapInv, OutputLine
  <2>2. \A i \in 1..Len(policy') : policy'[i].line \in Nat /\ policy'[i].line <= OutputLine
    BY ChangesReachOutput
  <2>. QED  BY <2>1, <2>2 DEF ReachInv
<1>. QED  BY <1>1, <1>2, StackInvHolds, LinesInvHolds, MapInvHolds, SettingsInvHolds, PTL DEF Spec

(* Replaying the changes up to a line gives what was in force when the     *)
(* line was written, whatever was pushed, popped and included before it    *)
(* and since.                                                              *)
THEOREM PragmaInForceAlways == Spec => []PragmaInForce
<1>1. Init => PragmaInForce
  BY DEF Init, PragmaInForce
<1>2. StackInv /\ LinesInv /\ MapInv /\ SettingsInv /\ ReachInv /\ PragmaInForce /\ [Next]_vars
      /\ SettingsInv' /\ ReplayInv' => PragmaInForce'
  <2>. SUFFICES ASSUME StackInv, LinesInv, MapInv, SettingsInv, SettingsInv', ReplayInv', ReachInv,
                       PragmaInForce, [Next]_vars
                PROVE  PragmaInForce'
    OBVIOUS
  <2>. SUFFICES ASSUME NEW line \in DOMAIN out', NEW id \in WarningIds
                PROVE  ActionFor(policy', id, line) = out'[line].governed[id]
    BY DEF PragmaInForce
  <2>1. LinesGoverned
    BY StepGoverned
  <2>2. Len(out) \in Nat /\ DOMAIN out = 1..Len(out) /\ Len(out') \in Nat /\ DOMAIN out' = 1..Len(out')
    BY <2>1, SequenceFacts DEF LinesGoverned, MapInv
  <2>3. CASE line \in DOMAIN out
    <3>1. ActionFor(policy', id, line) = ActionFor(policy, id, line)
      BY <2>3, WrittenLinesKept
    <3>2. out'[line] = out[line]
      BY <2>1, <2>2, <2>3 DEF LinesGoverned
    <3>. QED  BY <2>3, <3>1, <3>2 DEF PragmaInForce
  <2>4. CASE line \notin DOMAIN out
    <3>1. line \in (Len(out) + 1)..Len(out') /\ line \in Nat /\ OutputLine <= line
      BY <2>2, <2>4 DEF OutputLine
    <3>2. out'[line].governed = inForce'.current
      BY <2>1, <3>1 DEF LinesGoverned
    <3>3. policy' \in Seq(Change) /\ \A i \in 1..Len(policy') : policy'[i].line <= line
      <4>1. OutputLine \in Nat
        BY <2>2 DEF OutputLine
      <4>2. \A i \in 1..Len(policy') : policy'[i].line \in Nat /\ policy'[i].line <= OutputLine
        BY ChangesReachOutput
      <4>. QED  BY <3>1, <4>1, <4>2 DEF SettingsInv
    <3>4. UpTo(policy', line) = policy'
      BY <3>1, <3>3, AllReached
    <3>. QED  BY <3>2, <3>4 DEF ActionFor, ReplayInv, Means
  <2>. QED  BY <2>3, <2>4
<1>. QED  BY <1>1, <1>2, StackInvHolds, LinesInvHolds, MapInvHolds, SettingsInvHolds, ReachInvHolds,
         ReplayInvHolds, PTL DEF Spec

(* What the preprocessor asks before it reports a warning of its own is     *)
(* what the pragmas obeyed so far have asked for.                          *)
THEOREM OwnWarningsAsk ==
  Spec => [](\A id \in WarningIds : ActionFor(policy, id, OutputLine) = inForce.current[id])
<1>1. MapInv /\ SettingsInv /\ ReachInv /\ ReplayInv
        => \A id \in WarningIds : ActionFor(policy, id, OutputLine) = inForce.current[id]
  <2>. SUFFICES ASSUME MapInv, SettingsInv, ReachInv, ReplayInv
                PROVE  \A id \in WarningIds : ActionFor(policy, id, OutputLine) = inForce.current[id]
    OBVIOUS
  <2>1. OutputLine \in Nat /\ policy \in Seq(Change)
    BY SequenceFacts DEF OutputLine, MapInv, SettingsInv
  <2>2. UpTo(policy, OutputLine) = policy
    BY <2>1, AllReached DEF ReachInv
  <2>. QED  BY <2>2 DEF ActionFor, ReplayInv, Means
<1>. QED  BY <1>1, MapInvHolds, SettingsInvHolds, ReachInvHolds, ReplayInvHolds, PTL

=============================================================================
