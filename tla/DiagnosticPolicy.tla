--------------------------- MODULE DiagnosticPolicy ---------------------------
(***************************************************************************)
(* What a program's #pragma warning directives ask for                     *)
(* (libs/support/include/ceresc/support/diagnostic_policy.h): a list of    *)
(* changes, each at a line of the expanded text, replayed up to the line   *)
(* that is asked about.                                                    *)
(***************************************************************************)
EXTENDS Naturals, Sequences, SequencesExt

CONSTANT WarningIds     \* the diagnostics a pragma can name

ASSUME NumbersAssumption == WarningIds \cap {"all", "push", "pop"} = {}

Actions == {"Default", "Ignored", "Warning", "Error"}

Change == [line : Nat, number : WarningIds \cup {"all", "push", "pop"}, action : Actions]

Set(line, number, action) == [line |-> line, number |-> number, action |-> action]
Push(line) == Set(line, "push", "Default")
Pop(line)  == Set(line, "pop", "Default")

(* The changes in force, and what each open push saved.                    *)
Replay(replay, change) ==
  CASE change.number = "push" -> [replay EXCEPT !.saved = Append(@, replay.state)]
    [] change.number = "pop" /\ replay.saved # <<>> ->
         [state |-> Last(replay.saved), saved |-> Front(replay.saved)]
    [] change.number = "pop" /\ replay.saved = <<>> -> replay
    [] OTHER -> [replay EXCEPT !.state = Append(@, change)]

(* Mutant: a change is not in force on its own line.                       *)
UpToBefore(policy, line) ==
  LET reached == {n \in 0..Len(policy) : \A i \in 1..n : policy[i].line < line}
  IN SubSeq(policy, 1, CHOOSE n \in reached : \A m \in reached : m <= n)

(* The changes before the first one of a later line.                       *)
UpTo(policy, line) ==
  LET reached == {n \in 0..Len(policy) : \A i \in 1..n : policy[i].line <= line}
  IN SubSeq(policy, 1, CHOOSE n \in reached : \A m \in reached : m <= n)

(* What is in force once the changes have been replayed one by one.        *)
Replayed(changes) ==
  LET after[n \in 0..Len(changes)] ==
        IF n = 0 THEN [state |-> <<>>, saved |-> <<>>] ELSE Replay(after[n - 1], changes[n])
  IN after[Len(changes)]

(* The last of the changes that names the diagnostic decides.              *)
Decided(changes, id) ==
  LET action[n \in 0..Len(changes)] ==
        IF n = 0 THEN "Default"
        ELSE IF changes[n].number \in {id, "all"} THEN changes[n].action ELSE action[n - 1]
  IN action[Len(changes)]

ActionFor(policy, id, line) == Decided(Replayed(UpTo(policy, line)).state, id)
=============================================================================
