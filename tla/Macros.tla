------------------------------- MODULE Macros -------------------------------
(***************************************************************************)
(* What the preprocessor does to one line of text                          *)
(* (libs/preprocessor/src/preprocessor.cpp): finding its comments, seeing   *)
(* whether it leaves a macro call open, and expanding its macros.          *)
(*                                                                         *)
(* A line is a sequence of tokens.  The ones with a meaning here are the   *)
(* comment marks, the quote, the parentheses and the comma; every other    *)
(* token is a word, and a word in the domain of `macros` is a macro name.  *)
(* Blanks are left out, so two tokens that only blanks separate are        *)
(* neighbours.  Variadic macros, # and ## are left out too, and a macro    *)
(* the language predefines is an object-like one.                          *)
(***************************************************************************)
EXTENDS Naturals, Sequences, SequencesExt, FiniteSetsExt

CONSTANTS MaxMacroPasses,     \* kMaxMacroPasses
          MaxExpandedLine     \* kMaxExpandedLineBytes, in tokens

ASSUME LimitsAssumption == /\ MaxMacroPasses \in Nat \ {0}
                           /\ MaxExpandedLine \in Nat

Token == STRING
Line == Seq(Token)

Macro == [functionLike : BOOLEAN, parameters : Seq(Token), replacement : Line]

(* The first place of a token in a line from i on, one past the end when   *)
(* there is none.                                                          *)
Find(text, token, i) ==
  Min({j \in i..Len(text) : text[j] = token} \cup {Len(text) + 1})

-----------------------------------------------------------------------------
(* Comments as C reads them, and as lineCommentAt and leavesMacroCallOpen   *)
(* do.                                                                     *)

Scan(reading, token) ==
  CASE reading = "code"    /\ token = "/*" -> "comment"
    [] reading = "comment" /\ token = "*/" -> "code"
    [] reading = "code"    /\ token = "'"  -> "literal"
    [] reading = "literal" /\ token = "'"  -> "code"
    [] reading = "code"    /\ token = "//" -> "line comment"
    [] OTHER -> reading

(* How the i-th token of a line is read.                                   *)
ReadAs(text, i, inBlockComment) ==
  FoldLeft(Scan, IF inBlockComment THEN "comment" ELSE "code", SubSeq(text, 1, i - 1))

EndsInComment(text, inBlockComment) ==
  ReadAs(text, Len(text) + 1, inBlockComment) = "comment"

LineCommentAt(text, inBlockComment) ==
  Min({i \in 1..Len(text) : text[i] = "//" /\ ReadAs(text, i, inBlockComment) = "code"}
      \cup {Len(text) + 1})

(* withoutDirectiveComment takes the first mark it finds, in a literal too. *)
WithoutDirectiveComment(text) ==
  SubSeq(text, 1, Min({Find(text, "//", 1), Find(text, "/*", 1)}) - 1)

(* Whether the line ends inside the argument list of a function-like macro. *)
LeavesMacroCallOpen(text, inBlockComment, macros) ==
  LET InCode(i) == ReadAs(text, i, inBlockComment) = "code"
      Names(i) == /\ i >= 1
                  /\ InCode(i)
                  /\ text[i] \in DOMAIN macros
                  /\ macros[text[i]].functionLike
      depth[i \in 0..Len(text)] ==
        IF i = 0 THEN 0
        ELSE CASE InCode(i) /\ text[i] = "(" /\ (depth[i-1] > 0 \/ Names(i-1)) -> depth[i-1] + 1
               [] InCode(i) /\ text[i] = ")" /\ depth[i-1] > 0 -> depth[i-1] - 1
               [] OTHER -> depth[i-1]
  IN depth[Len(text)] > 0

-----------------------------------------------------------------------------
(* expandMacros.                                                           *)

(* Where the arguments that start at i end: the place of each comma and of *)
(* the closing parenthesis, or of nothing more when it is missing.  Closed *)
(* literals are skipped, comments are not.                                 *)
ArgumentEnds(text, i) ==
  LET n == Len(text)
      ends[j \in i..(n+1), depth \in 0..n] ==
        IF j > n THEN <<>>
        ELSE CASE text[j] = "'" /\ Find(text, "'", j + 1) <= n ->
                    ends[Find(text, "'", j + 1) + 1, depth]
               [] text[j] = "(" -> ends[j+1, depth+1]
               [] text[j] = ")" /\ depth > 0 -> ends[j+1, depth-1]
               [] text[j] = ")" /\ depth = 0 -> <<j>>
               [] text[j] = "," /\ depth = 0 -> <<j>> \o ends[j+1, 0]
               [] OTHER -> ends[j+1, depth]
  IN ends[i, 0]

Closed(text, ends) == ends # <<>> /\ text[Last(ends)] = ")"

ArgumentsFrom(text, i, ends) ==
  LET raw == [k \in 1..Len(ends) |->
                SubSeq(text, IF k = 1 THEN i ELSE ends[k-1] + 1, ends[k] - 1)]
  IN IF raw = << <<>> >> THEN <<>> ELSE raw

(* A line expanded: the text, the diagnostics, and whether it ends inside  *)
(* a block comment, which only the first pass decides.                     *)
Expand(line, inBlockComment, macros) ==
  LET
    expand[pass \in 1..MaxMacroPasses, text \in Line, carried \in BOOLEAN] ==
      LET
        n == Len(text)
        (* The call the name at i makes. *)
        callee(i) == macros[text[i]]
        argEnds(i) == ArgumentEnds(text, i + 2)
        arguments(i) == ArgumentsFrom(text, i + 2, argEnds(i))
        argument(i, word) ==
          expand[1, arguments(i)[SelectInSeq(callee(i).parameters, LAMBDA p : p = word)], FALSE]
        used(i) == ToSet(callee(i).replacement) \cap ToSet(callee(i).parameters)
        substituted(i) ==
          FlattenSeq([k \in 1..Len(callee(i).replacement) |->
            LET word == callee(i).replacement[k]
            IN IF word \in used(i) THEN argument(i, word).text ELSE <<word>>])
        scan[i \in 1..(n+1), comment \in BOOLEAN] ==
          LET
            After(out, j, open) == LET rest == scan[j, open]
                                   IN [rest EXCEPT !.text = out \o @]
            CopyTo(j, open) == After(SubSeq(text, i, j), j + 1, open)
            Replace(out, j, errors) ==
              [After(out, j, FALSE) EXCEPT !.changed = TRUE, !.errors = @ \cup errors]
            Refuse(error) == [CopyTo(i, FALSE) EXCEPT !.errors = @ \cup {error}]
            closing == Find(text, "*/", IF comment THEN i ELSE i + 1)
          IN
          IF i > n THEN [text |-> <<>>, open |-> comment, changed |-> FALSE, errors |-> {}]
          ELSE IF text[i] = "'" THEN CopyTo(Min({Find(text, "'", i + 1), n}), comment)
          ELSE IF text[i] = "//" THEN CopyTo(n, comment)
          ELSE IF comment \/ text[i] = "/*" THEN CopyTo(Min({closing, n}), closing > n)
          ELSE IF text[i] \notin DOMAIN macros THEN CopyTo(i, FALSE)
          ELSE IF ~callee(i).functionLike THEN Replace(callee(i).replacement, i + 1, {})
          ELSE IF i = n \/ text[i + 1] # "(" THEN CopyTo(i, FALSE)
          ELSE IF ~Closed(text, argEnds(i)) THEN Refuse("MalformedMacroInvocation")
          ELSE IF arguments(i) # <<>> /\ callee(i).parameters = <<>>
               THEN Refuse("MalformedMacroInvocation")
          ELSE IF Len(arguments(i)) # Len(callee(i).parameters) THEN Refuse("MacroArgumentCount")
          ELSE Replace(substituted(i), Last(argEnds(i)) + 1,
                       UNION {argument(i, word).errors : word \in used(i)})
        once == scan[1, carried]
        rest == expand[pass + 1, once.text, FALSE]
      IN
      IF Len(once.text) > MaxExpandedLine
      THEN [text |-> once.text, open |-> carried,
            errors |-> once.errors \cup {"MacroExpansionByteLimit"}]
      ELSE IF ~once.changed
      THEN [text |-> once.text, open |-> once.open, errors |-> once.errors]
      ELSE IF pass = MaxMacroPasses
      THEN [text |-> once.text, open |-> once.open,
            errors |-> once.errors \cup {"MacroExpansionPassLimit"}]
      ELSE [text |-> rest.text, open |-> once.open, errors |-> once.errors \cup rest.errors]
  IN expand[1, line, inBlockComment]
=============================================================================
