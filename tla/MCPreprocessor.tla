--------------------------- MODULE MCPreprocessor ---------------------------
(* Six small languages to write programs in, one per part of the           *)
(* preprocessor, over a main file and two headers.                         *)
EXTENDS Preprocessor

Lines(dirs) == {[dir |-> dir, text |-> <<>>, continues |-> FALSE] : dir \in dirs}
TextLines(texts) == {[dir |-> NoDirective, text |-> text, continues |-> FALSE] : text \in texts}
Continued(lines) == {[line EXCEPT !.continues = TRUE] : line \in lines}
With(dir, text) == [dir |-> dir, text |-> text, continues |-> FALSE]

Plain(op) == [op |-> op]
Conditional(op, condition) == [op |-> op, condition |-> condition]
Value(holds) == [asks |-> "value", value |-> holds, readable |-> TRUE]
Unreadably(holds) == [asks |-> "value", value |-> holds, readable |-> FALSE]
DefinedName(name) == [asks |-> "defined", name |-> name, readable |-> TRUE]
HasInclude(target, closed) ==
  [asks |-> "has_include", target |-> target, closed |-> closed, readable |-> TRUE]
Named(op, name) == [op |-> op, name |-> name]
IncludeOf(target) == [op |-> "include", target |-> target]
PragmaOf(what) == [op |-> "pragma", what |-> what]
PragmaList(action, numbers) == [op |-> "pragma", what |-> "set", action |-> action, numbers |-> numbers]
DefineOf(name, functionLike, parameters, faults) ==
  [op |-> "define", name |-> name, functionLike |-> functionLike, parameters |-> parameters,
   faults |-> faults]

Word == TextLines({<<"w">>})

ConditionalLanguage ==
  Word \cup Lines({Conditional("if", Value(TRUE)), Conditional("if", DefinedName("M")),
                   Conditional("if", Unreadably(TRUE)), Conditional("elif", Value(TRUE)),
                   Conditional("elif", Unreadably(TRUE)), Named("ifdef", "M"),
                   Named("ifndef", "M"), Named("ifdef", ""), Plain("else"), Plain("endif"),
                   DefineOf("M", FALSE, <<>>, {})})

HasIncludeLanguage ==
  Word \cup Lines({Conditional("if", HasInclude("a.h", TRUE)), Conditional("if", HasInclude("a.h", FALSE)),
                   Conditional("if", HasInclude("none.h", TRUE)), Conditional("elif", HasInclude("", FALSE)),
                   Conditional("elif", HasInclude("locked.h", FALSE)), Plain("else"), Plain("endif"),
                   IncludeOf("a.h"), IncludeOf("")})

IncludeLanguage ==
  Word \cup Lines({IncludeOf("a.h"), IncludeOf("b.h"), IncludeOf("main.c"), IncludeOf("locked.h"), IncludeOf("none.h"),
                   IncludeOf(""), PragmaOf("once"), Conditional("if", Value(FALSE)), Plain("endif"),
                   Plain("line"), Plain("error")})

PragmaLanguage ==
  Lines({PragmaOf("push"), PragmaOf("pop"), PragmaList("Ignored", <<"UserWarning">>),
         PragmaList("Error", <<"all", "E3023">>),
         PragmaList("Ignored", <<"UncontrollableDiagnostic", "E3023">>),
         PragmaList("Default", <<"UserWarning">>), PragmaOf("unknown"), PragmaOf("unreadable"),
         Plain("warning"), IncludeOf("a.h"), Conditional("if", Value(FALSE))})

MacroLanguage ==
  Lines({Named("undef", "M"), Named("undef", ""), Plain("empty"),
         PragmaList("Ignored", <<"MacroExpansionPassLimit">>),
         DefineOf("", FALSE, <<>>, {})})
  \cup {With(DefineOf("F", TRUE, <<"a", "b">>, {}), <<"b", "M", "a", "/*", "w">>),
        With(DefineOf("F", TRUE, <<"a">>, {"UnterminatedMacroParameterList"}), <<"(", "a">>),
        With(DefineOf("F", TRUE, <<"a">>, {"InvalidMacroParameterList"}), <<"M">>),
        With(DefineOf("M", FALSE, <<>>, {}), <<"M">>),
        With(DefineOf("M", FALSE, <<>>, {}), <<"M", "M">>)}
  \cup TextLines({<<"M">>, <<"F", "(", "M", ",">>, <<"w", ")">>, <<"F", "(", "w", ")">>})

CommentLanguage ==
  {With(DefineOf("F", TRUE, <<"a">>, {}), <<"a">>), With(Plain("empty"), <<"/*">>)}
  \cup Continued({With(DefineOf("M", FALSE, <<>>, {}), <<"w">>)})
  \cup Lines({Conditional("if", Value(FALSE)), Plain("endif")})
  \cup TextLines({<<"/*">>, <<"*/">>, <<"//", "*/">>, <<"w", "*/", "M", "'", "/*", "'">>,
                  <<"F", "(">>, <<")", "//", "/*">>})
  \cup Continued(TextLines({<<"F", "(">>}))

MCVocabularies ==
  {ConditionalLanguage, HasIncludeLanguage, IncludeLanguage, PragmaLanguage, MacroLanguage,
   CommentLanguage}
=============================================================================
