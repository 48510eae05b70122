------------------------------ MODULE MCDriver ------------------------------
(* Command lines over a handful of files. *)
EXTENDS Driver

CONSTANT SharedNames   \* whether a generated file may have the name of one that is given

Here(stem, ext) == Path("here", stem, ext)
Input(stem, ext) == <<"input", Here(stem, ext)>>
A    == Input("a", "c")
B    == Input("b", "c")
S    == Input("s", "casm")
X    == Input("x", "cobj")
Run  == <<"--run">>
XDecls == <<"--decls", Here("x", "decls.casm")>>
OutP   == <<"-o", Here("p", "cres")>>

Separate ==
  {<<A>>, <<A, <<"-o", Here("out", "casm")>>>>, <<A, B>>, <<A, B, Run>>, <<S, A, B, Run, <<"--clean">>>>,
   <<A, X, XDecls, Run>>, <<A, Input("a", "cobj"), Run>>, <<A, X, <<"--decls", Here("p", "decls.casm")>>, OutP, Run>>,
   <<A, B, <<"-E">>>>, <<A, B, <<"-E">>, <<"-Werror">>>>, <<A, B, <<"--emit-ast">>>>, <<B, A, <<"--emit-ir">>, Run>>,
   <<A, <<"-l", "m">>, <<"-L", "none">>, <<"-L", "lib">>, Run, <<"--clean-keep-casm">>>>, <<A, <<"--stdlib">>, <<"-l", "m">>, Run>>,
   <<A, B, <<"-Werror">>, Run, <<"-S">>>>, <<X, Run>>, <<A, <<"--clean">>>>, <<A, <<"-o">>>>, <<B, A, X, Run, <<"--clean">>, OutP>>,
   <<A, B, <<"--emit-decls", Here("pub", "casm")>>, Run, <<"--clean">>>>, <<A, Input("none", "cobj"), Run>>, <<S>>,
   <<A, Input("none", "c")>>, <<A, X, XDecls, Run, <<"--ceres-path", "empty">>>>}
(* A unit and a source of the same name. *)
Shared == {<<A, Input("a", "casm"), Run>>, <<A, Input("a", "casm"), Run, <<"--clean">>>>}
MCCommandLines == IF SharedNames THEN Shared ELSE Separate

MCEnvironments ==
  {[ceresPath |-> given, own |-> own, path |-> <<"bin", "lib">>, withCeres |-> {"lib"}, withLibrary |-> {"lib"}] :
     given \in {Nowhere, "lib", "empty"}, own \in {Nowhere, "lib"}}
MCPresent ==
  {w[2] : w \in {A, B, S, X, Input("a", "cobj"), Input("a", "casm")}}
    \cup {Here("x", "decls.casm"), Here("p", "decls.casm"), Path("lib", "m", "car"), Path("lib", "m", "decls.casm"), Path("lib", "ceres", "cobj")}
MCLeftovers == {Here("b", "cobj"), Here("b", "casm")}

Declared(name, function, defined, initialized) ==
  [name |-> name, function |-> function, defined |-> defined, initialized |-> initialized]
MCExportsOf(source) ==
  IF source.stem = "a"
  THEN <<Declared("g", TRUE, FALSE, FALSE), Declared("f", TRUE, TRUE, FALSE), Declared("v", FALSE, TRUE, FALSE),
         Declared("__heap_start", FALSE, FALSE, FALSE), Declared("k", FALSE, FALSE, FALSE)>>
  ELSE <<Declared("f", TRUE, FALSE, FALSE), Declared("v", FALSE, TRUE, TRUE), Declared("g", TRUE, TRUE, FALSE)>>
MCDeclaredBy(path) == IF path.ext = "decls.casm" THEN {"k"} ELSE {}
=============================================================================
