--------------------------- MODULE LoweredProgram ---------------------------
(***************************************************************************)
(* Compiled code running: one IR instruction a step, against the meaning C *)
(* gives the program it was compiled from.                                 *)
(*                                                                         *)
(* A run is one program with the values of its parameters, a buffer it      *)
(* shares with its caller and the answers of the functions of other units   *)
(* (0 once they run out): Init chooses the program, Start the rest.  A local *)
(* slot is two words, so that a slot two scopes share shows what each of    *)
(* them wrote.                                                              *)
(***************************************************************************)
EXTENDS IrBuilder

CONSTANTS
  Compile(_),    \* the compiler: from a C unit to IR functions by name
  Programs,      \* the units to compile, by number
  Inputs,        \* the values each int parameter may have
  PointerInputs, \* the places in the buffer each pointer parameter may have
  Buffers,       \* what the buffer may hold
  Oracles        \* the answers of the calls, as sequences

VARIABLES
  program,      \* which unit it is
  code,         \* the unit being run
  promise,      \* what C says it returns, does and leaves in the buffer
  oracle,       \* what its calls answer
  fn,           \* the function being run
  block, index, \* the next instruction
  temps,        \* the value of each temporary, Undefined before it has one
  frames,       \* the callers: where each goes on, with its temporaries
  base,         \* the first word of the frame
  memory,       \* the words of the buffer and of the frames
  args,         \* the Params since the last Call
  log,          \* the calls of other units and the volatile accesses made
  result        \* Running, or what main returned
control == <<fn, block, index>>
vars == <<program, code, promise, oracle, control, temps, frames, base, memory, args, log, result>>
run  == <<program, code, promise, oracle, frames, base>>

Undefined == -1000
Running   == -1001
Idle      == -1002      \* main is not called yet
Finished  == result \notin {Running, Idle}

Here == code[fn].blocks[block][index]

(* What an operator of the IR gives; a word is kept as its signed value. *)
Apply(o, x, y, wide) ==
  CASE o \in {"udiv", "umod"} -> As(Calculate(IF o = "udiv" THEN "div" ELSE "mod", U(x), U(y)), FALSE)
    [] o = "shr" -> As(Calculate("shr", U(x), U(y)), FALSE)
    [] o = "sar" -> Calculate("shr", x, U(y))
    [] o = "shl" -> As(Calculate("shl", x, U(y)), FALSE)
    [] o \in {"ult", "ule", "ugt", "uge"} ->
         Calculate(CASE o = "ult" -> "lt" [] o = "ule" -> "le" [] o = "ugt" -> "gt" [] o = "uge" -> "ge", U(x), U(y))
    [] OTHER -> As(Calculate(o, x, y), wide)

ApplyUnary(instr, x) ==
  CASE instr.name = "neg"  -> As(-x, FALSE)
    [] instr.name = "not"  -> -x - 1
    [] instr.name = "lnot" -> Truth(x = 0)
    [] instr.name = "tobool" -> Truth(x # 0)
    [] instr.name = "narrow" -> Conv(x, IF instr.num = SignedByte THEN "char" ELSE "uchar")

(* The type an access moves. *)
TypeMoved(instr) ==
  CASE instr.wide -> "wide"
    [] instr.num = SignedByte -> "char"
    [] instr.num = PlainByte  -> "uchar"
    [] OTHER -> "int"

(* The first words of memory, and those of a frame for `locals`. *)
Framed(mem, at, locals) ==
  [n \in 0..(at + 2 * Len(locals) - 1) |-> IF n < at THEN mem[n] ELSE Unknown]
WithParams(mem, at, locals, values) ==
  LET fill[p \in 0..Len(values)] ==
        IF p = 0 THEN mem
        ELSE WriteMem(fill[p - 1], AddressOfSlot(at, p),
                      CASE locals[p].size = 8 -> "wide" [] locals[p].size = 1 -> "uchar" [] OTHER -> "int", values[p])
  IN  fill[Len(values)]

InputsOf(param) == IF VarType(param.v) \in PointerTypes THEN PointerInputs ELSE Inputs

(* What main may be called with. *)
RunsOf(unit) ==
  LET params == unit[Len(unit)].params
      inputs == {i \in [DOMAIN params -> Inputs \cup PointerInputs] : \A p \in DOMAIN i : i[p] \in InputsOf(params[p])}
  IN  [inputs : inputs, buffer : Buffers, oracle : Oracles]

(* The memory and the temporaries main starts with. *)
MemoryOf(main, called) ==
  LET mem == [n \in 0..(FirstFrame - 1) |-> IF n \in BufferWords THEN called.buffer[n] ELSE Unknown]
  IN  WithParams(Framed(mem, FirstFrame, main.locals), FirstFrame, main.locals, called.inputs)
TempsOf(f) == [t \in Temps(f) |-> Undefined]

(* Nothing runs yet. *)
NothingRuns ==
  /\ program \in DOMAIN Programs
  /\ promise = << >> /\ oracle = << >>
  /\ fn = "main" /\ block = 0 /\ index = 0 /\ base = FirstFrame
  /\ temps = << >> /\ frames = << >> /\ memory = << >> /\ args = << >> /\ log = << >>
  /\ result = Idle

(* `unit` is what the compiler made of the program; its main is called. *)
CallMain(unit) ==
  /\ result = Idle /\ result' = Running
  /\ code' = unit
  /\ \E called \in RunsOf(Programs[program]) :
       /\ oracle' = called.oracle
       /\ promise' = Meaning(Programs[program], called.inputs, called.buffer, called.oracle)
       /\ memory' = MemoryOf(code'["main"], called)
  /\ block' = code'["main"].order[1] /\ index' = 1
  /\ temps' = TempsOf(code'["main"])
  /\ UNCHANGED <<program, fn, base, frames, args, log>>

Init  == NothingRuns /\ code = << >>
Start == CallMain(Compile(Programs[program]))

-----------------------------------------------------------------------------
Value(n)    == temps[Here.use[n]]
Fetched(op) == result = Running /\ index <= Len(code[fn].blocks[block]) /\ Here.op = op

Advance == index' = index + 1 /\ UNCHANGED <<fn, block>>
DefinesAs(x) == temps' = IF Here.res = NoTemp THEN temps ELSE [temps EXCEPT ![Here.res] = x]

(* const, copy and the conversions. *)
Move ==
  /\ Fetched("const") \/ Fetched("copy") \/ Fetched("widen") \/ Fetched("truncate")
  /\ LET x == IF Here.op = "const" THEN Here.num ELSE Value(1)
     IN DefinesAs(As(IF Here.op = "widen" /\ Here.name = "uint" THEN U(x) ELSE x, Here.wide /\ Here.op # "truncate"))
  /\ Advance /\ UNCHANGED <<run, memory, args, log, result>>

Traps == Here.op = "binop" /\ Here.name \in {"div", "mod", "udiv", "umod"} /\ Value(2) = 0

(* binop, cmp and unop. *)
Compute ==
  /\ Fetched("binop") \/ Fetched("cmp") \/ Fetched("unop")
  /\ ~Traps
  /\ DefinesAs(IF Here.op = "unop" THEN ApplyUnary(Here, Value(1)) ELSE Apply(Here.name, Value(1), Value(2), Here.wide))
  /\ Advance /\ UNCHANGED <<run, memory, args, log, result>>

(* A division by zero stops the program. *)
DivideByZero ==
  /\ Fetched("binop") /\ Traps
  /\ log' = Append(log, <<"trap", << >>>>)
  /\ result' = 0
  /\ UNCHANGED <<run, control, temps, memory, args>>

(* Globals are the buffer. *)
TakeAddress ==
  /\ Fetched("frameaddr") \/ Fetched("globaladdr")
  /\ DefinesAs(IF Here.op = "globaladdr" THEN 4 ELSE As(AddressOfSlot(base, Here.num), FALSE))
  /\ Advance /\ UNCHANGED <<run, memory, args, log, result>>

LogAccess(kind, x) == IF Here.name = "volatile" THEN Append(log, <<kind, <<x>>>>) ELSE log

LoadWord ==
  /\ Fetched("load")
  /\ LET x == ReadMem(memory, Value(1), TypeMoved(Here))
     IN DefinesAs(x) /\ log' = LogAccess("read", x)
  /\ Advance /\ UNCHANGED <<run, memory, args, result>>

StoreWord ==
  /\ Fetched("store")
  /\ memory' = WriteMem(memory, Value(1), TypeMoved(Here), Value(2))
  /\ log' = LogAccess("write", Value(2))
  /\ Advance /\ UNCHANGED <<run, temps, args, result>>

PassArgument ==
  /\ Fetched("param")
  /\ args' = Append(args, Value(1))
  /\ Advance /\ UNCHANGED <<run, temps, memory, log, result>>

Taken     == SubSeq(args, Len(args) - Here.num + 1, Len(args))
Remaining == SubSeq(args, 1, Len(args) - Here.num)

(* The routines the back end emits when a loop became a call of one.  A     *)
(* count is signed, and nothing happens when it is not positive; bytes are  *)
(* taken forward, the lowest first.                                         *)
CarriedRoutines == {"__cc_memset", "__cc_memcpy", "__cc_strlen", "__cc_memchr_index"}
BytesSet(mem, to, c, n) ==
  LET f[k \in 0..n] == IF k = 0 THEN mem ELSE WriteMem(f[k - 1], to + k - 1, "uchar", c) IN f[n]
BytesCopied(mem, to, from, n) ==
  LET f[k \in 0..n] == IF k = 0 THEN mem
                       ELSE WriteMem(f[k - 1], to + k - 1, "uchar", ReadMem(f[k - 1], from + k - 1, "uchar"))
  IN  f[n]
RECURSIVE Scanned(_, _, _, _)
Scanned(mem, x, c, n) ==
  IF n = 0 \/ ReadMem(mem, x, "uchar") = c % Byte THEN x ELSE Scanned(mem, x + 1, c, n - 1)

RunCarriedRoutine ==
  /\ Fetched("call") /\ Here.name \in CarriedRoutines
  /\ LET x == Taken[1]
         n == IF Here.num = 3 /\ Taken[3] > 0 THEN Taken[3] ELSE 0
     IN CASE Here.name = "__cc_memset" -> memory' = BytesSet(memory, x, Taken[2], n) /\ UNCHANGED temps
          [] Here.name = "__cc_memcpy" -> memory' = BytesCopied(memory, x, Taken[2], n) /\ UNCHANGED temps
          [] Here.name = "__cc_strlen" -> DefinesAs(As(Scanned(memory, x, 0, WordBase - 1) - x, FALSE)) /\ UNCHANGED memory
          [] Here.name = "__cc_memchr_index" -> DefinesAs(As(Scanned(memory, x, Taken[2], n) - x, FALSE)) /\ UNCHANGED memory
  /\ args' = Remaining
  /\ Advance /\ UNCHANGED <<run, log, result>>

(* The call takes the Params before it; what one of another unit returns,   *)
(* and "poke" leaves where it is told to, is the oracle's.                  *)
CallOut ==
  /\ Fetched("call") /\ Here.name \notin DOMAIN code \cup CarriedRoutines
  /\ LET answer == IF Len(log) < Len(oracle) THEN oracle[Len(log) + 1] ELSE 0
     IN /\ memory' = IF Here.name = "poke" THEN WriteMem(memory, Taken[1], "int", answer) ELSE memory
        /\ DefinesAs(answer)
  /\ log' = Append(log, <<Here.name, IF Here.name = "poke" THEN << >> ELSE Taken>>)
  /\ args' = Remaining
  /\ Advance /\ UNCHANGED <<run, result>>

(* One of this unit runs in a frame of its own. *)
CallIn ==
  /\ Fetched("call") /\ Here.name \in DOMAIN code
  /\ LET callee == code[Here.name]
         at     == Cardinality(DOMAIN memory)
     IN /\ frames' = Append(frames, [fn |-> fn, block |-> block, index |-> index + 1, base |-> base,
                                     temps |-> temps, res |-> Here.res])
        /\ fn' = Here.name
        /\ block' = callee.order[1]
        /\ index' = 1
        /\ temps' = TempsOf(callee)
        /\ base' = at
        /\ memory' = WithParams(Framed(memory, at, callee.locals), at, callee.locals, Taken)
  /\ args' = Remaining
  /\ UNCHANGED <<program, code, promise, oracle, log, result>>

Branch ==
  /\ Fetched("jump") \/ Fetched("condjump") \/ Fetched("tablejump")
  /\ block' =
       CASE Here.op = "jump"     -> Here.to[1]
         [] Here.op = "condjump" -> IF Apply(Here.name, Value(1), Value(2), FALSE) = 1 THEN Here.to[1] ELSE Here.to[2]
         [] OTHER -> LET entries == Len(Here.to) - 1
                         n == Value(1) - Here.num + 1
                     IN Here.to[IF n \in 1..entries THEN n ELSE entries + 1]
  /\ index' = 1
  /\ UNCHANGED <<run, fn, temps, memory, args, log, result>>

Returned == IF Here.use = << >> THEN 0 ELSE Value(1)

LeaveProgram ==
  /\ Fetched("return") /\ frames = << >>
  /\ result' = Returned
  /\ UNCHANGED <<run, control, temps, memory, args, log>>

(* Back in the caller, with the result; the frame is gone. *)
ReturnToCaller ==
  /\ Fetched("return") /\ frames # << >>
  /\ LET caller == frames[Len(frames)]
     IN /\ fn' = caller.fn /\ block' = caller.block /\ index' = caller.index
        /\ base' = caller.base
        /\ temps' = [caller.temps EXCEPT ![caller.res] = Returned]
  /\ frames' = SubSeq(frames, 1, Len(frames) - 1)
  /\ memory' = [n \in 0..(base - 1) |-> memory[n]]
  /\ UNCHANGED <<program, code, promise, oracle, args, log, result>>

Step ==
  \/ Move \/ Compute \/ DivideByZero \/ TakeAddress \/ LoadWord \/ StoreWord
  \/ PassArgument \/ CallOut \/ CallIn \/ Branch \/ LeaveProgram \/ ReturnToCaller

Next == Start \/ Step

(* One thread runs the code: main once called, it is always given its next *)
(* step.                                                                   *)
Spec == Init /\ [][Next]_vars /\ WF_vars(Step)

-----------------------------------------------------------------------------
(* The program returns what C says it returns, has made the calls and the   *)
(* volatile accesses C says, in order, and leaves in the buffer what C      *)
(* leaves there: through loops left in the middle,                          *)
(* switches falling from case to case, gotos into blocks, names that hide  *)
(* others and slots that several of them share.                            *)
ReturnsItsMeaning ==
  Finished => [val |-> result, log |-> log, buffer |-> [n \in BufferWords |-> memory[n]]] = promise

(* At every moment the calls made are a prefix of those C asks for: nothing *)
(* is called too early, twice or by code control should have passed over.   *)
CallsInOrder ==
  result # Idle =>
  /\ Len(log) <= Len(promise.log)
  /\ log = SubSeq(promise.log, 1, Len(log))

(* No instruction reads a temporary that nothing has defined on the way to *)
(* it: the two definitions of a merged value cover every path.             *)
NothingReadUndefined ==
  result = Running => \A n \in DOMAIN Here.use : temps[Here.use[n]] # Undefined

(* A call finds its own Params and nothing else: as many as it has          *)
(* arguments, made in this block one right after the other and right before *)
(* it, with none of an outer call in flight, and none is left when control  *)
(* leaves a block.  The code generator pairs them by position: it reads the *)
(* instructions just before a call, refuses what is not a Param there, and  *)
(* cannot follow one across a branch (codegen.cpp:1316-1333).               *)
ParamsMeetTheirCall ==
  result = Running =>
  /\ Here.op \in Terminators => args = << >>
  /\ Here.op = "call" =>
       /\ Len(args) = Here.num
       /\ Here.num < index
       /\ \A k \in 1..Here.num : code[fn].blocks[block][index - k].op = "param"

(* Every access to a volatile object reaches a slot marked volatile: the   *)
(* mark is what makes the back end give it memory and no register           *)
(* (docs/06-Known-Limitations.md:178).                                      *)
SlotAt(x) == CHOOSE l \in DOMAIN code[fn].locals : AddressOfSlot(base, l) = U(x)
VolatileKeepsMemory ==
  result = Running /\ Here.name = "volatile" => code[fn].locals[SlotAt(Value(1))].volatile

(* Control always reaches a return, as every program here ends. *)
Returns == result = Running ~> Finished
=============================================================================
