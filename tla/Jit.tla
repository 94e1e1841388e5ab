---------------------------------- MODULE Jit ----------------------------------
(***************************************************************************)
(* neuro::jit: the x86_64 encoder (src/src/jit/x86_64.cpp) and the engine  *)
(* that lowers a module and runs its first function (src/src/jit/          *)
(* engine.cpp, src/include/neuro/jit/engine.hpp).  Code is a sequence of   *)
(* machine instructions, the bytes of each left out but for immediates     *)
(* of one byte; the processor is external.  The module is written one      *)
(* instruction at a time, of constants and operations that find on the     *)
(* stack what they pop.                                                    *)
(***************************************************************************)
EXTENDS Integers, Sequences, SequencesExt

CONSTANTS
  Numbers,       \* constants of the module
  Addresses,     \* those that are addresses of memory one may use
  MaxCode        \* bound: instructions of the module

VARIABLE functions     \* Module::functions, the last of them being written

vars == <<functions>>

-----------------------------------------------------------------------------
(* emit_*: what each operation becomes.  A Call has no encoding.           *)

Instr(op, x) == [op |-> op, x |-> x]

EmitConst(v) ==
  IF v \in -128..127 THEN <<Instr("push8", v % 256)>>
  ELSE <<Instr("mov", v), Instr("push", "rax")>>

PopBoth == <<Instr("pop", "rax"), Instr("pop", "rbx")>>

EmitInstr(i) ==
  CASE i.op = "Const" -> EmitConst(i.x)
    [] i.op \in {"Add", "Sub", "Mul"} -> PopBoth \o <<Instr(i.op, "rax"), Instr("push", "rax")>>
    [] i.op = "Load" -> <<Instr("pop", "rax"), Instr("load", "rax"), Instr("push", "rax")>>
    [] i.op = "Store" -> PopBoth \o <<Instr("store", "rax")>>
    [] i.op = "Ret" -> <<Instr("pop", "rax"), Instr("ret", "rax")>>

Lowers(f) == \A k \in DOMAIN f : f[k].op # "Call"

\* With the defensive ret at the end.
EmitFunction(f) ==
  LET code[n \in 0..Len(f)] == IF n = 0 THEN << >> ELSE code[n - 1] \o EmitInstr(f[n])
  IN  code[Len(f)] \o <<Instr("ret", "rax")>>

\* Of a module that does not lower, the functions before the one that fails stay.
EmitModule(m) ==
  LET code[n \in 0..Len(m)] ==
        IF n = 0 THEN << >>
        ELSE IF \A k \in 1..n : Lowers(m[k]) THEN code[n - 1] \o EmitFunction(m[n])
        ELSE code[n - 1]
  IN  code[Len(m)]

\* The textual listing is there in any case, and is left out.
Codegen(m, t) == [target |-> t, code |-> IF t = "X86_64" THEN EmitModule(m) ELSE << >>]

-----------------------------------------------------------------------------
(* The processor.  A pop that finds nothing, a ret that finds a value (it  *)
(* jumps there) and a memory access elsewhere than at Addresses go wrong.  *)
(* rbx is the caller's, who may count on finding it as it was, but the code*)
(* neither saves it nor gives it back.                                     *)

Memory == [a \in Addresses |-> 0]

Boot == [rax |-> 0, rbx |-> 0, stack |-> << >>, mem |-> Memory, end |-> "no"]

Signed(b) == IF b < 128 THEN b ELSE b - 256

Wrong(cpu) == [cpu EXCEPT !.end = "wrong"]

Processor(cpu, i) ==
  IF cpu.end # "no" THEN cpu
  ELSE CASE i.op = "push8" -> [cpu EXCEPT !.stack = <<Signed(i.x)>> \o @]
         [] i.op = "mov" -> [cpu EXCEPT !.rax = i.x]
         [] i.op = "push" -> [cpu EXCEPT !.stack = <<cpu.rax>> \o @]
         [] i.op = "pop" -> IF cpu.stack = << >> THEN Wrong(cpu)
                            ELSE [cpu EXCEPT ![i.x] = Head(cpu.stack), !.stack = Tail(@)]
         [] i.op = "Add" -> [cpu EXCEPT !.rax = @ + cpu.rbx]
         [] i.op = "Sub" -> [cpu EXCEPT !.rax = @ - cpu.rbx]
         [] i.op = "Mul" -> [cpu EXCEPT !.rax = @ * cpu.rbx]
         [] i.op = "load" -> IF cpu.rax \notin Addresses THEN Wrong(cpu)
                             ELSE [cpu EXCEPT !.rax = cpu.mem[@]]
         [] i.op = "store" -> IF cpu.rax \notin Addresses THEN Wrong(cpu)
                              ELSE [cpu EXCEPT !.mem[cpu.rax] = cpu.rbx]
         [] i.op = "ret" -> [cpu EXCEPT !.end = IF cpu.stack = << >> THEN "returned" ELSE "wrong"]

Run(start, code) ==
  LET cpu[n \in 0..Len(code)] == IF n = 0 THEN start ELSE Processor(cpu[n - 1], code[n])
  IN  cpu[Len(code)]

\* How it ends, what it returns and what the caller finds in rbx.  Nothing to run gives
\* the empty Value, which is zero.
Execute(result) ==
  LET cpu == IF result.target # "X86_64" \/ result.code = << >>
             THEN [Boot EXCEPT !.end = "returned"]
             ELSE Run(Boot, result.code)
  IN  [end |-> cpu.end, rax |-> cpu.rax, rbx |-> cpu.rbx]

-----------------------------------------------------------------------------
(* What the comments of OpKind say each operation does, on a stack whose   *)
(* top is its head, of a function up to its first Ret.                     *)

Start == [stack |-> << >>, mem |-> Memory, end |-> "no"]

Does(s, i) ==
  LET a == Head(s.stack)
      b == s.stack[2]
      down(n) == SubSeq(s.stack, n + 1, Len(s.stack))
      use(addressed) == IF a \in Addresses THEN addressed ELSE [s EXCEPT !.end = "wrong"]
  IN IF s.end # "no" THEN s
     ELSE CASE i.op = "Const" -> [s EXCEPT !.stack = <<i.x>> \o @]
            [] i.op = "Add" -> [s EXCEPT !.stack = <<a + b>> \o down(2)]
            [] i.op = "Sub" -> [s EXCEPT !.stack = <<a - b>> \o down(2)]
            [] i.op = "Mul" -> [s EXCEPT !.stack = <<a * b>> \o down(2)]
            [] i.op = "Load" -> use([s EXCEPT !.stack = <<s.mem[a]>> \o down(1)])
            [] i.op = "Store" -> use([s EXCEPT !.stack = down(2), !.mem[a] = b])
            [] i.op = "Ret" -> [s EXCEPT !.end = IF s.stack = << >> THEN "wrong" ELSE "returned"]
            [] OTHER -> s

Meaning(f) ==
  LET after[n \in 0..Len(f)] == IF n = 0 THEN Start ELSE Does(after[n - 1], f[n])
  IN  after[Len(f)]

-----------------------------------------------------------------------------
(* Writing the module.                                                     *)

Leaves(op) ==
  CASE op = "Const" -> 1 [] op \in {"Add", "Sub", "Mul", "Ret"} -> -1 [] op = "Store" -> -2
    [] OTHER -> 0

StackDepth(f) ==
  LET depth[n \in 0..Len(f)] == IF n = 0 THEN 0 ELSE depth[n - 1] + Leaves(f[n].op)
  IN  depth[Len(f)]

Pops == [op \in {"Add", "Sub", "Mul", "Load", "Store", "Ret", "Call"} |->
           CASE op \in {"Load", "Ret"} -> 1 [] op = "Call" -> 0 [] OTHER -> 2]

Size == FoldLeft(LAMBDA n, f : n + Len(f), 0, functions)

Init == functions = << << >> >>

Write(i) ==
  /\ Size < MaxCode
  /\ functions' = [functions EXCEPT ![Len(functions)] = Append(@, i)]

WriteConst(v) == Write(Instr("Const", v))

WriteOp(op) ==
  /\ StackDepth(Last(functions)) >= Pops[op]
  /\ Write(Instr(op, 0))

NewFunction ==
  /\ Last(functions) # << >>
  /\ Size < MaxCode
  /\ functions' = Append(functions, << >>)

Next ==
  \/ NewFunction
  \/ \E v \in Numbers : WriteConst(v)
  \/ \E op \in DOMAIN Pops : WriteOp(op)

Spec == Init /\ [][Next]_vars

-----------------------------------------------------------------------------
\* What execute returns is what the first function means, if that one returns a value with
\* nothing below it on the stack, whatever else the module has, a function after it that
\* does not lower included; if the first does not lower nothing is run, and so for another
\* target.
MachineAgrees ==
  LET f == functions[1]
      means == Meaning(f)
      run == Execute(Codegen(functions, "X86_64"))
  IN  /\ Lowers(f) /\ means.end = "returned" /\ Len(means.stack) = 1 =>
           run.end = "returned" /\ run.rax = Head(means.stack)
      /\ ~Lowers(f) => run.rax = 0
      /\ Execute(Codegen(functions, "Host")).rax = 0
=============================================================================
