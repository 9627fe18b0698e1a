------------------------------ MODULE Blocks ------------------------------
(***************************************************************************)
(* From the bytes to something that runs: the decoding of one block        *)
(* (block.rs), the lowering of its instructions (quick.rs), and the trace  *)
(* transpiled from them (bytecode/transpile.rs).                           *)
(*                                                                         *)
(* A trace is a sequence of ops.  An op stands for its words: the constant *)
(* loads that only fill a scratch register are folded into the op that     *)
(* reads it, and one scratch register is enough.                           *)
(***************************************************************************)
EXTENDS X86, FiniteSets, SequencesExt

---------------------------------------------------------------------------
(* Decoding.                                                               *)

\* What ends a block.  A conditional branch does not.
Terminates(i) == i.op \in {"jmp", "call", "ret", "syscall", "int3", "ud2"}

\* The block entered at a: up to a terminator, cap instructions, or the end of
\* the executable bytes.  A byte that is no instruction refuses the block.
Decode(mem, prot, isa, a, cap) ==
    LET Runs(n) == \A p \in Page(a)..Page(n) : "x" \in prot[p]
        ends == {n \in a..(W - 1) :
                    \/ Terminates(isa[mem[n]])
                    \/ n + 1 - a = cap
                    \/ n + 1 = W \/ ~Runs(n + 1)}
        end == CHOOSE n \in ends : \A o \in ends : n <= o
        bad == {n \in a..end : isa[mem[n]].op = "bad"}
    IN  CASE "x" \notin prot[Page(a)] -> [ok |-> FALSE, why |-> Fault(a, "x")]
          [] "x" \in prot[Page(a)] /\ bad # {} ->
                [ok |-> FALSE, why |-> Trap("undefined", CHOOSE n \in bad : \A o \in bad : n <= o)]
          [] OTHER -> [ok |-> TRUE, code |-> [n \in 1..(end - a + 1) |-> isa[mem[a + n - 1]]]]

---------------------------------------------------------------------------
(* Lowering: what the fast path takes, and which flags nobody reads.       *)

WritesFlags(i) == i.op \in Arithmetic
IsGeneral(i) ==
    i.op \notin Arithmetic \cup {"mov", "push", "pop", "nop", "jcc", "jmp", "call", "ret", "vmov"}

\* Whether the run loop has to look where rip went.
ChecksRip(i) == Terminates(i) \/ i.op \in {"jcc", "stos"}

EndsVolatile(code) == code[Len(code)].op \in {"call", "ret"}

\* Whether anything reads the flags before they are written again, on the way
\* into each instruction of a block and out of its end.
FlagsLive(code) ==
    LET live[n \in 1..(Len(code) + 1)] ==
            CASE n > Len(code) -> ~EndsVolatile(code)
              [] n <= Len(code) /\ WritesFlags(code[n]) -> FALSE
              [] n <= Len(code) /\ (code[n].op = "jcc" \/ IsGeneral(code[n])) -> TRUE
              [] OTHER -> live[n + 1]
    IN  live

FlagsDead(code, n) == WritesFlags(code[n]) /\ ~FlagsLive(code)[n + 1]

---------------------------------------------------------------------------
(* The transpiler's own liveness, which keeps the carry apart.             *)

FullWrite == Arithmetic \cup {"neg", "mul"}
Untouching == {"mov", "push", "pop", "nop", "jmp", "call", "ret", "vmov", "not", "div", "shl"}

LiveEntering(code) ==
    LET live[n \in 1..(Len(code) + 1)] ==
            LET i == code[n]
                after == live[n + 1]
            IN  CASE n > Len(code) -> [carry |-> ~EndsVolatile(code), other |-> ~EndsVolatile(code)]
                  [] n <= Len(code) /\ i.op \in FullWrite -> [carry |-> FALSE, other |-> FALSE]
                  [] n <= Len(code) /\ i.op \in {"inc", "dec"} -> [after EXCEPT !.other = FALSE]
                  [] n <= Len(code) /\ i.op = "jcc" ->
                        [carry |-> after.carry \/ ReadsCarry(i.c),
                         other |-> after.other \/ ReadsZero(i.c)]
                  [] n <= Len(code) /\ i.op \in Untouching -> after
                  [] OTHER -> [carry |-> TRUE, other |-> TRUE]
    IN  live

Some(live) == live.carry \/ live.other

\* The flags instruction n writes are read by nothing.
Dead(code, n) ==
    LET after == LiveEntering(code)[n + 1]
    IN  CASE code[n].op \in FullWrite \cup {"shl"} -> ~Some(after)
          [] code[n].op \in {"inc", "dec"} -> ~after.other
          [] OTHER -> FALSE

---------------------------------------------------------------------------
(* Transpiling.                                                            *)

Scratch == [k |-> "reg", n |-> 5]
Nothing == [k |-> "none", n |-> 0]
Constant(v) == [k |-> "imm", n |-> v]
Plain(o) == o.k = "reg"
PlainOrConstant(o) == o.k \in {"reg", "imm"}

Op(o, i, retires) ==
    [o |-> o, p |-> i.op, d |-> i.d, s |-> i.s, c |-> i.c, dead |-> FALSE,
     live |-> TRUE, retires |-> retires, to |-> 0, ip |-> 0]
Load(i, into, from, retires) == [Op("load", i, retires) EXCEPT !.d = into, !.s = from]
Keep(i, into, from, retires) == [Op("store", i, retires) EXCEPT !.d = into, !.s = from]
Move(i, into, from, retires) == [Op("move", i, retires) EXCEPT !.d = into, !.s = from]
Leave(i, to, retires) == [Op("exit", i, retires) EXCEPT !.s = to]

Defer(i) == <<Op("defer", i, 0)>>

\* mov and the vector moves; the interpreter's order of access is kept.
EmitMove(i) ==
    CASE i.d.k \in {"reg", "vec"} /\ InMemory(i.s) -> <<Load(i, i.d, i.s, 1)>>
      [] InMemory(i.d) /\ PlainOrConstant(i.s) -> <<Keep(i, i.d, i.s, 1)>>
      [] InMemory(i.d) /\ i.s.k = "vec" -> <<[Keep(i, i.d, i.s, 1) EXCEPT !.o = "vstore"]>>
      [] i.d.k \in {"reg", "vec"} /\ i.s.k \in {"reg", "vec", "imm"} -> <<Move(i, i.d, i.s, 1)>>
      [] OTHER -> Defer(i)

EmitArithmetic(i, dead) ==
    LET op == [Op("compute", i, 1) EXCEPT !.dead = dead]
    IN  CASE Plain(i.d) /\ PlainOrConstant(i.s) -> <<op>>
          [] Plain(i.d) /\ InMemory(i.s) ->
                <<Load(i, Scratch, i.s, 0), [op EXCEPT !.s = Scratch]>>
          [] InMemory(i.d) /\ PlainOrConstant(i.s) /\ i.op \notin Discards ->
                <<[op EXCEPT !.o = "rmw"]>>
          [] InMemory(i.d) /\ PlainOrConstant(i.s) /\ i.op \in Discards ->
                <<Load(i, Scratch, i.d, 0), [op EXCEPT !.d = Scratch]>>
          [] OTHER -> Defer(i)

\* inc, dec, neg and not, of registers only.
EmitUnary(i, dead) ==
    IF Plain(i.d) THEN <<[Op("compute", i, 1) EXCEPT !.dead = dead]>> ELSE Defer(i)

\* A product or a shift whose flags nobody reads: the op records none.
EmitUnrecorded(i, dead) ==
    IF Plain(i.d) /\ PlainOrConstant(i.s) /\ dead
    THEN <<[Op("compute", i, 1) EXCEPT !.dead = TRUE]>> ELSE Defer(i)

EmitConditional(i) ==
    IF Plain(i.d) /\ (i.op = "cmov" => Plain(i.s)) THEN <<Op("compute", i, 1)>> ELSE Defer(i)

EmitCarrying(i) ==
    IF Plain(i.d) /\ PlainOrConstant(i.s) THEN <<Op("compute", i, 1)>> ELSE Defer(i)

EmitDivide(i) == IF Plain(i.s) THEN <<Op("div", i, 1)>> ELSE Defer(i)

EmitPush(i) ==
    CASE InMemory(i.s) -> <<Load(i, Scratch, i.s, 0), [Op("push", i, 1) EXCEPT !.s = Scratch]>>
      [] PlainOrConstant(i.s) -> <<Op("push", i, 1)>>
      [] OTHER -> Defer(i)
EmitPop(i) ==
    CASE InMemory(i.d) -> <<[Op("pop", i, 0) EXCEPT !.d = Scratch], Keep(i, i.d, Scratch, 1)>>
      [] Plain(i.d) -> <<Op("pop", i, 1)>>
      [] OTHER -> Defer(i)

\* The transfers a block can end with.  A constant jump to an instruction of
\* the block itself stays inside the trace.
EmitTransfer(i, next, inside) ==
    LET target == IF InMemory(i.s) THEN <<Load(i, Scratch, i.s, 0)>>
                  ELSE <<Move(i, Scratch, i.s, 0)>>
    IN  CASE i.op = "jmp" /\ i.s.k = "imm" /\ inside # 0 -> <<[Op("br", i, 1) EXCEPT !.to = inside]>>
          [] i.op = "jmp" /\ i.s.k = "imm" /\ inside = 0 -> <<Leave(i, i.s, 1)>>
          [] i.op = "jmp" /\ i.s.k # "imm" -> target \o <<Leave(i, Scratch, 1)>>
          [] i.op = "call" ->
                target \o <<[Op("push", i, 0) EXCEPT !.s = Constant(next)], Leave(i, Scratch, 1)>>
          [] i.op = "ret" ->
                <<[Op("pop", i, 0) EXCEPT !.d = Scratch], Leave(i, Scratch, 1)>>
          [] OTHER -> Defer(i)

Emitted(i, dead, next, inside) ==
    CASE i.op \in {"mov", "vmov"} -> EmitMove(i)
      [] i.op \in Arithmetic -> EmitArithmetic(i, dead)
      [] i.op \in Unary -> EmitUnary(i, dead)
      [] i.op \in {"mul", "shl"} -> EmitUnrecorded(i, dead)
      [] i.op \in {"setcc", "cmov"} -> EmitConditional(i)
      [] i.op \in Carrying -> EmitCarrying(i)
      [] i.op = "push" -> EmitPush(i)
      [] i.op = "pop" -> EmitPop(i)
      [] i.op = "nop" -> <<Move(i, Scratch, Scratch, 1)>>
      [] i.op = "div" -> EmitDivide(i)
      [] i.op = "jcc" -> <<[Op("brif", i, 1) EXCEPT !.to = i.s.n]>>
      [] OTHER -> EmitTransfer(i, next, inside)

\* A producer of flags and the conditional branch after it, in one op, unless
\* something can jump between them.
Fusible(i) ==
    \/ i.op \in Arithmetic /\ Plain(i.d) /\ PlainOrConstant(i.s)
    \/ i.op \in {"inc", "dec"} /\ Plain(i.d)
Targets(code) ==
    {code[n].s.n : n \in {n \in DOMAIN code : code[n].op \in {"jcc", "jmp"} /\ code[n].s.k = "imm"}}
Fused(entry, code, n) ==
    /\ n + 1 \in DOMAIN code
    /\ code[n + 1].op = "jcc"
    /\ entry + n \notin Targets(code)
    /\ Fusible(code[n])

\* Mutant: only the way that falls through is looked at.
LiveAfterFalling(entry, code, n) == Some(LiveEntering(code)[n + 1])
\* The fused producer's flags outlive its branch on one of its two ways out; a
\* way out of the block is taken to read them.
LiveAfter(entry, code, n) ==
    LET target == code[n].s.n - entry + 1
        live == LiveEntering(code)
    IN  Some(live[n + 1]) \/ target \notin DOMAIN code \/ Some(live[target])

EmitFused(entry, code, n) ==
    <<[Op("fused", code[n], 2) EXCEPT !.c = code[n + 1].c, !.to = code[n + 1].s.n,
                                      !.live = LiveAfter(entry, code, n + 1)]>>

\* Instruction n is part of the op before it.
Consumed(entry, code, n) == n > 1 /\ Fused(entry, code, n - 1)
\* The ops of instruction n, whose jump stays inside the trace at `inside`.
Raw(entry, code, n, inside) ==
    CASE Consumed(entry, code, n) -> <<>>
      [] Fused(entry, code, n) -> EmitFused(entry, code, n)
      [] OTHER -> Emitted(code[n], Dead(code, n), Modular(entry + n), inside)

\* Where in the trace each instruction begins.
Starts(entry, code) ==
    LET starts[n \in 1..(Len(code) + 1)] ==
            IF n = 1 THEN 1 ELSE starts[n - 1] + Len(Raw(entry, code, n - 1, 1))
    IN  starts
\* Where inside the trace each address begins, or 0.
Inside(entry, code, starts) ==
    [a \in Word |-> LET n == a - entry + 1
                    IN  IF n \in DOMAIN code /\ ~Consumed(entry, code, n) THEN starts[n] ELSE 0]

Located(ops, ip) == [k \in DOMAIN ops |-> [ops[k] EXCEPT !.ip = ip]]
\* Where the block falls through, unless it never does.
FallsThrough(entry, code) ==
    LET len == Len(code)
        last == IF Consumed(entry, code, len) THEN len - 1 ELSE len
    IN  IF code[len].op \in {"jmp", "call", "ret", "syscall"} THEN <<>>
        ELSE Located(<<Leave(code[len], Constant(Modular(entry + len)), 0)>>, entry + last - 1)
Body(entry, code, inside) ==
    FlattenSeq([n \in DOMAIN code |->
        Located(Raw(entry, code, n, IF code[n].op = "jmp" /\ code[n].s.k = "imm"
                                    THEN inside[code[n].s.n] ELSE 0),
                entry + n - 1)])
    \o FallsThrough(entry, code)

\* The branches out of the trace, in the order their stubs come.
Outward(body, inside) ==
    LET Out(o) == SelectSeq([k \in DOMAIN body |-> k],
                            LAMBDA k : body[k].o = o /\ inside[body[k].to] = 0)
    IN  Out("brif") \o Out("fused")
Resolved(op, k, inside, length, outs) ==
    CASE op.o \notin {"brif", "fused"} -> op
      [] op.o \in {"brif", "fused"} /\ inside[op.to] # 0 -> [op EXCEPT !.to = inside[op.to]]
      [] OTHER -> [op EXCEPT !.to = length + (CHOOSE j \in DOMAIN outs : outs[j] = k)]
Stub(op, i) == [Leave(i, Constant(op.to), 0) EXCEPT !.ip = op.ip]
Linked(code, inside, body, outs) ==
    [k \in DOMAIN body |-> Resolved(body[k], k, inside, Len(body), outs)]
    \o [j \in DOMAIN outs |-> Stub(body[outs[j]], code[1])]

\* The trace of a block.
LinkedTrace(code, inside, body) == Linked(code, inside, body, Outward(body, inside))
Within(entry, code, inside) == LinkedTrace(code, inside, Body(entry, code, inside))
Transpile(entry, code) == Within(entry, code, Inside(entry, code, Starts(entry, code)))
===========================================================================
