------------------------------- MODULE MCCpu -------------------------------
(* Small programs for Cpu.tla.  Cells 0 to 3 hold code, 4 and 5 data, 6 and  *)
(* 7 the stack; every word a program's memory can hold means something.      *)
EXTENDS Cpu

Reg(n) == [k |-> "reg", n |-> n]
Imm(n) == [k |-> "imm", n |-> n]
At(n) == [k |-> "mem", n |-> n]
Ind(n) == [k |-> "ind", n |-> n]
Vec == [k |-> "vec", n |-> XMM]
None == [k |-> "none", n |-> 0]
I(op, d, s) == [op |-> op, d |-> d, s |-> s, c |-> "e"]
J(c, to) == [op |-> "jcc", d |-> None, s |-> Imm(to), c |-> c]
C(op, c, d, s) == [op |-> op, d |-> d, s |-> s, c |-> c]
Nop == I("nop", None, None)
Bad == I("bad", None, None)
Sys == I("syscall", None, None)
Go(to) == I("jmp", None, Imm(to))

All == {"r", "w", "x"}
\* Words 0 to 7 of the program are its memory's first eight cells, unless said.
Straight == [a \in Word |-> a]
Prog(isa, regs) ==
    [isa |-> isa, mem |-> Straight, regs |-> regs, cap |-> 3, rights |-> {}, places |-> {},
     prot |-> [p \in Pages |-> IF p = 3 THEN {"r", "w"} ELSE All]]
Isa8(a, b, c, d, e, f, g, h) ==
    [n \in Word |-> <<a, b, c, d, e, f, g, h>>[n + 1]]
Rs(a, c, d, s, x) == [r \in Regs |-> <<a, c, d, s, x>>[r + 1]]

With(p, mem, cap) == [p EXCEPT !.mem = [a \in Word |-> mem[a + 1]], !.cap = cap]
Guarded(p, rights, places) == [p EXCEPT !.rights = rights, !.places = places]
Capped(p, cap) == [p EXCEPT !.cap = cap]

\* A loop whose counter keeps the carry the sum left, and what reads it after.
Counted == Capped(Prog(Isa8(I("add", Reg(AX), Imm(3)), I("dec", Reg(CX), None), J("ne", 0),
                            I("adc", Reg(AX), Reg(CX)), C("setcc", "b", Reg(DX), None), Sys, Nop, Nop),
                       Rs(0, 3, 0, 0, 0)), 6)

\* A fused pair whose flags are read at the top of the loop it closes.
Looped == Capped(Prog(Isa8(C("setcc", "b", Reg(DX), None), I("add", Reg(AX), Imm(3)), J("ne", 0),
                           I("add", Reg(CX), Imm(1)), Sys, Nop, Nop, Nop),
                      Rs(6, 0, 0, 0, 0)), 5)

\* Flags nobody reads, and the exact stops between them.
Unread == Capped(Prog(Isa8(I("cmp", Reg(AX), Imm(5)), I("mul", Reg(AX), Reg(CX)),
                           I("shl", Reg(CX), Imm(1)), I("sub", Reg(AX), Reg(DX)), J("a", 0), Sys, Nop, Nop),
                      Rs(3, 2, 1, 0, 0)), 6)

\* A shift, a product and a negation whose flags are read.
Deferred == Capped(Prog(Isa8(I("shl", Reg(AX), Imm(1)), C("cmov", "b", Reg(DX), Reg(CX)),
                             I("mul", Reg(CX), Reg(CX)), I("sbb", Reg(AX), Imm(0)),
                             I("not", Reg(DX), None), I("neg", Reg(AX), None), J("b", 0), Sys),
                        Rs(5, 3, 0, 0, 0)), 4)

\* Loads, stores and operations on memory, with rights that come and go.
Modifies == Guarded(With(Prog(Isa8(I("mov", Reg(AX), At(4)), I("add", At(5), Reg(AX)),
                                  I("cmp", Reg(AX), At(5)), J("ne", 0),
                                  I("mov", At(4), Imm(1)), Sys, Nop, Nop),
                             Rs(0, 0, 0, 0, 0)), <<0, 1, 4, 2, 3, 5, 0, 0>>, 4),
                   {<<2, {"r"}>>, <<2, {}>>, <<2, {"r", "w"}>>}, {<<4, 2>>})

\* A call, its return, and a target read from memory.
Called == Guarded(With(Prog(Isa8(I("call", None, At(5)), I("push", None, Reg(AX)),
                                 I("pop", Reg(CX), None), I("ret", None, None), Sys,
                                 I("pop", At(5), None), Nop, Nop),
                            Rs(3, 0, 0, 0, 0)), <<0, 4, 1, 2, 3, 2, 0, 0>>, 4),
                  {<<3, {"r"}>>, <<3, {"r", "w"}>>}, {<<5, 1>>})

\* What no block was decoded for: bytes that are none, and a page that stops
\* being executable.
Refusing == Guarded(Capped(Prog(Isa8(Nop, Go(3), Bad, I("inc", Reg(AX), None), J("b", 1), Go(2), Nop, Nop),
                                Rs(7, 0, 0, 0, 0)), 2),
                    {<<1, {"r", "w"}>>, <<1, All>>, <<0, {"r"}>>}, {<<2, 0>>, <<2, 1>>})

\* Divisions that trap, and ones that do not.
Divides == Guarded(Capped(Prog(Isa8(I("div", None, Reg(CX)), I("div", None, At(4)), I("int3", None, None),
                                    I("ud2", None, None), Nop, Nop, Nop, Nop),
                               Rs(5, 2, 1, 0, 0)), 3), {}, {<<4, 0>>, <<4, 3>>})

\* An instruction only the interpreter runs, at the top of a loop.
Handed == Capped(Prog(Isa8(I("add", [k |-> "high", n |-> CX], Imm(1)), J("ne", 0), Go(0), Nop, Nop, Nop, Nop, Nop),
                      Rs(0, 5, 0, 0, 0)), 3)

\* A store over the code that follows, in the same block and in the next.
Patched == With(Prog(Isa8(I("mov", At(3), Imm(4)), I("mov", Reg(AX), Imm(1)), Nop,
                          I("inc", Reg(AX), None), Go(0), I("dec", Reg(CX), None), J("ne", 0), Nop),
                     Rs(0, 3, 0, 0, 0)), <<5, 0, 2, 3, 4, 0, 0, 0>>, 4)

\* The same through another block's page, back and forth.
Crossed == With(Prog(Isa8(I("mov", Ind(CX), Reg(DX)), Nop, Go(2), Go(0), I("mov", Reg(DX), Imm(5)),
                          I("mov", Reg(DX), Imm(4)), Nop, Nop),
                     Rs(0, 2, 5, 0, 0)), <<0, 1, 4, 3, 3, 0, 0, 0>>, 2)

\* A repeated store that runs over its own bytes.
StoresOver == With(Prog(Isa8(I("stos", None, None), I("mov", Reg(CX), Imm(4)), I("mov", Reg(DX), Imm(0)), Sys,
                           Nop, Nop, Nop, Nop),
                      Rs(3, 0, 0, 0, 0)), <<1, 2, 0, 4, 4, 4, 4, 4>>, 4)

\* Traces that lead from one to the next, in a cache too small for them.
Chained == Guarded(Capped(Prog(Isa8(Go(2), Go(4), I("jmp", None, Reg(CX)), Go(0), Go(1), J("e", 3), Nop, Nop),
                               Rs(0, 5, 0, 0, 0)), 2), {<<1, All>>}, {<<4, 3>>})

\* A vector loaded and kept.
Vectored == With(Prog(Isa8(I("vmov", Vec, At(4)), I("vmov", At(5), Vec), I("inc", At(4), None), Go(0),
                           Nop, Nop, Nop, Nop),
                      Rs(0, 0, 0, 0, 0)), <<0, 1, 2, 3, 1, 0, 0, 0>>, 4)

---------------------------------------------------------------------------
(* Programs on which the engine and the machine part: what the run of the   *)
(* others leaves out.                                                       *)

\* The carry of a comparison, read where a branch out of the block goes.
CarriedOut == Capped(Prog(Isa8(I("cmp", Reg(AX), Imm(5)), I("dec", Reg(CX), None), J("ne", 4),
                               I("add", Reg(AX), Imm(1)), C("setcc", "b", Reg(DX), None), Sys, Nop, Nop),
                          Rs(1, 3, 0, 0, 0)), 4)

\* A vector stored over the code that follows it.
VectorOver == With(Prog(Isa8(I("vmov", At(2), Vec), Nop, I("inc", Reg(AX), None), Go(0), I("dec", Reg(AX), None),
                             Nop, Nop, Nop), Rs(0, 0, 0, 0, 4)), <<0, 1, 2, 3, 0, 0, 0, 0>>, 4)

\* A store over the next block, as the last instruction of its own.
StoredLast == With(Prog(Isa8(I("mov", At(2), Reg(CX)), I("inc", Reg(AX), None), I("dec", Reg(CX), None), Go(0), Nop,
                             Nop, Nop, Nop), Rs(0, 3, 0, 0, 0)), <<2, 0, 1, 3, 0, 0, 0, 0>>, 2)

\* A pop into memory that may not be written, tried again when it may.
PoppedTwice == Guarded(With(Prog(Isa8(I("pop", At(4), None), Sys, Nop, Nop, Nop, Nop, Nop, Nop),
                                 Rs(0, 0, 0, 6, 0)), <<0, 1, 2, 3, 0, 0, 5, 6>>, 3),
                       {<<2, {"r"}>>, <<2, {"r", "w"}>>}, {})

MCPrograms == <<Counted, Looped, Unread, Deferred, Modifies, Called, Refusing, Divides, Handed,
                Patched, Crossed, StoresOver, Chained, Vectored>>
MCCarriedOut == <<CarriedOut>>
MCVectorOver == <<VectorOver>>
MCStoredLast == <<StoredLast>>
MCPoppedTwice == <<PoppedTwice>>
=============================================================================
