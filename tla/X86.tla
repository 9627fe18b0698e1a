------------------------------- MODULE X86 -------------------------------
(***************************************************************************)
(* What one guest instruction does, by itself: the machine the engine of   *)
(* crates/cpu promises to be.  The state is a record [regs, carry, zero,   *)
(* rip, mem, retired]; an instruction either faults, and then changes      *)
(* nothing, or runs to its end.  This is the general path of exec.rs with  *)
(* its flags computed at once and with precise faults; the block cache,    *)
(* the lazy flags and the traces of Cpu.tla are measured against it.       *)
(*                                                                         *)
(* The data is small: a word has three bits and is also an address; an     *)
(* instruction takes one cell, and a page two.  Widths, segments and the   *)
(* four other status flags (which go where zero goes) are left out.        *)
(***************************************************************************)
EXTENDS Integers, Sequences

W == 8
Word == 0..(W - 1)
PageSize == 2
Pages == 0..((W \div PageSize) - 1)
Page(a) == a \div PageSize

AX == 0    \* the accumulator
CX == 1    \* the counter, where syscall leaves the return address
DX == 2    \* the high half, the string destination, and %r11
SP == 3
XMM == 4   \* the vector file, cut to one word
Regs == 0..4

Modular(n) == n % W
Bit(n, i) == (n \div (2 ^ i)) % 2
Both(l, r) == Bit(l, 0) * Bit(r, 0) + 2 * Bit(l, 1) * Bit(r, 1) + 4 * Bit(l, 2) * Bit(r, 2)

\* An operand: a register (its high byte when k is "high", the vector when it
\* is "vec"), a constant, the cell at a constant address, or the cell at the
\* address a register holds.
InMemory(o) == o.k \in {"mem", "ind"}
AddressOf(regs, o) == IF o.k = "ind" THEN regs[o.n] ELSE o.n
ValueOf(regs, mem, o) ==
    CASE o.k = "imm" -> o.n
      [] InMemory(o) -> mem[AddressOf(regs, o)]
      [] o.k = "none" -> 0
      [] OTHER -> regs[o.n]

Holds(cond, carry, zero) ==
    CASE cond = "b" -> carry
      [] cond = "ae" -> ~carry
      [] cond = "e" -> zero
      [] cond = "ne" -> ~zero
      [] cond = "a" -> ~carry /\ ~zero

ReadsCarry(cond) == cond \in {"b", "ae", "a"}
ReadsZero(cond) == cond \in {"e", "ne", "a"}

Arithmetic == {"add", "sub", "cmp", "and", "test"}
Unary == {"inc", "dec", "neg", "not"}
Carrying == {"adc", "sbb"}
Computes == Arithmetic \cup Unary \cup Carrying \cup {"mul", "shl"}
Discards == {"cmp", "test"}

\* The value an arithmetic instruction computes, and the carry it leaves.
Computed(op, l, r, c) ==
    Modular(CASE op \in {"add"} -> l + r
              [] op \in {"sub", "cmp"} -> l - r
              [] op \in {"and", "test"} -> Both(l, r)
              [] op = "inc" -> l + 1
              [] op = "dec" -> l - 1
              [] op = "neg" -> -l
              [] op = "not" -> -1 - l
              [] op = "adc" -> l + r + c
              [] op = "sbb" -> l - r - c
              [] op = "mul" -> l * r
              [] op = "shl" -> l * 2 ^ r)
CarryOf(op, l, r, c) ==
    CASE op = "add" -> l + r >= W
      [] op \in {"sub", "cmp"} -> l < r
      [] op \in {"and", "test"} -> FALSE
      [] op = "neg" -> l # 0
      [] op = "adc" -> l + r + c >= W
      [] op = "sbb" -> l < r + c
      [] op = "mul" -> l * r >= W
      [] op = "shl" -> r <= 3 /\ Bit(l, 3 - r) = 1

KeepsCarry(op, r) == op \in {"inc", "dec", "not"} \/ (op = "shl" /\ r = 0)
KeepsZero(op, r) == op = "not" \/ (op = "shl" /\ r = 0)
Undefines(op) == CASE op \in {"call", "ret"} -> {"carry", "zero"}   \* by the ABI
                   [] op = "mul" -> {"zero"}
                   [] OTHER -> {}

Read(o) == IF InMemory(o) THEN <<<<o, "r">>>> ELSE <<>>
Write(o) == IF InMemory(o) THEN <<<<o, "w">>>> ELSE <<>>
Cell(a) == [k |-> "mem", n |-> a]
Above(sp) == Cell(Modular(sp - 1))

\* What the instruction touches, in the order it does.
Accesses(regs, carry, zero, i) ==
    CASE i.op \in {"mov", "vmov"} -> Read(i.s) \o Write(i.d)
      [] i.op \in Computes ->
            Read(i.d) \o Read(i.s) \o IF i.op \in Discards THEN <<>> ELSE Write(i.d)
      [] i.op = "setcc" -> Write(i.d)
      [] i.op = "cmov" -> IF Holds(i.c, carry, zero) THEN Read(i.s) ELSE <<>>
      [] i.op = "div" -> Read(i.s)
      [] i.op = "push" -> Read(i.s) \o Write(Above(regs[SP]))
      [] i.op = "pop" -> Read(Cell(regs[SP])) \o Write(i.d)
      [] i.op = "jmp" -> Read(i.s)
      [] i.op = "call" -> Read(i.s) \o Write(Above(regs[SP]))
      [] i.op = "ret" -> Read(Cell(regs[SP]))
      [] i.op = "stos" -> IF regs[CX] = 0 THEN <<>> ELSE Write(Cell(regs[DX]))
      [] OTHER -> <<>>

Ok == [k |-> "ok"]
Fault(a, access) == [k |-> "fault", at |-> a, access |-> access]
Trap(k, a) == [k |-> k, at |-> a]

\* The first access the pages refuse, if there is one.
Refused(regs, accesses, allowed(_, _)) ==
    LET bad == {n \in DOMAIN accesses :
                    ~allowed(AddressOf(regs, accesses[n][1]), accesses[n][2])}
        first == CHOOSE n \in bad : \A o \in bad : n <= o
    IN  IF bad = {} THEN Ok
        ELSE Fault(AddressOf(regs, accesses[first][1]), accesses[first][2])

Dividend(regs) == regs[DX] * W + regs[AX]
DivideError(regs, divisor) == divisor = 0 \/ Dividend(regs) \div divisor >= W

\* How an instruction ends, before any of it has happened.
Ending(regs, mem, carry, zero, i, rip, allowed(_, _)) ==
    LET refused == Refused(regs, Accesses(regs, carry, zero, i), allowed)
    IN  CASE i.op = "ud2" -> Trap("undefined", rip)
          [] i.op = "int3" -> Trap("breakpoint", rip)
          [] refused # Ok -> refused
          [] i.op = "div" /\ DivideError(regs, ValueOf(regs, mem, i.s)) -> Trap("divide", rip)
          [] i.op = "syscall" -> [k |-> "syscall"]
          [] OTHER -> Ok

Put(regs, o, v) == IF InMemory(o) \/ o.k = "none" THEN regs ELSE [regs EXCEPT ![o.n] = v]
Store(regs, mem, o, v) == IF InMemory(o) THEN [mem EXCEPT ![AddressOf(regs, o)] = v] ELSE mem
Word01(b) == IF b THEN 1 ELSE 0
FlagsWord(carry, zero) == Word01(carry) + 2 * Word01(zero)

Result(regs, mem, rip) == [regs |-> regs, mem |-> mem, rip |-> rip]
ToOperand(regs, mem, o, v, next) == Result(Put(regs, o, v), Store(regs, mem, o, v), next)

\* div: the quotient and the remainder in their two registers.
Divided(regs, mem, r, next) ==
    Result([regs EXCEPT ![AX] = Dividend(regs) \div r, ![DX] = Dividend(regs) % r], mem, next)

Pushed(regs, mem, v, rip) ==
    LET down == Modular(regs[SP] - 1)
    IN  Result([regs EXCEPT ![SP] = down], [mem EXCEPT ![down] = v], rip)

\* pop moves the stack pointer before it writes its operand.
Popped(regs, mem, o, next) ==
    LET up == [regs EXCEPT ![SP] = Modular(@ + 1)]
    IN  ToOperand(up, mem, o, mem[regs[SP]], next)

\* jcc, jmp, call and ret.
Transferred(regs, mem, i, holds, r, next) ==
    CASE i.op = "jcc" -> Result(regs, mem, IF holds THEN i.s.n ELSE next)
      [] i.op = "jmp" -> Result(regs, mem, r)
      [] i.op = "call" -> Pushed(regs, mem, next, r)
      [] i.op = "ret" -> Result([regs EXCEPT ![SP] = Modular(@ + 1)], mem, mem[regs[SP]])

\* One iteration of a repeated store, which stays where it is until the last.
Repeated(regs, mem, rip, next) ==
    IF regs[CX] = 0 THEN Result(regs, mem, next)
    ELSE Result([regs EXCEPT ![DX] = Modular(@ + 1), ![CX] = @ - 1],
                [mem EXCEPT ![regs[DX]] = regs[AX]],
                IF regs[CX] = 1 THEN next ELSE rip)

\* setcc and cmov.
Chosen(op, holds, l, r) ==
    CASE op = "setcc" -> Word01(holds)
      [] op = "cmov" -> IF holds THEN r ELSE l

\* The registers, the memory and the next rip once instruction i has run to
\* its end with the flags as given.
After(regs, mem, carry, zero, i, rip) ==
    LET next == Modular(rip + 1)
        l == ValueOf(regs, mem, i.d)
        r == ValueOf(regs, mem, i.s)
        holds == Holds(i.c, carry, zero)
        To(v) == ToOperand(regs, mem, i.d, v, next)
    IN  CASE i.op \in {"mov", "vmov"} -> To(r)
          [] i.op \in Computes \ Discards -> To(Computed(i.op, l, r, Word01(carry)))
          [] i.op \in {"setcc", "cmov"} -> To(Chosen(i.op, holds, l, r))
          [] i.op = "div" -> Divided(regs, mem, r, next)
          [] i.op = "push" -> Pushed(regs, mem, r, next)
          [] i.op = "pop" -> Popped(regs, mem, i.d, next)
          [] i.op \in {"jcc", "jmp", "call", "ret"} -> Transferred(regs, mem, i, holds, r, next)
          [] i.op = "stos" -> Repeated(regs, mem, rip, next)
          [] i.op = "syscall" ->
                Result([regs EXCEPT ![CX] = next, ![DX] = FlagsWord(carry, zero)], mem, next)
          [] OTHER -> Result(regs, mem, next)

---------------------------------------------------------------------------
(* The machine, one instruction at a time, from the bytes that are in      *)
(* memory when it gets there.                                              *)

\* Nothing is promised of a flag an instruction leaves undefined: a machine
\* that goes on to read one is no longer followed.
ReadsUnknown(m, i) ==
    \/ /\ i.op \in {"jcc", "setcc", "cmov"}
       /\ \/ ReadsCarry(i.c) /\ "carry" \notin m.known
          \/ ReadsZero(i.c) /\ "zero" \notin m.known
    \/ i.op \in Carrying /\ "carry" \notin m.known
    \/ i.op = "syscall" /\ m.known # {"carry", "zero"}

\* One instruction of the machine m, whose word w means isa[w].
Step(m, isa, prot) ==
    LET i == isa[m.mem[m.rip]]
        Allowed(a, access) == access \in prot[Page(a)]
        ending == CASE "x" \notin prot[Page(m.rip)] -> Fault(m.rip, "x")
                    [] i.op = "bad" -> Trap("undefined", m.rip)
                    [] OTHER -> Ending(m.regs, m.mem, m.carry, m.zero, i, m.rip, Allowed)
        l == ValueOf(m.regs, m.mem, i.d)
        r == ValueOf(m.regs, m.mem, i.s)
        cin == Word01(m.carry)
        after == After(m.regs, m.mem, m.carry, m.zero, i, m.rip)
        carries == i.op \in Computes /\ ~KeepsCarry(i.op, r)
        zeroes == i.op \in Computes /\ ~KeepsZero(i.op, r)
    IN  CASE ending.k = "breakpoint" ->
                [m EXCEPT !.rip = Modular(@ + 1), !.retired = @ + 1, !.ending = ending]
          [] ending.k \notin {"ok", "syscall", "breakpoint"} -> [m EXCEPT !.ending = ending]
          [] OTHER ->
                [m EXCEPT !.regs = after.regs, !.mem = after.mem, !.rip = after.rip,
                          !.retired = @ + 1, !.ending = ending,
                          !.carry = IF carries THEN CarryOf(i.op, l, r, cin) ELSE @,
                          !.zero = IF zeroes THEN Computed(i.op, l, r, cin) = 0 ELSE @,
                          !.lost = @ \/ ReadsUnknown(m, i),
                          !.known = (@ \cup (IF carries THEN {"carry"} ELSE {})
                                       \cup (IF zeroes THEN {"zero"} ELSE {})) \ Undefines(i.op)]
===========================================================================
