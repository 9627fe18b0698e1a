------------------------------- MODULE Flags -------------------------------
(***************************************************************************)
(* The lazy flags of flags.rs: an operation leaves a record of what it     *)
(* combined, and a flag is worked out from the record when it is read.     *)
(* Carry and zero stand for the six; sign, parity, adjust and overflow are *)
(* recorded and read exactly where zero is.                                *)
(***************************************************************************)
EXTENDS X86

\* Flags::new: nothing recorded, and the bits a process starts with.
Fresh == [rule |-> "materialized", l |-> 0, r |-> 0, v |-> 1, cin |-> 0,
          carry |-> FALSE, zero |-> FALSE]

Carry(f) ==
    CASE f.rule \in {"materialized", "increment", "decrement"} -> f.carry
      [] f.rule = "add" -> f.v < f.l
      [] f.rule = "addcarry" -> f.v < f.l \/ (f.cin = 1 /\ f.v = f.l)
      [] f.rule = "sub" -> f.l < f.r
      [] f.rule = "subborrow" -> f.l < f.r \/ (f.cin = 1 /\ f.l = f.r)
      [] f.rule = "logic" -> FALSE
Zero(f) == IF f.rule = "materialized" THEN f.zero ELSE f.v = 0

CarryKept(f, rule) == IF rule \in {"increment", "decrement"} THEN Carry(f) ELSE f.carry

\* Mutant: an increment forgets the carry.
RecordUnkept(f, rule, l, r, v, cin) ==
    [f EXCEPT !.rule = rule, !.l = l, !.r = r, !.v = v, !.cin = cin]
Record(f, rule, l, r, v, cin) ==
    [f EXCEPT !.rule = rule, !.l = l, !.r = r, !.v = v, !.cin = cin,
              !.carry = CarryKept(f, rule)]

\* set_all, for what no rule describes.
SetAll(f, carry, zero) ==
    [Fresh EXCEPT !.carry = carry, !.zero = zero]

Materialized(f) == FlagsWord(Carry(f), Zero(f))

RuleOf(op) ==
    CASE op = "add" -> "add"
      [] op \in {"sub", "cmp", "neg"} -> "sub"
      [] op \in {"and", "test"} -> "logic"
      [] op = "inc" -> "increment"
      [] op = "dec" -> "decrement"
      [] op = "adc" -> "addcarry"
      [] op = "sbb" -> "subborrow"

\* What an instruction of the general path does to the record: l and r are
\* its operands.
Recorded(f, op, l, r) ==
    LET v == Computed(op, l, r, Word01(Carry(f)))
    IN  CASE op = "not" \/ (op = "shl" /\ r = 0) -> f
          [] op = "mul" -> SetAll(f, CarryOf(op, l, r, 0), FALSE)
          [] op = "shl" -> SetAll(f, CarryOf(op, l, r, 0), v = 0)
          [] op = "neg" -> Record(f, "sub", 0, l, v, 0)
          [] op \in {"inc", "dec"} -> Record(f, RuleOf(op), l, 1, v, 0)
          [] op \in Carrying -> Record(f, RuleOf(op), l, r, v, Word01(Carry(f)))
          [] OTHER -> Record(f, RuleOf(op), l, r, v, 0)
===========================================================================
