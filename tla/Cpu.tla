-------------------------------- MODULE Cpu --------------------------------
(***************************************************************************)
(* The run loop of crates/cpu/src/lib.rs and the two engines under it: the *)
(* interpreter of decoded blocks (exec.rs) and of the traces transpiled    *)
(* from them (bytecode.rs).  One action is one guest instruction of a      *)
(* block, one op of a trace, or one turn of the loop.                      *)
(*                                                                         *)
(* The kernel calls the engine for a quantum, and between two calls may    *)
(* store into the guest's memory or change a page's rights.  Beside the    *)
(* engine runs the machine m of X86.tla, which fetches every instruction   *)
(* from the bytes there are, steps once for each instruction the engine    *)
(* retires, and is never read by it.                                       *)
(***************************************************************************)
EXTENDS Flags, BlockCache

CONSTANTS Programs,   \* what to run: [isa, mem, prot, regs, cap, rights, places]
          Quanta,     \* the budgets a call is given
          MaxCalls,   \* bound: calls of the engine in a behaviour
          MaxMeddles  \* bound: what the kernel does between them

ASSUME ProgramsAssumption ==
    \A i \in DOMAIN Programs : /\ Programs[i].mem \in [Word -> Word]
                               /\ Programs[i].prot \in [Pages -> SUBSET Kinds]

VARIABLES
    program,  \* the index of the program this behaviour runs
    tcb,      \* [regs, flags, rip, retired, fresh]
    space,    \* memory, rights and marks
    cc,       \* the block cache
    eng,      \* where the engine is
    out,      \* the outcome of the last call
    m,        \* history: the machine of X86.tla
    calls, meddles

vars == <<program, tcb, space, cc, eng, out, m, calls, meddles>>

GuestIsa == Programs[program].isa
Cap == Programs[program].cap

Idle == [at |-> "kernel", budget |-> 0, quantum |-> 0, exact |-> FALSE, next |-> FALSE,
         start |-> 0, index |-> 0, pos |-> 0, last |-> 0,
         regs |-> [r \in 0..5 |-> 0], flags |-> Fresh, spent |-> 0]
Running == [k |-> "running"]
Preempted == [k |-> "preempted"]
Stopped(result) == /\ eng' = [Idle EXCEPT !.quantum = eng.quantum, !.exact = eng.exact,
                                          !.start = eng.start]
                   /\ out' = result

Init ==
    /\ program \in DOMAIN Programs
    /\ tcb = [regs |-> Programs[program].regs, flags |-> Fresh, rip |-> 0, retired |-> 0,
              fresh |-> "unknown"]
    /\ space = NewSpace(Programs[program].mem, Programs[program].prot)
    /\ cc = EmptyCache
    /\ eng = Idle
    /\ out = [k |-> "none"]
    /\ m = [regs |-> Programs[program].regs, carry |-> FALSE, zero |-> FALSE, rip |-> 0,
            mem |-> Programs[program].mem, retired |-> 0, ending |-> Ok,
            lost |-> FALSE, known |-> {"carry", "zero"}]
    /\ calls = 0
    /\ meddles = 0

\* The machine keeps step with what the engine retires.
Follow == m' = Step(m, GuestIsa, space.prot)
FollowTwice == m' = Step(Step(m, GuestIsa, space.prot), GuestIsa, space.prot)

---------------------------------------------------------------------------
(* The kernel's side.                                                      *)

\* run, or run_exact.
Run(quantum, exact) ==
    /\ eng.at = "kernel"
    /\ calls < MaxCalls
    /\ eng' = [Idle EXCEPT !.at = "loop", !.budget = quantum, !.quantum = quantum,
                           !.exact = exact, !.next = exact, !.start = tcb.retired]
    /\ tcb' = [tcb EXCEPT !.fresh = "unknown"]
    /\ out' = Running
    /\ calls' = calls + 1
    /\ UNCHANGED <<program, space, cc, m, meddles>>

Meddle ==
    /\ eng.at = "kernel"
    /\ meddles < MaxMeddles
    /\ meddles' = meddles + 1
    /\ UNCHANGED <<program, tcb, cc, eng, out, calls>>

\* A row stores into the guest's memory.
Place(a, word) ==
    /\ Meddle
    /\ space' = Written(space, a, word)
    /\ m' = [m EXCEPT !.mem[a] = word]

\* sync_pages: out of the space, then back with the rights it has now.
Sync(page, rights) ==
    /\ Meddle
    /\ space' = Protect(Unmap(space, page), page, rights)
    /\ UNCHANGED m

\* Every block thrown away, as the debugger's server does.
Discard ==
    /\ eng.at = "kernel"
    /\ meddles < MaxMeddles
    /\ meddles' = meddles + 1
    /\ cc' = Flush(cc)
    /\ space' = Unmarked(cc, space)
    /\ UNCHANGED <<program, tcb, eng, out, m, calls>>

---------------------------------------------------------------------------
(* The loop.                                                               *)

\* Mutant: any instruction that writes flags is taken to have written them.
StalenessOfAny(code, last) ==
    LET tells == {n \in 1..last : WritesFlags(code[n]) \/ IsGeneral(code[n])}
    IN  IF tells = {} THEN "unknown" ELSE "fresh"
\* Whether the flags at an exact stop are the last instruction's own.
Staleness(code, last) ==
    LET tells == {n \in 1..last : WritesFlags(code[n]) \/ IsGeneral(code[n])}
        n == CHOOSE n \in tells : \A o \in tells : o <= n
    IN  CASE tells = {} -> "unknown"
          [] tells # {} /\ FlagsDead(code, n) -> "stale"
          [] tells # {} /\ WritesFlags(code[n]) /\ ~FlagsDead(code, n) -> "fresh"
          [] OTHER -> "unknown"

RunsOut ==
    /\ eng.at = "loop"
    /\ eng.budget = 0
    /\ Stopped(Preempted)
    /\ UNCHANGED <<program, tcb, space, cc, m, calls, meddles>>

Fetched == LET drained == Drain(cc, space)
           IN  Entry(drained.cc, drained.space, GuestIsa, tcb.rip, Cap)

AtTheLoop(f) ==
    /\ eng.at = "loop"
    /\ eng.budget > 0
    /\ cc' = f.cc
    /\ space' = f.space

FetchFails ==
    \E f \in {Fetched} :
        /\ AtTheLoop(f)
        /\ ~f.ok
        /\ Stopped(f.why)
        /\ Follow
        /\ UNCHANGED <<program, tcb, calls, meddles>>

\* A block the last turn deferred, or every block of an exact run, is
\* interpreted; the rest run their traces.
EnterTrace ==
    \E f \in {Fetched} :
        /\ AtTheLoop(f)
        /\ f.ok
        /\ ~eng.next
        /\ eng' = [eng EXCEPT !.at = "trace", !.index = f.index, !.pos = 1, !.spent = 0,
                              !.regs = [r \in 0..5 |-> IF r = 5 THEN 0 ELSE tcb.regs[r]],
                              !.flags = tcb.flags]
        /\ UNCHANGED <<program, tcb, out, m, calls, meddles>>
EnterBlock ==
    \E f \in {Fetched} :
        /\ AtTheLoop(f)
        /\ f.ok
        /\ eng.next
        /\ eng' = [eng EXCEPT !.at = "block", !.next = eng.exact, !.index = f.index,
                              !.pos = 1, !.last = 0]
        /\ UNCHANGED <<program, tcb, out, m, calls, meddles>>

---------------------------------------------------------------------------
(* A block, interpreted.                                                   *)

Block == cc.slab[eng.index]
Instruction == Block.code[eng.pos]
Ip == Block.entry + eng.pos - 1
NextIp == Modular(Ip + 1)

Allowed(a, access) == Permitted(space, a, access)
Carried == Carry(tcb.flags)
Zeroed == Zero(tcb.flags)
Touches == Accesses(tcb.regs, Carried, Zeroed, Instruction)
How == Ending(tcb.regs, space.mem, Carried, Zeroed, Instruction, Ip, Allowed)
Done == After(tcb.regs, space.mem, Carried, Zeroed, Instruction, Ip)

\* The pages found permitted, as far as the instruction got: for each access
\* the last one.
AccessedUpTo(s, accesses, n) ==
    LET Those(access) == {k \in 1..n : accesses[k][2] = access}
        Latest(access) == CHOOSE k \in Those(access) : \A o \in Those(access) : o <= k
    IN  [s EXCEPT !.perm =
            [access \in Kinds |->
                IF Those(access) = {} THEN @[access]
                ELSE Page(AddressOf(tcb.regs, accesses[Latest(access)][1]))]]
Accessed ==
    LET refused == {n \in DOMAIN Touches :
                        ~Allowed(AddressOf(tcb.regs, Touches[n][1]), Touches[n][2])}
    IN  AccessedUpTo(space, Touches,
                     IF refused = {} THEN Len(Touches)
                     ELSE (CHOOSE n \in refused : \A o \in refused : n <= o) - 1)
Stores == {AddressOf(tcb.regs, Touches[n][1]) : n \in {n \in DOMAIN Touches : Touches[n][2] = "w"}}
Stored == IF Stores = {} THEN Accessed
          ELSE LET a == CHOOSE a \in Stores : TRUE IN Written(Accessed, a, Done.mem[a])

NewFlags ==
    IF Instruction.op \in Computes /\ ~FlagsDead(Block.code, eng.pos)
    THEN Recorded(tcb.flags, Instruction.op, ValueOf(tcb.regs, space.mem, Instruction.d),
                  ValueOf(tcb.regs, space.mem, Instruction.s))
    ELSE tcb.flags

\* Leaving the block for the loop, with what an exact run reports at its stop.
BackToLoop(t, budget, last) ==
    /\ tcb' = [t EXCEPT !.fresh = IF eng.exact /\ budget = 0 THEN Staleness(Block.code, last)
                                  ELSE @]
    /\ eng' = [eng EXCEPT !.at = "loop", !.budget = budget, !.pos = 0, !.last = 0, !.index = 0]

OutOfBudget ==
    /\ eng.at = "block"
    /\ eng.budget = 0
    /\ BackToLoop([tcb EXCEPT !.rip = Ip], 0, eng.last)
    /\ UNCHANGED <<program, space, cc, out, m, calls, meddles>>

Interprets(op) ==
    /\ eng.at = "block"
    /\ eng.budget > 0
    /\ op = Instruction.op
    /\ UNCHANGED <<program, cc, calls, meddles>>

\* An instruction that traps did not retire, and leaves rip on itself; a
\* breakpoint did.  What it had done by then stays: a pop has moved the
\* stack pointer, an operation on memory has recorded its flags.
Traps ==
    /\ Interprets(Instruction.op)
    /\ How.k \notin {"ok", "syscall"}
    /\ LET stored == How.k = "fault" /\ How.access = "w" IN
       tcb' = [tcb EXCEPT
            !.rip = IF How.k = "breakpoint" THEN NextIp ELSE Ip,
            !.retired = IF How.k = "breakpoint" THEN @ + 1 ELSE @,
            !.regs[SP] = IF Instruction.op = "pop" /\ stored THEN Modular(@ + 1) ELSE @,
            !.flags = IF InMemory(Instruction.d) /\ stored THEN NewFlags ELSE @]
    /\ space' = Accessed
    /\ Stopped(How)
    /\ Follow

\* advance: an instruction that can only fall through, with rip left behind.
Advances ==
    /\ Interprets(Instruction.op)
    /\ ~ChecksRip(Instruction)
    /\ How = Ok
    /\ space' = Stored
    /\ LET t == [tcb EXCEPT !.regs = Done.regs, !.flags = NewFlags, !.retired = @ + 1]
           leaves == HasDirtyCode(Stored) \/ eng.pos = Len(Block.code)
       IN  IF leaves THEN BackToLoop([t EXCEPT !.rip = NextIp], eng.budget - 1, eng.pos)
           ELSE /\ tcb' = t
                /\ eng' = [eng EXCEPT !.budget = @ - 1, !.last = eng.pos, !.pos = @ + 1]
    /\ Follow
    /\ UNCHANGED out

\* run: an instruction that says where it goes.  A store on cached code is
\* looked for before rip is, or a repeated store over itself would go on.
Transfers ==
    /\ Interprets(Instruction.op)
    /\ ChecksRip(Instruction)
    /\ How = Ok
    /\ space' = Stored
    /\ LET t == [tcb EXCEPT !.regs = Done.regs, !.rip = Done.rip, !.retired = @ + 1]
           leaves == \/ HasDirtyCode(Stored)
                     \/ /\ Done.rip # Ip
                        /\ Done.rip # NextIp \/ eng.pos = Len(Block.code)
       IN  IF leaves THEN BackToLoop(t, eng.budget - 1, eng.pos)
           ELSE /\ tcb' = t
                /\ eng' = [eng EXCEPT !.budget = @ - 1, !.last = eng.pos,
                                      !.pos = IF Done.rip = Ip THEN @ ELSE @ + 1]
    /\ Follow
    /\ UNCHANGED out

Calls ==
    /\ Interprets("syscall")
    /\ How.k = "syscall"
    /\ space' = space
    /\ tcb' = [tcb EXCEPT !.regs = [Done.regs EXCEPT ![DX] = Materialized(tcb.flags)],
                          !.rip = NextIp, !.retired = @ + 1]
    /\ Stopped(How)
    /\ Follow

Interpret == OutOfBudget \/ Traps \/ Advances \/ Transfers \/ Calls

---------------------------------------------------------------------------
(* A trace.                                                                *)

Trace == cc.slab[eng.index].trace
Word1 == Trace[eng.pos]
Reads(o) == IF o.k = "imm" THEN o.n ELSE IF o.k = "none" THEN 0 ELSE eng.regs[o.n]
Target(o) == IF o.k = "ind" THEN eng.regs[o.n] ELSE o.n
PutLocal(o, v) == IF o.k = "none" THEN eng.regs ELSE [eng.regs EXCEPT ![o.n] = v]

\* flush!: what the trace kept to itself goes back to the control block.
Flushed(regs, flags, spent) ==
    [tcb EXCEPT !.regs = [r \in Regs |-> regs[r]], !.flags = flags, !.retired = @ + spent]
Spend(spent) == IF spent >= eng.budget THEN 0 ELSE eng.budget - spent

\* Mutant: a defer goes round like an exit.
LeavesUnmarked(regs, flags, spent, rip, defers) ==
    /\ tcb' = [Flushed(regs, flags, spent) EXCEPT !.rip = rip]
    /\ eng' = [Idle EXCEPT !.at = "loop", !.budget = Spend(spent), !.quantum = eng.quantum,
                           !.exact = eng.exact, !.start = eng.start]

\* Leave::Exit, Preempted and Defer all go round the loop.
Leaves(regs, flags, spent, rip, defers) ==
    /\ tcb' = [Flushed(regs, flags, spent) EXCEPT !.rip = rip]
    /\ eng' = [Idle EXCEPT !.at = "loop", !.budget = Spend(spent), !.quantum = eng.quantum,
                           !.exact = eng.exact, !.start = eng.start, !.next = defers]
Faults(flags, a, access) ==
    /\ tcb' = [Flushed(eng.regs, flags, eng.spent) EXCEPT !.rip = Word1.ip]
    /\ Stopped(Fault(a, access))
    /\ Follow
    /\ UNCHANGED space

Executes(os) ==
    /\ eng.at = "trace"
    /\ Word1.o \in os
    /\ UNCHANGED <<program, cc, calls, meddles>>
Goes(regs, flags, to) ==
    /\ eng' = [eng EXCEPT !.regs = regs, !.flags = flags, !.pos = to,
                          !.spent = @ + Word1.retires]
    /\ IF Word1.retires = 0 THEN UNCHANGED m ELSE Follow
    /\ UNCHANGED <<tcb, out>>

\* break_on_dirty!, after a store: unless the next op belongs to the same
\* instruction, and then leaving is its job.
GoesUnlessDirty(s, regs, flags) ==
    LET after == Trace[eng.pos + 1]
    IN  IF HasDirtyCode(s) /\ after.ip # Word1.ip
        THEN /\ Leaves(regs, flags, eng.spent + Word1.retires, after.ip, FALSE)
             /\ Follow
             /\ UNCHANGED out
        ELSE Goes(regs, flags, eng.pos + 1)

TraceComputes ==
    /\ Executes({"compute", "move"})
    /\ LET w == Word1
           l == Reads(w.d)
           r == Reads(w.s)
           holds == Holds(w.c, Carry(eng.flags), Zero(eng.flags))
           v == CASE w.o = "move" -> r
                  [] w.o = "compute" /\ w.p \in {"setcc", "cmov"} -> Chosen(w.p, holds, l, r)
                  [] OTHER -> Computed(w.p, l, r, Word01(Carry(eng.flags)))
           flags == IF w.o = "compute" /\ w.p \in Computes /\ ~w.dead
                    THEN Recorded(eng.flags, w.p, l, r) ELSE eng.flags
       IN  Goes(IF w.p \in Discards THEN eng.regs ELSE PutLocal(w.d, v), flags, eng.pos + 1)
    /\ UNCHANGED space

TraceLoads ==
    /\ Executes({"load"})
    /\ LET a == Target(Word1.s) IN
       IF Allowed(a, "r")
       THEN /\ space' = Remembered(space, a, "r")
            /\ Goes(PutLocal(Word1.d, space.mem[a]), eng.flags, eng.pos + 1)
       ELSE Faults(eng.flags, a, "r")

\* store and push; a store of a vector does not look for dirty code.
TraceStores ==
    /\ Executes({"store", "vstore", "push"})
    /\ LET pushes == Word1.o = "push"
           a == IF pushes THEN Modular(eng.regs[SP] - 1) ELSE Target(Word1.d)
           s == Written(Remembered(space, a, "w"), a, Reads(Word1.s))
           regs == IF pushes THEN [eng.regs EXCEPT ![SP] = a] ELSE eng.regs
       IN  IF ~Allowed(a, "w") THEN Faults(eng.flags, a, "w")
           ELSE /\ space' = s
                /\ IF Word1.o = "vstore" THEN Goes(regs, eng.flags, eng.pos + 1)
                   ELSE GoesUnlessDirty(s, regs, eng.flags)

TracePops ==
    /\ Executes({"pop"})
    /\ LET a == eng.regs[SP] IN
       IF Allowed(a, "r")
       THEN /\ space' = Remembered(space, a, "r")
            /\ Goes([[eng.regs EXCEPT ![SP] = Modular(a + 1)] EXCEPT ![Word1.d.n] = space.mem[a]],
                    eng.flags, eng.pos + 1)
       ELSE Faults(eng.flags, a, "r")

\* An arithmetic operation on memory, whose flags are recorded before the
\* store is tried.
TraceModifies ==
    /\ Executes({"rmw"})
    /\ LET w == Word1
           a == Target(w.d)
           l == space.mem[a]
           r == Reads(w.s)
           flags == IF w.dead THEN eng.flags ELSE Recorded(eng.flags, w.p, l, r)
           s == Written(Remembered(Remembered(space, a, "r"), a, "w"), a, Computed(w.p, l, r, 0))
       IN  CASE ~Allowed(a, "r") -> Faults(eng.flags, a, "r")
             [] Allowed(a, "r") /\ ~Allowed(a, "w") -> Faults(flags, a, "w")
             [] OTHER -> space' = s /\ GoesUnlessDirty(s, eng.regs, flags)

\* A division that would trap is the interpreter's.
TraceDivides ==
    /\ Executes({"div"})
    /\ LET r == Reads(Word1.s) IN
       IF DivideError(eng.regs, r)
       THEN Leaves(eng.regs, eng.flags, eng.spent, Word1.ip, TRUE) /\ UNCHANGED <<m, out>>
       ELSE Goes([eng.regs EXCEPT ![AX] = Dividend(eng.regs) \div r, ![DX] = Dividend(eng.regs) % r],
                 eng.flags, eng.pos + 1)
    /\ UNCHANGED space

TraceDefers ==
    /\ Executes({"defer"})
    /\ Leaves(eng.regs, eng.flags, eng.spent, Word1.ip, TRUE)
    /\ UNCHANGED <<space, m, out>>

\* br, brif and the fused pair.  The budget is looked at on the way back.
TraceBranches ==
    /\ Executes({"br", "brif", "fused"})
    /\ LET w == Word1
           l == Reads(w.d)
           r == Reads(w.s)
           evaluated == IF w.o = "fused" THEN Recorded(eng.flags, w.p, l, r) ELSE eng.flags
           flags == IF w.live THEN evaluated ELSE eng.flags
           regs == IF w.o = "fused" /\ w.p \notin Discards
                   THEN PutLocal(w.d, Computed(w.p, l, r, 0)) ELSE eng.regs
           taken == w.o = "br" \/ Holds(w.c, Carry(evaluated), Zero(evaluated))
           spent == eng.spent + w.retires
           to == IF taken THEN w.to ELSE eng.pos + 1
       IN  /\ IF taken /\ w.to <= eng.pos + 1 /\ spent >= eng.budget
              THEN Leaves(regs, flags, spent, Trace[w.to].ip, FALSE)
              ELSE /\ eng' = [eng EXCEPT !.regs = regs, !.flags = flags, !.pos = to,
                                         !.spent = spent]
                   /\ UNCHANGED tcb
           /\ IF w.retires = 2 THEN FollowTwice ELSE Follow
    /\ UNCHANGED <<space, out>>

\* exit: the target's own trace, when it is there, without going round.
TraceExits ==
    /\ Executes({"exit"})
    /\ LET spent == eng.spent + Word1.retires
           to == Reads(Word1.s)
           next == Resolve(cc, to)
       IN  /\ IF spent < eng.budget /\ next # 0
              THEN /\ eng' = [eng EXCEPT !.index = next, !.pos = 1, !.spent = spent]
                   /\ UNCHANGED tcb
              ELSE Leaves(eng.regs, eng.flags, spent, to, FALSE)
           /\ IF Word1.retires = 0 THEN UNCHANGED m ELSE Follow
    /\ UNCHANGED <<space, out>>

Accelerate == TraceComputes \/ TraceLoads \/ TraceStores \/ TracePops \/ TraceModifies
              \/ TraceDivides \/ TraceDefers \/ TraceBranches \/ TraceExits

---------------------------------------------------------------------------
Loop == RunsOut \/ FetchFails \/ EnterTrace \/ EnterBlock
Engine == Loop \/ Interpret \/ Accelerate
Kernel ==
    \/ \E quantum \in Quanta, exact \in BOOLEAN : Run(quantum, exact)
    \/ \E p \in Programs[program].places : Place(p[1], p[2])
    \/ \E p \in Programs[program].rights : Sync(p[1], p[2])
    \/ Discard

Next == Engine \/ Kernel

\* A call of the engine is one call of a function, which nothing suspends: from
\* every state inside it the next step is taken.  This is WF_vars(Engine) with
\* what enables Engine written out.
EngineRuns == []<>(eng.at = "kernel") \/ []<><<eng.at # "kernel">>_vars

Spec == Init /\ [][Next]_vars /\ EngineRuns

---------------------------------------------------------------------------
TypeOK ==
    /\ tcb.regs \in [Regs -> Word]
    /\ tcb.rip \in Word
    /\ tcb.fresh \in {"unknown", "stale", "fresh"}
    /\ space.mem \in [Word -> Word]
    /\ eng.at \in {"kernel", "loop", "block", "trace"}
    /\ eng.budget \in Nat

\* Wherever the kernel or the loop looks at the control block, it is the one
\* the bytes say: registers, memory, rip and the count of what retired, after
\* any mixture of interpreted blocks, traces, stores over code, faults and
\* preemptions.  (lib.rs and bytecode.rs: a trace "leaves exactly where the
\* interpreter would".)
LeavesAgree ==
    eng.at \in {"kernel", "loop"} /\ ~m.lost =>
        /\ tcb.regs = m.regs
        /\ space.mem = m.mem
        /\ tcb.rip = m.rip
        /\ tcb.retired = m.retired

\* A call ends as the machine does: with the same trap at the same address, or
\* at a system call, or preempted with the whole quantum spent and less than
\* one block more; exactly on the instruction asked for when the run is exact,
\* and with the flags right whenever it reports them fresh.
StopsAgree ==
    eng.at = "kernel" /\ ~m.lost =>
        /\ out.k \notin {"none", "preempted"} => out = m.ending
        /\ out.k = "preempted" =>
              LET ran == tcb.retired - eng.start IN
              /\ IF eng.exact THEN ran = eng.quantum
                 ELSE ran \in eng.quantum..(eng.quantum + Cap)
              /\ tcb.fresh = "fresh" =>
                    /\ "carry" \in m.known => Carry(tcb.flags) = m.carry
                    /\ "zero" \in m.known => Zero(tcb.flags) = m.zero

\* The cache and the marks hold each other up: a block can be found by every
\* page it came from, each of which is watched or queued; a page with a stale
\* shortcut is never one the shortcut would be wrong about; and what is not
\* queued to be dropped is what memory says.
MarksHold ==
    /\ Watched(cc, space)
    /\ ShortcutsAreTrue(space)
    /\ Current(cc, space, GuestIsa)

\* A call comes back, whatever the guest runs: the budget reaches every loop a
\* program can make, and a deferred block is not re-entered for ever.
QuantaEnd == eng.at # "kernel" ~> eng.at = "kernel"
===========================================================================
