----------------------------- MODULE MCSignals -----------------------------
(***************************************************************************)
(* Signals, checked: one menu for each kind of program.                    *)
(***************************************************************************)
EXTENDS Signals

\* SIGSEGV, SIGALRM and SIGCHLD.
SomeSignals == {11, 14, 17}

MCBits == {1, 2}
MCWords == {"join"}

Handler(onstack, nodefer, resethand, mask) ==
  [handler |-> "Handler", onstack |-> onstack, nodefer |-> nodefer,
   resethand |-> resethand, mask |-> mask]
Plain   == Handler(FALSE, FALSE, FALSE, {})
OnStack == Handler(TRUE, FALSE, FALSE, {})
Ignored == [Default EXCEPT !.handler = "Ignore"]

Nothing ==
  [masks |-> {}, suspends |-> {}, actions |-> {}, altstacks |-> {}, calls |-> {},
   kills |-> {}, tgkills |-> {}, sleeps |-> {}, timers |-> {}, clones |-> {},
   stores |-> {}, waits |-> {}, bits |-> {}, timeouts |-> {}, wakes |-> {},
   sent |-> {}, timed |-> FALSE, most |-> 2]

\* Handlers over handlers, on both stacks, left in both ways.
Nesting ==
  [Nothing EXCEPT
    !.actions = {<<11, OnStack>>, <<14, Plain>>, <<14, Handler(TRUE, TRUE, FALSE, {11})>>,
                 <<17, Handler(FALSE, FALSE, TRUE, {14})>>},
    !.altstacks = {TRUE}, !.calls = {"fault", "jump"}, !.tgkills = {14}, !.sent = {17}]

\* Two threads that suspend, mask and signal one another.
Suspending ==
  [Nothing EXCEPT
    !.actions = {<<14, Plain>>, <<17, Plain>>},
    !.masks = {{14, 17}}, !.suspends = {{}, {17}}, !.clones = {"join"},
    !.kills = {17}, !.sent = {14}]

\* Deadlines of every kind, and an alarm that rings again.
Timing ==
  [Nothing EXCEPT
    !.actions = {<<14, Plain>>, <<14, Ignored>>},
    !.sleeps = {1}, !.timers = {<<0, 0>>, <<1, 1>>}, !.clones = {"join"},
    !.waits = {<<"join", 1>>}, !.bits = {{1, 2}}, !.timeouts = {2},
    !.calls = {"exit", "pause"}, !.timed = TRUE]

\* Threads that wait for one another to end.
Joining ==
  [Nothing EXCEPT
    !.clones = {"join"}, !.waits = {<<"join", 1>>}, !.bits = {{1}, {2}, {1, 2}},
    !.timeouts = {None}, !.wakes = {"join"}, !.calls = {"exit"}, !.kills = {14},
    !.stores = {<<"join", 1>>}, !.most = 3]

SomeMenus == {Nesting, Suspending, Timing, Joining}
============================================================================
