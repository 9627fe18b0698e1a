----------------------------- MODULE MCSockets -----------------------------
(* Behaviours of the sockets for TLC, each limited to a few calls.         *)
EXTENDS Sockets

Menu(calls, fds, ids, backlogs, peers, bytes) ==
    [calls |-> calls, fds |-> 0 .. fds - 1, ids |-> 0 .. ids - 1, backlogs |-> backlogs,
     peers |-> peers, bytes |-> bytes]

SmallMenus ==
    { \* A half-closed pair, and its rings' slots reused.
      Menu({"socketpair", "shutdown", "close", "send", "receive"}, 3, 4, {}, 0, 1),
      \* A pair's ends held by several descriptors of two processes.
      Menu({"socketpair", "dup", "fork", "exit", "shutdown"}, 3, 2, {}, 0, 0),
      \* A listener inherited by a fork, and one that is gone with its queue.
      Menu({"socket", "listen", "connect", "accept", "fork", "exit"}, 2, 3, {1}, 0, 0),
      Menu({"socket", "connect", "listen", "accept", "exit", "execve"}, 2, 3, {1}, 0, 0),
      \* Queues of two lengths, and accepts that fail.
      Menu({"socket", "connect", "listen", "accept", "fault", "send", "receive"},
           3, 4, {1, 2}, 0, 1),
      \* The port table, and the names of two processes.
      Menu({"socket", "bind", "listen", "connect", "close", "dup2"}, 2, 3, {1}, 0, 0),
      Menu({"socket", "bindunix", "connectunix", "listen", "accept", "fork"},
           2, 3, {1}, 0, 0),
      \* The edge: one connection with more bytes than its ring holds, one
      \* that is answered and closed, and two that queue.
      Menu({"socket", "listen", "accept", "receive", "exit"}, 2, 2, {1}, 1, 3),
      Menu({"socket", "listen", "accept", "send", "receive", "shutdown", "close"},
           2, 2, {1}, 1, 1),
      Menu({"socket", "listen", "accept", "exit"}, 2, 3, {1}, 2, 1),
      Menu({"socket", "listen", "accept", "send", "fork", "exit"}, 2, 2, {1}, 1, 1) }
=============================================================================
