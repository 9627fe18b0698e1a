------------------------------ MODULE MCFiles ------------------------------
(* A small image for TLC: a directory with a file that the root names too, *)
(* a directory something is mounted over, and a link to the first.         *)
EXTENDS Files

Dir(parent, entries) ==
    [kind |-> "directory", parent |-> parent, nlink |-> 2, size |-> Cardinality(DOMAIN entries),
     mode |-> 0, owner |-> 0, entries |-> entries, lower |-> NoNode, data |-> <<>>,
     target |-> <<>>, released |-> FALSE]
Leaf(kind, nlink, data, target) ==
    [kind |-> kind, parent |-> NoNode, nlink |-> nlink, size |-> 0, mode |-> 0, owner |-> 0,
     entries |-> NoEntries, lower |-> NoNode, data |-> data, target |-> target,
     released |-> FALSE]

SmallImage ==
    << Dir(1, 1 :> 2 @@ 2 :> 3 @@ 3 :> 4),
       Dir(1, 1 :> 3 @@ 2 :> 5),
       Leaf("file", 2, <<1>>, <<>>),
       Leaf("link", 1, <<>>, <<1>>),
       Dir(2, NoEntries) >>
SmallMounts == << <<Dir(1, 1 :> 2), Leaf("file", 1, <<1>>, <<>>)>> >>
SmallCovers == <<5>>

SmallTargets == { <<1>> }
Open(access) == [access |-> access, create |-> FALSE, excl |-> FALSE, trunc |-> FALSE,
                 append |-> FALSE, nofollow |-> FALSE, directory |-> FALSE, path |-> FALSE]
SmallFlags == { Open("r"), [Open("w") EXCEPT !.create = TRUE],
                [Open("rw") EXCEPT !.trunc = TRUE] }
Menu(calls, paths, nodes, fds) ==
    [calls |-> calls, paths |-> paths, nodes |-> nodes, fds |-> fds]
\* A directory, a file, the file's other name, and a new name through a link.
FourPaths == { <<Root, 1>>, <<Root, 2>>, <<Root, 1, 1>>, <<Root, 3, 3>> }
SmallMenus ==
    { Menu({"mkdir", "unlink", "link", "rename", "truncate"}, FourPaths, 4, 0),
      Menu({"symlink", "unlink", "rename", "chmod", "chown"}, FourPaths, 3, 0),
      Menu({"mkdir", "unlink", "rename", "open", "chdir", "fchdir"},
           { <<Root, 1>>, <<Root, 1, 2>>, <<Root, 1, 3, 1>>, <<3>>, <<DotDot>> }, 3, 1),
      Menu({"open", "unlink", "rename", "write", "dup", "dup2"},
           { <<Root, 2>>, <<Root, 1, 1>> }, 3, 2),
      Menu({"open", "unlink", "ftruncate", "pwrite", "sendfile"},
           { <<Root, 2>>, <<Root, 1, 1>> }, 3, 2),
      Menu({"open", "read", "lseek", "fchmod", "write"}, FourPaths, 3, 1),
      Menu({"open", "mkdir", "unlink", "getdents64", "lseek"}, FourPaths, 3, 1) }
=============================================================================
