-------------------------------- MODULE Vfs --------------------------------
(***************************************************************************)
(* What a path means: kernel/src/vfs.rs and mount.rs.  A vnode is a mount  *)
(* number and an inode number; mount 0 is the overlay, the others are      *)
(* read-only images attached at boot.  A path is a sequence of components, *)
(* Root first when it is absolute.  A result is a record: the vnode, or    *)
(* the error it stopped at.  Names too long are left out.                  *)
(***************************************************************************)
EXTENDS Overlay

CONSTANTS Mounts,        \* the images mounted at boot, by mount number
          Covers,        \* the lower directory each of them covers
          SymlinkLimit,  \* SYMLINK_LIMIT
          Root, Dot, DotDot

ASSUME MountAssumption ==
    /\ DOMAIN Mounts \subseteq Nat \ {0} /\ DOMAIN Covers = DOMAIN Mounts
    /\ \A m \in DOMAIN Covers : Covers[m] \in DOMAIN Image \ {LowerRoot}
                                /\ Image[Covers[m]].kind = "directory"

Components == Names \cup {Root, Dot, DotDot}
Vnode(mount, n) == [mount |-> mount, n |-> n]
TheRoot == Vnode(0, Top)
Found(v) == [errno |-> "ok", v |-> v]
Fails(errno) == [errno |-> errno, v |-> TheRoot]

\* One value, named for what is done with it.
Given(x, Do(_)) == Do(x)

(* Filesystem: the two kinds behind one interface. *)
InodeOf(fs, v) == IF v.mount = 0 THEN Inode(fs, v.n) ELSE Mounts[v.mount][v.n]
IsDirectory(fs, v) == InodeOf(fs, v).kind = "directory"
IsLink(fs, v) == InodeOf(fs, v).kind = "link"
LookupIn(fs, v, name) ==
    IF v.mount = 0 THEN Lookup(fs, v.n, name)
    ELSE LET entries == Mounts[v.mount][v.n].entries
         IN  IF name \in DOMAIN entries THEN entries[name] ELSE NoNode
EntriesOf(fs, v) ==
    IF v.mount = 0 THEN Listing(fs, v.n) ELSE Sorted(Mounts[v.mount][v.n].entries)
IsWritable(v) == v.mount = 0

RootOf(mount) == IF mount = 0 THEN TheRoot ELSE Vnode(mount, LowerRoot)
MountedOn(v) == {m \in DOMAIN Covers : v = Vnode(0, Covers[m])}
IsMountRoot(v) == v = RootOf(v.mount)

(* cross_down: whatever is mounted over a directory is what is reached. *)
CrossDown(v) == IF MountedOn(v) = {} THEN v ELSE RootOf(CHOOSE m \in MountedOn(v) : TRUE)

(* parent_of: the root of a mount leaves it; the real root is its own. *)
Covered(v) == IF IsMountRoot(v) /\ v.mount # 0 THEN Vnode(0, Covers[v.mount]) ELSE v
ParentNumber(fs, v) == IF v.mount = 0 THEN Parent(fs, v.n) ELSE InodeOf(fs, v).parent
ParentOf(fs, v) ==
    LET here == Covered(v)
    IN  IF here = TheRoot THEN here
        ELSE CrossDown(Vnode(here.mount, ParentNumber(fs, here)))

(* walk: one component at a time.  A link that is followed is walked from  *)
(* the directory it is in, with the same count of traversals, and what is  *)
(* left of the path after it.                                              *)
Walk(fs, from, path, follow) ==
    LET walk[at \in [mount : Nat, n : Nat], todo \in Seq(Components), hops \in Nat] ==
          IF todo = <<>> THEN Found(at)
          ELSE LET rest == Tail(todo) IN
            CASE Head(todo) = Root -> walk[CrossDown(TheRoot), rest, hops]
              [] ~IsDirectory(fs, at) -> Fails("ENOTDIR")
              [] Head(todo) = Dot -> walk[at, rest, hops]
              [] Head(todo) = DotDot -> walk[ParentOf(fs, at), rest, hops]
              [] OTHER ->
                   LET child == LookupIn(fs, at, Head(todo))
                       next  == CrossDown(Vnode(at.mount, child))
                   IN  IF child = NoNode THEN Fails("ENOENT")
                       ELSE IF ~IsLink(fs, next) \/ (rest = <<>> /\ ~follow)
                            THEN walk[next, rest, hops]
                       ELSE IF hops = SymlinkLimit THEN Fails("ELOOP")
                       ELSE walk[at, InodeOf(fs, next).target \o rest, hops + 1]
    IN  walk[from, path, 0]

(* resolve *)
Resolve(fs, from, path, follow, directory) ==
    Given(Walk(fs, from, path, follow), LAMBDA found :
        IF found.errno = "ok" /\ directory /\ ~IsDirectory(fs, found.v)
        THEN Fails("ENOTDIR") ELSE found)

(* walk_parent: the directory a name lives in, and the name; through a     *)
(* trailing link to its target's when the caller changes what it names.    *)
NamesLink(fs, v, name) ==
    Given(LookupIn(fs, v, name), LAMBDA n : n # NoNode /\ IsLink(fs, Vnode(v.mount, n)))
ResolveParent(fs, from, path, follow) ==
    LET parent[at \in [mount : Nat, n : Nat], todo \in Seq(Components), hops \in Nat] ==
          LET name == todo[Len(todo)]
          IN  IF name \in {Root, Dot} THEN Fails("EINVAL")
              ELSE IF name = DotDot THEN Fails("ENOTEMPTY")
              ELSE Given(Resolve(fs, at, Front(todo), TRUE, TRUE), LAMBDA up :
                  IF up.errno # "ok" THEN up
                  ELSE IF ~follow \/ ~NamesLink(fs, up.v, name) THEN up @@ [name |-> name]
                  ELSE IF hops = SymlinkLimit THEN Fails("ELOOP")
                  ELSE parent[up.v,
                              InodeOf(fs, Vnode(up.v.mount, LookupIn(fs, up.v, name))).target,
                              hops + 1])
    IN  parent[from, path, 0]

(* name_in: the entry that names the directory as it is now. *)
NamesFor(fs, parent, v) ==
    LET wanted == IF v.mount = 0 THEN Promote(fs, v.n) ELSE v.n
    IN  {name \in Range(EntriesOf(fs, parent)) : LookupIn(fs, parent, name) = wanted}

NamedAs(fs, v) == NamesFor(fs, Vnode(v.mount, ParentNumber(fs, v)), v)

(* absolute_path: up through the parents, asking each which entry this is. *)
AbsolutePath(fs, v) ==
    LET up[d \in [mount : Nat, n : Nat]] ==
          IF d = TheRoot THEN [errno |-> "ok", path |-> <<>>]
          ELSE Given(NamedAs(fs, Covered(d)), LAMBDA names :
                 Given(up[ParentOf(fs, d)], LAMBDA above :
                   IF names = {} THEN [errno |-> "ENOENT", path |-> <<>>]
                   ELSE IF above.errno # "ok" THEN above
                   ELSE [errno |-> "ok",
                         path |-> Append(above.path, CHOOSE name \in names : TRUE)]))
    IN  up[v]

(* is_ancestor: the directory itself, or one above it. *)
IsAncestor(fs, ancestor, v) ==
    LET above[d \in [mount : Nat, n : Nat]] ==
          \/ d = ancestor
          \/ /\ d # Vnode(d.mount, ParentNumber(fs, d))
             /\ above[Vnode(d.mount, ParentNumber(fs, d))]
    IN  above[v]
=============================================================================
