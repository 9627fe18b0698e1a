------------------------------- MODULE Files -------------------------------
(***************************************************************************)
(* The file rows of one process: kernel/src/file.rs, write.rs and fd.rs    *)
(* over the overlay.  A fork copies the descriptor table and the writable  *)
(* layer, so no other process reaches either; a row is never interrupted,  *)
(* so a step is a whole call, and what it leaves behind when it refuses is *)
(* part of it.  Files hold values of Values, 0 being the byte of a hole.   *)
(* Left out: device and generated files, extended attributes, timestamps,  *)
(* what stat reports, the flock word, and the guest's buffers.             *)
(*                                                                         *)
(* Wild is TRUE for the instance that makes every call.  The other one     *)
(* leaves out the calls in which the code does something else than its     *)
(* comments say, which README.md names: calls through a directory that was *)
(* copied up or removed since it was opened, O_CREAT through a dangling    *)
(* link, dup2 over a descriptor, a truncate or an open that fails late,    *)
(* and a seek into the middle of a directory.                              *)
(***************************************************************************)
EXTENDS Vfs, FiniteSets

CONSTANTS Targets,   \* the targets a new symbolic link may have
          Flags,     \* the flags an open may give
          Values,    \* the bytes a write may carry
          Modes, Owners,  \* what a chmod and a chown may give
          Lengths,   \* the lengths a truncate may give
          Batch,     \* how many entries a getdents64 has room for
          Menus,     \* bound: what a behaviour may be limited to: the calls it
                     \* makes, the paths it names, the nodes its arena grows
                     \* to, and MAX_DESCRIPTORS
          NoName,    \* no name to resume after
          Wild

ASSUME FilesAssumption ==
    /\ Targets \subseteq Seq(Components) \ {<<>>}
    /\ \A flags \in Flags : DOMAIN flags = {"access", "create", "excl", "trunc",
                                            "append", "nofollow", "directory", "path"}
    /\ Batch \in Nat \ {0}
    /\ \A m \in Menus : /\ m.paths \subseteq Seq(Components) \ {<<>>}
                        /\ m.nodes \in Nat /\ m.fds \in Nat
    /\ Lengths \subseteq Nat /\ Values \subseteq Nat \ {0} /\ Wild \in BOOLEAN

VARIABLES fs,            \* the writable layer
          cwd,           \* Vfs::working_directory
          descriptors,   \* the descriptor table: which description each names
          descriptions,  \* OpenFile, with Resume, and what a scan has shown
          refused,       \* whether the last call answered an errno
          menu,          \* the calls this behaviour makes
          tree           \* history: the tree of names the layer shows

vars == <<fs, cwd, descriptors, descriptions, refused, menu, tree>>

Fds == 0 .. menu.fds - 1
Free(f) == CHOOSE i \in Fds : i \notin DOMAIN f /\ \A j \in 0 .. i - 1 : j \in DOMAIN f
Final(path) == path[Len(path)]
HasRoom == DOMAIN descriptors # Fds

File(fd) == descriptions[descriptors[fd]]
VnodeOf(fd) == File(fd).v

(* FdTable::holds: an open description is on the node. *)
Holds(files, n) == \E i \in DOMAIN files : files[i].v.n = n

(* reclaim: the orphans nobody holds give their bytes back. *)
Reclaim(layer) ==
    [FoldLeft(LAMBDA l, n : IF Holds(descriptions, n) THEN l ELSE Release(l, n),
              layer, SetToSeq(layer.orphaned)) EXCEPT !.orphaned = {}]

\* Mutant: only unlink frees.
ReclaimNever(layer, files, v) == layer

(* reclaim_after_close *)
ReclaimAfterClose(layer, files, v) ==
    IF IsUpper(v.n) /\ v.mount = 0 /\ ~Holds(files, v.n) /\ IsOrphaned(layer, v.n)
    THEN Release(layer, v.n) ELSE layer

-----------------------------------------------------------------------------
(* A call's outcome: the layer it leaves, and whether it answers an errno. *)
Done(layer) == [errno |-> "ok", fs |-> layer]
Refuse(errno, layer) == [errno |-> errno, fs |-> layer]

(* The ? of the source: a lookup that fails ends the call, and so does a   *)
(* step that fails, which may have changed the layer.                      *)
Try(found, Do(_)) == IF found.errno # "ok" THEN Refuse(found.errno, fs) ELSE Do(found)
After(r, Do(_)) == IF r.errno # "ok" THEN r ELSE Do(r)

(* parent_of: nothing is copied up by a call that may yet fail. *)
Where(from, path, follow) ==
    After(ResolveParent(fs, from, path, follow),
          LAMBDA at : IF IsWritable(at.v) THEN at ELSE Fails("EROFS"))
Target(at) == LookupIn(fs, at.v, at.name)
Exists(at) == Target(at) # NoNode

(* copy_up_path: by the name, wherever a link takes it. *)
CopiedAt(up, n) == IF n = NoNode THEN Refuse("ENOENT", up) ELSE Done(up) @@ [v |-> Vnode(0, n)]
CopyUpPath(from, path, follow) ==
    Try(Where(from, path, follow), LAMBDA at :
        AtCopy(CopyUpChild(fs, at.v.n, at.name), at.v.n,
               LAMBDA up, d : CopiedAt(up, Lookup(up, d, at.name))))

\* Mutant: the directory is copied up to be looked in.
MakeNodeCopying(from, path, kind, target) ==
    Try(Where(from, path, FALSE), LAMBDA at :
        IF Exists(at) THEN Refuse("EEXIST", CopyUp(fs, at.v.n))
        ELSE Done(Create(fs, at.v.n, at.name, kind, target)))

(* make_directory and make_symlink *)
MakeNode(from, path, kind, target) ==
    Try(Where(from, path, FALSE), LAMBDA at :
        IF Exists(at) THEN Refuse("EEXIST", fs)
        ELSE Done(Create(fs, at.v.n, at.name, kind, target)))

(* remove: unlink and rmdir refuse each other's argument. *)
Removed(at, target, directory) ==
    IF MountedOn(target) # {} THEN Refuse("EBUSY", fs)
    ELSE IF directory /\ ~IsDirectory(fs, target) THEN Refuse("ENOTDIR", fs)
    ELSE IF directory /\ ~IsEmpty(fs, target.n) THEN Refuse("ENOTEMPTY", fs)
    ELSE IF ~directory /\ IsDirectory(fs, target) THEN Refuse("EISDIR", fs)
    ELSE Done(Reclaim(Unlink(fs, at.v.n, at.name)))
RemoveName(from, path, directory) ==
    IF ~directory /\ Final(path) = Dot THEN Refuse("EISDIR", fs)
    ELSE Try(Where(from, path, FALSE), LAMBDA at :
        IF ~Exists(at) THEN Refuse("ENOENT", fs)
        ELSE Removed(at, Vnode(0, Target(at)), directory))

(* add_link: a trailing link is the thing linked unless it is followed.    *)
AddLink(from, path, newFrom, newPath, follow) ==
    Try(Resolve(fs, from, path, follow, FALSE), LAMBDA source :
        IF IsDirectory(fs, source.v) THEN Refuse("EPERM", fs)
        ELSE Try(Where(newFrom, newPath, FALSE), LAMBDA at :
            IF at.v.mount # source.v.mount THEN Refuse("EXDEV", fs)
            ELSE IF Exists(at) THEN Refuse("EEXIST", fs)
            ELSE After(CopyUpPath(from, path, follow), LAMBDA copied :
                Done(Link(copied.fs, at.v.n, at.name, copied.v.n)))))

(* move_name: every check before the first change. *)
RefusesOnto(isDir, existing) ==
    IF isDir /\ ~IsDirectory(fs, existing) THEN "ENOTDIR"
    ELSE IF ~isDir /\ IsDirectory(fs, existing) THEN "EISDIR"
    ELSE IF isDir /\ ~IsEmpty(fs, existing.n) THEN "ENOTEMPTY" ELSE "ok"
MovedTo(at, to, source, existing, isDir) ==
    IF MountedOn(source) # {} THEN Refuse("EBUSY", fs)
    ELSE IF isDir /\ ShadowsLower(fs, source.n) THEN Refuse("EXDEV", fs)
    ELSE IF isDir /\ IsAncestor(fs, source, to.v) THEN Refuse("EINVAL", fs)
    ELSE IF existing = source THEN Done(fs)
    ELSE Try([errno |-> IF Exists(to) THEN RefusesOnto(isDir, existing) ELSE "ok"], LAMBDA ok :
        Done(Reclaim(Rename(CopyUp(CopyUp(fs, at.v.n), to.v.n),
                            at.v.n, at.name, to.v.n, to.name))))
MoveName(from, path, newFrom, newPath) ==
    Try(Where(from, path, FALSE), LAMBDA at :
        IF ~Exists(at) THEN Refuse("ENOENT", fs)
        ELSE Try(Where(newFrom, newPath, FALSE), LAMBDA to :
            MovedTo(at, to, Vnode(0, Target(at)), Vnode(0, Target(to)),
                    IsDirectory(fs, Vnode(0, Target(at))))))

(* truncate_vnode, of a file that is upper already. *)
TruncateVnode(layer, v, length) ==
    IF Kind(layer, v.n) = "directory" THEN Refuse("EISDIR", layer)
    ELSE IF Kind(layer, v.n) # "file" THEN Done(layer)
    ELSE IF ~IsUpper(v.n) THEN Refuse("EROFS", layer)
    ELSE IF Node(layer, v.n).released THEN Refuse("EINVAL", layer)
    ELSE IF ~Fits(length) THEN Refuse("EFBIG", layer)
    ELSE Done(SetData(layer, v.n, Truncated(Node(layer, v.n).data, length)))

(* truncate_path *)
TruncatePath(from, path, length) ==
    Try(Resolve(fs, from, path, TRUE, FALSE), LAMBDA found :
        IF IsDirectory(fs, found.v) THEN Refuse("EISDIR", fs)
        ELSE IF InodeOf(fs, found.v).kind # "file" THEN Done(fs)
        ELSE After(CopyUpPath(from, path, TRUE), LAMBDA copied :
            TruncateVnode(copied.fs, copied.v, length)))

(* copy_up_for_change: a directory knows its way up, a file needs a path.  *)
CopyUpForChange(from, path, v, follow) ==
    IF IsUpper(v.n) /\ v.mount = 0 THEN Done(fs) @@ [v |-> v]
    ELSE IF ~IsWritable(v) THEN Refuse("EROFS", fs)
    ELSE IF IsDirectory(fs, v)
         THEN InCopy(fs, v.n, LAMBDA up, d : Done(up) @@ [v |-> Vnode(0, d)])
    ELSE CopyUpPath(from, path, follow)

(* fchmodat.  chown copies up without a path, which a lower file refuses.  *)
WithMode(up, mode) == After(up, LAMBDA copy : Done(SetMode(copy.fs, copy.v.n, mode)))
ChangeMode(from, path, mode) ==
    Try(Resolve(fs, from, path, TRUE, FALSE), LAMBDA found :
        WithMode(CopyUpForChange(from, path, found.v, TRUE), mode))

ChangeOwner(from, path, owner) ==
    Try(Resolve(fs, from, path, TRUE, FALSE), LAMBDA found :
        IF ~IsWritable(found.v) THEN Refuse("EROFS", fs)
        ELSE InCopy(fs, found.v.n, LAMBDA up, n :
            IF IsUpper(n) THEN Done(SetOwner(up, n, owner)) ELSE Refuse("EINVAL", fs)))

-----------------------------------------------------------------------------
(* openat.  A missing file is created under the name itself, link or not;  *)
(* one that will change is copied up while its path is in hand; the        *)
(* descriptor is taken last, when the file is made or emptied already.     *)
Changes(flags) == flags.access # "r" \/ flags.trunc

MadeFile(up) == Done(up) @@ [v |-> Vnode(0, Newest(up))]
CreateFile(from, path, flags) ==
    IF flags.directory THEN Refuse("EINVAL", fs)
    ELSE Try(Where(from, path, FALSE), LAMBDA at :
        MadeFile(Create(fs, at.v.n, at.name, "file", <<>>)))

OpenToChange(from, path, flags) ==
    After(CopyUpPath(from, path, TRUE), LAMBDA copied :
        IF ~flags.trunc THEN copied
        ELSE TruncateVnode(copied.fs, copied.v, 0) @@ [v |-> copied.v])

OpenFound(from, path, flags, v) ==
    LET kind == InodeOf(fs, v).kind
    IN  IF flags.nofollow /\ kind = "link" /\ ~flags.path THEN Refuse("ELOOP", fs)
        ELSE IF flags.create /\ flags.excl THEN Refuse("EEXIST", fs)
        ELSE IF flags.path THEN Done(fs) @@ [v |-> v]
        ELSE IF kind = "directory" /\ flags.access # "r" THEN Refuse("EISDIR", fs)
        ELSE IF kind # "device" /\ Changes(flags) /\ ~IsWritable(v) THEN Refuse("EROFS", fs)
        ELSE IF Changes(flags) /\ kind \notin {"directory", "device"}
             THEN OpenToChange(from, path, flags)
        ELSE Done(fs) @@ [v |-> v]

OpenFile(from, path, flags) ==
    Given(Resolve(fs, from, path, ~flags.nofollow, flags.directory), LAMBDA found :
        IF found.errno = "ENOENT" /\ flags.create /\ ~flags.path
        THEN CreateFile(from, path, flags)
        ELSE IF found.errno # "ok" THEN Refuse(found.errno, fs)
        ELSE OpenFound(from, path, flags, found.v))

Opened(v, flags) ==
    [v |-> v, access |-> flags.access, append |-> flags.append, path |-> flags.path,
     offset |-> 0, resume |-> NoName, seen |-> <<>>, kept |-> {}, ended |-> FALSE]

(* write_file and write_regular: an appending write goes where the file    *)
(* ends now.  A positioned one asks whether the descriptor is O_PATH and   *)
(* ignores O_APPEND; an ordinary one does not ask.                         *)
WriteFile(fd, offset, bytes) ==
    LET v == VnodeOf(fd)
    IN  IF File(fd).access = "r" \/ IsDirectory(fs, v) THEN Refuse("EBADF", fs)
        ELSE IF InodeOf(fs, v).kind # "file" THEN Refuse("ENODEV", fs)
        ELSE IF ~IsUpper(v.n) THEN Refuse("EBADF", fs)
        ELSE IF ~Fits(offset + Len(bytes)) THEN Refuse("EFBIG", fs)
        ELSE IF Node(fs, v.n).released THEN Refuse("EINVAL", fs)
        ELSE Done(SetData(fs, v.n, Overwritten(Node(fs, v.n).data, offset, bytes)))
WriteOffset(fd) ==
    IF File(fd).append THEN Len(Contents(fs, VnodeOf(fd).n)) ELSE File(fd).offset
Pwritten(fd, offset, bytes) ==
    IF File(fd).path THEN Refuse("EBADF", fs) ELSE WriteFile(fd, offset, bytes)

(* truncate_descriptor *)
TruncateFd(fd, length) ==
    IF File(fd).path THEN Refuse("EBADF", fs)
    ELSE IF File(fd).access = "r" THEN Refuse("EINVAL", fs)
    ELSE TruncateVnode(fs, VnodeOf(fd), length)

(* fchmod: a read-only descriptor on the image has no way back to a name,  *)
(* and is refused by name rather than with an errno.                       *)
ChangeModeFd(fd, mode) ==
    LET v == VnodeOf(fd)
    IN  IF File(fd).path THEN Refuse("EBADF", fs)
        ELSE IF IsWritable(v) /\ ~IsUpper(v.n) /\ ~IsDirectory(fs, v) THEN Refuse("fault", fs)
        ELSE WithMode(CopyUpForChange(v, <<Dot>>, v, TRUE), mode)

\* Mutant: a scan resumes at a place, whatever it resumes after.
ShownByPlace(file) ==
    LET names == EntriesOf(fs, file.v)
        skip  == AtLeast(file.offset - 2, 0)
    IN  SelectSeq(<<[name |-> Dot, at |-> 0], [name |-> DotDot, at |-> 1]>>,
                  LAMBDA e : e.at >= file.offset)
        \o [i \in 1 .. AtLeast(Len(names) - skip, 0) |->
               [name |-> names[skip + i], at |-> 1 + skip + i]]

(* getdents64: the entries a call would show from here on, each with its   *)
(* place.  A scan that has a name resumes after it, whatever came or went; *)
(* one that has none counts from its offset.                               *)
Resuming(file) == file.offset # 0 /\ file.resume # NoName
ShownOf(file, names) ==
    LET entries == [i \in DOMAIN names |-> [name |-> names[i], at |-> i + 1]]
        skip    == AtLeast(file.offset - 2, 0)
        synthetic == SelectSeq(<<[name |-> Dot, at |-> 0], [name |-> DotDot, at |-> 1]>>,
                               LAMBDA e : e.at >= file.offset)
    IN  IF Resuming(file) THEN SelectSeq(entries, LAMBDA e : e.name > file.resume)
        ELSE synthetic \o [i \in 1 .. AtLeast(Len(names) - skip, 0) |->
                              [name |-> names[skip + i], at |-> 1 + 2 * skip + i]]
Shown(file) == ShownOf(file, EntriesOf(fs, file.v))

(* What a call that shows a batch leaves in the description, of a          *)
(* directory that lists so many entries.                                   *)
FirstBatch(shown) == SubSeq(shown, 1, IF Len(shown) < Batch THEN Len(shown) ELSE Batch)
NamesIn(batch) ==
    SelectSeq([i \in DOMAIN batch |-> batch[i].name], LAMBDA n : n \notin {Dot, DotDot})
PlaceAfter(file, batch, length) ==
    IF batch # <<>> THEN Final(batch).at + 1
    ELSE IF Resuming(file) THEN 2 + length ELSE file.offset + length
ScannedBatch(file, batch, names, listed) ==
    [file EXCEPT !.offset = PlaceAfter(file, batch, Len(listed)),
                 !.resume = IF names = <<>> THEN @ ELSE Final(names),
                 !.seen = (IF file.offset = 0 THEN <<>> ELSE @) \o names,
                 !.kept = IF file.offset = 0 THEN Range(listed) ELSE @,
                 !.ended = batch = <<>>]
Scanned(file) ==
    Given(FirstBatch(Shown(file)), LAMBDA batch :
        ScannedBatch(file, batch, NamesIn(batch), EntriesOf(fs, file.v)))

-----------------------------------------------------------------------------
(* The directories a relative path may start from. *)
IsOpenDir(i) == IsDirectory(fs, descriptions[i].v)
Starts == {cwd} \cup {descriptions[i].v : i \in {j \in DOMAIN descriptions : IsOpenDir(j)}}

\* A directory that is where it was, under the number it had.
Current(v) ==
    v.mount # 0 \/ (Promote(fs, v.n) = v.n /\ AbsolutePath(fs, v).errno = "ok")

\* Where a path starts matters to a relative one only.
From(path) == IF path[1] = Root THEN {TheRoot} ELSE Starts
Sensible(from, path) == Wild \/ path[1] = Root \/ Current(from)

\* A scan's ghost: of the names there at its start, those there ever since.
Real(layer, v) == IF v.mount = 0 THEN [v EXCEPT !.n = Promote(layer, @)] ELSE v
Watched(layer, files) ==
    [i \in DOMAIN files |->
        IF ~IsDirectory(layer, files[i].v) THEN files[i]
        ELSE [files[i] EXCEPT !.kept =
                 {n \in @ : LookupIn(layer, Real(layer, files[i].v), n) # NoNode}]]

(* Where the names of the tree lead, and the tree of the image.  A         *)
(* directory and its copy are one object.                                  *)
Object(id, inode) ==
    [id |-> id, kind |-> inode.kind, mode |-> inode.mode, owner |-> inode.owner,
     data |-> inode.data, target |-> inode.target]
Identity(layer, n) ==
    IF IsUpper(n) /\ Node(layer, n).lower # NoNode THEN Node(layer, n).lower ELSE n

Reached(layer) ==
    LET below[n \in Nat, depth \in Nat] ==
          IF ~IsDir(layer, n) \/ depth = 0 THEN {}
          ELSE UNION {LET child == Lookup(layer, n, name)
                      IN  {[path |-> <<name>>, n |-> child]} \cup
                          {[path |-> <<name>> \o e.path, n |-> e.n] : e \in below[child, depth - 1]}
                      : name \in Range(Listing(layer, n))}
    IN  below[Top, Newest(layer)]
TreeOf(layer) == Given(Reached(layer), LAMBDA reached :
    [p \in {e.path : e \in reached} |->
        Given((CHOOSE e \in reached : e.path = p).n,
              LAMBDA n : Object(Identity(layer, n), Inode(layer, n)))])

Leaves(result, files) == \E r \in {result} :
    /\ Len(r.fs.nodes) <= menu.nodes
    /\ fs' = r.fs
    /\ descriptions' = Watched(r.fs, files)
    /\ refused' = (r.errno # "ok")
    /\ tree' = TreeOf(r.fs)
    /\ UNCHANGED menu

\* A call that moves no descriptor.
Settles(r) == Leaves(r, descriptions) /\ UNCHANGED <<cwd, descriptors>>

Init ==
    /\ menu \in Menus
    /\ fs = Fresh
    /\ cwd = TheRoot
    /\ descriptors = [fd \in {} |-> 0]
    /\ descriptions = [i \in {} |-> 0]
    /\ refused = FALSE
    /\ tree = TreeOf(Fresh)

Mkdir(from, path) ==
    "mkdir" \in menu.calls /\ Sensible(from, path) /\ Settles(MakeNode(from, path, "directory", <<>>))

Symlink(from, path) == \E target \in Targets :
    "symlink" \in menu.calls /\ Sensible(from, path) /\ Settles(MakeNode(from, path, "link", target))

Unlinkat(from, path) == \E directory \in BOOLEAN :
    "unlink" \in menu.calls /\ Sensible(from, path) /\ Settles(RemoveName(from, path, directory))

Linkat(from, path) == \E newPath \in menu.paths, follow \in BOOLEAN : \E newFrom \in From(newPath) :
    /\ "link" \in menu.calls /\ Sensible(from, path) /\ Sensible(newFrom, newPath)
    /\ Settles(AddLink(from, path, newFrom, newPath, follow))

Renameat(from, path) == \E newPath \in menu.paths : \E newFrom \in From(newPath) :
    /\ "rename" \in menu.calls /\ Sensible(from, path) /\ Sensible(newFrom, newPath)
    /\ Settles(MoveName(from, path, newFrom, newPath))

Truncate(from, path) == \E length \in Lengths :
    /\ "truncate" \in menu.calls /\ Sensible(from, path) /\ (Wild \/ Fits(length))
    /\ Settles(TruncatePath(from, path, length))

Chmod(from, path) == \E mode \in Modes :
    "chmod" \in menu.calls /\ Sensible(from, path) /\ Settles(ChangeMode(from, path, mode))

Chown(from, path) == \E owner \in Owners :
    "chown" \in menu.calls /\ Sensible(from, path) /\ Settles(ChangeOwner(from, path, owner))

(* FdTable::open: the lowest description and the lowest descriptor. *)
OpensLink(at) == at.errno = "ok" /\ IsWritable(at.v) /\ NamesLink(fs, at.v, at.name)

Openat(from, path) == \E flags \in Flags :
    /\ "open" \in menu.calls /\ Sensible(from, path)
    /\ Wild \/ (HasRoom /\ ~(flags.create /\ OpensLink(ResolveParent(fs, from, path, FALSE))))
    /\ \E r \in {OpenFile(from, path, flags)} :
         IF r.errno # "ok" THEN Settles(r)
         ELSE IF ~HasRoom THEN Settles(Refuse("EMFILE", r.fs))
         ELSE /\ Leaves(r, With(descriptions, Free(descriptions), Opened(r.v, flags)))
              /\ descriptors' = With(descriptors, Free(descriptors), Free(descriptions))
              /\ UNCHANGED cwd

Chdir(from, path) ==
    \E found \in {Resolve(fs, from, path, TRUE, TRUE)} :
        /\ "chdir" \in menu.calls /\ from \in {cwd, TheRoot} /\ Sensible(from, path)
        /\ Leaves(Done(fs), descriptions) /\ found.errno = "ok"
        /\ cwd' = found.v /\ UNCHANGED descriptors

ByPath == \E path \in menu.paths : \E from \in From(path) :
    \/ Mkdir(from, path) \/ Symlink(from, path) \/ Unlinkat(from, path)
    \/ Linkat(from, path) \/ Renameat(from, path) \/ Truncate(from, path)
    \/ Chmod(from, path) \/ Chown(from, path) \/ Openat(from, path) \/ Chdir(from, path)

-----------------------------------------------------------------------------
SetFile(fd, file) == [descriptions EXCEPT ![descriptors[fd]] = file]
Moved(fd, offset) == SetFile(fd, [File(fd) EXCEPT !.offset = offset])

(* FdTable::release: the last descriptor takes the description with it. *)
Drops(table, files, i) ==
    IF i \in Range(table) THEN files ELSE Without(files, i)

Close(fd) ==
    LET table == Without(descriptors, fd)
        files == Drops(table, descriptions, descriptors[fd])
    IN  /\ Leaves(Done(ReclaimAfterClose(fs, files, VnodeOf(fd))), files)
        /\ descriptors' = table /\ UNCHANGED cwd

Dup(fd) ==
    /\ "dup" \in menu.calls /\ HasRoom
    /\ descriptors' = With(descriptors, Free(descriptors), descriptors[fd])
    /\ Leaves(Done(fs), descriptions) /\ UNCHANGED cwd

(* dup2 and dup3: what the target was is closed, and nothing reclaimed. *)
Dup2(fd) == \E target \in DOMAIN descriptors \ {fd} :
    LET table == [descriptors EXCEPT ![target] = descriptors[fd]]
        files == Drops(table, descriptions, descriptors[target])
    IN  /\ "dup2" \in menu.calls /\ descriptors' = table
        /\ Wild \/ ReclaimAfterClose(fs, files, VnodeOf(target)) = fs
        /\ Leaves(Done(fs), files) /\ UNCHANGED cwd

(* read_at: what the file holds from the offset on. *)
Count(fd, offset, most) ==
    LET left == AtLeast(Len(Contents(fs, VnodeOf(fd).n)) - offset, 0)
    IN  IF left < most THEN left ELSE most
Readable(fd) ==
    /\ File(fd).access # "w" /\ ~File(fd).path
    /\ VnodeOf(fd).mount = 0 /\ Kind(fs, VnodeOf(fd).n) = "file"

Read(fd) ==
    /\ "read" \in menu.calls /\ Readable(fd)
    /\ Leaves(Done(fs), Moved(fd, File(fd).offset + Count(fd, File(fd).offset, 1)))
    /\ UNCHANGED <<cwd, descriptors>>

(* The description's position moves by what was written, from where it was *)
(* even when the bytes were appended.                                      *)
Write(fd) == \E v \in Values :
    LET r == WriteFile(fd, WriteOffset(fd), <<v>>)
    IN  /\ "write" \in menu.calls /\ UNCHANGED <<cwd, descriptors>>
        /\ Leaves(r, IF r.errno = "ok" THEN Moved(fd, File(fd).offset + 1) ELSE descriptions)

Pwrite(fd) == \E v \in Values, offset \in 0 .. MaxSize :
    "pwrite" \in menu.calls /\ Settles(Pwritten(fd, offset, <<v>>))

(* sendfile: a read of one and a write of the other. *)
SendFile(fd) == \E out \in DOMAIN descriptors :
    LET many  == Count(fd, File(fd).offset, MaxSize)
        bytes == SubSeq(Contents(fs, VnodeOf(fd).n), File(fd).offset + 1, File(fd).offset + many)
        r     == WriteFile(out, WriteOffset(out), bytes)
    IN  /\ "sendfile" \in menu.calls /\ Readable(fd) /\ descriptors[out] # descriptors[fd]
        /\ UNCHANGED <<cwd, descriptors>>
        /\ Leaves(r, IF r.errno # "ok" THEN descriptions
                     ELSE [Moved(fd, File(fd).offset + many) EXCEPT
                             ![descriptors[out]].offset = WriteOffset(out) + many])

Ftruncate(fd) == \E length \in Lengths :
    "ftruncate" \in menu.calls /\ Settles(TruncateFd(fd, length))

Fchmod(fd) == \E mode \in Modes : "fchmod" \in menu.calls /\ Settles(ChangeModeFd(fd, mode))

(* lseek: a directory forgets where its scan had got to. *)
Lseek(fd) == \E offset \in 0 .. MaxSize :
    LET dir == IsDirectory(fs, VnodeOf(fd))
    IN  /\ "lseek" \in menu.calls /\ (Wild \/ ~dir \/ offset = 0)
        /\ Leaves(Done(fs), SetFile(fd, [File(fd) EXCEPT !.offset = offset,
                                            !.resume = IF dir THEN NoName ELSE @]))
        /\ UNCHANGED <<cwd, descriptors>>

Getdents64(fd) ==
    /\ "getdents64" \in menu.calls /\ IsDirectory(fs, VnodeOf(fd)) /\ (Wild \/ Current(VnodeOf(fd)))
    /\ Leaves(Done(fs), SetFile(fd, Scanned(File(fd))))
    /\ UNCHANGED <<cwd, descriptors>>

Fchdir(fd) ==
    /\ "fchdir" \in menu.calls /\ IsDirectory(fs, VnodeOf(fd)) /\ cwd' = VnodeOf(fd)
    /\ Leaves(Done(fs), descriptions) /\ UNCHANGED descriptors

ByDescriptor == \E fd \in DOMAIN descriptors :
    \/ Close(fd) \/ Dup(fd) \/ Dup2(fd) \/ Read(fd) \/ Write(fd) \/ Pwrite(fd)
    \/ SendFile(fd) \/ Ftruncate(fd) \/ Fchmod(fd) \/ Lseek(fd) \/ Getdents64(fd) \/ Fchdir(fd)

Next == ByPath \/ ByDescriptor
Spec == Init /\ [][Next]_vars

-----------------------------------------------------------------------------
(* The types. *)
TypeOK ==
    /\ cwd.mount \in {0} \cup DOMAIN Mounts /\ refused \in BOOLEAN
    /\ DOMAIN descriptors \subseteq Fds
    /\ Range(descriptors) = DOMAIN descriptions
    /\ Len(fs.nodes) \in 1 .. menu.nodes
    /\ fs.orphaned = {}

UpperNodes == {Upper + i : i \in DOMAIN fs.nodes}
UpperDirs  == {n \in UpperNodes : IsDir(fs, n)}

(* The counts adjust keeps by difference are the ones a walk of the tree   *)
(* would find: a directory's entries and subdirectories, a file's names;   *)
(* and what a directory lists is what a lookup finds in it.                *)
NamesOf(n) == UNION {{<<d, name>> : name \in {m \in DOMAIN Node(fs, d).entries :
                                                Node(fs, d).entries[m] = n}} : d \in UpperDirs}
CountsAreTrue ==
    \A n \in UpperNodes :
        IF IsDir(fs, n)
        THEN /\ Node(fs, n).size = Len(Merge(fs, n))
             /\ Node(fs, n).nlink >= 1
             /\ Node(fs, n).nlink # 1 => Node(fs, n).nlink = 2 + Subdirectories(fs, n)
             /\ Range(Merge(fs, n)) = {m \in Names : Lookup(fs, n, m) # NoNode}
             /\ IsInjective(Merge(fs, n))
        ELSE Node(fs, n).nlink = Cardinality(NamesOf(n))

(* A file whose last name went keeps its bytes for as long as a descriptor *)
(* is on it, and gives them back no later than the last of them: what      *)
(* reclaim, reclaim_after_close and release decide between them.           *)
KeptWhileHeld ==
    \A n \in UpperNodes : ~IsDir(fs, n) =>
        /\ Node(fs, n).released => ~Holds(descriptions, n)
        /\ Node(fs, n).released <=> (Node(fs, n).nlink = 0 /\ ~Holds(descriptions, n))

(* A scan that has come to its end showed every name that was there from   *)
(* its first call on, and no name twice, whatever was made and removed     *)
(* between the calls: Resume and merged entries.                           *)
ListsSurvivors ==
    \A i \in DOMAIN descriptions :
        LET scan == descriptions[i]
        IN  /\ IsInjective(scan.seen)
            /\ scan.ended => scan.kept \subseteq Range(scan.seen)

(* A call that answers an errno has changed nothing: the comments of       *)
(* parent_of and move_name, because a copy-up renumbers a directory.       *)
RefusedChangesNothing ==
    [][refused' => UNCHANGED <<fs, cwd, descriptors, descriptions>>]_vars

TreeOfImage ==
    LET below[n \in DOMAIN Image] ==
          IF Image[n].kind # "directory" THEN {}
          ELSE UNION {{[path |-> <<name>>, n |-> Image[n].entries[name]]} \cup
                      {[path |-> <<name>> \o e.path, n |-> e.n] : e \in below[Image[n].entries[name]]}
                      : name \in DOMAIN Image[n].entries}
        at(p) == (CHOOSE e \in below[LowerRoot] : e.path = p).n
    IN  [p \in {e.path : e \in below[LowerRoot]} |-> Object(at(p), Image[at(p)])]

(* The overlay is a tree of names: each call that changes it makes,        *)
(* aliases, drops or moves one name, or changes one object, and every      *)
(* other name leads where it led, whatever was copied up on the way.       *)
Tree == INSTANCE NameTree WITH Start <- TreeOfImage
KeepsTree == Tree!Spec

(* What the code does not keep, for the instance that makes every call.    *)
(* An appending write leaves its description at the end of the file:       *)
(* syscall.rs, write.                                                      *)
AppendLandsAtTheEnd ==
    [][\A i \in DOMAIN descriptions \cap DOMAIN descriptions' :
          /\ descriptions[i].append /\ ~refused'
          /\ descriptions'[i].offset # descriptions[i].offset
          => descriptions'[i].offset = Len(Contents(fs', descriptions'[i].v.n))]_vars

(* A directory opened or entered before it was copied up names the one a   *)
(* listing shows: mount.rs, fs_inode.                                      *)
HandlesSeeTheirDirectory ==
    \A v \in Starts : v.mount = 0 =>
        \A name \in Names : LookupIn(fs, v, name) = LookupIn(fs, Real(fs, v), name)
=============================================================================
