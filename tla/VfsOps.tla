------------------------------ MODULE VfsOps -------------------------------
(***************************************************************************)
(* The operations of the filesystem: names and paths (vfspath.c), making   *)
(* entries (vfstree.c), files (vfsfile.c), removing, moving and copying    *)
(* (vfsmove.c).                                                            *)
(*                                                                         *)
(* The value of an operation is a record: the filesystem it leaves behind  *)
(* and the vfs_result it returns.  A path is [root |-> b, comps |-> s]:    *)
(* whether it starts with a slash, and the components between slashes,     *)
(* which are values of Names, ".", ".." or something vfs_usable_name       *)
(* refuses.                                                                *)
(***************************************************************************)
EXTENDS VfsBlock, Iteration

Results == {"OK", "NOT_FOUND", "EXISTS", "NOT_A_DIRECTORY", "IS_A_DIRECTORY",
            "NOT_EMPTY", "NO_SPACE", "TOO_BIG", "BAD_NAME"}

Did(fs, reply) == [fs |-> fs, reply |-> reply]

changed(fs) == [fs EXCEPT !.changes = (@ + 1) % CHANGES_MOD]

\* An empty filesystem.  Only what vfs_init assigns: a node it frees keeps the
\* rest of its fields, and `fs' is the memory it is given.
vfs_init(fs) ==
  [fs EXCEPT
    !.nodes = [n \in Nodes |->
        IF n = 0
        THEN [name |-> "", kind |-> "DIR", used |-> TRUE, parent |-> 0,
              first_child |-> VFS_NONE, next_sibling |-> VFS_NONE,
              length |-> 0, blocks |-> NoBlocks]
        ELSE [fs.nodes[n] EXCEPT !.used = FALSE, !.blocks = NoBlocks]],
    !.block_used = [b \in Blocks |-> FALSE],
    !.cwd = 0,
    !.changes = 0]

\* The kernel's static storage before anything has run: all zero bytes.
ZeroedFs ==
  [nodes |-> [n \in Nodes |->
      [name |-> "", kind |-> "DIR", used |-> FALSE, parent |-> 0,
       first_child |-> 0, next_sibling |-> 0, length |-> 0,
       blocks |-> [i \in Slots |-> 0]]],
   blocks |-> [b \in Blocks |-> [o \in Offsets |-> 0]],
   block_used |-> [b \in Blocks |-> FALSE],
   cwd |-> 0,
   changes |-> 0]

----------------------------------------------------------------------------
(* Lists of siblings *)

\* vfs_first_child and vfs_next_sibling: nothing follows a node not in use.
vfs_first_child(fs, dir) ==
  IF fs.nodes[dir].used THEN fs.nodes[dir].first_child ELSE VFS_NONE

vfs_next_sibling(fs, at) ==
  IF at \in Nodes /\ fs.nodes[at].used THEN fs.nodes[at].next_sibling ELSE VFS_NONE

\* The node met after k steps along the list of `dir'.
Child(fs, dir) ==
  Iterate([k \in Nat |-> [at \in Link |-> vfs_next_sibling(fs, at)]],
          vfs_first_child(fs, dir))

\* The first child with the name, and VFS_NONE when no child has it.
vfs_child_named(fs, dir, name) ==
  LET hits == {k \in Nodes : /\ Child(fs, dir)[k] # VFS_NONE
                             /\ fs.nodes[Child(fs, dir)[k]].name = name}
  IN  IF hits = {} THEN VFS_NONE
      ELSE Child(fs, dir)[CHOOSE k \in hits : \A j \in hits : k <= j]

\* The nodes reached from `first' by the loops of vfs_unlink_from_parent and
\* vfs_link_into, which follow next_sibling whatever it leads to.
Listed(fs, first) ==
  LET reached == Iterate([k \in Nat |-> [at \in Link |->
                            IF at = VFS_NONE THEN VFS_NONE
                            ELSE fs.nodes[at].next_sibling]],
                         first)
  IN  {n \in Nodes : \E k \in Nodes : reached[k] = n}

\* Takes an entry out of its parent's list without freeing it.
vfs_unlink_from_parent(fs, at) ==
  LET parent == fs.nodes[at].parent
      next == fs.nodes[at].next_sibling
      before == {n \in Listed(fs, fs.nodes[parent].first_child) :
                   fs.nodes[n].next_sibling = at}
  IN  IF fs.nodes[parent].first_child = at
      THEN [fs EXCEPT !.nodes[parent].first_child = next]
      ELSE [fs EXCEPT !.nodes = [n \in Nodes |->
              IF n \in before THEN [fs.nodes[n] EXCEPT !.next_sibling = next]
              ELSE fs.nodes[n]]]

\* Mutant: an entry that is moved takes the rest of its old list along.
LinkKeepsNext(fs, parent, at) ==
  LET placed == [fs EXCEPT !.nodes[at].parent = parent]
      first == placed.nodes[parent].first_child
      last == {n \in Listed(placed, first) :
                 placed.nodes[n].next_sibling = VFS_NONE}
  IN  IF first = VFS_NONE
      THEN [placed EXCEPT !.nodes[parent].first_child = at]
      ELSE [placed EXCEPT !.nodes = [n \in Nodes |->
              IF n \in last THEN [placed.nodes[n] EXCEPT !.next_sibling = at]
              ELSE placed.nodes[n]]]

\* Puts an entry at the end of a directory's list.
vfs_link_into(fs, parent, at) ==
  LET placed == [fs EXCEPT !.nodes[at].parent = parent,
                           !.nodes[at].next_sibling = VFS_NONE]
      first == placed.nodes[parent].first_child
      last == {n \in Listed(placed, first) :
                 placed.nodes[n].next_sibling = VFS_NONE}
  IN  IF first = VFS_NONE
      THEN [placed EXCEPT !.nodes[parent].first_child = at]
      ELSE [placed EXCEPT !.nodes = [n \in Nodes |->
              IF n \in last THEN [placed.nodes[n] EXCEPT !.next_sibling = at]
              ELSE placed.nodes[n]]]

----------------------------------------------------------------------------
(* Paths *)

\* One component of vfs_walk.  ".." is taken before the kind is looked at, so
\* it leads out of a file as well.
WalkInto(fs, at, comp) ==
  IF at = VFS_NONE THEN VFS_NONE
  ELSE IF comp = "." THEN at
  ELSE IF comp = ".." THEN fs.nodes[at].parent
  ELSE IF fs.nodes[at].kind # "DIR" THEN VFS_NONE
  ELSE vfs_child_named(fs, at, comp)

\* Where the first `count' components of a path lead, or VFS_NONE.
WalkTo(fs, path, count) ==
  Iterate([k \in Nat |-> [at \in Link |->
             IF k \in DOMAIN path.comps THEN WalkInto(fs, at, path.comps[k])
             ELSE at]],
          IF path.root THEN 0 ELSE fs.cwd)[count]

vfs_resolve(fs, path) == WalkTo(fs, path, Len(path.comps))

\* vfs_walk with parent_only set: the directory the last component is in, and
\* that component, the empty name when the path has none.
ParentOf(fs, path) ==
  WalkTo(fs, path, IF path.comps = << >> THEN 0 ELSE Len(path.comps) - 1)

LastName(path) ==
  IF path.comps = << >> THEN "" ELSE path.comps[Len(path.comps)]

vfs_usable_name(name) == name \in Names

\* Whether `maybe_parent' is `node' or anywhere above it.
is_within(fs, node, maybe_parent) ==
  \E k \in Nodes :
     maybe_parent = Iterate([i \in Nat |-> [at \in Nodes |->
                               IF at = 0 THEN 0 ELSE fs.nodes[at].parent]],
                            node)[k]

----------------------------------------------------------------------------
(* Making entries *)

FreeNodes(fs) == {n \in Nodes : n # 0 /\ ~fs.nodes[n].used}

free_node(fs) == CHOOSE n \in FreeNodes(fs) : \A m \in FreeNodes(fs) : n <= m

\* Mutant: the last component is not looked at.
PlaceWithAnyName(fs, path) ==
  LET parent == ParentOf(fs, path)
  IN  IF parent = VFS_NONE THEN "NOT_FOUND"
      ELSE IF fs.nodes[parent].kind # "DIR" THEN "NOT_A_DIRECTORY"
      ELSE IF vfs_child_named(fs, parent, LastName(path)) # VFS_NONE THEN "EXISTS"
      ELSE "OK"

\* Mutant: a name that is taken is given again.
PlaceTakenTwice(fs, path) ==
  LET parent == ParentOf(fs, path)
  IN  IF parent = VFS_NONE THEN "NOT_FOUND"
      ELSE IF fs.nodes[parent].kind # "DIR" THEN "NOT_A_DIRECTORY"
      ELSE IF ~vfs_usable_name(LastName(path)) THEN "BAD_NAME"
      ELSE "OK"

\* Why no entry can be put at the end of this path: the checks vfs_make and
\* vfs_move share.
PlaceRefused(fs, path) ==
  LET parent == ParentOf(fs, path)
  IN  IF parent = VFS_NONE THEN "NOT_FOUND"
      ELSE IF fs.nodes[parent].kind # "DIR" THEN "NOT_A_DIRECTORY"
      ELSE IF ~vfs_usable_name(LastName(path)) THEN "BAD_NAME"
      ELSE IF vfs_child_named(fs, parent, LastName(path)) # VFS_NONE THEN "EXISTS"
      ELSE "OK"

vfs_make(fs, path, kind) ==
  LET parent == ParentOf(fs, path)
      made == free_node(fs)
      filled == [fs EXCEPT !.nodes[made] =
                   [name |-> LastName(path), kind |-> kind, used |-> TRUE,
                    parent |-> parent, first_child |-> VFS_NONE,
                    next_sibling |-> VFS_NONE, length |-> 0,
                    blocks |-> NoBlocks]]
  IN  IF PlaceRefused(fs, path) # "OK" THEN Did(fs, PlaceRefused(fs, path))
      ELSE IF FreeNodes(fs) = {} THEN Did(fs, "NO_SPACE")
      ELSE Did(changed(vfs_link_into(filled, parent, made)), "OK")

vfs_mkdir(fs, path)  == vfs_make(fs, path, "DIR")
vfs_create(fs, path) == vfs_make(fs, path, "FILE")

vfs_chdir(fs, path) ==
  LET at == vfs_resolve(fs, path)
  IN  IF at = VFS_NONE THEN Did(fs, "NOT_FOUND")
      ELSE IF fs.nodes[at].kind # "DIR" THEN Did(fs, "NOT_A_DIRECTORY")
      ELSE Did([fs EXCEPT !.cwd = at], "OK")

----------------------------------------------------------------------------
(* Files *)

\* Finds a file to write to, making it if it is not there, ...
file_for_writing(fs, path) ==
  LET found == vfs_resolve(fs, path)
  IN  IF found = VFS_NONE THEN vfs_make(fs, path, "FILE")
      ELSE IF fs.nodes[found].kind # "FILE" THEN Did(fs, "IS_A_DIRECTORY")
      ELSE Did(fs, "OK")

\* ... and the node it hands back through `out' when it is not refused.
FileWritten(fs, path) ==
  LET found == vfs_resolve(fs, path)
  IN  IF found = VFS_NONE THEN free_node(fs) ELSE found

\* vfs_append_bytes once the file is there.  Its other refusal, a byte with no
\* block to go in, cannot happen once the reserve has succeeded.
AppendTo(fs, at, data) ==
  LET length == fs.nodes[at].length + Len(data)
      reserved == vfsblock_reserve(fs, at, vfs_blocks_for(length))
  IN  IF length > VFS_FILE_MAX THEN Did(fs, "TOO_BIG")
      ELSE IF ~reserve_succeeds(fs, at, vfs_blocks_for(length))
      THEN Did(reserved, "NO_SPACE")
      ELSE Did(changed(put_bytes(reserved, at, data)), "OK")

vfs_append(fs, path, data) ==
  LET found == file_for_writing(fs, path)
  IN  IF found.reply # "OK" THEN found
      ELSE AppendTo(found.fs, FileWritten(fs, path), data)

\* Replacing: the old contents go back to the pool before the new ones are
\* asked for.  vfs_append resolves the path again and finds the same file.
vfs_write(fs, path, data) ==
  LET found == file_for_writing(fs, path)
      at == FileWritten(fs, path)
  IN  IF found.reply # "OK" THEN found
      ELSE AppendTo(vfsblock_release(found.fs, at), at, data)

----------------------------------------------------------------------------
(* Removing, moving, copying *)

\* Mutant: the node goes and its blocks stay marked.
RemoveLeaks(fs, at) ==
  changed([vfs_unlink_from_parent(fs, at)
             EXCEPT !.nodes[at].blocks = NoBlocks, !.nodes[at].used = FALSE])

\* Mutant: a removal is not counted as a change.
RemoveUncounted(fs, at) ==
  [vfsblock_release(vfs_unlink_from_parent(fs, at), at)
     EXCEPT !.nodes[at].used = FALSE]

\* What vfs_remove does once nothing stands in its way.
RemoveNode(fs, at) ==
  changed([vfsblock_release(vfs_unlink_from_parent(fs, at), at)
             EXCEPT !.nodes[at].used = FALSE])

vfs_remove(fs, path) ==
  LET at == vfs_resolve(fs, path)
  IN  IF at = VFS_NONE THEN Did(fs, "NOT_FOUND")
      ELSE IF at = 0 THEN Did(fs, "BAD_NAME")
      ELSE IF \/ fs.nodes[at].kind = "DIR" /\ fs.nodes[at].first_child # VFS_NONE
              \/ is_within(fs, fs.cwd, at)
      THEN Did(fs, "NOT_EMPTY")
      ELSE Did(RemoveNode(fs, at), "OK")

vfs_move(fs, from, to) ==
  LET at == vfs_resolve(fs, from)
      parent == ParentOf(fs, to)
      renamed == [vfs_unlink_from_parent(fs, at)
                    EXCEPT !.nodes[at].name = LastName(to)]
  IN  IF at = VFS_NONE THEN Did(fs, "NOT_FOUND")
      ELSE IF at = 0 THEN Did(fs, "BAD_NAME")
      ELSE IF PlaceRefused(fs, to) # "OK" THEN Did(fs, PlaceRefused(fs, to))
      ELSE IF is_within(fs, parent, at) THEN Did(fs, "BAD_NAME")
      ELSE Did(changed(vfs_link_into(renamed, parent, at)), "OK")

\* Mutant: a copy the pool cannot hold leaves its empty destination behind.
CopyLeft(fs, from, to) ==
  LET at == vfs_resolve(fs, from)
      created == vfs_make(fs, to, "FILE")
      made == free_node(fs)
      wanted == vfs_blocks_for(fs.nodes[at].length)
      reserved == vfsblock_reserve(created.fs, made, wanted)
  IN  IF at = VFS_NONE THEN Did(fs, "NOT_FOUND")
      ELSE IF fs.nodes[at].kind # "FILE" THEN Did(fs, "IS_A_DIRECTORY")
      ELSE IF vfs_resolve(fs, to) # VFS_NONE THEN Did(fs, "EXISTS")
      ELSE IF created.reply # "OK" THEN created
      ELSE IF ~reserve_succeeds(created.fs, made, wanted)
      THEN Did(reserved, "NO_SPACE")
      ELSE Did(put_bytes(reserved, made, contents(fs, at)), "OK")

\* A copy the pool cannot hold takes the name it made away again.
vfs_copy(fs, from, to) ==
  LET at == vfs_resolve(fs, from)
      created == vfs_make(fs, to, "FILE")
      made == free_node(fs)
      wanted == vfs_blocks_for(fs.nodes[at].length)
      reserved == vfsblock_reserve(created.fs, made, wanted)
  IN  IF at = VFS_NONE THEN Did(fs, "NOT_FOUND")
      ELSE IF fs.nodes[at].kind # "FILE" THEN Did(fs, "IS_A_DIRECTORY")
      ELSE IF vfs_resolve(fs, to) # VFS_NONE THEN Did(fs, "EXISTS")
      ELSE IF created.reply # "OK" THEN created
      ELSE IF ~reserve_succeeds(created.fs, made, wanted)
      THEN Did(vfs_remove(reserved, to).fs, "NO_SPACE")
      ELSE Did(put_bytes(reserved, made, contents(fs, at)), "OK")

----------------------------------------------------------------------------

\* What a restart has to bring back: the nodes in use and what they hold.
Kept(f) ==
  [n \in {m \in Nodes : f.nodes[m].used} |->
     [name |-> f.nodes[n].name, kind |-> f.nodes[n].kind,
      parent |-> f.nodes[n].parent, text |-> contents(f, n)]]
============================================================================
