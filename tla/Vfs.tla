-------------------------------- MODULE Vfs --------------------------------
(***************************************************************************)
(* The filesystem in memory as its callers see it: any sequence of calls   *)
(* of the operations declared in vfs.h, each with a path and a text of the *)
(* caller's choosing.  The kernel is single threaded, so a call is atomic. *)
(***************************************************************************)
EXTENDS VfsCheck

CONSTANTS Paths, \* the paths callers use
          Texts  \* the texts they write

ASSUME InputsAssumption ==
  /\ Paths \subseteq [root : BOOLEAN, comps : Seq(STRING)]
  /\ Texts \subseteq Seq(Bytes)

VARIABLES fs,    \* struct vfs
          reply  \* what the last call returned
vars == <<fs, reply>>

Do(outcome) == /\ fs' = outcome.fs
               /\ reply' = outcome.reply

Init == /\ fs = vfs_init(ZeroedFs)
        /\ reply = "OK"

Mkdir(path)  == Do(vfs_mkdir(fs, path))
Create(path) == Do(vfs_create(fs, path))
Chdir(path)  == Do(vfs_chdir(fs, path))
Remove(path) == Do(vfs_remove(fs, path))
Write(path, text)  == Do(vfs_write(fs, path, text))
AppendText(path, text) == Do(vfs_append(fs, path, text))
Move(from, to) == Do(vfs_move(fs, from, to))
Copy(from, to) == Do(vfs_copy(fs, from, to))

Next ==
  \/ \E path \in Paths : Mkdir(path)
  \/ \E path \in Paths : Create(path)
  \/ \E path \in Paths : Chdir(path)
  \/ \E path \in Paths : Remove(path)
  \/ \E path \in Paths, text \in Texts : Write(path, text)
  \/ \E path \in Paths, text \in Texts : AppendText(path, text)
  \/ \E from, to \in Paths : Move(from, to)
  \/ \E from, to \in Paths : Copy(from, to)

Spec == Init /\ [][Next]_vars

----------------------------------------------------------------------------
(* Properties *)

\* The filesystem is always a record of struct vfs's shape, every index in it
\* is in range, and a reply is a vfs_result.
TypeOK == /\ fs \in FsType
          /\ reply \in Results

\* No block belongs to two files, or twice to one: two owners would write over
\* each other (vfsblock.c, the loop of vfsblock_reserve).
NoSharedBlocks ==
  \A n, m \in Nodes, i, j \in Slots :
     /\ fs.nodes[n].blocks[i] # VFS_NONE
     /\ fs.nodes[n].blocks[i] = fs.nodes[m].blocks[j]
     => n = m /\ i = j

\* A block a node names is marked in the bitmap, so vfsblock_take cannot hand
\* it out again.
ClaimsAreMarked ==
  \A n \in Nodes, i \in Slots :
     fs.nodes[n].blocks[i] # VFS_NONE => fs.block_used[fs.nodes[n].blocks[i]]

\* The bitmap is what the files claim: the rebuild after a restart would find
\* the same one, so no block leaks and none is lost (vfsblock_rebuild).
BitmapIsWhatFilesClaim ==
  /\ rebuild_succeeds(fs)
  /\ vfsblock_rebuild(fs) = fs

\* Nothing the operations can build is an arrangement vfsdisk_sound calls
\* impossible, so a filesystem that is saved can always be loaded again.
AlwaysSound == vfsdisk_sound(fs)

\* No directory holds two entries of one name: the second could not be opened,
\* moved or deleted (vfs_child_named returns the first).
NamesAreUnique ==
  \A n, m \in Nodes \ {0} :
     /\ fs.nodes[n].used /\ fs.nodes[m].used
     /\ fs.nodes[n].parent = fs.nodes[m].parent
     /\ fs.nodes[n].name = fs.nodes[m].name
     => n = m

\* The tail of a file's last block, past its length, is zero: it never shows
\* what an earlier owner of the block wrote (vfsblock_take clears it).
TailsAreClear ==
  \A n \in Nodes, i \in Slots, o \in Offsets :
     /\ fs.nodes[n].blocks[i] # VFS_NONE
     /\ i * VFS_BLOCK + o >= fs.nodes[n].length
     => fs.blocks[fs.nodes[n].blocks[i]][o] = 0

\* An operation that succeeds and changes what a restart has to bring back
\* moves the counter the shell decides by whether to save (vfs.h, `changes').
SuccessIsCounted ==
  [][reply' = "OK" /\ Kept(fs') # Kept(fs) => fs'.changes # fs.changes]_vars
============================================================================
