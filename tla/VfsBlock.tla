----------------------------- MODULE VfsBlock ------------------------------
(***************************************************************************)
(* The record every filesystem operation works on (struct vfs, vfs.h) and  *)
(* the pool of fixed blocks the contents of files live in (vfsblock.c).    *)
(*                                                                         *)
(* An operator with the name of a C function is that function: its `fs'    *)
(* argument is the filesystem before the call and its value the filesystem *)
(* after it, or what the function returns when it changes nothing.         *)
(***************************************************************************)
EXTENDS Integers, Sequences, FiniteSets

CONSTANTS VFS_MAX_NODES,     \* 96 in the code
          VFS_MAX_BLOCKS,    \* 1024
          VFS_DIRECT_BLOCKS, \* 64
          VFS_BLOCK,         \* 512 bytes
          Names,             \* the names vfs_usable_name accepts
          Bytes,             \* the bytes a caller writes, the zero byte apart
          CHANGES_MOD        \* 2^32: `changes' is a uint32_t and wraps

ASSUME SizesAssumption ==
  /\ VFS_MAX_NODES \in Nat \ {0}
  /\ VFS_MAX_BLOCKS \in Nat
  /\ VFS_DIRECT_BLOCKS \in Nat
  /\ VFS_BLOCK \in Nat \ {0}
  /\ CHANGES_MOD \in Nat \ {0}

\* vfs_usable_name refuses the empty name, "." and "..".
ASSUME NamesAssumption == {"", ".", ".."} \cap Names = {}

\* What a cleared block is filled with ('\0') is no byte a caller counts as text.
ASSUME BytesAssumption == 0 \notin Bytes

VFS_NONE == -1
VFS_FILE_MAX == VFS_BLOCK * VFS_DIRECT_BLOCKS

Nodes  == 0 .. VFS_MAX_NODES - 1
Blocks == 0 .. VFS_MAX_BLOCKS - 1
Slots  == 0 .. VFS_DIRECT_BLOCKS - 1
Offsets == 0 .. VFS_BLOCK - 1
Link   == Nodes \cup {VFS_NONE}
Kinds  == {"DIR", "FILE"}

\* struct vfs_node: the string fields are abstracted to values of Names.
NodeType ==
  [name : Names \cup {""}, kind : Kinds, used : BOOLEAN, parent : Nodes,
   first_child : Link, next_sibling : Link, length : Nat,
   blocks : [Slots -> Blocks \cup {VFS_NONE}]]

\* struct vfs.
FsType ==
  [nodes : [Nodes -> NodeType],
   blocks : [Blocks -> [Offsets -> Bytes \cup {0}]],
   block_used : [Blocks -> BOOLEAN],
   cwd : Nodes,
   changes : 0 .. CHANGES_MOD - 1]

----------------------------------------------------------------------------
(* The pool *)

vfs_blocks_for(length) == (length + VFS_BLOCK - 1) \div VFS_BLOCK

Free(fs) == {b \in Blocks : ~fs.block_used[b]}

\* Mutant: the block taken is not marked, so the next call finds it again.
TakenUnmarked(fs, k) == CHOOSE b \in Free(fs) : \A c \in Free(fs) : b <= c

\* What the (k+1)st call of vfsblock_take in a row hands out: the scan takes
\* the lowest free block each time.
taken(fs, k) ==
  CHOOSE b \in Free(fs) : Cardinality({c \in Free(fs) : c < b}) = k

vfsblock_held(node) == Cardinality({i \in Slots : node.blocks[i] # VFS_NONE})

NoBlocks == [i \in Slots |-> VFS_NONE]

\* Mutant: the blocks go back to the pool and the node goes on naming them.
ReleaseKeepsClaims(fs, at) ==
  [fs EXCEPT
    !.block_used = [b \in Blocks |->
        fs.block_used[b] /\ \A i \in Slots : fs.nodes[at].blocks[i] # b],
    !.nodes[at].length = 0]

\* Everything a file holds goes back to the pool (vfsblock_give).
vfsblock_release(fs, at) ==
  [fs EXCEPT
    !.block_used = [b \in Blocks |->
        fs.block_used[b] /\ \A i \in Slots : fs.nodes[at].blocks[i] # b],
    !.nodes[at] = [@ EXCEPT !.blocks = NoBlocks, !.length = 0]]

\* Whether vfsblock_reserve returns true.
reserve_succeeds(fs, at, wanted) ==
  /\ wanted <= VFS_DIRECT_BLOCKS
  /\ wanted - vfsblock_held(fs.nodes[at]) <= Cardinality(Free(fs))

\* The empty slots of a node before slot i: the block that slot i is given is
\* the one taken after that many others.
EmptyBefore(node, i) ==
  Cardinality({j \in Slots : j < i /\ node.blocks[j] = VFS_NONE})

\* Mutant: blocks are handed out as their last owner left them.
NotCleared(fs, given) == fs.blocks

\* vfsblock_take clears what it hands out.
Cleared(fs, given) ==
  [b \in Blocks |-> IF b \in given THEN [o \in Offsets |-> 0] ELSE fs.blocks[b]]

\* All or nothing.  A request that fails part way has still cleared every
\* block it took before giving it back.
vfsblock_reserve(fs, at, wanted) ==
  LET node == fs.nodes[at]
      need == wanted - vfsblock_held(node)
      gets(i) == node.blocks[i] = VFS_NONE /\ EmptyBefore(node, i) < need
      given == {taken(fs, EmptyBefore(node, i)) : i \in {j \in Slots : gets(j)}}
      cleared == IF reserve_succeeds(fs, at, wanted) THEN given
                 ELSE IF wanted <= VFS_DIRECT_BLOCKS THEN Free(fs) ELSE {}
  IN  IF reserve_succeeds(fs, at, wanted)
      THEN [fs EXCEPT
             !.blocks = Cleared(fs, cleared),
             !.block_used = [b \in Blocks |-> fs.block_used[b] \/ b \in given],
             !.nodes[at] = [@ EXCEPT !.blocks =
                [i \in Slots |-> IF gets(i) THEN taken(fs, EmptyBefore(node, i))
                                 ELSE node.blocks[i]]]]
      ELSE [fs EXCEPT !.blocks = Cleared(fs, cleared)]

----------------------------------------------------------------------------
(* Contents *)

\* vfsblock_at: where byte `offset' of a file lives.
vfsblock_at(node, offset) ==
  <<node.blocks[offset \div VFS_BLOCK], offset % VFS_BLOCK>>

\* What vfs_read copies out of a file, given room for all of it.
contents(fs, at) ==
  [i \in 1 .. fs.nodes[at].length |->
     LET where == vfsblock_at(fs.nodes[at], i - 1)
     IN  fs.blocks[where[1]][where[2]]]

\* The loop of vfs_append_bytes and of vfs_copy: `data' put after the last byte
\* of a file that already holds the blocks for it.
put_bytes(fs, at, data) ==
  LET node == fs.nodes[at]
      goes(b, o) == {i \in DOMAIN data :
                       vfsblock_at(node, node.length + i - 1) = <<b, o>>}
  IN  [fs EXCEPT
        !.blocks = [b \in Blocks |-> [o \in Offsets |->
            IF goes(b, o) = {} THEN fs.blocks[b][o]
            ELSE data[CHOOSE i \in goes(b, o) : TRUE]]],
        !.nodes[at] = [node EXCEPT !.length = @ + Len(data)]]

----------------------------------------------------------------------------
(* The bitmap worked out from what the files claim *)

Claims(fs, b) ==
  {c \in Nodes \X Slots : fs.nodes[c[1]].blocks[c[2]] = b}

\* Whether vfsblock_rebuild returns true: no block is claimed twice, past the
\* end of the pool, after a gap, or by anything but a used file.
rebuild_succeeds(fs) ==
  /\ \A at \in Nodes, i \in Slots :
        fs.nodes[at].blocks[i] # VFS_NONE =>
          /\ fs.nodes[at].used
          /\ fs.nodes[at].kind = "FILE"
          /\ fs.nodes[at].blocks[i] \in Blocks
          /\ \A j \in 0 .. i - 1 : fs.nodes[at].blocks[j] # VFS_NONE
  /\ \A b \in Blocks : Cardinality(Claims(fs, b)) <= 1

\* The bitmap it leaves behind when it does.
vfsblock_rebuild(fs) ==
  [fs EXCEPT !.block_used = [b \in Blocks |-> Claims(fs, b) # {}]]
============================================================================
