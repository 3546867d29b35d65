--------------------------- MODULE VfsDisk_proofs ---------------------------
(***************************************************************************)
(* Theorems about the filesystem and the disk under it, for every size of  *)
(* both, every set of commands and every number of power cuts and refusals.*)
(*                                                                         *)
(* The inductive invariant is Inv.  Its two halves are that the memory is  *)
(* Orderly whenever the kernel uses it, and that the sectors a save has    *)
(* reached are what it writes; a disk all of whose sectors are written     *)
(* reads back as what was saved (WrittenLoads).                            *)
(***************************************************************************)
EXTENDS VfsDisk, VfsOps_proofs

----------------------------------------------------------------------------
(* Types *)

DiskType == [header : Headers, nodes : [Nodes -> NodeType],
             blocks : [Blocks -> [Offsets -> Bytes \cup {0}]]]

LEMMA ZeroTypes ==
  /\ ZeroedFs \in FsType /\ ZeroRecord \in NodeType /\ ~ZeroRecord.used
  /\ ZeroBlock \in [Offsets -> Bytes \cup {0}]
<1>1. 0 \in Blocks /\ 0 \in Nodes /\ 0 \in 0 .. CHANGES_MOD - 1
  BY InputsAssumption, SizesAssumption DEF Blocks, Nodes
<1> DEFINE zero == [name |-> "", kind |-> "DIR", used |-> FALSE, parent |-> 0,
                    first_child |-> 0, next_sibling |-> 0, length |-> 0,
                    blocks |-> [i \in Slots |-> 0]]
           nodes == [n \in Nodes |-> zero]
           blocks == [b \in Blocks |-> [o \in Offsets |-> 0]]
           marks == [b \in Blocks |-> FALSE]
<1>2. zero \in NodeType /\ ~zero.used
  BY <1>1 DEF NodeType, Kinds, Link
<1>3. /\ nodes \in [Nodes -> NodeType] /\ marks \in [Blocks -> BOOLEAN]
      /\ blocks \in [Blocks -> [Offsets -> Bytes \cup {0}]]
  BY <1>2
<1>4. ZeroedFs = [nodes |-> nodes, blocks |-> blocks, block_used |-> marks,
                  cwd |-> 0, changes |-> 0]
  BY DEF ZeroedFs
<1>5. nodes[0] = zero
  BY <1>1
<1> HIDE DEF nodes, blocks, marks, zero
<1>6. ZeroedFs \in FsType /\ ZeroedFs.nodes = nodes
  BY <1>1, <1>3, <1>4 DEF FsType
<1>7. ZeroRecord = zero
  BY <1>5, <1>6 DEF ZeroRecord
<1> QED
  BY <1>2, <1>6, <1>7 DEF ZeroBlock

\* The memory every boot loads into.
Fresh == vfs_init(ZeroedFs)

LEMMA FreshIsOrderly == Orderly(Fresh, TRUE) /\ Fresh \in FsType /\ Fresh.changes = 0
<1>1. Empty(Fresh) /\ Fresh.changes = 0
  BY ZeroTypes, InitEmpties DEF Fresh
<1> QED
  BY <1>1, EmptyIsOrderly DEF Orderly, WellKept

LEMMA WrittenNodeType ==
  ASSUME NEW node \in NodeType
  PROVE  vfsdisk_write_node(node) \in NodeType
BY ZeroTypes DEF vfsdisk_write_node

LEMMA ReadNodeType ==
  ASSUME NEW record \in NodeType
  PROVE  LET node == vfsdisk_read_node(record)
         IN  /\ node \in NodeType
             /\ record.used => node = record
             /\ ~record.used => ~node.used /\ node.blocks = NoBlocks
<1>1. NoBlocks \in [Slots -> Blocks \cup {VFS_NONE}]
  BY DEF NoBlocks
<1> QED
  BY <1>1 DEF vfsdisk_read_node, NodeType

LEMMA ReadInType ==
  ASSUME NEW f \in FsType, NEW d \in DiskType, NEW count \in Nat
  PROVE  LET g == ReadIn(f, d, count)
         IN  /\ g \in FsType /\ g.cwd = f.cwd /\ g.changes = f.changes
             /\ \A n \in Nodes : n < count => g.nodes[n] = vfsdisk_read_node(d.nodes[n])
             /\ \A b \in Blocks : VFS_MAX_NODES + b < count => g.blocks[b] = d.blocks[b]
<1> DEFINE nodes == [n \in Nodes |-> IF n < count THEN vfsdisk_read_node(d.nodes[n])
                                     ELSE f.nodes[n]]
           blocks == [b \in Blocks |-> IF VFS_MAX_NODES + b < count THEN d.blocks[b]
                                       ELSE f.blocks[b]]
           g == [f EXCEPT !.nodes = nodes, !.blocks = blocks]
<1>1. /\ d.nodes \in [Nodes -> NodeType]
      /\ d.blocks \in [Blocks -> [Offsets -> Bytes \cup {0}]]
  BY DEF DiskType
<1>2. nodes \in [Nodes -> NodeType]
  <2>1. \A n \in Nodes : vfsdisk_read_node(d.nodes[n]) \in NodeType
    BY <1>1, ReadNodeType
  <2> QED
    BY <2>1, FsParts
<1>3. blocks \in [Blocks -> [Offsets -> Bytes \cup {0}]]
  BY <1>1, FsParts
<1>4. /\ \A n \in Nodes : n < count => nodes[n] = vfsdisk_read_node(d.nodes[n])
      /\ \A b \in Blocks : VFS_MAX_NODES + b < count => blocks[b] = d.blocks[b]
  OBVIOUS
<1> HIDE DEF nodes, blocks
<1>5. /\ g \in FsType /\ g.nodes = nodes /\ g.blocks = blocks /\ g.cwd = f.cwd
      /\ g.changes = f.changes
  BY <1>2, <1>3 DEF FsType
<1>6. ReadIn(f, d, count) = g
  BY DEF ReadIn, nodes, blocks
<1> QED
  BY <1>4, <1>5, <1>6

----------------------------------------------------------------------------
(* Loading *)

\* What ReadWhole takes from a disk: every node and every block of it.
TakenFrom(g, d) ==
  /\ g \in FsType /\ g.cwd = 0
  /\ \A n \in Nodes : g.nodes[n] = vfsdisk_read_node(d.nodes[n])
  /\ \A b \in Blocks : g.blocks[b] = d.blocks[b]
  /\ vfsblock_rebuild(g) = g

LEMMA WholeIsTaken ==
  ASSUME NEW f \in FsType, NEW d \in DiskType
  PROVE  LET r == ReadIn(f, d, VFS_MAX_NODES + VFS_MAX_BLOCKS)
             g == ReadWhole(f, d)
         IN  TakenFrom(g, d) /\ g.nodes = r.nodes /\ g.changes = f.changes
<1> DEFINE count == VFS_MAX_NODES + VFS_MAX_BLOCKS
           r == ReadIn(f, d, count)
           home == [r EXCEPT !.cwd = 0]
           claimed == [b \in Blocks |-> Claims(home, b) # {}]
           g == [home EXCEPT !.block_used = claimed]
<1>1. count \in Nat /\ (\A n \in Nodes : n < count)
      /\ \A b \in Blocks : VFS_MAX_NODES + b < count
  BY SizesAssumption DEF Nodes, Blocks
<1> HIDE DEF count, r
<1>2. /\ r \in FsType /\ r.changes = f.changes
      /\ \A n \in Nodes : r.nodes[n] = vfsdisk_read_node(d.nodes[n])
      /\ \A b \in Blocks : r.blocks[b] = d.blocks[b]
  BY <1>1, ReadInType DEF r
<1>3. /\ home \in FsType /\ home.cwd = 0 /\ home.nodes = r.nodes
      /\ home.blocks = r.blocks /\ home.changes = r.changes
  BY <1>2, NodesAreNumbers DEF FsType
<1> HIDE DEF home
<1>4. claimed \in [Blocks -> BOOLEAN]
  OBVIOUS
<1>5. claimed = [b \in Blocks |-> Claims(r, b) # {}]
  BY <1>3 DEF Claims
<1> HIDE DEF claimed
<1>6. /\ g \in FsType /\ g.cwd = 0 /\ g.nodes = r.nodes /\ g.blocks = r.blocks
      /\ g.changes = r.changes /\ g.block_used = claimed
  BY <1>3, <1>4 DEF FsType
<1>7. ReadWhole(f, d) = g
  BY DEF ReadWhole, vfsblock_rebuild, home, claimed, r, count
<1> HIDE DEF g
<1>8. vfsblock_rebuild(g) = g
  <2>1. [b \in Blocks |-> Claims(g, b) # {}] = claimed
    BY <1>5, <1>6 DEF Claims
  <2>2. [g EXCEPT !.block_used = claimed] = g
    BY <1>6 DEF FsType
  <2> QED
    BY <2>1, <2>2 DEF vfsblock_rebuild
<1> QED
  BY <1>2, <1>6, <1>7, <1>8 DEF TakenFrom, r, count

\* Which claims the rebuild refuses depends on the nodes alone.
LEMMA RebuildByNodes ==
  ASSUME NEW f, NEW g, f.nodes = g.nodes
  PROVE  rebuild_succeeds(f) <=> rebuild_succeeds(g)
BY DEF rebuild_succeeds, Claims

\* What a load takes is orderly.
LEMMA LoadedIsOrderly ==
  ASSUME NEW f \in FsType, NEW d \in DiskType, Loadable(f, d)
  PROVE  Orderly(ReadWhole(f, d), FALSE)
<1> DEFINE g == ReadWhole(f, d)
<1>1. /\ g \in FsType /\ vfsblock_rebuild(g) = g
      /\ g.nodes = ReadIn(f, d, VFS_MAX_NODES + VFS_MAX_BLOCKS).nodes
  BY WholeIsTaken DEF TakenFrom
<1>2. vfsdisk_sound(g) /\ rebuild_succeeds(g)
  BY <1>1, RebuildByNodes DEF Loadable
<1> HIDE DEF g
<1>3. Orderly(g, FALSE)
  BY <1>1, <1>2, CheckedIsOrderly DEF Rebuilt
<1> QED
  BY <1>3 DEF g

----------------------------------------------------------------------------
(* Saving *)

\* The sectors of `d' before sector number s are what a save of `f' writes.
Upto(d, f, s) ==
  /\ s > 0 => d.header = "OURS"
  /\ \A n \in Nodes : n + 1 < s => d.nodes[n] = vfsdisk_write_node(f.nodes[n])
  /\ \A b \in Blocks : BlocksAt + b < s =>
       d.blocks[b] = IF f.block_used[b] THEN f.blocks[b] ELSE ZeroBlock

\* A whole save reaches them all.
Everything == VFS_MAX_NODES + VFS_MAX_BLOCKS + 1

LEMMA WrittenEffect ==
  ASSUME NEW d \in DiskType, NEW f \in FsType, NEW s \in Sectors
  PROVE  LET g == Written(d, f, s)
         IN  /\ g \in DiskType
             /\ g.header = IF s = 0 THEN "OURS" ELSE d.header
             /\ \A n \in Nodes :
                  g.nodes[n] = IF n + 1 = s THEN vfsdisk_write_node(f.nodes[n])
                               ELSE d.nodes[n]
             /\ \A b \in Blocks :
                  g.blocks[b] = IF BlocksAt + b = s
                                THEN IF f.block_used[b] THEN f.blocks[b] ELSE ZeroBlock
                                ELSE d.blocks[b]
<1> DEFINE g == Written(d, f, s)
<1>1. /\ d.header \in Headers /\ d.nodes \in [Nodes -> NodeType]
      /\ d.blocks \in [Blocks -> [Offsets -> Bytes \cup {0}]]
      /\ d = [header |-> d.header, nodes |-> d.nodes, blocks |-> d.blocks]
  BY DEF DiskType
<1>2. /\ VFS_MAX_NODES \in Nat /\ VFS_MAX_BLOCKS \in Nat /\ BlocksAt = 1 + VFS_MAX_NODES
      /\ s \in Nat /\ s <= VFS_MAX_NODES + VFS_MAX_BLOCKS
      /\ Nodes \in SUBSET Nat /\ Blocks \in SUBSET Nat
      /\ \A n \in Nodes : n < VFS_MAX_NODES
  BY SizesAssumption DEF Sectors, BlocksAt, Nodes, Blocks
<1>3. CASE s = 0
  <2>1. g = [d EXCEPT !.header = "OURS"]
    BY <1>3 DEF Written
  <2>2. g \in DiskType /\ g.header = "OURS" /\ g.nodes = d.nodes /\ g.blocks = d.blocks
    BY <1>1, <2>1 DEF DiskType, Headers
  <2> HIDE DEF g
  <2>3. (\A n \in Nodes : n + 1 # s) /\ \A b \in Blocks : BlocksAt + b # s
    BY <1>2, <1>3
  <2> QED
    BY <1>3, <2>2, <2>3 DEF g
<1>4. CASE s # 0 /\ s < BlocksAt
  <2> DEFINE node == vfsdisk_write_node(f.nodes[s - 1])
             new == [d.nodes EXCEPT ![s - 1] = node]
  <2>1. s - 1 \in Nodes
    BY <1>2, <1>4 DEF Nodes
  <2>2. node \in NodeType
    BY <2>1, NodeParts, WrittenNodeType
  <2> HIDE DEF node
  <2>3. /\ new \in [Nodes -> NodeType] /\ new[s - 1] = node
        /\ \A n \in Nodes : n # s - 1 => new[n] = d.nodes[n]
    BY <1>1, <2>1, <2>2
  <2>4. g = [d EXCEPT !.nodes = new]
    BY <1>4 DEF Written, node
  <2> HIDE DEF new
  <2>5. g \in DiskType /\ g.header = d.header /\ g.nodes = new /\ g.blocks = d.blocks
    BY <1>1, <2>3, <2>4 DEF DiskType
  <2> HIDE DEF g
  <2>6. /\ \A n \in Nodes : n + 1 = s <=> n = s - 1
        /\ \A b \in Blocks : BlocksAt + b # s
    BY <1>2, <1>4
  <2>7. \A n \in Nodes : n = s - 1 => node = vfsdisk_write_node(f.nodes[n])
    BY DEF node
  <2> QED
    BY <1>4, <2>3, <2>5, <2>6, <2>7 DEF g
<1>5. CASE ~(s < BlocksAt)
  <2> DEFINE at == s - BlocksAt
             block == IF f.block_used[at] THEN f.blocks[at] ELSE ZeroBlock
             new == [d.blocks EXCEPT ![at] = block]
  <2>1. at \in Blocks /\ s # 0
    BY <1>2, <1>5 DEF Blocks
  <2>2. block \in [Offsets -> Bytes \cup {0}]
    BY <2>1, FsParts, ZeroTypes
  <2>3. g = [d EXCEPT !.blocks = new]
    BY <1>5, <2>1 DEF Written
  <2>4. \A b \in Blocks : b = at => block = IF f.block_used[b] THEN f.blocks[b] ELSE ZeroBlock
    OBVIOUS
  <2>5. /\ \A b \in Blocks : BlocksAt + b = s <=> b = at
        /\ \A n \in Nodes : n + 1 # s
    BY <1>2, <1>5
  <2> HIDE DEF block, at
  <2>6. /\ new \in [Blocks -> [Offsets -> Bytes \cup {0}]] /\ new[at] = block
        /\ \A b \in Blocks : b # at => new[b] = d.blocks[b]
    BY <1>1, <2>1, <2>2
  <2> HIDE DEF new
  <2>7. g \in DiskType /\ g.header = d.header /\ g.nodes = d.nodes /\ g.blocks = new
    BY <1>1, <2>3, <2>6 DEF DiskType
  <2> HIDE DEF g
  <2> QED
    BY <2>1, <2>4, <2>5, <2>6, <2>7 DEF g
<1> QED
  BY <1>3, <1>4, <1>5

\* Each sector a save writes takes it one further.
LEMMA WrittenGoesOn ==
  ASSUME NEW d \in DiskType, NEW f \in FsType, NEW s \in Sectors, Upto(d, f, s)
  PROVE  Upto(Written(d, f, s), f, s + 1)
<1> DEFINE g == Written(d, f, s)
<1>1. /\ g.header = IF s = 0 THEN "OURS" ELSE d.header
      /\ \A n \in Nodes :
           g.nodes[n] = IF n + 1 = s THEN vfsdisk_write_node(f.nodes[n])
                        ELSE d.nodes[n]
      /\ \A b \in Blocks :
           g.blocks[b] = IF BlocksAt + b = s
                         THEN IF f.block_used[b] THEN f.blocks[b] ELSE ZeroBlock
                         ELSE d.blocks[b]
  BY WrittenEffect
<1> HIDE DEF g
<1>2. /\ s \in Nat
      /\ \A n \in Nodes : n + 1 < s + 1 => n + 1 < s \/ n + 1 = s
      /\ \A b \in Blocks : BlocksAt + b < s + 1 => BlocksAt + b < s \/ BlocksAt + b = s
  BY SizesAssumption DEF Sectors, Nodes, Blocks, BlocksAt
<1>3. Upto(g, f, s + 1)
  BY <1>1, <1>2 DEF Upto
<1> QED
  BY <1>3 DEF g

\* `g' has what `f' had, the working directory and free nodes and blocks apart.
ReadBack(f, g) ==
  /\ g \in FsType /\ g.cwd = 0
  /\ \A n \in Nodes : f.nodes[n].used => g.nodes[n] = f.nodes[n]
  /\ \A n \in Nodes : ~f.nodes[n].used => ~g.nodes[n].used /\ g.nodes[n].blocks = NoBlocks
  /\ \A b \in Blocks : f.block_used[b] => g.blocks[b] = f.blocks[b]
  /\ vfsblock_rebuild(g) = g

LEMMA SavedIsReadBack ==
  ASSUME NEW f \in FsType, NEW d \in DiskType, Upto(d, f, Everything), NEW g, TakenFrom(g, d)
  PROVE  ReadBack(f, g)
<1>1. /\ \A n \in Nodes : n + 1 < Everything
      /\ \A b \in Blocks : BlocksAt + b < Everything
  BY SizesAssumption DEF Nodes, Blocks, BlocksAt, Everything
<1>2. /\ \A n \in Nodes : d.nodes[n] = vfsdisk_write_node(f.nodes[n])
      /\ \A b \in Blocks : f.block_used[b] => d.blocks[b] = f.blocks[b]
  BY <1>1 DEF Upto
<1>3. ASSUME NEW n \in Nodes
      PROVE  /\ f.nodes[n].used => g.nodes[n] = f.nodes[n]
             /\ ~f.nodes[n].used => ~g.nodes[n].used /\ g.nodes[n].blocks = NoBlocks
  <2>1. f.nodes[n] \in NodeType /\ g.nodes[n] = vfsdisk_read_node(d.nodes[n])
    BY NodeParts DEF TakenFrom
  <2>2. CASE f.nodes[n].used
    <3>1. d.nodes[n] = f.nodes[n]
      BY <1>2, <2>2 DEF vfsdisk_write_node
    <3> QED
      BY <2>1, <2>2, <3>1, ReadNodeType
  <2>3. CASE ~f.nodes[n].used
    <3>1. d.nodes[n] = ZeroRecord
      BY <1>2, <2>3 DEF vfsdisk_write_node
    <3> QED
      BY <2>1, <2>3, <3>1, ReadNodeType, ZeroTypes
  <2> QED
    BY <2>2, <2>3
<1> QED
  BY <1>2, <1>3 DEF TakenFrom, ReadBack

\* What is read back is orderly, and a restart finds in it what was saved.
LEMMA ReadBackIsOrderly ==
  ASSUME NEW f, Orderly(f, FALSE), NEW g, ReadBack(f, g)
  PROVE  Orderly(g, FALSE) /\ Kept(g) = Kept(f)
<1>1. f \in FsType /\ g \in FsType /\ 0 \in Nodes /\ f.cwd \in Nodes
  BY FsParts, NodesAreNumbers DEF Orderly, WellKept, ReadBack
<1>2. /\ InUse(g) = InUse(f) /\ Members(g, {}) = Members(f, {})
      /\ \A n \in InUse(f) : n \in Nodes /\ g.nodes[n] = f.nodes[n]
  <2>1. \A n \in Nodes : n \in InUse(f) => g.nodes[n] = f.nodes[n]
    BY DEF ReadBack, InUse
  <2>2. \A n \in Nodes : n \in InUse(g) <=> n \in InUse(f)
    BY DEF ReadBack, InUse
  <2>3. InUse(g) = InUse(f)
    BY <2>2 DEF InUse
  <2> QED
    BY <2>1, <2>3 DEF Members, InUse
<1>3. ASSUME NEW n \in Nodes, NEW i \in Slots
      PROVE  /\ g.nodes[n].blocks[i] = f.nodes[n].blocks[i]
             /\ f.nodes[n].blocks[i] # VFS_NONE => n \in InUse(f)
  <2>1. CASE n \in InUse(f)
    BY <1>2, <2>1
  <2>2. CASE n \notin InUse(f)
    <3>1. ~f.nodes[n].used
      BY <2>2 DEF InUse
    <3>2. f.nodes[n].blocks[i] = VFS_NONE
      BY <3>1, Zenon DEF Orderly, Settled, Filed, OwnersAreFiles
    <3>3. g.nodes[n].blocks[i] = VFS_NONE
      BY <3>1 DEF ReadBack, NoBlocks
    <3> QED
      BY <3>2, <3>3
  <2> QED
    BY <2>1, <2>2
<1>4. rebuild_succeeds(g)
  <2>1. rebuild_succeeds(f)
    BY OrderlyIsChecked DEF Rebuilt
  <2>2. ASSUME NEW b \in Blocks PROVE Claims(g, b) = Claims(f, b)
    <3>1. \A c \in Nodes \X Slots : g.nodes[c[1]].blocks[c[2]] = f.nodes[c[1]].blocks[c[2]]
      BY <1>3
    <3> QED
      BY <3>1 DEF Claims
  <2>3. \A i \in Slots : \A j \in 0 .. i - 1 : j \in Slots
    BY SizesAssumption DEF Slots
  <2>4. ASSUME NEW at \in Nodes, NEW i \in Slots, g.nodes[at].blocks[i] # VFS_NONE
        PROVE  /\ g.nodes[at].used /\ g.nodes[at].kind = "FILE"
               /\ g.nodes[at].blocks[i] \in Blocks
               /\ \A j \in 0 .. i - 1 : g.nodes[at].blocks[j] # VFS_NONE
    <3>1. /\ f.nodes[at].used /\ f.nodes[at].kind = "FILE"
          /\ f.nodes[at].blocks[i] \in Blocks
          /\ \A j \in 0 .. i - 1 : f.nodes[at].blocks[j] # VFS_NONE
      BY <1>3, <2>1, <2>4 DEF rebuild_succeeds
    <3>2. g.nodes[at] = f.nodes[at]
      BY <1>2, <1>3, <2>4
    <3> QED
      BY <3>1, <3>2
  <2> QED
    BY <2>1, <2>2, <2>4 DEF rebuild_succeeds
<1>5. Rebuilt(g)
  BY <1>4 DEF Rebuilt, ReadBack
<1>6. Tree(f, {}, FALSE) /\ \A n \in InUse(f) : f.nodes[n].parent \in InUse(f)
  BY ParentIsDir DEF Orderly, Settled
<1>7. \A n \in InUse(f) : IsDir(g, n) <=> IsDir(f, n)
  BY <1>2 DEF IsDir
<1>8. 0 \in InUse(f) /\ IsDir(f, 0)
  BY <1>1, <1>6 DEF Tree, RootStands, IsDir, InUse
<1>9. RootStands(g)
  BY <1>2, <1>6, <1>7, <1>8 DEF Tree, RootStands, ReadBack
<1>10. KindsAgree(g)
  BY <1>2, <1>6 DEF Tree, KindsAgree
<1>11. \E depth : Deep(g, depth)
  <2>1. PICK depth : Deep(f, depth)
    BY <1>6 DEF Tree
  <2>2. Deep(g, depth)
    BY <1>2, <1>6, <1>7, <2>1 DEF Deep
  <2> QED
    BY <2>2
<1>12. \E pos : Lists(g, Members(g, {}), pos)
  <2> DEFINE M == Members(f, {})
  <2>1. PICK pos : Lists(f, M, pos)
    BY <1>6 DEF Tree
  <2>2. M \in SUBSET InUse(f)
    BY DEF Members
  <2> HIDE DEF M
  <2>3. Lists(g, M, pos)
    BY <1>2, <1>6, <2>1, <2>2 DEF Lists
  <2> QED
    BY <1>2, <2>3 DEF M
<1>13. Tree(g, {}, FALSE)
  BY <1>1, <1>9, <1>10, <1>11, <1>12 DEF Tree
<1>14. BlocksArePacked(g) /\ OwnersAreApart(g)
  BY <1>3 DEF Orderly, WellKept, BlocksArePacked, OwnersAreApart
<1>15. BytesHaveBlocks(g)
  <2>1. \A n \in Nodes : g.nodes[n].used => n \in InUse(f)
    BY <1>2 DEF InUse
  <2>2. \A n \in InUse(f) : n \in Nodes /\ f.nodes[n].used
    BY DEF InUse
  <2> QED
    BY <1>2, <2>1, <2>2 DEF Orderly, WellKept, BytesHaveBlocks
<1>16. NothingSpare(g)
  BY <1>2, <1>3 DEF Orderly, Settled, NothingSpare
<1>17. \A b \in Blocks : g.block_used[b] <=> \E n \in Nodes, i \in Slots : g.nodes[n].blocks[i] = b
  BY <1>1, <1>5, RebuiltMarks
<1>18. MarkedIsOwned(g)
  BY <1>17 DEF MarkedIsOwned
<1>19. OwnedIsMarked(g)
  <2> SUFFICES ASSUME NEW n \in Nodes, NEW i \in Slots, g.nodes[n].blocks[i] # VFS_NONE
               PROVE  g.block_used[g.nodes[n].blocks[i]]
    BY DEF OwnedIsMarked
  <2>1. g.nodes[n].blocks[i] \in Blocks
    BY <1>4 DEF rebuild_succeeds
  <2> QED
    BY <1>17, <2>1
<1>20. OwnersAreFiles(g)
  BY <1>4 DEF rebuild_succeeds, OwnersAreFiles
<1>21. Orderly(g, FALSE)
  BY <1>1, <1>13, <1>14, <1>15, <1>16, <1>18, <1>19, <1>20
     DEF Orderly, Settled, WellKept, Filed
<1>22. Kept(g) = Kept(f)
  <2>1. {n \in Nodes : g.nodes[n].used} = {n \in Nodes : f.nodes[n].used}
    BY <1>2 DEF InUse
  <2>2. ASSUME NEW n \in {m \in Nodes : f.nodes[m].used}
        PROVE  /\ g.nodes[n] = f.nodes[n]
               /\ contents(g, n) = contents(f, n)
    <3>1. n \in Nodes /\ f.nodes[n].used /\ g.nodes[n] = f.nodes[n]
      BY <1>2 DEF InUse
    <3> DEFINE node == f.nodes[n]
    <3>2. node.length \in Nat /\ node.length <= VFS_FILE_MAX
      BY <1>1, <3>1, FsParts DEF Orderly, WellKept, BytesHaveBlocks
    <3>3. ASSUME NEW i \in 1 .. node.length
          PROVE  g.blocks[node.blocks[(i - 1) \div VFS_BLOCK]]
                   = f.blocks[node.blocks[(i - 1) \div VFS_BLOCK]]
      <4> DEFINE slot == (i - 1) \div VFS_BLOCK
      <4>1. i - 1 \in Nat /\ i - 1 < node.length
        BY <3>2
      <4>2. slot \in Slots /\ slot * VFS_BLOCK < node.length
        BY <3>2, <4>1, OffsetHasSlot
      <4> HIDE DEF slot
      <4>3. node.blocks[slot] # VFS_NONE
        BY <3>1, <4>2 DEF Orderly, WellKept, BytesHaveBlocks
      <4>4. f.block_used[node.blocks[slot]] /\ node.blocks[slot] \in Blocks
        <5>1. node.blocks \in [Slots -> Blocks \cup {VFS_NONE}]
          BY <1>1, <3>1, FsParts
        <5> QED
          BY <3>1, <4>2, <4>3, <5>1 DEF Orderly, WellKept, OwnedIsMarked
      <4>5. g.blocks[node.blocks[slot]] = f.blocks[node.blocks[slot]]
        BY <4>4 DEF ReadBack
      <4> QED
        BY <4>5 DEF slot
    <3>4. contents(g, n) = contents(f, n)
      BY <3>1, <3>3 DEF contents, vfsblock_at
    <3> QED
      BY <3>1, <3>4
  <2> QED
    BY <2>1, <2>2 DEF Kept
<1> QED
  BY <1>21, <1>22

\* A disk on which every sector is what a save of `f' writes will load, and holds
\* what `f' holds, whatever memory it is read into.
LEMMA WrittenLoads ==
  ASSUME NEW f, Orderly(f, FALSE), NEW d \in DiskType, Upto(d, f, Everything),
         NEW e \in FsType
  PROVE  Loadable(e, d) /\ Kept(ReadWhole(e, d)) = Kept(f)
<1> DEFINE g == ReadWhole(e, d)
<1>1. f \in FsType
  BY DEF Orderly, WellKept
<1>2. /\ TakenFrom(g, d)
      /\ g.nodes = ReadIn(e, d, VFS_MAX_NODES + VFS_MAX_BLOCKS).nodes
  BY WholeIsTaken
<1> HIDE DEF g
<1>3. Orderly(g, FALSE) /\ Kept(g) = Kept(f)
  BY <1>1, <1>2, SavedIsReadBack, ReadBackIsOrderly
<1>4. vfsdisk_sound(g) /\ rebuild_succeeds(g)
  BY <1>3, OrderlyIsChecked DEF Rebuilt
<1>5. Loadable(e, d)
  BY <1>2, <1>4, RebuildByNodes DEF Loadable, g
<1> QED
  BY <1>3, <1>5 DEF g

----------------------------------------------------------------------------
(* What the kernel does with the filesystem before the shell runs *)

Sound(f) == Orderly(f, FALSE)

LEMMA SoundHasType ==
  ASSUME NEW f, Sound(f)
  PROVE  f \in FsType /\ WellKept(f)
BY DEF Sound, Orderly, WellKept

\* The counter is of no account to anything else.
LEMMA CounterIsFree ==
  ASSUME NEW f, Sound(f)
  PROVE  Sound([f EXCEPT !.changes = 0]) /\ Kept([f EXCEPT !.changes = 0]) = Kept(f)
<1> DEFINE g == [f EXCEPT !.changes = 0]
<1>1. f \in FsType
  BY SoundHasType
<1>2. /\ g \in FsType /\ g.nodes = f.nodes /\ g.blocks = f.blocks /\ g.cwd = f.cwd
      /\ g.block_used = f.block_used
  BY <1>1, SizesAssumption DEF FsType
<1> HIDE DEF g
<1>3. WellKept(g)
  BY <1>2, LinksChange DEF Sound, Orderly
<1>4. Filed(g, FALSE) /\ NothingSpare(g)
  BY <1>2 DEF Sound, Orderly, Settled, Filed, MarkedIsOwned, OwnersAreFiles, NothingSpare
<1>5. SameTree(f, g)
  BY <1>2 DEF SameTree
<1>6. Tree(g, {}, FALSE)
  BY <1>5, TreeIsFramed DEF Sound, Orderly, Settled
<1>7. \A n \in Nodes : contents(g, n) = contents(f, n)
  BY <1>2 DEF contents
<1>8. Kept(g) = Kept(f)
  BY <1>2, <1>7 DEF Kept
<1> QED
  BY <1>3, <1>4, <1>6, <1>8 DEF Sound, Orderly, Settled, g

LEMMA HomePaths ==
  /\ [root |-> TRUE, comps |-> <<"HOME">>] \in PathType
  /\ [root |-> TRUE, comps |-> <<"BIN">>] \in PathType
  /\ [root |-> TRUE, comps |-> << >>] \in PathType
<1>1. "HOME" \in Components /\ "BIN" \in Components
  BY DEF Components
<1>2. ASSUME NEW S, NEW x \in S PROVE <<x>> \in Seq(S) /\ << >> \in Seq(S)
  OBVIOUS
<1>3. /\ <<"HOME">> \in Seq(Components) /\ <<"BIN">> \in Seq(Components)
      /\ << >> \in Seq(Components)
  BY <1>1, <1>2
<1> QED
  BY <1>3 DEF PathType

\* Every member of a list is what the list is of.
LEMMA MemberOfSeq ==
  ASSUME NEW S, NEW s \in Seq(S), NEW k \in DOMAIN s
  PROVE  s[k] \in S
OBVIOUS

LEMMA InputsAreTyped ==
  /\ \A k \in DOMAIN StartTree :
       StartTree[k].path \in PathType /\ StartTree[k].text \in Seq(Bytes)
  /\ \A k \in DOMAIN Programs :
       Programs[k].path \in PathType /\ Programs[k].text \in Seq(Bytes)
<1> DEFINE Entry == [dir : BOOLEAN, path : PathType, text : Seq(Bytes)]
           Program == [path : PathType, text : Seq(Bytes)]
           Text == [root : BOOLEAN, comps : Seq(STRING)]
<1>1. StartTree \in Seq(Entry) /\ Programs \in Seq(Program)
  <2>1. /\ [dir : BOOLEAN, path : Text, text : Seq(Bytes)] \in SUBSET Entry
        /\ [path : Text, text : Seq(Bytes)] \in SUBSET Program
    BY StringPaths
  <2> HIDE DEF Entry, Program
  <2> QED
    BY <2>1, InputsAssumption, SeqGrows
<1>2. \A e \in Entry : e.path \in PathType /\ e.text \in Seq(Bytes)
  OBVIOUS
<1>3. \A p \in Program : p.path \in PathType /\ p.text \in Seq(Bytes)
  OBVIOUS
<1> HIDE DEF Entry, Program
<1>4. \A k \in DOMAIN StartTree : StartTree[k] \in Entry
  BY <1>1, MemberOfSeq
<1>5. \A k \in DOMAIN Programs : Programs[k] \in Program
  BY <1>1, MemberOfSeq
<1> QED
  BY <1>2, <1>3, <1>4, <1>5

\* Changing the directory keeps everything a restart brings back.
LEMMA ChdirIsSound ==
  ASSUME NEW f, Sound(f), NEW path \in PathType
  PROVE  /\ Sound(vfs_chdir(f, path).fs)
         /\ Kept(vfs_chdir(f, path).fs) = Kept(f)
         /\ vfs_chdir(f, path).fs.changes = f.changes
<1>1. f \in FsType
  BY SoundHasType
<1>2. vfs_chdir(f, path).fs.changes = f.changes
  BY <1>1 DEF vfs_chdir, Did, FsType
<1> QED
  BY <1>1, <1>2, ChdirOrderly, ChdirChangesNothing DEF Sound

LEMMA HomeIsSound ==
  ASSUME NEW f, Sound(f)
  PROVE  /\ Sound(chdir_home(f)) /\ Kept(chdir_home(f)) = Kept(f)
         /\ chdir_home(f).changes = f.changes
BY ChdirIsSound, HomePaths DEF chdir_home

\* An outcome is a filesystem and an answer, and nothing else.
LEMMA OutcomesAreDid ==
  ASSUME NEW f, NEW path, NEW data
  PROVE  /\ \A kind : LET o == vfs_make(f, path, kind) IN o = Did(o.fs, o.reply)
         /\ LET o == vfs_write(f, path, data) IN o = Did(o.fs, o.reply)
<1> DEFINE IsDid(o) == o = Did(o.fs, o.reply)
<1>1. \A g, reply : IsDid(Did(g, reply))
  BY DEF Did
<1>2. ASSUME NEW kind PROVE IsDid(vfs_make(f, path, kind))
  <2> HIDE DEF IsDid
  <2> QED
    BY <1>1 DEF vfs_make
<1>3. ASSUME NEW g, NEW at PROVE IsDid(AppendTo(g, at, data))
  <2> HIDE DEF IsDid
  <2> QED
    BY <1>1 DEF AppendTo
<1>4. IsDid(file_for_writing(f, path))
  <2> HIDE DEF IsDid
  <2> QED
    BY <1>1, <1>2 DEF file_for_writing
<1>5. IsDid(vfs_write(f, path, data))
  <2> HIDE DEF IsDid
  <2> QED
    BY <1>3, <1>4 DEF vfs_write
<1> QED
  BY <1>2, <1>5

\* The outcomes the starting tree goes through.
SoundOutcomes == {o \in Outcomes : Sound(o.fs)}

LEMMA MadeIsSound ==
  ASSUME NEW f, Sound(f), NEW path \in PathType, NEW kind \in Kinds
  PROVE  vfs_make(f, path, kind) \in SoundOutcomes
<1> DEFINE o == vfs_make(f, path, kind)
<1>1. Answers(o) /\ Sound(o.fs) /\ o = Did(o.fs, o.reply)
  BY SoundHasType, MakeKeeps, MakeOrderly, OutcomesAreDid DEF Sound
<1> HIDE DEF o
<1>2. o \in Outcomes
  BY <1>1 DEF Answers, WellKept, Outcomes, Did
<1> QED
  BY <1>1, <1>2 DEF SoundOutcomes, o

LEMMA WriteIsSound ==
  ASSUME NEW f, Sound(f), NEW path \in PathType, NEW data \in Seq(Bytes)
  PROVE  vfs_write(f, path, data) \in SoundOutcomes
<1> DEFINE o == vfs_write(f, path, data)
<1>1. Answers(o) /\ Sound(o.fs) /\ o = Did(o.fs, o.reply)
  BY SoundHasType, WriteKeeps, WriteOrderly, OutcomesAreDid DEF Sound
<1> HIDE DEF o
<1>2. o \in Outcomes
  BY <1>1 DEF Answers, WellKept, Outcomes, Did
<1> QED
  BY <1>1, <1>2 DEF SoundOutcomes, o

LEMMA LaidIsSound ==
  ASSUME NEW f, Sound(f)
  PROVE  Laid(f) \in SoundOutcomes
<1> DEFINE step == [k \in Nat |-> [done \in Outcomes |->
                      IF k \notin DOMAIN StartTree \/ done.reply # "OK" THEN done
                      ELSE IF StartTree[k].dir THEN vfs_mkdir(done.fs, StartTree[k].path)
                      ELSE vfs_write(done.fs, StartTree[k].path, StartTree[k].text)]]
           start == Did(f, "OK")
<1>1. start \in SoundOutcomes
  BY SoundHasType DEF SoundOutcomes, Outcomes, Did, Results
<1>2. ASSUME NEW k \in Nat, NEW done \in SoundOutcomes
      PROVE  step[k][done] \in SoundOutcomes
  <2>1. done \in Outcomes /\ Sound(done.fs)
    BY DEF SoundOutcomes
  <2>2. k \in DOMAIN StartTree =>
          StartTree[k].path \in PathType /\ StartTree[k].text \in Seq(Bytes)
    BY InputsAreTyped
  <2>3. "DIR" \in Kinds
    BY DEF Kinds
  <2>4. k \in DOMAIN StartTree =>
          /\ vfs_mkdir(done.fs, StartTree[k].path) \in SoundOutcomes
          /\ vfs_write(done.fs, StartTree[k].path, StartTree[k].text) \in SoundOutcomes
    BY <2>1, <2>2, <2>3, MadeIsSound, WriteIsSound DEF vfs_mkdir
  <2> QED
    BY <2>1, <2>4
<1>3. Laid(f) = Iterate(step, start)[Len(StartTree)]
  BY DEF Laid
<1>4. Len(StartTree) \in Nat
  BY InputsAssumption
<1> HIDE DEF step, start
<1>5. StepsIn(step, SoundOutcomes)
  BY <1>2 DEF StepsIn
<1>6. Iterate(step, start) \in [Nat -> SoundOutcomes]
  BY <1>1, <1>5, IterateSteps
<1> QED
  BY <1>3, <1>4, <1>6

LEMMA InstalledIsSound ==
  ASSUME NEW f, Sound(f)
  PROVE  Sound(Installed(f))
<1> DEFINE S == {g \in FsType : Sound(g)}
           step == [k \in Nat |-> [put \in FsType |->
                      IF k \notin DOMAIN Programs
                           \/ vfs_resolve(put, Programs[k].path) # VFS_NONE
                      THEN put
                      ELSE vfs_write(put, Programs[k].path, Programs[k].text).fs]]
<1>1. f \in S
  BY SoundHasType
<1>2. ASSUME NEW k \in Nat, NEW put \in S PROVE step[k][put] \in S
  <2>1. k \in DOMAIN Programs =>
          Programs[k].path \in PathType /\ Programs[k].text \in Seq(Bytes)
    BY InputsAreTyped
  <2>2. k \in DOMAIN Programs =>
          vfs_write(put, Programs[k].path, Programs[k].text).fs \in S
    BY <2>1, WriteIsSound, SoundHasType DEF SoundOutcomes
  <2> QED
    BY <2>2
<1>3. Installed(f) = Iterate(step, f)[Len(Programs)]
  BY DEF Installed
<1>4. Len(Programs) \in Nat
  BY InputsAssumption
<1> HIDE DEF step, S
<1>5. StepsIn(step, S)
  BY <1>2 DEF StepsIn
<1>6. Iterate(step, f) \in [Nat -> S]
  BY <1>1, <1>5, IterateSteps
<1> QED
  BY <1>3, <1>4, <1>6 DEF S

----------------------------------------------------------------------------
(* The system *)

\* The memory is sound whenever there is power, ...
MemoryHolds == phase # "off" => Sound(fs)

\* ... and is freshly made before anything is loaded, with nothing saved yet.
NothingYet == /\ phase = "off" => saved_at = 0
              /\ phase = "loading" => fs = Fresh /\ saved_at = 0

\* The sectors a save has been through are as it writes them.
SaveHolds == phase = "saving" => resume \in {"install", "shell"} /\ Upto(disk, fs, sector)

\* A disk that a boot would load, and what it would bring back.
Brings(d, saved) == /\ d.header = "OURS"
                    /\ Loadable(Fresh, d)
                    /\ Kept(ReadWhole(Fresh, d)) = saved

DurableHolds == durable # << >> => Brings(disk, durable)

\* The inductive invariant.
Inv == TypeOK /\ MemoryHolds /\ NothingYet /\ SaveHolds /\ DurableHolds

LEMMA TypeParts ==
  ASSUME TypeOK
  PROVE  disk \in DiskType /\ fs \in FsType /\ sector \in Sectors
BY DEF TypeOK, DiskType

LEMMA StartsIn == Init => Inv
<1> SUFFICES ASSUME Init PROVE Inv
  OBVIOUS
<1>1. fs \in FsType
  BY ZeroTypes DEF Init
<1>2. disk \in DiskType
  <2> DEFINE nodes == [n \in Nodes |-> ZeroRecord]
             blocks == [b \in Blocks |-> ZeroBlock]
  <2>1. PICK header \in FoundDisks :
          disk = [header |-> header, nodes |-> nodes, blocks |-> blocks]
    BY DEF Init
  <2>2. header \in Headers
    BY InputsAssumption
  <2>3. /\ nodes \in [Nodes -> NodeType]
        /\ blocks \in [Blocks -> [Offsets -> Bytes \cup {0}]]
    BY ZeroTypes
  <2> HIDE DEF nodes, blocks
  <2> QED
    BY <2>1, <2>2, <2>3 DEF DiskType
<1>3. /\ 0 \in 0 .. CHANGES_MOD - 1 /\ 0 \in Sectors
      /\ 0 \in 0 .. MaxFailures /\ 0 \in 0 .. MaxPowerCuts
  BY SizesAssumption, InputsAssumption DEF Sectors
<1>4. TypeOK
  BY <1>1, <1>2, <1>3 DEF Init, TypeOK, DiskType, Phases
<1> QED
  BY <1>4 DEF Init, Inv, MemoryHolds, NothingYet, SaveHolds, DurableHolds

LEMMA PowerOnKeeps == Inv /\ PowerOn => Inv'
<1> SUFFICES ASSUME Inv, PowerOn PROVE Inv'
  OBVIOUS
<1>1. fs' = Fresh /\ Sound(Fresh) /\ Fresh \in FsType
  <2>1. Orderly(Fresh, FALSE)
    BY FreshIsOrderly DEF Orderly, Settled, Filed, Tree
  <2> QED
    BY <2>1, FreshIsOrderly DEF PowerOn, Fresh, Sound
<1>2. TypeOK'
  BY <1>1 DEF Inv, TypeOK, PowerOn, Phases
<1>3. (MemoryHolds /\ NothingYet /\ SaveHolds)'
  BY <1>1 DEF Inv, NothingYet, MemoryHolds, SaveHolds, PowerOn
<1>4. DurableHolds'
  BY DEF Inv, PowerOn, DurableHolds
<1> QED
  BY <1>2, <1>3, <1>4 DEF Inv

\* What a load that is not refused leaves in memory.
LEMMA LoadedHome ==
  ASSUME NEW f \in FsType, NEW d \in DiskType, Loadable(f, d)
  PROVE  LET g == chdir_home([ReadWhole(f, d) EXCEPT !.changes = 0])
         IN  Sound(g) /\ g.changes = 0 /\ Kept(g) = Kept(ReadWhole(f, d))
<1> DEFINE r == ReadWhole(f, d)
           z == [r EXCEPT !.changes = 0]
<1>1. Sound(r)
  BY LoadedIsOrderly DEF Sound
<1> HIDE DEF r
<1>2. r \in FsType
  BY <1>1, SoundHasType
<1>3. Sound(z) /\ Kept(z) = Kept(r)
  BY <1>1, CounterIsFree
<1>4. z.changes = 0
  BY <1>2 DEF FsType
<1> HIDE DEF z
<1>5. Sound(chdir_home(z)) /\ Kept(chdir_home(z)) = Kept(z) /\ chdir_home(z).changes = z.changes
  BY <1>3, HomeIsSound
<1> QED
  BY <1>3, <1>4, <1>5 DEF z, r

LEMMA EmptyIsSound ==
  ASSUME NEW f \in FsType
  PROVE  Sound(vfs_init(f)) /\ vfs_init(f) \in FsType
<1>1. Orderly(vfs_init(f), TRUE)
  BY InitEmpties, EmptyIsOrderly
<1> QED
  BY <1>1 DEF Sound, Orderly, Settled, Filed, Tree

LEMMA LoadKeeps == Inv /\ Load => Inv'
<1> SUFFICES ASSUME Inv, Load PROVE Inv'
  OBVIOUS
<1>1. /\ disk \in DiskType /\ fs \in FsType /\ Sound(fs) /\ phase = "loading"
      /\ disk.header \in Headers
  BY TypeParts DEF Inv, Load, MemoryHolds, DiskType
<1>2. /\ Sound(fs')
      /\ opened' \in (Headers \ {"OURS"}) \cup {"OK", "NO_DISK", "IO_FAILED", "CORRUPT"}
  <2>1. CASE disk.header # "OURS"
    BY <1>1, <2>1 DEF Load
  <2>2. CASE disk.header = "OURS" /\ Loadable(fs, disk)
    <3>1. opened' = "OK" /\ fs' = chdir_home([ReadWhole(fs, disk) EXCEPT !.changes = 0])
      BY <2>2 DEF Load
    <3> QED
      BY <1>1, <2>2, <3>1, LoadedHome
  <2>3. CASE disk.header = "OURS" /\ ~Loadable(fs, disk)
    <3>1. opened' = "CORRUPT" /\ fs' = vfs_init(ReadWhole(fs, disk))
      BY <2>3 DEF Load
    <3>2. ReadWhole(fs, disk) \in FsType
      BY <1>1, WholeIsTaken DEF TakenFrom
    <3> QED
      BY <3>1, <3>2, EmptyIsSound
  <2> QED
    BY <2>1, <2>2, <2>3
<1>3. fs' \in FsType /\ phase' \in {"install", "layout"}
  BY <1>2, SoundHasType DEF Load
<1>4. TypeOK'
  BY <1>2, <1>3 DEF Inv, TypeOK, Load, Phases
<1>5. (MemoryHolds /\ NothingYet /\ SaveHolds)'
  BY <1>2, <1>3 DEF MemoryHolds, NothingYet, SaveHolds
<1>6. DurableHolds'
  BY DEF Inv, Load, DurableHolds
<1> QED
  BY <1>4, <1>5, <1>6 DEF Inv

LEMMA LoadFailsKeeps == Inv /\ LoadFails => Inv'
<1> SUFFICES ASSUME Inv, LoadFails PROVE Inv'
  OBVIOUS
<1>1. disk \in DiskType /\ fs \in FsType /\ Sound(fs) /\ phase = "loading"
  BY TypeParts DEF Inv, LoadFails, MemoryHolds
<1>2. Sound(fs')
  <2>1. CASE UNCHANGED fs
    BY <1>1, <2>1
  <2>2. ASSUME NEW count \in 0 .. VFS_MAX_NODES + VFS_MAX_BLOCKS - 1,
               fs' = vfs_init(ReadIn(fs, disk, count))
        PROVE  Sound(fs')
    <3>1. count \in Nat
      BY SizesAssumption
    <3>2. ReadIn(fs, disk, count) \in FsType
      BY <1>1, <3>1, ReadInType
    <3> QED
      BY <2>2, <3>2, EmptyIsSound
  <2> QED
    BY <2>1, <2>2 DEF LoadFails
<1>3. fs' \in FsType /\ phase' = "layout"
  BY <1>2, SoundHasType DEF LoadFails
<1>4. failures' \in 0 .. MaxFailures
  BY InputsAssumption DEF Inv, TypeOK, LoadFails
<1>5. TypeOK'
  BY <1>3, <1>4 DEF Inv, TypeOK, LoadFails, Phases
<1>6. (MemoryHolds /\ NothingYet /\ SaveHolds)'
  BY <1>2, <1>3 DEF MemoryHolds, NothingYet, SaveHolds
<1>7. DurableHolds'
  BY DEF Inv, LoadFails, DurableHolds
<1> QED
  BY <1>5, <1>6, <1>7 DEF Inv

\* Nothing but the memory changes, and a save may begin.
LEMMA MaySave ==
  ASSUME Inv, NEW next \in {"install", "shell"}, Sound(fs'), SaveThenGoTo(next, fs'),
         UNCHANGED <<disk, opened, saved_at, failures, power_cuts, durable>>
  PROVE  Inv'
<1>1. fs' \in FsType /\ phase' \in {"install", "shell", "saving"}
  BY SoundHasType DEF SaveThenGoTo
<1>2. sector' \in Sectors /\ resume' \in Phases
  BY SizesAssumption DEF Inv, TypeOK, SaveThenGoTo, Sectors, Phases
<1>3. TypeOK'
  BY <1>1, <1>2 DEF Inv, TypeOK, Phases
<1>4. SaveHolds'
  <2> SUFFICES ASSUME phase' = "saving"
               PROVE  resume' \in {"install", "shell"} /\ Upto(disk', fs', sector')
    BY DEF SaveHolds
  <2>1. sector' = 0 /\ resume' = next
    BY DEF SaveThenGoTo
  <2>2. Upto(disk', fs', 0)
    BY SizesAssumption DEF Upto, Nodes, Blocks, BlocksAt
  <2> QED
    BY <2>1, <2>2
<1>5. (MemoryHolds /\ NothingYet)'
  BY <1>1 DEF MemoryHolds, NothingYet
<1>6. DurableHolds'
  BY DEF Inv, DurableHolds
<1> QED
  BY <1>3, <1>4, <1>5, <1>6 DEF Inv

LEMMA LayoutKeeps == Inv /\ Layout => Inv'
<1> SUFFICES ASSUME Inv, Layout PROVE Inv'
  OBVIOUS
<1>1. Sound(fs)
  BY DEF Inv, Layout, MemoryHolds
<1>2. Sound(Laid(fs).fs)
  BY <1>1, LaidIsSound DEF SoundOutcomes
<1>3. Sound(fs')
  BY <1>2, ChdirIsSound, HomePaths DEF Layout
<1> QED
  BY <1>3, MaySave DEF Layout

LEMMA InstallKeeps == Inv /\ Install => Inv'
<1> SUFFICES ASSUME Inv, Install PROVE Inv'
  OBVIOUS
<1> DEFINE bin == [root |-> TRUE, comps |-> <<"BIN">>]
           begun == IF vfs_resolve(fs, bin) # VFS_NONE THEN Did(fs, "OK")
                    ELSE vfs_mkdir(fs, bin)
<1>1. Sound(fs) /\ "DIR" \in Kinds
  BY DEF Inv, Install, MemoryHolds, Kinds
<1>2. Sound(begun.fs)
  <2>1. Sound(vfs_mkdir(fs, bin).fs)
    BY <1>1, MadeIsSound, HomePaths DEF vfs_mkdir, SoundOutcomes
  <2> QED
    BY <1>1, <2>1 DEF Did
<1>3. fs' = fs \/ fs' = Installed(begun.fs)
  BY DEF Install
<1> HIDE DEF begun
<1>4. Sound(fs')
  BY <1>1, <1>2, <1>3, InstalledIsSound
<1> QED
  BY <1>4, MaySave DEF Install

\* What any call the shell makes leaves is sound, refused or not.
LEMMA CallsAreSound ==
  ASSUME NEW f, Sound(f), NEW path \in PathType, NEW to \in PathType,
         NEW text \in Seq(Bytes)
  PROVE  /\ Sound(vfs_mkdir(f, path).fs) /\ Sound(vfs_create(f, path).fs)
         /\ Sound(vfs_chdir(f, path).fs) /\ Sound(vfs_remove(f, path).fs)
         /\ Sound(vfs_write(f, path, text).fs) /\ Sound(vfs_append(f, path, text).fs)
         /\ Sound(vfs_move(f, path, to).fs) /\ Sound(vfs_copy(f, path, to).fs)
<1>1. "DIR" \in Kinds /\ "FILE" \in Kinds
  BY DEF Kinds
<1>2. Sound(vfs_mkdir(f, path).fs) /\ Sound(vfs_create(f, path).fs)
  BY <1>1, MakeOrderly DEF Sound, vfs_mkdir, vfs_create
<1>3. Sound(vfs_chdir(f, path).fs) /\ Sound(vfs_remove(f, path).fs)
  BY ChdirOrderly, RemoveOrderly DEF Sound
<1>4. Sound(vfs_write(f, path, text).fs) /\ Sound(vfs_append(f, path, text).fs)
  BY WriteOrderly, AppendOrderly DEF Sound
<1>5. Sound(vfs_move(f, path, to).fs) /\ Sound(vfs_copy(f, path, to).fs)
  BY MoveOrderly, CopyOrderly DEF Sound
<1> QED
  BY <1>2, <1>3, <1>4, <1>5

LEMMA CallKeeps == Inv /\ Call => Inv'
<1> SUFFICES ASSUME Inv, Call PROVE Inv'
  OBVIOUS
<1>1. Sound(fs) /\ phase = "shell" /\ phase' = "shell"
  BY DEF Inv, Call, MemoryHolds
<1>2. Paths \in SUBSET PathType /\ Texts \in SUBSET Seq(Bytes)
  BY InputsAssumption, StringPaths
<1>3. << >> \in Seq(Bytes)
  OBVIOUS
<1>4. Sound(fs')
  <2>1. CASE \E path \in Paths :
               fs' \in {vfs_mkdir(fs, path).fs, vfs_create(fs, path).fs,
                        vfs_chdir(fs, path).fs, vfs_remove(fs, path).fs}
    BY <1>1, <1>2, <1>3, <2>1, CallsAreSound
  <2>2. CASE \E path \in Paths, text \in Texts :
               fs' \in {vfs_write(fs, path, text).fs, vfs_append(fs, path, text).fs}
    BY <1>1, <1>2, <2>2, CallsAreSound
  <2>3. CASE \E from, to \in Paths :
               fs' \in {vfs_move(fs, from, to).fs, vfs_copy(fs, from, to).fs}
    BY <1>1, <1>2, <1>3, <2>3, CallsAreSound
  <2> QED
    BY <2>1, <2>2, <2>3 DEF Call
<1>5. fs' \in FsType
  BY <1>4, SoundHasType
<1>6. TypeOK'
  BY <1>5 DEF Inv, TypeOK, Call
<1>7. (MemoryHolds /\ NothingYet /\ SaveHolds)'
  BY <1>1, <1>4 DEF MemoryHolds, NothingYet, SaveHolds
<1>8. DurableHolds'
  BY DEF Inv, Call, DurableHolds
<1> QED
  BY <1>6, <1>7, <1>8 DEF Inv

LEMMA EndOfLineKeeps == Inv /\ EndOfLine => Inv'
<1> SUFFICES ASSUME Inv, EndOfLine PROVE Inv'
  OBVIOUS
<1>1. Sound(fs')
  BY DEF Inv, EndOfLine, MemoryHolds
<1>2. SaveThenGoTo("shell", fs')
  BY DEF EndOfLine
<1> QED
  BY <1>1, <1>2, MaySave DEF EndOfLine

\* The last sector of a save: the disk now loads, and brings back what was saved.
LEMMA LastSector ==
  ASSUME Inv, WriteSector, sector = VFS_MAX_NODES + VFS_MAX_BLOCKS
  PROVE  /\ disk' \in DiskType /\ Upto(disk', fs, Everything)
         /\ Brings(disk', Kept(fs)) /\ resume \in {"install", "shell"}
<1>1. /\ disk \in DiskType /\ fs \in FsType /\ sector \in Sectors /\ phase = "saving"
      /\ Sound(fs) /\ Upto(disk, fs, sector) /\ resume \in {"install", "shell"}
  BY TypeParts DEF Inv, WriteSector, MemoryHolds, SaveHolds
<1>2. disk' \in DiskType /\ Upto(disk', fs, sector + 1)
  BY <1>1, WrittenEffect, WrittenGoesOn DEF WriteSector
<1>3. sector + 1 = Everything /\ Everything > 0
  BY SizesAssumption DEF Everything
<1>4. Upto(disk', fs, Everything)
  BY <1>2, <1>3
<1>5. disk'.header = "OURS"
  BY <1>3, <1>4 DEF Upto
<1>6. Fresh \in FsType
  BY FreshIsOrderly
<1>7. Loadable(Fresh, disk') /\ Kept(ReadWhole(Fresh, disk')) = Kept(fs)
  BY <1>1, <1>2, <1>4, <1>6, WrittenLoads DEF Sound
<1> QED
  BY <1>1, <1>2, <1>4, <1>5, <1>7 DEF Brings

LEMMA WriteSectorKeeps == Inv /\ WriteSector => Inv'
<1> SUFFICES ASSUME Inv, WriteSector PROVE Inv'
  OBVIOUS
<1>1. /\ disk \in DiskType /\ fs \in FsType /\ sector \in Sectors /\ phase = "saving"
      /\ Sound(fs) /\ Upto(disk, fs, sector) /\ resume \in {"install", "shell"}
  BY TypeParts DEF Inv, WriteSector, MemoryHolds, SaveHolds
<1>2. disk' \in DiskType /\ Upto(disk', fs, sector + 1) /\ fs' = fs
  BY <1>1, WrittenEffect, WrittenGoesOn DEF WriteSector
<1>3. fs.changes \in 0 .. CHANGES_MOD - 1
  BY <1>1 DEF FsType
<1>4. CASE sector = VFS_MAX_NODES + VFS_MAX_BLOCKS
  <2>1. /\ phase' = resume /\ sector' = 0 /\ resume' = "off" /\ saved_at' = fs.changes
        /\ durable' = Kept(fs) /\ UNCHANGED <<opened, failures, power_cuts>>
    BY <1>4 DEF WriteSector, Return
  <2>2. 0 \in Sectors
    BY SizesAssumption DEF Sectors
  <2>3. TypeOK'
    BY <1>1, <1>2, <1>3, <2>1, <2>2 DEF Inv, TypeOK, DiskType, Phases
  <2>4. (MemoryHolds /\ NothingYet /\ SaveHolds)'
    BY <1>1, <1>2, <2>1 DEF MemoryHolds, NothingYet, SaveHolds
  <2>5. DurableHolds'
    BY <1>4, <2>1, LastSector DEF DurableHolds
  <2> QED
    BY <2>3, <2>4, <2>5 DEF Inv
<1>5. CASE sector # VFS_MAX_NODES + VFS_MAX_BLOCKS
  <2>1. /\ sector' = sector + 1 /\ durable' = << >>
        /\ UNCHANGED <<phase, resume, saved_at, opened, failures, power_cuts>>
    BY <1>5 DEF WriteSector
  <2>2. sector' \in Sectors
    BY <1>1, <1>5, <2>1, SizesAssumption DEF Sectors
  <2>3. TypeOK'
    BY <1>1, <1>2, <2>1, <2>2 DEF Inv, TypeOK, DiskType, Phases
  <2>4. (MemoryHolds /\ NothingYet)'
    BY <1>1, <1>2, <2>1 DEF MemoryHolds, NothingYet
  <2>5. SaveHolds'
    BY <1>1, <1>2, <2>1 DEF SaveHolds
  <2>6. DurableHolds'
    BY <2>1 DEF DurableHolds
  <2> QED
    BY <2>3, <2>4, <2>5, <2>6 DEF Inv
<1> QED
  BY <1>4, <1>5

LEMMA WriteFailsKeeps == Inv /\ WriteFails => Inv'
<1> SUFFICES ASSUME Inv, WriteFails PROVE Inv'
  OBVIOUS
<1>1. /\ disk \in DiskType /\ fs \in FsType /\ sector \in Sectors /\ phase = "saving"
      /\ Sound(fs) /\ resume \in {"install", "shell"}
  BY TypeParts DEF Inv, WriteFails, MemoryHolds, SaveHolds
<1>2. disk' \in DiskType
  BY <1>1, WrittenEffect DEF WriteFails
<1>3. /\ phase' = resume /\ sector' = 0 /\ resume' = "off" /\ fs' = fs
      /\ UNCHANGED <<opened, saved_at, power_cuts>>
  BY DEF WriteFails, Return
<1>4. 0 \in Sectors /\ failures' \in 0 .. MaxFailures
  BY SizesAssumption, InputsAssumption DEF Inv, TypeOK, WriteFails, Sectors
<1>5. TypeOK'
  BY <1>1, <1>2, <1>3, <1>4 DEF Inv, TypeOK, DiskType, Phases
<1>6. (MemoryHolds /\ NothingYet /\ SaveHolds)'
  BY <1>1, <1>3 DEF MemoryHolds, NothingYet, SaveHolds
<1>7. DurableHolds'
  <2>1. UNCHANGED <<disk, durable>> \/ durable' = << >>
    BY DEF WriteFails
  <2> QED
    BY <2>1 DEF Inv, DurableHolds
<1> QED
  BY <1>5, <1>6, <1>7 DEF Inv

LEMMA PowerCutKeeps == Inv /\ PowerCut => Inv'
<1> SUFFICES ASSUME Inv, PowerCut PROVE Inv'
  OBVIOUS
<1>1. fs' \in FsType /\ phase' = "off" /\ saved_at' = 0
  BY ZeroTypes DEF PowerCut
<1>2. 0 \in Sectors /\ 0 \in 0 .. CHANGES_MOD - 1 /\ power_cuts' \in 0 .. MaxPowerCuts
  BY SizesAssumption, InputsAssumption DEF Inv, TypeOK, PowerCut, Sectors
<1>3. TypeOK'
  BY <1>1, <1>2 DEF Inv, TypeOK, PowerCut, Phases
<1>4. (MemoryHolds /\ NothingYet /\ SaveHolds)'
  BY <1>1 DEF MemoryHolds, NothingYet, SaveHolds
<1>5. DurableHolds'
  BY DEF Inv, PowerCut, DurableHolds
<1> QED
  BY <1>3, <1>4, <1>5 DEF Inv

\* One step for each action.
LEMMA NextKeeps == Inv /\ [Next]_vars => Inv'
<1>1. Inv /\ UNCHANGED vars => Inv'
  BY DEF vars, Inv, TypeOK, MemoryHolds, NothingYet, SaveHolds, DurableHolds
<1> QED
  BY <1>1, PowerOnKeeps, LoadKeeps, LoadFailsKeeps, LayoutKeeps, InstallKeeps, CallKeeps,
     EndOfLineKeeps, WriteSectorKeeps, WriteFailsKeeps, PowerCutKeeps DEF Next

\* Whatever is typed, however often the power goes off and the disk refuses, the
\* memory stays sound and a disk a save completed stays loadable.
THEOREM AlwaysInv == Spec => []Inv
BY StartsIn, NextKeeps, PTL DEF Spec

\* What the kernel goes on to use is sound, and its bitmap is what its files
\* claim, whatever a power cut or a refusing disk left on the disk.
THEOREM MemoryIsAlwaysSound == Spec => []MemoryIsSound
<1>1. Inv => MemoryIsSound
  <2> SUFFICES ASSUME Inv PROVE MemoryIsSound
    OBVIOUS
  <2>1. phase # "off" => vfsdisk_sound(fs) /\ Rebuilt(fs)
    BY OrderlyIsChecked DEF Inv, MemoryHolds, Sound
  <2> QED
    BY <2>1 DEF Inv, MemoryIsSound, Rebuilt
<1> QED
  BY <1>1, AlwaysInv, PTL

\* Only the last sector of a save moves what is taken for saved.
LEMMA SaveEnds ==
  ASSUME Inv, Next, phase = "saving", saved_at' # saved_at, phase' # "off"
  PROVE  WriteSector /\ sector = VFS_MAX_NODES + VFS_MAX_BLOCKS
<1>1. WriteSector
  BY DEF Next, PowerOn, Load, LoadFails, Layout, Install, Call, EndOfLine, WriteFails,
         PowerCut
<1> QED
  BY <1>1 DEF WriteSector

\* A save that comes to its end leaves a disk that will load, and that holds what
\* was saved, whatever was on the disk before.
THEOREM SavesAreWhole == Spec => SaveIsWhole
<1> DEFINE Whole ==
      phase = "saving" /\ saved_at' # saved_at /\ phase' # "off" =>
        /\ disk'.header = "OURS"
        /\ Loadable(vfs_init(ZeroedFs), disk')
        /\ Kept(ReadWhole(vfs_init(ZeroedFs), disk')) = Kept(fs)
<1>1. Inv /\ [Next]_vars => [Whole]_vars
  <2> SUFFICES ASSUME Inv, Next, phase = "saving", saved_at' # saved_at, phase' # "off"
               PROVE  Whole
    OBVIOUS
  <2>1. WriteSector /\ sector = VFS_MAX_NODES + VFS_MAX_BLOCKS
    BY SaveEnds
  <2>2. Brings(disk', Kept(fs))
    BY <2>1, LastSector
  <2> QED
    BY <2>2 DEF Brings, Fresh
<1> QED
  BY <1>1, AlwaysInv, PTL DEF Spec, SaveIsWhole

\* A save that comes to its end leaves zeros in every sector of a free node or
\* block, so nothing that was deleted can be read off the disk.
THEOREM DeletedIsNeverKept == Spec => NothingDeletedIsKept
<1> DEFINE Wiped ==
      phase = "saving" /\ saved_at' # saved_at /\ phase' # "off" =>
        /\ \A n \in Nodes : ~fs.nodes[n].used => disk'.nodes[n] = ZeroRecord
        /\ \A b \in Blocks : ~fs.block_used[b] => disk'.blocks[b] = ZeroBlock
<1>1. Inv /\ [Next]_vars => [Wiped]_vars
  <2> SUFFICES ASSUME Inv, Next, phase = "saving", saved_at' # saved_at, phase' # "off"
               PROVE  Wiped
    OBVIOUS
  <2>1. WriteSector /\ sector = VFS_MAX_NODES + VFS_MAX_BLOCKS
    BY SaveEnds
  <2>2. Upto(disk', fs, Everything)
    BY <2>1, LastSector
  <2>3. /\ \A n \in Nodes : n + 1 < Everything
        /\ \A b \in Blocks : BlocksAt + b < Everything
    BY SizesAssumption DEF Nodes, Blocks, BlocksAt, Everything
  <2> QED
    BY <2>2, <2>3 DEF Upto, vfsdisk_write_node
<1> QED
  BY <1>1, AlwaysInv, PTL DEF Spec, NothingDeletedIsKept

\* What a whole save wrote is what the next start brings back, however the power
\* went in between, unless the disk does not answer.
THEOREM SavedAlwaysComesBack == Spec => SavedComesBack
<1> DEFINE Back ==
      phase = "loading" /\ durable # << >> /\ opened' # opened /\ phase' # "off" =>
        \/ opened' = "IO_FAILED"
        \/ opened' = "OK" /\ Kept(fs') = durable /\ fs'.changes = saved_at
<1>1. Inv /\ [Next]_vars => [Back]_vars
  <2> SUFFICES ASSUME Inv, Next, phase = "loading", durable # << >>, phase' # "off",
                      opened' # "IO_FAILED"
               PROVE  opened' = "OK" /\ Kept(fs') = durable /\ fs'.changes = saved_at
    OBVIOUS
  <2>1. Load
    BY DEF Next, PowerOn, LoadFails, Layout, Install, Call, EndOfLine, WriteSector,
           WriteFails, PowerCut
  <2>2. /\ fs = Fresh /\ saved_at = 0 /\ fs \in FsType /\ disk \in DiskType
        /\ disk.header = "OURS" /\ Loadable(fs, disk)
        /\ Kept(ReadWhole(fs, disk)) = durable
    BY TypeParts DEF Inv, NothingYet, DurableHolds, Brings
  <2>3. opened' = "OK" /\ fs' = chdir_home([ReadWhole(fs, disk) EXCEPT !.changes = 0])
    BY <2>1, <2>2 DEF Load
  <2> QED
    BY <2>2, <2>3, LoadedHome
<1> QED
  BY <1>1, AlwaysInv, PTL DEF Spec, SavedComesBack
=============================================================================
