--------------------------- MODULE VfsOps_proofs ----------------------------
(***************************************************************************)
(* What the operations of the filesystem keep, each of them whichever way  *)
(* it ends, and what they count.  Nothing here depends on who calls them.  *)
(*                                                                         *)
(*   The pool        who owns a block, what is marked, what is clear: what *)
(*                   vfsblock.c promises to the files that use it          *)
(*   The tree        what the lists and the parents have to agree on, and  *)
(*                   what the list operations do to it                     *)
(*   The operations  vfs.h call by call                                    *)
(***************************************************************************)
EXTENDS VfsCheck, Iteration_proofs

----------------------------------------------------------------------------
(* THE POOL *)

\* A file's blocks fill its slots from the first, without a gap.
BlocksArePacked(f) ==
  \A n \in Nodes, i \in Slots :
     f.nodes[n].blocks[i] # VFS_NONE =>
       \A j \in Slots : j < i => f.nodes[n].blocks[j] # VFS_NONE

\* Every byte of an entry has a block to be in.  vfs_init and vfs_remove leave
\* a node they free whatever length it had.
BytesHaveBlocks(f) ==
  \A n \in Nodes : f.nodes[n].used =>
     /\ f.nodes[n].length <= VFS_FILE_MAX
     /\ \A i \in Slots : i * VFS_BLOCK < f.nodes[n].length =>
                           f.nodes[n].blocks[i] # VFS_NONE

\* No block has two owners.
OwnersAreApart(f) ==
  \A n, m \in Nodes, i, j \in Slots :
     /\ f.nodes[n].blocks[i] # VFS_NONE
     /\ f.nodes[n].blocks[i] = f.nodes[m].blocks[j]
     => n = m /\ i = j

\* A block with an owner is marked.
OwnedIsMarked(f) ==
  \A n \in Nodes, i \in Slots :
     f.nodes[n].blocks[i] # VFS_NONE => f.block_used[f.nodes[n].blocks[i]]

WellKept(f) ==
  /\ f \in FsType
  /\ BlocksArePacked(f)
  /\ BytesHaveBlocks(f)
  /\ OwnersAreApart(f)
  /\ OwnedIsMarked(f)

\* A marked block has an owner.
MarkedIsOwned(f) ==
  \A b \in Blocks : f.block_used[b] =>
                      \E n \in Nodes, i \in Slots : f.nodes[n].blocks[i] = b

\* Only a file in use owns blocks.
OwnersAreFiles(f) ==
  \A n \in Nodes, i \in Slots :
     f.nodes[n].blocks[i] # VFS_NONE => f.nodes[n].used /\ f.nodes[n].kind = "FILE"

\* What a file owns past its length is zero.
TailsAreZero(f) ==
  \A n \in Nodes, i \in Slots, o \in Offsets :
     /\ f.nodes[n].blocks[i] # VFS_NONE
     /\ i * VFS_BLOCK + o >= f.nodes[n].length
     => f.blocks[f.nodes[n].blocks[i]][o] = 0

\* Each marked block is in one file.  `clean' says that nothing was read off a
\* disk: what another start left there may be anything past a file's end.
Filed(f, clean) ==
  MarkedIsOwned(f) /\ OwnersAreFiles(f) /\ (clean => TailsAreZero(f))

\* No file has a block more than its bytes need.
NothingSpare(f) ==
  \A n \in Nodes, i \in Slots :
     f.nodes[n].blocks[i] # VFS_NONE => i * VFS_BLOCK < f.nodes[n].length

----------------------------------------------------------------------------
(* Counting *)

\* A finite set of naturals has, for every k below its size, a member with k
\* members below it.
LEMMA NthMember ==
  ASSUME NEW top \in Nat, NEW S \in SUBSET (0 .. top - 1),
         NEW k \in Nat, k < Cardinality(S)
  PROVE  \E b \in S : Cardinality({c \in S : c < b}) = k
<1> DEFINE Below(n) == {c \in S : c < n}
           Big == {n \in Nat : Cardinality(Below(n)) > k}
<1> HIDE DEF Below, Big
<1>0. \A c \in S : c \in Nat /\ c < top
  OBVIOUS
<1>1. IsFiniteSet(S)
  <2>1. IsFiniteSet(0 .. top - 1)
    BY FS_Interval
  <2> QED
    BY <2>1, FS_Subset
<1>2. \A n \in Nat : IsFiniteSet(Below(n)) /\ Cardinality(Below(n)) \in Nat
  <2> TAKE n \in Nat
  <2>1. Below(n) \in SUBSET S
    BY DEF Below
  <2> QED
    BY <1>1, <2>1, FS_Subset, FS_CardinalityType
<1>3. Below(top) = S
  BY <1>0 DEF Below
<1>4. Below(0) = {}
  <2>1. \A c \in S : ~(c < 0)
    BY <1>0
  <2> QED
    BY <2>1 DEF Below
<1>5. PICK n \in Big : \A m \in Big : n <= m
  <2>1. top \in Big
    BY <1>3 DEF Big
  <2>2. Big \in SUBSET Nat
    BY DEF Big
  <2> QED
    BY <2>1, <2>2, LeastNat
<1>6. n \in Nat /\ Cardinality(Below(n)) > k
  BY DEF Big
<1>7. n # 0
  BY <1>4, <1>6, FS_EmptySet
<1>8. n - 1 \in Nat /\ n - 1 \notin Big
  BY <1>5, <1>6, <1>7
<1>9. Cardinality(Below(n - 1)) <= k
  BY <1>2, <1>8 DEF Big
<1>10. n - 1 \in S
  <2> SUFFICES ASSUME n - 1 \notin S PROVE FALSE
    OBVIOUS
  <2>1. \A c \in S : c < n <=> c < n - 1
    BY <1>0, <1>6
  <2>2. Below(n) = Below(n - 1)
    BY <2>1 DEF Below
  <2> QED
    BY <1>2, <1>6, <1>8, <1>9, <2>2
<1>11. Below(n) = Below(n - 1) \cup {n - 1}
  <2>1. \A c \in S : c < n <=> (c < n - 1 \/ c = n - 1)
    BY <1>0, <1>6
  <2>2. n - 1 < n
    BY <1>6
  <2> QED
    BY <1>10, <2>1, <2>2 DEF Below
<1>12. n - 1 \notin Below(n - 1)
  BY <1>8 DEF Below
<1>13. Cardinality(Below(n - 1)) = k
  <2>1. Cardinality(Below(n)) = Cardinality(Below(n - 1)) + 1
    BY <1>2, <1>8, <1>11, <1>12, FS_AddElement
  <2> QED
    BY <1>2, <1>6, <1>8, <1>9, <2>1
<1> QED
  BY <1>10, <1>13 DEF Below

\* The scan of vfsblock_take finds a free block while there is one, and the
\* next scan another.
LEMMA TakenIsFree ==
  ASSUME NEW f, NEW k \in Nat, k < Cardinality(Free(f))
  PROVE  /\ taken(f, k) \in Free(f)
         /\ Cardinality({c \in Free(f) : c < taken(f, k)}) = k
<1>1. Free(f) \in SUBSET (0 .. VFS_MAX_BLOCKS - 1)
  BY DEF Free, Blocks
<1>2. \E b \in Free(f) : Cardinality({c \in Free(f) : c < b}) = k
  <2> HIDE DEF Free
  <2>1. VFS_MAX_BLOCKS \in Nat
    BY SizesAssumption
  <2> QED
    BY <1>1, <2>1, NthMember
<1> QED
  BY <1>2 DEF taken

LEMMA SlotsAreFinite ==
  ASSUME NEW S \in SUBSET Slots
  PROVE  IsFiniteSet(S) /\ Cardinality(S) \in Nat
<1>1. IsFiniteSet(Slots)
  BY FS_Interval, SizesAssumption DEF Slots
<1> QED
  BY <1>1, FS_Subset, FS_CardinalityType

LEMMA FreeIsFinite ==
  ASSUME NEW f
  PROVE  IsFiniteSet(Free(f)) /\ Cardinality(Free(f)) \in Nat
<1>1. IsFiniteSet(Blocks)
  BY FS_Interval, SizesAssumption DEF Blocks
<1>2. Free(f) \in SUBSET Blocks
  BY DEF Free
<1> QED
  BY <1>1, <1>2, FS_Subset, FS_CardinalityType

\* Two empty slots are given different blocks.
LEMMA EmptySlotsAreOrdered ==
  ASSUME NEW node, NEW i \in Slots, NEW j \in Slots, i < j,
         node.blocks[i] = VFS_NONE
  PROVE  /\ EmptyBefore(node, i) \in Nat
         /\ EmptyBefore(node, j) \in Nat
         /\ EmptyBefore(node, i) < EmptyBefore(node, j)
<1> DEFINE E(s) == {x \in Slots : x < s /\ node.blocks[x] = VFS_NONE}
<1>1. E(i) \in SUBSET E(j) /\ i \in E(j) /\ i \notin E(i)
  BY SizesAssumption DEF Slots
<1>2. E(i) \in SUBSET Slots /\ E(j) \in SUBSET Slots
  OBVIOUS
<1>3. EmptyBefore(node, i) = Cardinality(E(i)) /\ EmptyBefore(node, j) = Cardinality(E(j))
  BY DEF EmptyBefore
<1> HIDE DEF E
<1>4. Cardinality(E(i)) \in Nat /\ Cardinality(E(j)) \in Nat /\ IsFiniteSet(E(j))
  BY <1>2, SlotsAreFinite
<1>5. Cardinality(E(i)) <= Cardinality(E(j)) /\ Cardinality(E(i)) # Cardinality(E(j))
  BY <1>1, <1>4, FS_Subset
<1> QED
  BY <1>3, <1>4, <1>5

\* In a file without gaps, the slot after the held ones is the first empty one.
LEMMA EmptyAfterHeld ==
  ASSUME NEW node, NEW i \in Slots, node.blocks[i] = VFS_NONE,
         \A x, y \in Slots : node.blocks[x] # VFS_NONE /\ y < x
                                => node.blocks[y] # VFS_NONE
  PROVE  /\ vfsblock_held(node) \in Nat
         /\ EmptyBefore(node, i) \in Nat
         /\ EmptyBefore(node, i) = i - vfsblock_held(node)
<1> DEFINE E == {x \in Slots : x < i /\ node.blocks[x] = VFS_NONE}
           H == {x \in Slots : node.blocks[x] # VFS_NONE}
<1>1. E \cap H = {} /\ E \in SUBSET Slots /\ H \in SUBSET Slots
  OBVIOUS
<1>2. E \cup H = 0 .. i - 1
  <2>1. ASSUME NEW x \in H PROVE x \in 0 .. i - 1
    <3>1. x \in Slots /\ x # i /\ ~(i < x)
      OBVIOUS
    <3> QED
      BY <3>1, SizesAssumption DEF Slots
  <2>2. ASSUME NEW x \in E PROVE x \in 0 .. i - 1
    BY SizesAssumption DEF Slots
  <2>3. ASSUME NEW x \in 0 .. i - 1 PROVE x \in E \cup H
    <3>1. x \in Slots /\ x < i
      BY SizesAssumption DEF Slots
    <3> QED
      BY <3>1
  <2> QED
    BY <2>1, <2>2, <2>3
<1>3. vfsblock_held(node) = Cardinality(H) /\ EmptyBefore(node, i) = Cardinality(E)
  BY DEF EmptyBefore, vfsblock_held
<1> HIDE DEF E, H
<1>4. /\ IsFiniteSet(E) /\ Cardinality(E) \in Nat
      /\ IsFiniteSet(H) /\ Cardinality(H) \in Nat
  BY <1>1, SlotsAreFinite
<1>5. Cardinality(E \cup H) = Cardinality(E) + Cardinality(H)
  <2>1. Cardinality(E \cap H) = 0
    BY <1>1, FS_EmptySet
  <2>2. Cardinality(E \cup H)
          = Cardinality(E) + Cardinality(H) - Cardinality(E \cap H)
    BY <1>4, FS_Union
  <2> QED
    BY <1>4, <2>1, <2>2
<1>6. i \in Nat
  BY SizesAssumption DEF Slots
<1>7. Cardinality(0 .. i - 1) = i
  BY <1>6, FS_Interval
<1>8. Cardinality(E) + Cardinality(H) = i
  BY <1>2, <1>5, <1>7
<1> QED
  BY <1>3, <1>4, <1>6, <1>8

----------------------------------------------------------------------------
(* Handing blocks back *)

\* The parts of a well-typed filesystem.
LEMMA FsParts ==
  ASSUME NEW f \in FsType
  PROVE  /\ f.nodes \in [Nodes -> NodeType]
         /\ f.blocks \in [Blocks -> [Offsets -> Bytes \cup {0}]]
         /\ f.block_used \in [Blocks -> BOOLEAN]
         /\ f.cwd \in Nodes
         /\ f.changes \in 0 .. CHANGES_MOD - 1
         /\ \A n \in Nodes : /\ f.nodes[n] \in NodeType
                             /\ f.nodes[n].length \in Nat
                             /\ f.nodes[n].blocks \in [Slots -> Blocks \cup {VFS_NONE}]
BY DEF FsType, NodeType

LEMMA ReleaseKeeps ==
  ASSUME NEW f, WellKept(f), NEW at \in Nodes
  PROVE  /\ WellKept(vfsblock_release(f, at))
         /\ vfsblock_release(f, at).nodes[at].length = 0
<1> DEFINE g == vfsblock_release(f, at)
<1>1. f \in FsType
  BY DEF WellKept
<1>2. NoBlocks \in [Slots -> Blocks \cup {VFS_NONE}]
  BY DEF NoBlocks
<1> DEFINE node == [f.nodes[at] EXCEPT !.blocks = NoBlocks, !.length = 0]
           used == [b \in Blocks |->
                      f.block_used[b] /\ \A i \in Slots : f.nodes[at].blocks[i] # b]
<1>3. g \in FsType
  <2>1. node \in NodeType
    <3>1. f.nodes[at] \in NodeType
      BY <1>1, FsParts
    <3> QED
      BY <3>1, <1>2 DEF NodeType
  <2>2. used \in [Blocks -> BOOLEAN]
    OBVIOUS
  <2>3. g = [f EXCEPT !.block_used = used, !.nodes[at] = node]
    BY DEF vfsblock_release
  <2> HIDE DEF g, node, used
  <2> QED
    BY <1>1, <2>1, <2>2, <2>3 DEF FsType
<1>4. /\ g.nodes[at].blocks = NoBlocks /\ g.nodes[at].length = 0
      /\ \A n \in Nodes : n # at => g.nodes[n] = f.nodes[n]
  <2>1. f.nodes[at] \in NodeType /\ f.nodes \in [Nodes -> NodeType]
    BY <1>1, FsParts
  <2>2. node.blocks = NoBlocks /\ node.length = 0
    BY <2>1 DEF NodeType
  <2>3. g.nodes = [f.nodes EXCEPT ![at] = node]
    BY <1>1 DEF vfsblock_release, FsType
  <2> HIDE DEF node, g
  <2> QED
    BY <2>1, <2>2, <2>3
<1>5. g.block_used = [b \in Blocks |->
        f.block_used[b] /\ \A i \in Slots : f.nodes[at].blocks[i] # b]
  BY <1>1 DEF vfsblock_release, FsType
<1>6. \A i \in Slots : g.nodes[at].blocks[i] = VFS_NONE
  BY <1>4 DEF NoBlocks
<1> HIDE DEF g
<1>7. BlocksArePacked(g)
  BY <1>4, <1>6 DEF WellKept, BlocksArePacked
<1>8. BytesHaveBlocks(g)
  <2>1. VFS_FILE_MAX \in Nat
    BY SizesAssumption DEF VFS_FILE_MAX
  <2>2. \A i \in Slots : ~(i * VFS_BLOCK < 0)
    BY SizesAssumption DEF Slots
  <2> QED
    BY <1>4, <2>1, <2>2 DEF WellKept, BytesHaveBlocks
<1>9. OwnersAreApart(g)
  BY <1>4, <1>6 DEF WellKept, OwnersAreApart
<1>10. OwnedIsMarked(g)
  <2> SUFFICES ASSUME NEW n \in Nodes, NEW i \in Slots,
                      g.nodes[n].blocks[i] # VFS_NONE
               PROVE  g.block_used[g.nodes[n].blocks[i]]
    BY DEF OwnedIsMarked
  <2>1. n # at /\ g.nodes[n].blocks[i] = f.nodes[n].blocks[i]
    BY <1>4, <1>6
  <2> DEFINE b == f.nodes[n].blocks[i]
  <2>2. b \in Blocks
    BY <1>1, <2>1, FsParts
  <2>3. f.block_used[b] /\ \A j \in Slots : f.nodes[at].blocks[j] # b
    BY <2>1 DEF WellKept, OwnedIsMarked, OwnersAreApart
  <2> QED
    BY <1>5, <2>1, <2>2, <2>3
<1> QED
  BY <1>3, <1>4, <1>7, <1>8, <1>9, <1>10 DEF WellKept, g

----------------------------------------------------------------------------
(* Asking for blocks *)

\* What a block holds is of no account to who owns it.
LEMMA ContentsChange ==
  ASSUME NEW f, WellKept(f),
         NEW new \in [Blocks -> [Offsets -> Bytes \cup {0}]]
  PROVE  /\ WellKept([f EXCEPT !.blocks = new])
         /\ [f EXCEPT !.blocks = new].nodes = f.nodes
<1> DEFINE g == [f EXCEPT !.blocks = new]
<1>1. f \in FsType
  BY DEF WellKept
<1>2. g \in FsType /\ g.nodes = f.nodes /\ g.block_used = f.block_used
  BY <1>1 DEF FsType
<1> HIDE DEF g
<1>3. WellKept(g)
  BY <1>2 DEF WellKept, BlocksArePacked, BytesHaveBlocks, OwnersAreApart, OwnedIsMarked
<1> QED
  BY <1>2, <1>3 DEF g

LEMMA ClearedType ==
  ASSUME NEW f \in FsType, NEW S
  PROVE  Cleared(f, S) \in [Blocks -> [Offsets -> Bytes \cup {0}]]
BY FsParts DEF Cleared

\* What is new after a request that is granted: cleared blocks that were free,
\* in slots that were asked for.
Granted(f, g, at, wanted) ==
  /\ \A n \in Nodes : n # at => g.nodes[n] = f.nodes[n]
  /\ \A i \in Slots :
       \/ g.nodes[at].blocks[i] = f.nodes[at].blocks[i]
       \/ /\ i < wanted
          /\ g.nodes[at].blocks[i] \in Free(f)
          /\ \A o \in Offsets : g.blocks[g.nodes[at].blocks[i]][o] = 0
  /\ \A i \in Slots : f.nodes[at].blocks[i] # VFS_NONE =>
                         g.nodes[at].blocks[i] = f.nodes[at].blocks[i]
  /\ \A b \in Blocks : g.block_used[b] =>
        f.block_used[b] \/ \E i \in Slots : g.nodes[at].blocks[i] = b
  /\ \A b \in Blocks : f.block_used[b] => g.blocks[b] = f.blocks[b]

\* A request that is granted fills the slots asked for, with blocks that were
\* nobody's.
LEMMA ReserveSucceeds ==
  ASSUME NEW f, WellKept(f), NEW at \in Nodes, NEW wanted \in Nat,
         reserve_succeeds(f, at, wanted)
  PROVE  LET g == vfsblock_reserve(f, at, wanted)
         IN  /\ WellKept(g)
             /\ g.nodes[at].length = f.nodes[at].length
             /\ \A i \in Slots : i < wanted => g.nodes[at].blocks[i] # VFS_NONE
             /\ Granted(f, g, at, wanted)
<1> DEFINE g == vfsblock_reserve(f, at, wanted)
           node == f.nodes[at]
           need == wanted - vfsblock_held(node)
           gets(i) == node.blocks[i] = VFS_NONE /\ EmptyBefore(node, i) < need
           pick(i) == taken(f, EmptyBefore(node, i))
           given == {pick(i) : i \in {j \in Slots : gets(j)}}
           slots == [i \in Slots |-> IF gets(i) THEN pick(i) ELSE node.blocks[i]]
           filled == [node EXCEPT !.blocks = slots]
           used == [b \in Blocks |-> f.block_used[b] \/ b \in given]
           zeroed == Cleared(f, given)
<1>1. /\ f \in FsType /\ node \in NodeType
      /\ node.blocks \in [Slots -> Blocks \cup {VFS_NONE}]
      /\ f.nodes \in [Nodes -> NodeType]
  BY FsParts DEF WellKept
<1>2. g = [f EXCEPT !.blocks = zeroed, !.block_used = used, !.nodes[at] = filled]
  BY DEF vfsblock_reserve
<1>3. vfsblock_held(node) \in Nat /\ need \in Int /\ need <= Cardinality(Free(f))
  <2>1. vfsblock_held(node) \in Nat
    BY SlotsAreFinite DEF vfsblock_held
  <2> QED
    BY <2>1 DEF reserve_succeeds
<1>4. \A i \in Slots : EmptyBefore(node, i) \in Nat
  BY SlotsAreFinite DEF EmptyBefore
<1>5. ASSUME NEW i \in Slots, gets(i)
      PROVE  /\ pick(i) \in Free(f) /\ pick(i) \in Blocks /\ pick(i) # VFS_NONE
             /\ Cardinality({c \in Free(f) : c < pick(i)}) = EmptyBefore(node, i)
  <2>1. EmptyBefore(node, i) < Cardinality(Free(f))
    BY <1>3, <1>4, <1>5, FreeIsFinite
  <2>2. /\ pick(i) \in Free(f)
        /\ Cardinality({c \in Free(f) : c < pick(i)}) = EmptyBefore(node, i)
    BY <1>4, <2>1, TakenIsFree
  <2>3. \A b \in Blocks : b # VFS_NONE
    BY SizesAssumption DEF Blocks, VFS_NONE
  <2>4. pick(i) \in Blocks
    BY <2>2 DEF Free
  <2> HIDE DEF pick
  <2> QED
    BY <2>2, <2>3, <2>4
<1> HIDE DEF pick
<1>6. ASSUME NEW i \in Slots, NEW j \in Slots, gets(i), gets(j), i # j
      PROVE  pick(i) # pick(j)
  <2>1. EmptyBefore(node, i) # EmptyBefore(node, j)
    <3>1. CASE i < j
      BY <1>6, <3>1, EmptySlotsAreOrdered
    <3>2. CASE j < i
      BY <1>6, <3>2, EmptySlotsAreOrdered
    <3>3. i < j \/ j < i
      BY <1>6, SizesAssumption DEF Slots
    <3> QED
      BY <3>1, <3>2, <3>3
  <2> QED
    BY <1>5, <1>6, <2>1
<1>7. g \in FsType
  <2>1. slots \in [Slots -> Blocks \cup {VFS_NONE}]
    BY <1>1, <1>5
  <2>2. filled \in NodeType
    <3> HIDE DEF slots, node
    <3> QED
      BY <1>1, <2>1 DEF NodeType
  <2>3. used \in [Blocks -> BOOLEAN]
    BY <1>1, FsParts
  <2>4. zeroed \in [Blocks -> [Offsets -> Bytes \cup {0}]]
    BY <1>1, ClearedType
  <2> HIDE DEF g, filled, used, zeroed
  <2> QED
    BY <1>1, <1>2, <2>2, <2>3, <2>4 DEF FsType
<1>8. /\ g.nodes[at].length = f.nodes[at].length
      /\ g.nodes[at].used = f.nodes[at].used
      /\ g.nodes[at].blocks = slots
      /\ \A n \in Nodes : n # at => g.nodes[n] = f.nodes[n]
      /\ g.block_used = used /\ g.blocks = zeroed
  <2>1. g.nodes = [f.nodes EXCEPT ![at] = filled] /\ g.block_used = used /\ g.blocks = zeroed
    <3> HIDE DEF filled, used, zeroed
    <3> QED
      BY <1>1, <1>2 DEF FsType
  <2>2. filled.blocks = slots /\ filled.length = node.length /\ filled.used = node.used
    BY <1>1 DEF NodeType
  <2> HIDE DEF g, filled
  <2> QED
    BY <1>1, <2>1, <2>2
<1> HIDE DEF g
<1>9. \A n \in Nodes : /\ g.nodes[n].length = f.nodes[n].length
                        /\ g.nodes[n].used = f.nodes[n].used
  BY <1>8
<1>10. ASSUME NEW n \in Nodes, NEW i \in Slots
       PROVE  \/ g.nodes[n].blocks[i] = f.nodes[n].blocks[i] /\ (n = at => ~gets(i))
              \/ n = at /\ gets(i) /\ g.nodes[n].blocks[i] = pick(i)
  BY <1>8
<1>11. ASSUME NEW n \in Nodes, NEW i \in Slots, f.nodes[n].blocks[i] # VFS_NONE
       PROVE  g.nodes[n].blocks[i] = f.nodes[n].blocks[i]
  BY <1>10, <1>11
<1>12. BlocksArePacked(g)
  <2> SUFFICES ASSUME NEW n \in Nodes, NEW i \in Slots, NEW j \in Slots,
                      g.nodes[n].blocks[i] # VFS_NONE, j < i
               PROVE  g.nodes[n].blocks[j] # VFS_NONE
    BY DEF BlocksArePacked
  <2>1. CASE g.nodes[n].blocks[i] = f.nodes[n].blocks[i]
    <3>1. f.nodes[n].blocks[j] # VFS_NONE
      BY <2>1 DEF WellKept, BlocksArePacked
    <3> QED
      BY <1>11, <3>1
  <2>2. CASE n = at /\ gets(i) /\ f.nodes[n].blocks[j] = VFS_NONE
    <3>1. EmptyBefore(node, j) < EmptyBefore(node, i)
      BY <2>2, EmptySlotsAreOrdered
    <3>2. gets(j)
      BY <1>3, <1>4, <2>2, <3>1
    <3> QED
      BY <1>5, <1>10, <2>2, <3>2
  <2>3. CASE f.nodes[n].blocks[j] # VFS_NONE
    BY <1>11, <2>3
  <2> QED
    BY <1>10, <2>1, <2>2, <2>3
<1>13. BytesHaveBlocks(g)
  BY <1>9, <1>11 DEF WellKept, BytesHaveBlocks
<1>14. ASSUME NEW n \in Nodes, NEW i \in Slots, f.nodes[n].blocks[i] # VFS_NONE,
              NEW j \in Slots, gets(j)
       PROVE  f.nodes[n].blocks[i] # pick(j)
  <2>1. f.block_used[f.nodes[n].blocks[i]]
    BY <1>14 DEF WellKept, OwnedIsMarked
  <2>2. ~f.block_used[pick(j)]
    BY <1>5, <1>14 DEF Free
  <2> QED
    BY <2>1, <2>2
<1>15. OwnersAreApart(g)
  <2> SUFFICES ASSUME NEW n \in Nodes, NEW m \in Nodes,
                      NEW i \in Slots, NEW j \in Slots,
                      g.nodes[n].blocks[i] # VFS_NONE,
                      g.nodes[n].blocks[i] = g.nodes[m].blocks[j]
               PROVE  n = m /\ i = j
    BY DEF OwnersAreApart
  <2> HIDE DEF gets
  <2>1. CASE /\ g.nodes[n].blocks[i] = f.nodes[n].blocks[i]
             /\ g.nodes[m].blocks[j] = f.nodes[m].blocks[j]
    <3>1. OwnersAreApart(f)
      BY DEF WellKept
    <3>2. /\ f.nodes[n].blocks[i] # VFS_NONE
          /\ f.nodes[n].blocks[i] = f.nodes[m].blocks[j]
      BY <2>1
    <3> QED
      BY <3>1, <3>2 DEF OwnersAreApart
  <2>2. CASE /\ g.nodes[n].blocks[i] = f.nodes[n].blocks[i]
             /\ gets(j) /\ g.nodes[m].blocks[j] = pick(j)
    BY <1>14, <2>2
  <2>3. CASE /\ gets(i) /\ g.nodes[n].blocks[i] = pick(i)
             /\ g.nodes[m].blocks[j] = f.nodes[m].blocks[j]
    BY <1>14, <2>3
  <2>4. CASE /\ n = at /\ gets(i) /\ g.nodes[n].blocks[i] = pick(i)
             /\ m = at /\ gets(j) /\ g.nodes[m].blocks[j] = pick(j)
    BY <1>6, <2>4
  <2> QED
    BY <1>10, <2>1, <2>2, <2>3, <2>4
<1>16. OwnedIsMarked(g)
  <2> SUFFICES ASSUME NEW n \in Nodes, NEW i \in Slots,
                      g.nodes[n].blocks[i] # VFS_NONE
               PROVE  g.block_used[g.nodes[n].blocks[i]]
    BY DEF OwnedIsMarked
  <2>1. CASE g.nodes[n].blocks[i] = f.nodes[n].blocks[i]
    <3>1. f.nodes[n].blocks[i] \in Blocks
      BY <1>1, <2>1, FsParts
    <3>2. f.block_used[f.nodes[n].blocks[i]]
      BY <2>1 DEF WellKept, OwnedIsMarked
    <3> QED
      BY <1>8, <2>1, <3>1, <3>2
  <2>2. CASE gets(i) /\ g.nodes[n].blocks[i] = pick(i)
    <3>1. pick(i) \in Blocks /\ pick(i) \in given
      BY <1>5, <2>2
    <3> HIDE DEF given
    <3> QED
      BY <1>8, <2>2, <3>1
  <2> QED
    BY <1>10, <2>1, <2>2
<1>17. ASSUME NEW i \in Slots, i < wanted PROVE g.nodes[at].blocks[i] # VFS_NONE
  <2>1. CASE node.blocks[i] # VFS_NONE
    BY <1>11, <2>1
  <2>2. CASE node.blocks[i] = VFS_NONE
    <3>1. \A x, y \in Slots : node.blocks[x] # VFS_NONE /\ y < x
                                 => node.blocks[y] # VFS_NONE
      BY DEF WellKept, BlocksArePacked
    <3>2. EmptyBefore(node, i) = i - vfsblock_held(node)
      BY <2>2, <3>1, EmptyAfterHeld
    <3>3. i \in Nat
      BY SizesAssumption DEF Slots
    <3>4. gets(i)
      BY <1>3, <1>17, <2>2, <3>2, <3>3
    <3> QED
      BY <1>5, <1>8, <3>4
  <2> QED
    BY <2>1, <2>2
<1>18. Granted(f, g, at, wanted)
  <2>1. \A x, y \in Slots : node.blocks[x] # VFS_NONE /\ y < x
                              => node.blocks[y] # VFS_NONE
    BY DEF WellKept, BlocksArePacked
  <2>2. ASSUME NEW i \in Slots, gets(i) PROVE i < wanted
    <3>1. EmptyBefore(node, i) = i - vfsblock_held(node)
      BY <2>1, <2>2, EmptyAfterHeld
    <3>2. i \in Nat
      BY SizesAssumption DEF Slots
    <3> QED
      BY <1>3, <2>2, <3>1, <3>2
  <2>3. ASSUME NEW i \in Slots, gets(i)
        PROVE  /\ g.nodes[at].blocks[i] = pick(i) /\ pick(i) \in Blocks /\ pick(i) \in given
               /\ \A o \in Offsets : g.blocks[pick(i)][o] = 0
    <3>1. g.nodes[at].blocks[i] = pick(i) /\ pick(i) \in Blocks /\ pick(i) \in given
      BY <1>5, <1>8, <2>3
    <3> HIDE DEF given
    <3> QED
      BY <1>8, <3>1 DEF Cleared
  <2>4. ASSUME NEW i \in Slots
        PROVE  \/ g.nodes[at].blocks[i] = f.nodes[at].blocks[i]
               \/ /\ i < wanted
                  /\ g.nodes[at].blocks[i] \in Free(f)
                  /\ \A o \in Offsets : g.blocks[g.nodes[at].blocks[i]][o] = 0
    <3>1. CASE gets(i)
      BY <1>5, <2>2, <2>3, <3>1
    <3>2. CASE ~gets(i)
      BY <1>10, <3>2
    <3> QED
      BY <3>1, <3>2
  <2>5. ASSUME NEW b \in Blocks, g.block_used[b]
        PROVE  f.block_used[b] \/ \E i \in Slots : g.nodes[at].blocks[i] = b
    <3>1. f.block_used[b] \/ b \in given
      <4> HIDE DEF given
      <4> QED
        BY <1>8, <2>5
    <3>2. CASE b \in given
      <4>1. PICK i \in {j \in Slots : gets(j)} : b = pick(i)
        BY <3>2
      <4> HIDE DEF given, gets
      <4> QED
        BY <2>3, <4>1
    <3> QED
      BY <3>1, <3>2
  <2>6. ASSUME NEW b \in Blocks, f.block_used[b] PROVE g.blocks[b] = f.blocks[b]
    <3>1. b \notin given
      <4> SUFFICES ASSUME b \in given PROVE FALSE
        OBVIOUS
      <4>1. PICK i \in {j \in Slots : gets(j)} : b = pick(i)
        OBVIOUS
      <4>2. pick(i) \in Free(f)
        BY <1>5
      <4> QED
        BY <2>6, <4>1, <4>2 DEF Free
    <3> HIDE DEF given
    <3> QED
      BY <1>8, <3>1 DEF Cleared
  <2> HIDE DEF given, gets
  <2> QED
    BY <1>8, <1>11, <2>4, <2>5, <2>6 DEF Granted
<1> QED
  BY <1>7, <1>8, <1>12, <1>13, <1>15, <1>16, <1>17, <1>18 DEF WellKept, g

\* A request that is refused leaves everything to its owners.
LEMMA ReserveKeeps ==
  ASSUME NEW f, WellKept(f), NEW at \in Nodes, NEW wanted \in Nat
  PROVE  WellKept(vfsblock_reserve(f, at, wanted))
<1>1. CASE reserve_succeeds(f, at, wanted)
  BY <1>1, ReserveSucceeds
<1>2. CASE ~reserve_succeeds(f, at, wanted)
  <2> DEFINE dirty == IF wanted <= VFS_DIRECT_BLOCKS THEN Free(f) ELSE {}
  <2>1. vfsblock_reserve(f, at, wanted) = [f EXCEPT !.blocks = Cleared(f, dirty)]
    BY <1>2 DEF vfsblock_reserve
  <2>2. Cleared(f, dirty) \in [Blocks -> [Offsets -> Bytes \cup {0}]]
    BY ClearedType DEF WellKept
  <2> QED
    BY <2>1, <2>2, ContentsChange
<1> QED
  BY <1>1, <1>2

----------------------------------------------------------------------------
(* Contents *)

\* The blocks a length needs are enough for every byte of it.
LEMMA BlocksForIsEnough ==
  ASSUME NEW length \in Nat, NEW i \in Nat, i * VFS_BLOCK < length
  PROVE  /\ vfs_blocks_for(length) \in Nat
         /\ i < vfs_blocks_for(length)
<1> DEFINE q == vfs_blocks_for(length)
<1>1. VFS_BLOCK \in Nat /\ VFS_BLOCK > 0
  BY SizesAssumption
<1>2. q \in Nat /\ length + VFS_BLOCK - 1 < (q + 1) * VFS_BLOCK
  BY <1>1 DEF vfs_blocks_for
<1> HIDE DEF q
<1>3. (i + 1) * VFS_BLOCK < (q + 1) * VFS_BLOCK
  BY <1>1, <1>2
<1>4. i + 1 < q + 1
  BY <1>1, <1>2, <1>3
<1> QED
  BY <1>2, <1>4 DEF q

\* Where byte `k' of a file lives.
LEMMA OffsetHasSlot ==
  ASSUME NEW length \in Nat, length <= VFS_FILE_MAX, NEW k \in Nat, k < length
  PROVE  /\ k \div VFS_BLOCK \in Slots
         /\ (k \div VFS_BLOCK) * VFS_BLOCK < length
         /\ k % VFS_BLOCK \in Offsets
<1> DEFINE q == k \div VFS_BLOCK
<1>1. VFS_BLOCK \in Nat /\ VFS_BLOCK > 0 /\ VFS_DIRECT_BLOCKS \in Nat
  BY SizesAssumption
<1>2. q \in Nat /\ q * VFS_BLOCK <= k
  BY <1>1
<1>3. k % VFS_BLOCK \in 0 .. VFS_BLOCK - 1
  BY <1>1
<1> HIDE DEF q
<1>4. q * VFS_BLOCK < VFS_DIRECT_BLOCKS * VFS_BLOCK
  BY <1>1, <1>2 DEF VFS_FILE_MAX
<1>5. q < VFS_DIRECT_BLOCKS
  BY <1>1, <1>2, <1>4
<1> QED
  BY <1>1, <1>2, <1>3, <1>5 DEF Slots, Offsets, q

\* What a well-kept file holds is a sequence of bytes.
LEMMA ContentsType ==
  ASSUME NEW f, WellKept(f), NEW at \in Nodes, f.nodes[at].used
  PROVE  /\ contents(f, at) \in Seq(Bytes \cup {0})
         /\ Len(contents(f, at)) = f.nodes[at].length
<1> DEFINE node == f.nodes[at]
           byte(i) == f.blocks[node.blocks[(i - 1) \div VFS_BLOCK]][(i - 1) % VFS_BLOCK]
<1>1. /\ f \in FsType /\ node.length \in Nat
      /\ node.blocks \in [Slots -> Blocks \cup {VFS_NONE}]
      /\ f.blocks \in [Blocks -> [Offsets -> Bytes \cup {0}]]
  BY FsParts DEF WellKept
<1>2. contents(f, at) = [i \in 1 .. node.length |-> byte(i)]
  BY DEF contents, vfsblock_at
<1>3. ASSUME NEW i \in 1 .. node.length PROVE byte(i) \in Bytes \cup {0}
  <2> DEFINE s == (i - 1) \div VFS_BLOCK
             o == (i - 1) % VFS_BLOCK
  <2>1. i - 1 \in Nat /\ i - 1 < node.length /\ node.length <= VFS_FILE_MAX
    BY <1>1 DEF WellKept, BytesHaveBlocks
  <2>2. s \in Slots /\ s * VFS_BLOCK < node.length /\ o \in Offsets
    BY <1>1, <2>1, OffsetHasSlot
  <2> HIDE DEF s, o
  <2>3. node.blocks[s] \in Blocks
    BY <1>1, <2>2 DEF WellKept, BytesHaveBlocks
  <2>4. f.blocks[node.blocks[s]][o] \in Bytes \cup {0}
    BY <1>1, <2>2, <2>3
  <2> QED
    BY <2>4 DEF s, o
<1> HIDE DEF byte
<1>4. contents(f, at) \in [1 .. node.length -> Bytes \cup {0}]
  BY <1>2, <1>3
<1> QED
  BY <1>1, <1>4

\* Bytes put at the end of a file that has the blocks for them.
LEMMA PutKeeps ==
  ASSUME NEW f, WellKept(f), NEW at \in Nodes, NEW data \in Seq(Bytes \cup {0}),
         NEW length \in Nat, length = f.nodes[at].length + Len(data),
         length <= VFS_FILE_MAX,
         \A i \in Slots : i < vfs_blocks_for(length) => f.nodes[at].blocks[i] # VFS_NONE
  PROVE  WellKept(put_bytes(f, at, data))
<1> DEFINE g == put_bytes(f, at, data)
           node == f.nodes[at]
           longer == [node EXCEPT !.length = @ + Len(data)]
           goes(b, o) == {i \in DOMAIN data :
                            vfsblock_at(node, node.length + i - 1) = <<b, o>>}
           new == [b \in Blocks |-> [o \in Offsets |->
                     IF goes(b, o) = {} THEN f.blocks[b][o]
                     ELSE data[CHOOSE i \in goes(b, o) : TRUE]]]
<1>1. /\ f \in FsType /\ node \in NodeType /\ node.length \in Nat
      /\ f.nodes \in [Nodes -> NodeType]
      /\ f.blocks \in [Blocks -> [Offsets -> Bytes \cup {0}]]
  BY FsParts DEF WellKept
<1>2. g = [f EXCEPT !.blocks = new, !.nodes[at] = longer]
  BY DEF put_bytes
<1>3. new \in [Blocks -> [Offsets -> Bytes \cup {0}]]
  <2>1. ASSUME NEW b \in Blocks, NEW o \in Offsets
        PROVE  (IF goes(b, o) = {} THEN f.blocks[b][o]
                ELSE data[CHOOSE i \in goes(b, o) : TRUE]) \in Bytes \cup {0}
    <3>1. CASE goes(b, o) = {}
      BY <1>1, <3>1
    <3>2. CASE goes(b, o) # {}
      <4>1. (CHOOSE i \in goes(b, o) : TRUE) \in goes(b, o)
        <5> HIDE DEF goes
        <5> QED
          BY <3>2
      <4>2. (CHOOSE i \in goes(b, o) : TRUE) \in DOMAIN data
        BY <4>1
      <4> HIDE DEF goes
      <4> QED
        BY <3>2, <4>2
    <3> QED
      BY <3>1, <3>2
  <2> HIDE DEF goes
  <2> QED
    BY <2>1
<1> HIDE DEF new
<1>4. longer \in NodeType /\ longer.length = length /\ longer.blocks = node.blocks
  BY <1>1 DEF NodeType
<1>5. g \in FsType
  <2> HIDE DEF g, longer
  <2> QED
    BY <1>1, <1>2, <1>3, <1>4 DEF FsType
<1>6. g.nodes = [f.nodes EXCEPT ![at] = longer] /\ g.block_used = f.block_used
  <2> HIDE DEF g, longer
  <2> QED
    BY <1>1, <1>2 DEF FsType
<1>7. /\ \A n \in Nodes : g.nodes[n].blocks = f.nodes[n].blocks
      /\ \A n \in Nodes : n # at => /\ g.nodes[n].length = f.nodes[n].length
                                     /\ g.nodes[n].used = f.nodes[n].used
      /\ g.nodes[at].length = length
  <2> HIDE DEF g, longer
  <2> QED
    BY <1>1, <1>4, <1>6
<1> HIDE DEF g
<1>8. BlocksArePacked(g) /\ OwnersAreApart(g) /\ OwnedIsMarked(g)
  BY <1>6, <1>7 DEF WellKept, BlocksArePacked, OwnersAreApart, OwnedIsMarked
<1>9. BytesHaveBlocks(g)
  <2> SUFFICES ASSUME NEW n \in Nodes, g.nodes[n].used
               PROVE  /\ g.nodes[n].length <= VFS_FILE_MAX
                      /\ \A i \in Slots : i * VFS_BLOCK < g.nodes[n].length =>
                                            g.nodes[n].blocks[i] # VFS_NONE
    BY DEF BytesHaveBlocks
  <2>1. CASE n # at
    BY <1>7, <2>1 DEF WellKept, BytesHaveBlocks
  <2>2. CASE n = at
    <3>1. ASSUME NEW i \in Slots, i * VFS_BLOCK < length
          PROVE  f.nodes[at].blocks[i] # VFS_NONE
      <4>1. i \in Nat
        BY SizesAssumption DEF Slots
      <4> QED
        BY <3>1, <4>1, BlocksForIsEnough
    <3> QED
      BY <1>7, <2>2, <3>1
  <2> QED
    BY <2>1, <2>2
<1> QED
  BY <1>5, <1>8, <1>9 DEF WellKept, g

----------------------------------------------------------------------------
(* What a file may own, and what is in it *)

\* A node that changed in nothing but its length and its blocks.
SameEntry(m, n) ==
  /\ m.name = n.name /\ m.kind = n.kind /\ m.used = n.used
  /\ m.parent = n.parent /\ m.first_child = n.first_child
  /\ m.next_sibling = n.next_sibling

\* What the pool's operations leave alone.
Touches(f, g, at) ==
  /\ g \in FsType /\ g.cwd = f.cwd
  /\ \A n \in Nodes : n # at => g.nodes[n] = f.nodes[n]
  /\ SameEntry(g.nodes[at], f.nodes[at])

LEMMA ReleaseTouches ==
  ASSUME NEW f \in FsType, NEW at \in Nodes
  PROVE  LET g == vfsblock_release(f, at)
         IN  /\ Touches(f, g, at)
             /\ g.nodes[at].length = 0 /\ g.nodes[at].blocks = NoBlocks
             /\ g.blocks = f.blocks
             /\ \A b \in Blocks : g.block_used[b] <=>
                  f.block_used[b] /\ \A i \in Slots : f.nodes[at].blocks[i] # b
<1> DEFINE g == vfsblock_release(f, at)
           node == [f.nodes[at] EXCEPT !.blocks = NoBlocks, !.length = 0]
           used == [b \in Blocks |->
                      f.block_used[b] /\ \A i \in Slots : f.nodes[at].blocks[i] # b]
<1>1. f.nodes[at] \in NodeType /\ f.nodes \in [Nodes -> NodeType]
  BY FsParts
<1>2. /\ node \in NodeType /\ node.blocks = NoBlocks /\ node.length = 0
      /\ SameEntry(node, f.nodes[at])
  BY <1>1 DEF NodeType, NoBlocks, SameEntry
<1>3. used \in [Blocks -> BOOLEAN]
  OBVIOUS
<1>4. g = [f EXCEPT !.block_used = used, !.nodes[at] = node]
  BY DEF vfsblock_release
<1>5. \A b \in Blocks : used[b] <=>
        f.block_used[b] /\ \A i \in Slots : f.nodes[at].blocks[i] # b
  OBVIOUS
<1> HIDE DEF g, node, used
<1>6. /\ g \in FsType /\ g.cwd = f.cwd /\ g.blocks = f.blocks /\ g.block_used = used
      /\ g.nodes = [f.nodes EXCEPT ![at] = node]
  BY <1>1, <1>2, <1>3, <1>4 DEF FsType
<1> QED
  BY <1>1, <1>2, <1>5, <1>6 DEF Touches, g

\* Releasing a file's blocks frees exactly what was its own.
LEMMA ReleaseFiles ==
  ASSUME NEW clean \in BOOLEAN,
         NEW f, WellKept(f), Filed(f, clean), NEW at \in Nodes
  PROVE  LET g == vfsblock_release(f, at)
         IN  Filed(g, clean) /\ (NothingSpare(f) => NothingSpare(g))
<1> DEFINE g == vfsblock_release(f, at)
<1>1. f \in FsType
  BY DEF WellKept
<1>2. /\ \A n \in Nodes : n # at => g.nodes[n] = f.nodes[n]
      /\ \A i \in Slots : g.nodes[at].blocks[i] = VFS_NONE
      /\ g.blocks = f.blocks
      /\ \A b \in Blocks : g.block_used[b] <=>
           f.block_used[b] /\ \A i \in Slots : f.nodes[at].blocks[i] # b
  BY <1>1, ReleaseTouches DEF Touches, NoBlocks
<1> HIDE DEF g
<1>3. \A n \in Nodes, i \in Slots : g.nodes[n].blocks[i] # VFS_NONE =>
        n # at /\ g.nodes[n] = f.nodes[n]
  BY <1>2
<1>4. MarkedIsOwned(g)
  <2> SUFFICES ASSUME NEW b \in Blocks, g.block_used[b]
               PROVE  \E n \in Nodes, i \in Slots : g.nodes[n].blocks[i] = b
    BY DEF MarkedIsOwned
  <2>1. f.block_used[b] /\ \A i \in Slots : f.nodes[at].blocks[i] # b
    BY <1>2
  <2>2. PICK n \in Nodes, i \in Slots : f.nodes[n].blocks[i] = b
    BY <2>1 DEF Filed, MarkedIsOwned
  <2>3. n # at
    BY <2>1, <2>2
  <2> QED
    BY <1>2, <2>2, <2>3
<1>5. OwnersAreFiles(g)
  BY <1>3 DEF Filed, OwnersAreFiles
<1>6. clean => TailsAreZero(g)
  BY <1>2, <1>3 DEF Filed, TailsAreZero
<1>7. NothingSpare(f) => NothingSpare(g)
  BY <1>3 DEF NothingSpare
<1> QED
  BY <1>4, <1>5, <1>6, <1>7 DEF Filed, g

LEMMA ReserveTouches ==
  ASSUME NEW f, WellKept(f), NEW at \in Nodes, NEW wanted \in Nat
  PROVE  LET g == vfsblock_reserve(f, at, wanted)
         IN  Touches(f, g, at) /\ g.nodes[at].length = f.nodes[at].length
<1> DEFINE g == vfsblock_reserve(f, at, wanted)
           node == f.nodes[at]
<1>1. /\ f \in FsType /\ g \in FsType /\ node \in NodeType
      /\ f.nodes \in [Nodes -> NodeType]
  BY ReserveKeeps, FsParts DEF WellKept
<1>2. \E blocks, used, slots :
        \/ g = [f EXCEPT !.blocks = blocks, !.block_used = used,
                         !.nodes[at] = [@ EXCEPT !.blocks = slots]]
        \/ g = [f EXCEPT !.blocks = blocks]
  BY DEF vfsblock_reserve
<1>3. PICK blocks, used, slots :
        \/ g = [f EXCEPT !.blocks = blocks, !.block_used = used,
                         !.nodes[at] = [@ EXCEPT !.blocks = slots]]
        \/ g = [f EXCEPT !.blocks = blocks]
  BY <1>2
<1> DEFINE filled == [node EXCEPT !.blocks = slots]
<1>4. SameEntry(filled, node) /\ filled.length = node.length
  BY <1>1 DEF NodeType, SameEntry
<1>5. SameEntry(node, node)
  BY DEF SameEntry
<1>6. g.cwd = f.cwd /\ (g.nodes = [f.nodes EXCEPT ![at] = filled] \/ g.nodes = f.nodes)
  <2>1. CASE g = [f EXCEPT !.blocks = blocks, !.block_used = used, !.nodes[at] = filled]
    <3> HIDE DEF g, filled
    <3> QED
      BY <1>1, <2>1 DEF FsType
  <2>2. CASE g = [f EXCEPT !.blocks = blocks]
    <3> HIDE DEF g, filled
    <3> QED
      BY <1>1, <2>2 DEF FsType
  <2> QED
    BY <1>3, <2>1, <2>2
<1> HIDE DEF g, filled
<1> QED
  BY <1>1, <1>4, <1>5, <1>6 DEF Touches, g

\* A request that is granted gives a file cleared blocks, and none beyond those
\* it asked for.
LEMMA GrantFiles ==
  ASSUME NEW clean \in BOOLEAN,
         NEW f, WellKept(f), Filed(f, clean), NEW at \in Nodes, NEW wanted \in Nat,
         reserve_succeeds(f, at, wanted),
         f.nodes[at].used, f.nodes[at].kind = "FILE"
  PROVE  LET g == vfsblock_reserve(f, at, wanted)
         IN  /\ Filed(g, clean)
             /\ \A i \in Slots : g.nodes[at].blocks[i] # VFS_NONE =>
                                   i < wanted \/ f.nodes[at].blocks[i] # VFS_NONE
<1> DEFINE g == vfsblock_reserve(f, at, wanted)
<1>1. f \in FsType
  BY DEF WellKept
<1>2. /\ WellKept(g) /\ Granted(f, g, at, wanted)
      /\ Touches(f, g, at) /\ g.nodes[at].length = f.nodes[at].length
  BY ReserveSucceeds, ReserveTouches
<1> HIDE DEF g
<1>3. ASSUME NEW n \in Nodes, NEW i \in Slots, f.nodes[n].blocks[i] # VFS_NONE
      PROVE  /\ g.nodes[n].blocks[i] = f.nodes[n].blocks[i]
             /\ g.blocks[f.nodes[n].blocks[i]] = f.blocks[f.nodes[n].blocks[i]]
  <2>1. f.nodes[n].blocks[i] \in Blocks /\ f.block_used[f.nodes[n].blocks[i]]
    BY <1>1, <1>3, FsParts DEF WellKept, OwnedIsMarked
  <2>2. g.nodes[n].blocks[i] = f.nodes[n].blocks[i]
    BY <1>2, <1>3 DEF Granted
  <2> QED
    BY <1>2, <2>1, <2>2 DEF Granted
<1>4. MarkedIsOwned(g)
  <2> SUFFICES ASSUME NEW b \in Blocks, g.block_used[b]
               PROVE  \E n \in Nodes, i \in Slots : g.nodes[n].blocks[i] = b
    BY DEF MarkedIsOwned
  <2>1. CASE f.block_used[b]
    <3>1. PICK n \in Nodes, i \in Slots : f.nodes[n].blocks[i] = b
      BY <2>1 DEF Filed, MarkedIsOwned
    <3>2. b # VFS_NONE
      BY SizesAssumption DEF Blocks, VFS_NONE
    <3>3. g.nodes[n].blocks[i] = b
      BY <1>3, <3>1, <3>2
    <3> QED
      BY <3>3
  <2>2. CASE \E i \in Slots : g.nodes[at].blocks[i] = b
    BY <2>2
  <2> QED
    BY <1>2, <2>1, <2>2 DEF Granted
<1>5. OwnersAreFiles(g)
  <2> SUFFICES ASSUME NEW n \in Nodes, NEW i \in Slots, g.nodes[n].blocks[i] # VFS_NONE
               PROVE  g.nodes[n].used /\ g.nodes[n].kind = "FILE"
    BY DEF OwnersAreFiles
  <2>1. CASE n # at
    BY <1>2, <2>1 DEF Touches, Filed, OwnersAreFiles
  <2>2. CASE n = at
    BY <1>2, <2>2 DEF Touches, SameEntry
  <2> QED
    BY <2>1, <2>2
<1>6. clean => TailsAreZero(g)
  <2> SUFFICES ASSUME clean, NEW n \in Nodes, NEW i \in Slots, NEW o \in Offsets,
                      g.nodes[n].blocks[i] # VFS_NONE,
                      i * VFS_BLOCK + o >= g.nodes[n].length
               PROVE  g.blocks[g.nodes[n].blocks[i]][o] = 0
    BY DEF TailsAreZero
  <2>1. g.nodes[n].length = f.nodes[n].length
    BY <1>2 DEF Touches
  <2>2. CASE f.nodes[n].blocks[i] # VFS_NONE
    <3>1. f.blocks[f.nodes[n].blocks[i]][o] = 0
      BY <2>1, <2>2 DEF Filed, TailsAreZero
    <3> QED
      BY <1>3, <2>2, <3>1
  <2>3. CASE f.nodes[n].blocks[i] = VFS_NONE
    <3>1. n = at
      BY <1>2, <2>3 DEF Touches
    <3> QED
      BY <1>2, <2>3, <3>1 DEF Granted
  <2> QED
    BY <2>2, <2>3
<1>7. \A i \in Slots : g.nodes[at].blocks[i] # VFS_NONE =>
                         i < wanted \/ f.nodes[at].blocks[i] # VFS_NONE
  BY <1>2 DEF Granted
<1> QED
  BY <1>4, <1>5, <1>6, <1>7 DEF Filed, g

\* A request that is refused has cleared blocks nobody owns.
LEMMA RefusalFiles ==
  ASSUME NEW clean \in BOOLEAN,
         NEW f, WellKept(f), Filed(f, clean), NEW at \in Nodes, NEW wanted \in Nat,
         ~reserve_succeeds(f, at, wanted)
  PROVE  LET g == vfsblock_reserve(f, at, wanted)
         IN  Filed(g, clean) /\ g.nodes = f.nodes
<1> DEFINE dirty == IF wanted <= VFS_DIRECT_BLOCKS THEN Free(f) ELSE {}
           new == Cleared(f, dirty)
           g == vfsblock_reserve(f, at, wanted)
<1>1. f \in FsType
  BY DEF WellKept
<1>2. g = [f EXCEPT !.blocks = new]
  BY DEF vfsblock_reserve
<1>3. \A b \in Blocks : f.block_used[b] => new[b] = f.blocks[b]
  BY DEF Cleared, Free
<1> HIDE DEF new, g
<1>4. /\ g.nodes = f.nodes /\ g.block_used = f.block_used
      /\ \A b \in Blocks : f.block_used[b] => g.blocks[b] = f.blocks[b]
  BY <1>1, <1>2, <1>3 DEF FsType
<1>5. MarkedIsOwned(g) /\ OwnersAreFiles(g)
  BY <1>4 DEF Filed, MarkedIsOwned, OwnersAreFiles
<1>6. clean => TailsAreZero(g)
  <2> SUFFICES ASSUME clean, NEW n \in Nodes, NEW i \in Slots, NEW o \in Offsets,
                      f.nodes[n].blocks[i] # VFS_NONE,
                      i * VFS_BLOCK + o >= f.nodes[n].length
               PROVE  g.blocks[f.nodes[n].blocks[i]][o] = 0
    BY <1>4 DEF TailsAreZero
  <2>1. f.nodes[n].blocks[i] \in Blocks /\ f.block_used[f.nodes[n].blocks[i]]
    BY <1>1, FsParts DEF WellKept, OwnedIsMarked
  <2>2. f.blocks[f.nodes[n].blocks[i]][o] = 0
    BY DEF Filed, TailsAreZero
  <2> QED
    BY <1>4, <2>1, <2>2
<1> QED
  BY <1>4, <1>5, <1>6 DEF Filed, g

\* A block a length needs has a byte of it.
LEMMA BlocksForIsTight ==
  ASSUME NEW length \in Nat, NEW i \in Nat, i < vfs_blocks_for(length)
  PROVE  i * VFS_BLOCK < length
<1> DEFINE q == vfs_blocks_for(length)
<1>1. VFS_BLOCK \in Nat /\ VFS_BLOCK > 0
  BY SizesAssumption
<1>2. q \in Nat /\ q * VFS_BLOCK <= length + VFS_BLOCK - 1
  BY <1>1 DEF vfs_blocks_for
<1>3. i < q
  OBVIOUS
<1> HIDE DEF q
<1>4. (i + 1) * VFS_BLOCK <= q * VFS_BLOCK
  BY <1>1, <1>2, <1>3
<1>5. (i + 1) * VFS_BLOCK = i * VFS_BLOCK + VFS_BLOCK
  BY <1>1
<1>6. i * VFS_BLOCK \in Nat /\ q * VFS_BLOCK \in Nat
  BY <1>1, <1>2
<1> QED
  BY <1>1, <1>2, <1>4, <1>5, <1>6

\* A position is its block and its place in the block.
LEMMA DivMod ==
  ASSUME NEW k \in Nat, NEW size \in Nat \ {0}
  PROVE  k = (k \div size) * size + (k % size)
OBVIOUS

LEMMA PutTouches ==
  ASSUME NEW f, WellKept(f), NEW at \in Nodes, NEW data \in Seq(Bytes \cup {0}),
         put_bytes(f, at, data) \in FsType
  PROVE  LET g == put_bytes(f, at, data)
             node == f.nodes[at]
         IN  /\ Touches(f, g, at)
             /\ g.nodes[at].length = node.length + Len(data)
             /\ g.nodes[at].blocks = node.blocks
             /\ g.block_used = f.block_used
             /\ \A b \in Blocks, o \in Offsets :
                  \/ g.blocks[b][o] = f.blocks[b][o]
                  \/ \E i \in 1 .. Len(data) :
                       vfsblock_at(node, node.length + i - 1) = <<b, o>>
<1> DEFINE g == put_bytes(f, at, data)
           node == f.nodes[at]
           longer == [node EXCEPT !.length = @ + Len(data)]
           goes(b, o) == {i \in DOMAIN data :
                            vfsblock_at(node, node.length + i - 1) = <<b, o>>}
           new == [b \in Blocks |-> [o \in Offsets |->
                     IF goes(b, o) = {} THEN f.blocks[b][o]
                     ELSE data[CHOOSE i \in goes(b, o) : TRUE]]]
<1>1. f \in FsType /\ node \in NodeType /\ f.nodes \in [Nodes -> NodeType]
  BY FsParts DEF WellKept
<1>2. g = [f EXCEPT !.blocks = new, !.nodes[at] = longer]
  BY DEF put_bytes
<1>3. ASSUME NEW b \in Blocks, NEW o \in Offsets
      PROVE  \/ new[b][o] = f.blocks[b][o]
             \/ \E i \in 1 .. Len(data) :
                  vfsblock_at(node, node.length + i - 1) = <<b, o>>
  <2>1. CASE goes(b, o) = {}
    BY <2>1
  <2>2. CASE goes(b, o) # {}
    <3>1. PICK i \in DOMAIN data : vfsblock_at(node, node.length + i - 1) = <<b, o>>
      BY <2>2
    <3>2. i \in 1 .. Len(data)
      BY <3>1
    <3> QED
      BY <3>1, <3>2
  <2> QED
    BY <2>1, <2>2
<1>4. /\ SameEntry(longer, node) /\ longer.length = node.length + Len(data)
      /\ longer.blocks = node.blocks
  BY <1>1 DEF NodeType, SameEntry
<1> HIDE DEF g, new, longer, goes
<1>5. /\ g.cwd = f.cwd /\ g.block_used = f.block_used /\ g.blocks = new
      /\ g.nodes = [f.nodes EXCEPT ![at] = longer]
  BY <1>1, <1>2 DEF FsType
<1>6. Touches(f, g, at)
  BY <1>1, <1>4, <1>5 DEF Touches, g
<1> QED
  BY <1>1, <1>3, <1>4, <1>5, <1>6 DEF g

\* Bytes put at the end of a file go where the file ends, in its own blocks.
LEMMA PutFiles ==
  ASSUME NEW clean \in BOOLEAN,
         NEW f, WellKept(f), Filed(f, clean), NEW at \in Nodes,
         NEW data \in Seq(Bytes \cup {0}),
         NEW length \in Nat, length = f.nodes[at].length + Len(data),
         length <= VFS_FILE_MAX,
         \A i \in Slots : i < vfs_blocks_for(length) => f.nodes[at].blocks[i] # VFS_NONE
  PROVE  Filed(put_bytes(f, at, data), clean)
<1> DEFINE g == put_bytes(f, at, data)
           node == f.nodes[at]
           goes(b, o) == \E k \in 1 .. Len(data) :
                           vfsblock_at(node, node.length + k - 1) = <<b, o>>
<1>1. f \in FsType /\ node.length \in Nat
  BY FsParts DEF WellKept
<1>2. g \in FsType
  BY PutKeeps DEF WellKept
<1>3. /\ Touches(f, g, at)
      /\ g.nodes[at].length = length /\ g.nodes[at].blocks = node.blocks
      /\ g.block_used = f.block_used
      /\ \A b \in Blocks, o \in Offsets : g.blocks[b][o] = f.blocks[b][o] \/ goes(b, o)
  BY <1>2, PutTouches
<1> HIDE DEF g
<1>4. /\ \A n \in Nodes : n # at => g.nodes[n] = f.nodes[n]
      /\ \A n \in Nodes : g.nodes[n].blocks = f.nodes[n].blocks
      /\ \A n \in Nodes : g.nodes[n].used = f.nodes[n].used
      /\ \A n \in Nodes : g.nodes[n].kind = f.nodes[n].kind
  BY <1>3 DEF Touches, SameEntry
<1>5. MarkedIsOwned(g) /\ OwnersAreFiles(g)
  BY <1>3, <1>4 DEF Filed, MarkedIsOwned, OwnersAreFiles
\* A byte that is put is one of the file's, before its new end.
<1>6. ASSUME NEW n \in Nodes, NEW i \in Slots, NEW o \in Offsets,
             f.nodes[n].blocks[i] # VFS_NONE, goes(f.nodes[n].blocks[i], o)
      PROVE  n = at /\ i * VFS_BLOCK + o < length
  <2> DEFINE b == f.nodes[n].blocks[i]
  <2>1. PICK k \in 1 .. Len(data) : vfsblock_at(node, node.length + k - 1) = <<b, o>>
    BY <1>6
  <2> DEFINE p == node.length + k - 1
             s == p \div VFS_BLOCK
  <2>2. p \in Nat /\ p < length
    BY <1>1
  <2>3. s \in Slots /\ s * VFS_BLOCK < length /\ p % VFS_BLOCK \in Offsets
    BY <2>2, OffsetHasSlot
  <2>4. node.blocks[s] = b /\ p % VFS_BLOCK = o
    BY <2>1 DEF vfsblock_at
  <2>5. p = s * VFS_BLOCK + (p % VFS_BLOCK)
    BY <2>2, SizesAssumption, DivMod
  <2> HIDE DEF s
  <2>6. n = at /\ i = s
    BY <1>6, <2>3, <2>4 DEF WellKept, OwnersAreApart
  <2> QED
    BY <2>2, <2>4, <2>5, <2>6
<1>7. clean => TailsAreZero(g)
  <2> SUFFICES ASSUME clean, NEW n \in Nodes, NEW i \in Slots, NEW o \in Offsets,
                      f.nodes[n].blocks[i] # VFS_NONE,
                      i * VFS_BLOCK + o >= g.nodes[n].length
               PROVE  g.blocks[f.nodes[n].blocks[i]][o] = 0
    BY <1>4 DEF TailsAreZero
  <2>1. i * VFS_BLOCK + o \in Nat
    BY SizesAssumption DEF Slots, Offsets
  <2>2. f.nodes[n].blocks[i] \in Blocks
    BY <1>1, FsParts
  <2>3. ~goes(f.nodes[n].blocks[i], o)
    <3> SUFFICES ASSUME goes(f.nodes[n].blocks[i], o) PROVE FALSE
      OBVIOUS
    <3>1. n = at /\ i * VFS_BLOCK + o < length
      BY <1>6
    <3> QED
      BY <1>3, <2>1, <3>1
  <2>4. i * VFS_BLOCK + o >= f.nodes[n].length
    <3>1. f.nodes[n].length \in Nat /\ node.length <= length
      BY <1>1, FsParts
    <3> QED
      BY <1>3, <1>4, <2>1, <3>1
  <2>5. f.blocks[f.nodes[n].blocks[i]][o] = 0
    BY <2>4 DEF Filed, TailsAreZero
  <2> QED
    BY <1>3, <2>2, <2>3, <2>5
<1> QED
  BY <1>5, <1>7 DEF Filed, g

\* A file that has its blocks and none to spare has as many as its length says.
LEMMA HeldIsNeeded ==
  ASSUME NEW node, node.length \in Nat, node.length <= VFS_FILE_MAX,
         \A i \in Slots : node.blocks[i] # VFS_NONE <=> i * VFS_BLOCK < node.length
  PROVE  vfsblock_held(node) = vfs_blocks_for(node.length)
<1> DEFINE q == vfs_blocks_for(node.length)
           H == {i \in Slots : node.blocks[i] # VFS_NONE}
<1>1. VFS_BLOCK \in Nat /\ VFS_BLOCK > 0 /\ VFS_DIRECT_BLOCKS \in Nat
  BY SizesAssumption
<1>2. q \in Nat
  BY <1>1 DEF vfs_blocks_for
<1>3. \A i \in Nat : i < q => i * VFS_BLOCK < node.length
  BY BlocksForIsTight
<1>4. \A i \in Nat : i * VFS_BLOCK < node.length => i < q
  BY BlocksForIsEnough
<1> HIDE DEF q
<1>5. ASSUME NEW i \in 0 .. q - 1 PROVE i \in Slots
  <2>1. i \in Nat /\ i < q
    BY <1>2
  <2>2. i * VFS_BLOCK < VFS_DIRECT_BLOCKS * VFS_BLOCK
    <3>1. i * VFS_BLOCK < node.length
      BY <1>3, <2>1
    <3>2. i * VFS_BLOCK \in Nat /\ VFS_DIRECT_BLOCKS * VFS_BLOCK \in Nat
      BY <1>1, <2>1
    <3>3. VFS_FILE_MAX = VFS_DIRECT_BLOCKS * VFS_BLOCK
      BY <1>1 DEF VFS_FILE_MAX
    <3> QED
      BY <3>1, <3>2, <3>3
  <2>3. i < VFS_DIRECT_BLOCKS
    BY <1>1, <2>1, <2>2
  <2> QED
    BY <1>1, <2>1, <2>3 DEF Slots
<1>6. H = 0 .. q - 1
  <2>1. \A i \in H : i \in 0 .. q - 1
    BY <1>2, <1>4, SizesAssumption DEF Slots
  <2>2. \A i \in 0 .. q - 1 : i \in H
    BY <1>2, <1>3, <1>5
  <2> QED
    BY <2>1, <2>2
<1>7. Cardinality(0 .. q - 1) = q
  BY <1>2, FS_Interval
<1> QED
  BY <1>6, <1>7 DEF vfsblock_held, q

\* A file without gaps holds the first so many slots.
LEMMA HeldAreFirst ==
  ASSUME NEW node, NEW i \in Slots,
         \A x, y \in Slots : node.blocks[x] # VFS_NONE /\ y < x
                                => node.blocks[y] # VFS_NONE
  PROVE  node.blocks[i] # VFS_NONE <=> i < vfsblock_held(node)
<1> DEFINE H == {x \in Slots : node.blocks[x] # VFS_NONE}
<1>1. i \in Nat
  BY SizesAssumption DEF Slots
<1>2. IsFiniteSet(H) /\ Cardinality(H) \in Nat /\ vfsblock_held(node) = Cardinality(H)
  BY SlotsAreFinite DEF vfsblock_held
<1>3. CASE node.blocks[i] = VFS_NONE
  <2>1. /\ vfsblock_held(node) \in Nat /\ EmptyBefore(node, i) \in Nat
        /\ EmptyBefore(node, i) = i - vfsblock_held(node)
    BY <1>3, EmptyAfterHeld
  <2> QED
    BY <1>1, <1>3, <2>1
<1>4. CASE node.blocks[i] # VFS_NONE
  <2>1. 0 .. i \in SUBSET H
    <3> SUFFICES ASSUME NEW x \in 0 .. i PROVE x \in H
      OBVIOUS
    <3>1. x \in Slots /\ (x < i \/ x = i)
      BY <1>1, SizesAssumption DEF Slots
    <3> QED
      BY <1>4, <3>1
  <2>2. Cardinality(0 .. i) = i + 1
    BY <1>1, FS_Interval
  <2>3. Cardinality(0 .. i) <= Cardinality(H)
    BY <1>2, <2>1, FS_Subset
  <2> HIDE DEF H
  <2>4. i < vfsblock_held(node)
    BY <1>1, <1>2, <2>2, <2>3
  <2> QED
    BY <1>4, <2>4
<1> QED
  BY <1>3, <1>4

----------------------------------------------------------------------------
(* THE TREE *)

\* What is between the slashes of a path: any string.  The two the kernel itself
\* writes are named because no prover takes a literal for a member of STRING.
Components == STRING \cup {"HOME", "BIN"}
PathType == [root : BOOLEAN, comps : Seq(Components)]

LEMMA SeqGrows ==
  ASSUME NEW S, NEW T, S \in SUBSET T
  PROVE  Seq(S) \in SUBSET Seq(T)
OBVIOUS

\* A path made of strings is one.
LEMMA StringPaths == [root : BOOLEAN, comps : Seq(STRING)] \in SUBSET PathType
<1>1. STRING \in SUBSET Components
  BY DEF Components
<1>2. Seq(STRING) \in SUBSET Seq(Components)
  BY <1>1, SeqGrows
<1> QED
  BY <1>2 DEF PathType

\* The nodes in use, and those of them that have to be in a list.  `out' are the
\* entries an operation has taken out and not yet put back.
InUse(f) == {n \in Nodes : f.nodes[n].used}
Members(f, out) == InUse(f) \ ({0} \cup out)

IsDir(f, n) == f.nodes[n].used /\ f.nodes[n].kind = "DIR"

\* The root is a directory above everything, and the kernel is in a directory.
RootStands(f) ==
  /\ IsDir(f, 0) /\ f.nodes[0].parent = 0 /\ f.nodes[0].next_sibling = VFS_NONE
  /\ IsDir(f, f.cwd)

\* What a node may be depends on its kind.
KindsAgree(f) ==
  \A n \in InUse(f) : /\ f.nodes[n].kind = "FILE" => f.nodes[n].first_child = VFS_NONE
                      /\ f.nodes[n].kind = "DIR" => f.nodes[n].length = 0
                      /\ n = 0 <=> f.nodes[n].name = ""

\* Every entry is in a directory that is less deep than it: climbing ends.
Deep(f, depth) ==
  /\ depth \in [Nodes -> Nat]
  /\ \A n \in InUse(f) \ {0} : /\ IsDir(f, f.nodes[n].parent)
                              /\ depth[f.nodes[n].parent] < depth[n]

\* The entries of M are each in one place of one list, that of their parent,
\* and every list holds nothing else and goes up in `pos'.
Lists(f, M, pos) ==
  /\ pos \in [Nodes -> Nat]
  /\ \A n \in M : LET m == f.nodes[n].next_sibling
                  IN  m # VFS_NONE => /\ m \in M
                                      /\ f.nodes[m].parent = f.nodes[n].parent
                                      /\ pos[n] < pos[m]
  /\ \A d \in InUse(f) : LET m == f.nodes[d].first_child
                         IN  m # VFS_NONE => m \in M /\ f.nodes[m].parent = d
  /\ \A n \in M : \/ f.nodes[f.nodes[n].parent].first_child = n
                  \/ \E m \in M : f.nodes[m].next_sibling = n
  /\ \A n, m \in M : /\ f.nodes[n].next_sibling # VFS_NONE
                     /\ f.nodes[n].next_sibling = f.nodes[m].next_sibling
                     => n = m
  /\ \A n, m \in M : f.nodes[f.nodes[n].parent].first_child = n
                        => f.nodes[m].next_sibling # n

\* No two entries of a directory have one name.
NamesApart(f, M) ==
  \A n, m \in M : /\ f.nodes[n].parent = f.nodes[m].parent
                 /\ f.nodes[n].name = f.nodes[m].name
                 => n = m

\* The nodes form a tree, the entries in `out' apart.  A disk a save was broken
\* off on can have one name twice, and vfsdisk_sound does not look for that: the
\* names are known to be apart only when nothing was read off a disk (`clean').
Tree(f, out, clean) ==
  /\ f \in FsType
  /\ RootStands(f)
  /\ KindsAgree(f)
  /\ \E depth : Deep(f, depth)
  /\ \E pos : Lists(f, Members(f, out), pos)
  /\ clean => NamesApart(f, Members(f, out))

----------------------------------------------------------------------------
(* Following links *)

LEMMA NodesAreNumbers ==
  /\ 0 \in Nodes /\ Nodes \in SUBSET Nat /\ Nodes \in SUBSET Link
  /\ VFS_NONE \in Link /\ VFS_NONE \notin Nodes
BY SizesAssumption DEF Nodes, Link, VFS_NONE

LEMMA NodeParts ==
  ASSUME NEW f \in FsType, NEW n \in Nodes
  PROVE  /\ f.nodes[n] \in NodeType
         /\ f.nodes[n].parent \in Nodes
         /\ f.nodes[n].first_child \in Link
         /\ f.nodes[n].next_sibling \in Link
BY DEF FsType, NodeType

LEMMA SiblingType ==
  ASSUME NEW f \in FsType
  PROVE  /\ \A dir \in Nodes : vfs_first_child(f, dir) \in Link
         /\ \A at \in Link : vfs_next_sibling(f, at) \in Link
BY NodeParts, NodesAreNumbers DEF vfs_first_child, vfs_next_sibling

LEMMA ChildType ==
  ASSUME NEW f \in FsType, NEW dir \in Nodes
  PROVE  Child(f, dir) \in [Nat -> Link]
<1> DEFINE step == [k \in Nat |-> [at \in Link |-> vfs_next_sibling(f, at)]]
<1>1. step \in [Nat -> [Link -> Link]]
  BY SiblingType
<1>2. vfs_first_child(f, dir) \in Link
  BY SiblingType
<1>3. Child(f, dir) = Iterate(step, vfs_first_child(f, dir))
  BY DEF Child
<1> HIDE DEF step
<1> QED
  BY <1>1, <1>2, <1>3, IterateWalks

LEMMA ChildNamedType ==
  ASSUME NEW f \in FsType, NEW dir \in Nodes, NEW name
  PROVE  vfs_child_named(f, dir, name) \in Link
<1> DEFINE hits == {k \in Nodes : /\ Child(f, dir)[k] # VFS_NONE
                                  /\ f.nodes[Child(f, dir)[k]].name = name}
           first == CHOOSE k \in hits : \A j \in hits : k <= j
<1>1. CASE hits = {}
  BY <1>1, NodesAreNumbers DEF vfs_child_named
<1>2. CASE hits # {}
  <2>1. hits \in SUBSET Nat
    BY NodesAreNumbers
  <2>2. vfs_child_named(f, dir, name) = Child(f, dir)[first]
    BY <1>2 DEF vfs_child_named
  <2> HIDE DEF hits
  <2>3. first \in hits
    BY <1>2, <2>1, LeastNat
  <2> HIDE DEF first
  <2> QED
    BY <2>1, <2>2, <2>3, ChildType
<1> QED
  BY <1>1, <1>2

LEMMA WalkIntoType ==
  ASSUME NEW f \in FsType, NEW at \in Link, NEW comp
  PROVE  WalkInto(f, at, comp) \in Link
<1>1. at # VFS_NONE => at \in Nodes
  BY DEF Link
<1> QED
  BY <1>1, NodeParts, NodesAreNumbers, ChildNamedType DEF WalkInto

LEMMA WalkToType ==
  ASSUME NEW f \in FsType, NEW path, NEW count \in Nat
  PROVE  WalkTo(f, path, count) \in Link
<1> DEFINE step == [k \in Nat |-> [at \in Link |->
                      IF k \in DOMAIN path.comps THEN WalkInto(f, at, path.comps[k])
                      ELSE at]]
           start == IF path.root THEN 0 ELSE f.cwd
<1>1. step \in [Nat -> [Link -> Link]]
  BY WalkIntoType
<1>2. start \in Link
  BY FsParts, NodesAreNumbers
<1>3. WalkTo(f, path, count) = Iterate(step, start)[count]
  BY DEF WalkTo
<1> HIDE DEF step, start
<1> QED
  BY <1>1, <1>2, <1>3, IterateWalks

\* A path leads to a node or nowhere, and so does the way to its parent.
LEMMA PathsLeadToNodes ==
  ASSUME NEW f \in FsType, NEW path \in PathType
  PROVE  /\ vfs_resolve(f, path) \in Nodes \cup {VFS_NONE}
         /\ ParentOf(f, path) \in Nodes \cup {VFS_NONE}
<1>1. path.comps \in Seq(Components)
  BY DEF PathType
<1>2. Len(path.comps) \in Nat
  BY <1>1
<1>3. (IF path.comps = << >> THEN 0 ELSE Len(path.comps) - 1) \in Nat
  BY <1>1
<1> QED
  BY <1>2, <1>3, WalkToType DEF vfs_resolve, ParentOf, Link

----------------------------------------------------------------------------
(* Walking a list *)

LEMMA MembersAreFinite ==
  ASSUME NEW M \in SUBSET (Nodes \ {0})
  PROVE  IsFiniteSet(M) /\ Cardinality(M) \in Nat /\ Cardinality(M) <= VFS_MAX_NODES - 1
<1>1. VFS_MAX_NODES \in Nat /\ VFS_MAX_NODES > 0
  BY SizesAssumption
<1>2. Nodes \ {0} = 1 .. VFS_MAX_NODES - 1
  BY <1>1 DEF Nodes
<1>3. /\ IsFiniteSet(1 .. VFS_MAX_NODES - 1)
      /\ Cardinality(1 .. VFS_MAX_NODES - 1) = VFS_MAX_NODES - 1
  BY <1>1, FS_Interval
<1> QED
  BY <1>2, <1>3, FS_Subset, FS_CardinalityType

\* `w' meets, step by step, what is on the list of `dir'.
WalkAlong(f, dir, w) ==
  /\ w \in [Nat -> Link]
  /\ w[0] = f.nodes[dir].first_child
  /\ \A k \in Nat : w[k + 1] = IF w[k] = VFS_NONE THEN VFS_NONE
                               ELSE f.nodes[w[k]].next_sibling

\* What is met is within the directory, ends within the number of nodes, and
\* leaves out no entry of the directory.
MeetsAll(f, M, dir, w) ==
  /\ \A k \in Nat : w[k] # VFS_NONE => w[k] \in M /\ f.nodes[w[k]].parent = dir
  /\ \A k \in Nat : w[k] # VFS_NONE => k \in Nodes
  /\ w[VFS_MAX_NODES] = VFS_NONE
  /\ \A n \in M : f.nodes[n].parent = dir => \E k \in Nodes : w[k] = n

LEMMA ListIsComplete ==
  ASSUME NEW f \in FsType, NEW M \in SUBSET (InUse(f) \ {0}), NEW pos, Lists(f, M, pos),
         NEW dir \in InUse(f), NEW w, WalkAlong(f, dir, w)
  PROVE  MeetsAll(f, M, dir, w)
<1> DEFINE K == {n \in M : f.nodes[n].parent = dir}
<1>1. ASSUME NEW n \in M
      PROVE  /\ n \in Nodes /\ n # VFS_NONE /\ n # 0
             /\ \/ f.nodes[n].next_sibling = VFS_NONE
                \/ /\ f.nodes[n].next_sibling \in M
                   /\ f.nodes[f.nodes[n].next_sibling].parent = f.nodes[n].parent
                   /\ pos[n] < pos[f.nodes[n].next_sibling]
  BY NodesAreNumbers DEF Lists, InUse
<1>2. w[0] = VFS_NONE \/ w[0] \in K
  BY DEF WalkAlong, Lists
<1>3. ASSUME NEW k \in Nat, w[k] \in K
      PROVE  \/ w[k + 1] = VFS_NONE
             \/ w[k + 1] \in K /\ pos[w[k]] < pos[w[k + 1]]
  <2>1. w[k + 1] = f.nodes[w[k]].next_sibling
    BY <1>1, <1>3 DEF WalkAlong
  <2> QED
    BY <1>1, <1>3, <2>1
<1>4. \A k \in Nat : w[k] = VFS_NONE => w[k + 1] = VFS_NONE
  BY DEF WalkAlong
<1> HIDE DEF K
<1>5. \A k \in Nat : w[k] \in K \cup {VFS_NONE}
  BY <1>2, <1>3, <1>4, WalkStays
<1>6. VFS_NONE \notin K /\ K \in SUBSET (Nodes \ {0}) /\ K \in SUBSET M
  BY <1>1 DEF K
<1>7. ASSUME NEW k \in Nat, w[k + 1] \in K
      PROVE  w[k] \in K /\ pos[w[k]] < pos[w[k + 1]]
  BY <1>3, <1>4, <1>5, <1>6, <1>7
<1>8. ASSUME NEW k \in Nat, w[k] # VFS_NONE
      PROVE  k < VFS_MAX_NODES /\ k \in Nodes
  <2> DEFINE rank == [n \in K |-> pos[n]]
  <2>1. rank \in [K -> Int]
    BY <1>6 DEF Lists
  <2>2. \A i \in Nat : w[i + 1] \in K => w[i] \in K /\ rank[w[i]] < rank[w[i + 1]]
    BY <1>7
  <2> HIDE DEF rank
  <2>3. IsFiniteSet(K) /\ Cardinality(K) \in Nat /\ Cardinality(K) <= VFS_MAX_NODES - 1
    BY <1>6, MembersAreFinite
  <2>4. w[k] \in K
    BY <1>5, <1>8
  <2>5. k < Cardinality(K)
    BY <2>1, <2>2, <2>3, <2>4, WalkLeaves
  <2> QED
    BY <2>3, <2>5, SizesAssumption DEF Nodes
<1>9. w[VFS_MAX_NODES] = VFS_NONE
  BY <1>8, SizesAssumption
<1>10. ASSUME NEW n \in K PROVE \E k \in Nodes : w[k] = n
  <2> DEFINE Missed == {m \in K : \A k \in Nodes : w[k] # m}
             Ranks == {pos[m] : m \in Missed}
  <2> SUFFICES ASSUME Missed # {} PROVE FALSE
    OBVIOUS
  <2>1. Ranks \in SUBSET Nat /\ Ranks # {}
    BY <1>6 DEF Lists
  <2>2. PICK r \in Ranks : \A s \in Ranks : r <= s
    BY <2>1, LeastNat
  <2>3. PICK m \in Missed : r = pos[m]
    OBVIOUS
  <2>4. m \in K /\ m \in M /\ f.nodes[m].parent = dir /\ pos[m] \in Nat
    BY <1>6 DEF K, Lists
  <2>5. CASE f.nodes[dir].first_child = m
    <3>1. w[0] = m
      BY <2>5 DEF WalkAlong
    <3> QED
      BY <3>1, NodesAreNumbers
  <2>6. CASE \E p \in M : f.nodes[p].next_sibling = m
    <3>1. PICK p \in M : f.nodes[p].next_sibling = m
      BY <2>6
    <3>2. p \in K /\ pos[p] < pos[m] /\ pos[p] \in Nat
      <4>1. m # VFS_NONE
        BY <1>6, <2>4
      <4> QED
        BY <1>1, <1>6, <2>4, <3>1, <4>1 DEF K, Lists
    <3>3. p \notin Missed
      <4> SUFFICES ASSUME p \in Missed PROVE FALSE
        OBVIOUS
      <4>1. pos[p] \in Ranks
        OBVIOUS
      <4> QED
        BY <2>2, <2>3, <2>4, <3>2, <4>1
    <3>4. PICK k \in Nodes : w[k] = p
      BY <3>2, <3>3
    <3>5. k \in Nat /\ w[k + 1] = m
      BY <1>6, <3>1, <3>2, <3>4, NodesAreNumbers DEF WalkAlong
    <3>6. k + 1 \in Nodes
      BY <1>6, <1>8, <2>4, <3>5
    <3> QED
      BY <3>5, <3>6
  <2> QED
    BY <2>4, <2>5, <2>6 DEF Lists
<1> QED
  BY <1>5, <1>6, <1>8, <1>9, <1>10 DEF K, MeetsAll

\* The entries that are met and that nothing follows.
Tails(f, w) == {n \in Nodes : /\ \E k \in Nodes : w[k] = n
                              /\ f.nodes[n].next_sibling = VFS_NONE}

\* A list that is not empty has one last entry.
LEMMA ListHasOneEnd ==
  ASSUME NEW f \in FsType, NEW M \in SUBSET (InUse(f) \ {0}), NEW pos, Lists(f, M, pos),
         NEW dir \in InUse(f), NEW w, WalkAlong(f, dir, w), w[0] # VFS_NONE
  PROVE  \E last \in M : f.nodes[last].parent = dir /\ Tails(f, w) = {last}
<1> DEFINE Past == {k \in Nat : w[k] = VFS_NONE}
<1>1. MeetsAll(f, M, dir, w)
  BY ListIsComplete
<1>2. PICK e \in Past : \A k \in Past : e <= k
  <2>1. VFS_MAX_NODES \in Past
    BY <1>1, SizesAssumption DEF MeetsAll
  <2> QED
    BY <2>1, LeastNat
<1>3. e # 0 /\ e - 1 \in Nat /\ w[e - 1] # VFS_NONE /\ (e - 1) + 1 = e
  BY <1>2
<1> DEFINE last == w[e - 1]
<1>4. last \in M /\ f.nodes[last].parent = dir /\ e - 1 \in Nodes
  BY <1>1, <1>3 DEF MeetsAll
<1>5. f.nodes[last].next_sibling = VFS_NONE
  <2>1. w[(e - 1) + 1] = f.nodes[last].next_sibling
    BY <1>3 DEF WalkAlong
  <2> QED
    BY <1>2, <1>3, <2>1
<1>6. \A d \in Nat : w[e + d] = VFS_NONE
  <2> DEFINE Back == {d \in Nat : w[e + d] # VFS_NONE}
  <2> SUFFICES ASSUME Back # {} PROVE FALSE
    OBVIOUS
  <2>1. PICK d \in Back : \A i \in Back : d <= i
    BY LeastNat
  <2>2. d # 0
    BY <1>2
  <2>3. d - 1 \in Nat /\ d - 1 \notin Back /\ e + (d - 1) \in Nat /\ (e + (d - 1)) + 1 = e + d
    BY <2>1, <2>2
  <2>4. w[e + (d - 1)] = VFS_NONE
    BY <2>3
  <2>5. w[(e + (d - 1)) + 1] = VFS_NONE
    BY <2>3, <2>4 DEF WalkAlong
  <2> QED
    BY <2>3, <2>5
<1>7. ASSUME NEW n \in Nodes, NEW k \in Nodes, w[k] = n, f.nodes[n].next_sibling = VFS_NONE
      PROVE  n = last
  <2>1. k \in Nat /\ n # VFS_NONE
    BY NodesAreNumbers
  <2>2. w[k + 1] = VFS_NONE
    BY <1>7, <2>1 DEF WalkAlong
  <2>3. e <= k + 1
    BY <1>2, <2>1, <2>2
  <2>4. ~(e <= k)
    <3> SUFFICES ASSUME e <= k PROVE FALSE
      OBVIOUS
    <3>1. k - e \in Nat /\ e + (k - e) = k
      BY <2>1
    <3> QED
      BY <1>6, <1>7, <2>1, <3>1
  <2>5. k = e - 1
    BY <2>1, <2>3, <2>4
  <2> QED
    BY <1>7, <2>5
<1> HIDE DEF last
<1>8. last \in Nodes
  BY <1>4 DEF InUse
<1>9. w[e - 1] = last
  BY DEF last
<1>10. Tails(f, w) = {last}
  BY <1>4, <1>5, <1>7, <1>8, <1>9 DEF Tails
<1> QED
  BY <1>4, <1>10

----------------------------------------------------------------------------
(* The walks of the code *)

LEMMA RawChildWalks ==
  ASSUME NEW f \in FsType, NEW dir \in Nodes
  PROVE  WalkAlong(f, dir, RawChild(f, dir))
<1> DEFINE step == [k \in Nat |-> [at \in Link |->
                      IF at = VFS_NONE THEN VFS_NONE ELSE f.nodes[at].next_sibling]]
<1>1. step \in [Nat -> [Link -> Link]]
  <2>1. \A at \in Link : at # VFS_NONE => at \in Nodes
    BY DEF Link
  <2> QED
    BY <2>1, NodeParts, NodesAreNumbers
<1>2. f.nodes[dir].first_child \in Link
  BY NodeParts
<1>3. RawChild(f, dir) = Iterate(step, f.nodes[dir].first_child)
  BY DEF RawChild
<1>4. \A k \in Nat, at \in Link :
        step[k + 1][at] = IF at = VFS_NONE THEN VFS_NONE ELSE f.nodes[at].next_sibling
  OBVIOUS
<1> HIDE DEF step
<1> DEFINE w == RawChild(f, dir)
<1>5. /\ w \in [Nat -> Link] /\ w[0] = f.nodes[dir].first_child
      /\ \A k \in Nat : w[k + 1] = step[k + 1][w[k]]
  BY <1>1, <1>2, <1>3, IterateWalks
<1> HIDE DEF w
<1>6. WalkAlong(f, dir, w)
  BY <1>4, <1>5 DEF WalkAlong
<1> QED
  BY <1>6 DEF w

\* What a walk along the list of a directory meets.
Met(f, dir) == {n \in Nodes : \E k \in Nodes : RawChild(f, dir)[k] = n}

LEMMA ListedIsMet ==
  ASSUME NEW f, NEW dir
  PROVE  Listed(f, f.nodes[dir].first_child) = Met(f, dir)
BY DEF Listed, RawChild, Met

\* Every entry of a list is in use, so the accessors of vfs.h walk it as well.
LEMMA ChildWalks ==
  ASSUME NEW f \in FsType, NEW M \in SUBSET (InUse(f) \ {0}), NEW pos, Lists(f, M, pos),
         NEW dir \in InUse(f)
  PROVE  WalkAlong(f, dir, Child(f, dir))
<1> DEFINE step == [k \in Nat |-> [at \in Link |-> vfs_next_sibling(f, at)]]
           w == Child(f, dir)
<1>1. step \in [Nat -> [Link -> Link]]
  BY SiblingType
<1>2. vfs_first_child(f, dir) = f.nodes[dir].first_child /\ dir \in Nodes
  BY DEF vfs_first_child, InUse
<1>3. w = Iterate(step, vfs_first_child(f, dir)) /\ vfs_first_child(f, dir) \in Link
  BY <1>2, SiblingType DEF Child
<1>4. \A k \in Nat, at \in Link : step[k + 1][at] = vfs_next_sibling(f, at)
  OBVIOUS
<1> HIDE DEF step, w
<1>5. /\ w \in [Nat -> Link] /\ w[0] = f.nodes[dir].first_child
      /\ \A k \in Nat : w[k + 1] = step[k + 1][w[k]]
  BY <1>1, <1>2, <1>3, IterateWalks
<1>6. \A k \in Nat : w[k + 1] = vfs_next_sibling(f, w[k])
  BY <1>4, <1>5
<1>7. w[0] \in M \cup {VFS_NONE}
  BY <1>5 DEF Lists
<1>8. ASSUME NEW k \in Nat, w[k] \in M \cup {VFS_NONE}
      PROVE  /\ w[k + 1] = IF w[k] = VFS_NONE THEN VFS_NONE
                           ELSE f.nodes[w[k]].next_sibling
             /\ w[k + 1] \in M \cup {VFS_NONE}
  <2>1. CASE w[k] = VFS_NONE
    BY <1>6, <2>1, NodesAreNumbers DEF vfs_next_sibling
  <2>2. CASE w[k] \in M
    <3>1. w[k] \in Nodes /\ f.nodes[w[k]].used /\ w[k] # VFS_NONE
      BY <2>2, NodesAreNumbers DEF InUse
    <3>2. w[k + 1] = f.nodes[w[k]].next_sibling
      BY <1>6, <3>1 DEF vfs_next_sibling
    <3> QED
      BY <2>2, <3>1, <3>2 DEF Lists
  <2> QED
    BY <1>8, <2>1, <2>2
<1>9. \A k \in Nat : w[k] \in M \cup {VFS_NONE}
  <2> DEFINE T == M \cup {VFS_NONE}
  <2>1. w[0] \in T /\ \A k \in Nat : w[k] \in T => w[k + 1] \in T
    BY <1>7, <1>8
  <2> HIDE DEF T
  <2>2. \A k \in Nat : w[k] \in T
    BY <2>1, WalkStays
  <2> QED
    BY <2>2 DEF T
<1>10. WalkAlong(f, dir, w)
  BY <1>5, <1>8, <1>9 DEF WalkAlong
<1> QED
  BY <1>10 DEF w

LEMMA MembersAreUsed ==
  ASSUME NEW f, NEW out
  PROVE  Members(f, out) \in SUBSET (InUse(f) \ {0})
BY DEF Members

\* A name that is found is that of an entry of the directory, and one that is
\* not found is nobody's.
LEMMA NameIsFound ==
  ASSUME NEW clean \in BOOLEAN,
         NEW f, Tree(f, {}, clean), NEW dir \in InUse(f), NEW name
  PROVE  LET found == vfs_child_named(f, dir, name)
             M == Members(f, {})
         IN  /\ found # VFS_NONE => /\ found \in M
                                    /\ f.nodes[found].parent = dir
                                    /\ f.nodes[found].name = name
             /\ found = VFS_NONE => \A n \in M : f.nodes[n].parent = dir
                                                   => f.nodes[n].name # name
<1> DEFINE M == Members(f, {})
           w == Child(f, dir)
           hits == {k \in Nodes : w[k] # VFS_NONE /\ f.nodes[w[k]].name = name}
           first == CHOOSE k \in hits : \A j \in hits : k <= j
<1>1. f \in FsType /\ \E pos : Lists(f, M, pos)
  BY DEF Tree
<1>2. PICK pos : Lists(f, M, pos)
  BY <1>1
<1>3. M \in SUBSET (InUse(f) \ {0})
  BY MembersAreUsed
<1> HIDE DEF M
<1>4. MeetsAll(f, M, dir, w)
  BY <1>1, <1>2, <1>3, ChildWalks, ListIsComplete
<1>5. vfs_child_named(f, dir, name) = IF hits = {} THEN VFS_NONE ELSE w[first]
  BY DEF vfs_child_named
<1> HIDE DEF w
<1>6. CASE hits = {}
  <2>1. ASSUME NEW n \in M, f.nodes[n].parent = dir PROVE f.nodes[n].name # name
    <3>1. PICK k \in Nodes : w[k] = n
      BY <1>4, <2>1 DEF MeetsAll
    <3>2. n # VFS_NONE
      BY <1>3, NodesAreNumbers DEF InUse
    <3> QED
      BY <1>6, <3>1, <3>2
  <2> QED
    BY <1>5, <1>6, <2>1 DEF M
<1>7. CASE hits # {}
  <2>1. hits \in SUBSET Nat
    BY NodesAreNumbers
  <2>2. first \in hits
    <3> HIDE DEF hits
    <3> QED
      BY <1>7, <2>1, LeastNat
  <2> HIDE DEF first
  <2>3. w[first] # VFS_NONE /\ f.nodes[w[first]].name = name /\ first \in Nat
    BY <2>1, <2>2
  <2>4. w[first] \in M /\ f.nodes[w[first]].parent = dir
    BY <1>4, <2>3 DEF MeetsAll
  <2> QED
    BY <1>5, <1>7, <2>3, <2>4 DEF M
<1> QED
  BY <1>6, <1>7

LEMMA ParentIsDir ==
  ASSUME NEW clean \in BOOLEAN,
         NEW f, NEW out, Tree(f, out, clean), NEW n \in InUse(f)
  PROVE  IsDir(f, f.nodes[n].parent) /\ f.nodes[n].parent \in InUse(f)
<1>1. f \in FsType /\ n \in Nodes
  BY DEF Tree, InUse
<1>2. f.nodes[n].parent \in Nodes
  BY <1>1, NodeParts
<1>3. IsDir(f, f.nodes[n].parent)
  BY DEF Tree, RootStands, Deep
<1> QED
  BY <1>2, <1>3 DEF IsDir, InUse

\* A path leads to a node in use or nowhere, and so does the way to its parent.
LEMMA PathsLeadToEntries ==
  ASSUME NEW clean \in BOOLEAN,
         NEW f, Tree(f, {}, clean), NEW path \in PathType
  PROVE  /\ vfs_resolve(f, path) \in InUse(f) \cup {VFS_NONE}
         /\ ParentOf(f, path) \in InUse(f) \cup {VFS_NONE}
<1> DEFINE step == [k \in Nat |-> [at \in Link |->
                      IF k \in DOMAIN path.comps THEN WalkInto(f, at, path.comps[k])
                      ELSE at]]
           start == IF path.root THEN 0 ELSE f.cwd
           T == InUse(f) \cup {VFS_NONE}
           w == Iterate(step, start)
<1>1. f \in FsType
  BY DEF Tree
<1>2. step \in [Nat -> [Link -> Link]]
  BY <1>1, WalkIntoType
<1>3. start \in T /\ start \in Link /\ T \in SUBSET Link
  <2>1. 0 \in InUse(f) /\ f.cwd \in InUse(f)
    BY <1>1, FsParts, NodesAreNumbers DEF Tree, RootStands, IsDir, InUse
  <2>2. InUse(f) \in SUBSET Link /\ VFS_NONE \in Link
    BY NodesAreNumbers DEF InUse
  <2> QED
    BY <2>1, <2>2
<1>4. ASSUME NEW at \in T, NEW comp PROVE WalkInto(f, at, comp) \in T
  <2>1. CASE at = VFS_NONE
    BY <2>1 DEF WalkInto
  <2>2. CASE at \in InUse(f) /\ at # VFS_NONE
    <3>1. f.nodes[at].parent \in InUse(f)
      BY <2>2, ParentIsDir
    <3>2. vfs_child_named(f, at, comp) \in T
      <4>1. Members(f, {}) \in SUBSET InUse(f)
        BY DEF Members
      <4> QED
        BY <2>2, <4>1, NameIsFound
    <3> QED
      BY <2>2, <3>1, <3>2 DEF WalkInto
  <2> QED
    BY <2>1, <2>2
<1>5. \A k \in Nat, at \in T : step[k + 1][at] \in T
  BY <1>3, <1>4
<1>6. /\ w[0] = start
      /\ \A k \in Nat : w[k + 1] = step[k + 1][w[k]]
  <2> HIDE DEF step, start
  <2> QED
    BY <1>2, <1>3, IterateWalks
<1> HIDE DEF step, start, T, w
<1>7. \A k \in Nat : w[k] \in T
  BY <1>3, <1>5, <1>6, WalkStays
<1>8. \A k \in Nat : WalkTo(f, path, k) \in T
  BY <1>7 DEF WalkTo, w, step, start
<1>9. path.comps \in Seq(Components)
  BY DEF PathType
<1>10. /\ Len(path.comps) \in Nat
       /\ (IF path.comps = << >> THEN 0 ELSE Len(path.comps) - 1) \in Nat
  BY <1>9
<1> QED
  BY <1>8, <1>10 DEF vfs_resolve, ParentOf, T

----------------------------------------------------------------------------
(* What the list operations change *)

\* Two filesystems that differ in links alone.
SameButLinks(f, g) ==
  /\ g \in FsType
  /\ g.cwd = f.cwd /\ g.blocks = f.blocks
  /\ g.block_used = f.block_used /\ g.changes = f.changes
  /\ \A n \in Nodes : /\ g.nodes[n].name = f.nodes[n].name
                      /\ g.nodes[n].kind = f.nodes[n].kind
                      /\ g.nodes[n].used = f.nodes[n].used
                      /\ g.nodes[n].length = f.nodes[n].length
                      /\ g.nodes[n].blocks = f.nodes[n].blocks

\* The two halves of vfs_link_into.
Placed(f, parent, at) == [f EXCEPT !.nodes[at].parent = parent,
                                   !.nodes[at].next_sibling = VFS_NONE]
Ends(f, parent) == {n \in Listed(f, f.nodes[parent].first_child) :
                      f.nodes[n].next_sibling = VFS_NONE}
Attached(f, parent, at) ==
  IF f.nodes[parent].first_child = VFS_NONE
  THEN [f EXCEPT !.nodes[parent].first_child = at]
  ELSE [f EXCEPT !.nodes = [n \in Nodes |->
          IF n \in Ends(f, parent) THEN [f.nodes[n] EXCEPT !.next_sibling = at]
          ELSE f.nodes[n]]]

LEMMA LinkHalves ==
  ASSUME NEW f, NEW parent, NEW at
  PROVE  vfs_link_into(f, parent, at) = Attached(Placed(f, parent, at), parent, at)
BY DEF vfs_link_into, Attached, Placed, Ends

\* Nodes replaced one for one.
LEMMA NewNodes ==
  ASSUME NEW f \in FsType, NEW new \in [Nodes -> NodeType]
  PROVE  LET g == [f EXCEPT !.nodes = new]
         IN  /\ g \in FsType /\ g.nodes = new /\ g.cwd = f.cwd /\ g.blocks = f.blocks
             /\ g.block_used = f.block_used /\ g.changes = f.changes
BY DEF FsType

LEMMA UnlinkEffect ==
  ASSUME NEW f \in FsType, NEW at \in Nodes
  PROVE  LET g == vfs_unlink_from_parent(f, at)
             parent == f.nodes[at].parent
             next == f.nodes[at].next_sibling
             before == {n \in Listed(f, f.nodes[parent].first_child) :
                          f.nodes[n].next_sibling = at}
             leads == f.nodes[parent].first_child = at
         IN  /\ SameButLinks(f, g)
             /\ \A n \in Nodes :
                  /\ g.nodes[n].parent = f.nodes[n].parent
                  /\ g.nodes[n].first_child
                       = IF leads /\ n = parent THEN next ELSE f.nodes[n].first_child
                  /\ g.nodes[n].next_sibling
                       = IF ~leads /\ n \in before THEN next
                         ELSE f.nodes[n].next_sibling
<1> DEFINE g == vfs_unlink_from_parent(f, at)
           parent == f.nodes[at].parent
           next == f.nodes[at].next_sibling
           before == {n \in Listed(f, f.nodes[parent].first_child) :
                        f.nodes[n].next_sibling = at}
<1>1. /\ f.nodes \in [Nodes -> NodeType] /\ parent \in Nodes /\ next \in Link
  BY NodeParts, FsParts
<1>2. CASE f.nodes[parent].first_child = at
  <2> DEFINE node == [f.nodes[parent] EXCEPT !.first_child = next]
             new == [f.nodes EXCEPT ![parent] = node]
  <2>1. f.nodes[parent] \in NodeType
    BY <1>1
  <2>2. /\ node \in NodeType
        /\ node.first_child = next
        /\ node.name = f.nodes[parent].name /\ node.kind = f.nodes[parent].kind
        /\ node.used = f.nodes[parent].used /\ node.parent = f.nodes[parent].parent
        /\ node.length = f.nodes[parent].length
        /\ node.blocks = f.nodes[parent].blocks
        /\ node.next_sibling = f.nodes[parent].next_sibling
    BY <1>1, <2>1 DEF NodeType
  <2>3. g = [f EXCEPT !.nodes = new]
    BY <1>1, <1>2 DEF vfs_unlink_from_parent, FsType
  <2> HIDE DEF node
  <2>4. new \in [Nodes -> NodeType] /\ new[parent] = node
        /\ \A n \in Nodes : n # parent => new[n] = f.nodes[n]
    BY <1>1, <2>2
  <2> HIDE DEF new, g, next, parent
  <2>5. /\ g \in FsType /\ g.nodes = new /\ g.cwd = f.cwd /\ g.blocks = f.blocks
        /\ g.block_used = f.block_used /\ g.changes = f.changes
    BY <2>3, <2>4, NewNodes
  <2>6. SameButLinks(f, g)
    BY <2>2, <2>4, <2>5 DEF SameButLinks
  <2> QED
    BY <1>2, <2>2, <2>4, <2>5, <2>6 DEF g, parent, next
<1>3. CASE f.nodes[parent].first_child # at
  <2> DEFINE new == [n \in Nodes |->
                       IF n \in before THEN [f.nodes[n] EXCEPT !.next_sibling = next]
                       ELSE f.nodes[n]]
  <2>1. g = [f EXCEPT !.nodes = new]
    BY <1>3 DEF vfs_unlink_from_parent
  <2> HIDE DEF before, next, parent
  <2>2. ASSUME NEW n \in Nodes
        PROVE  /\ new[n] \in NodeType
               /\ new[n].name = f.nodes[n].name /\ new[n].kind = f.nodes[n].kind
               /\ new[n].used = f.nodes[n].used /\ new[n].parent = f.nodes[n].parent
               /\ new[n].length = f.nodes[n].length
               /\ new[n].blocks = f.nodes[n].blocks
               /\ new[n].first_child = f.nodes[n].first_child
               /\ new[n].next_sibling = IF n \in before THEN next
                                        ELSE f.nodes[n].next_sibling
    <3>1. f.nodes[n] \in NodeType
      BY <1>1
    <3> QED
      BY <1>1, <3>1 DEF NodeType
  <2>3. new \in [Nodes -> NodeType]
    BY <2>2
  <2> HIDE DEF new, g
  <2>4. /\ g \in FsType /\ g.nodes = new /\ g.cwd = f.cwd /\ g.blocks = f.blocks
        /\ g.block_used = f.block_used /\ g.changes = f.changes
    BY <2>1, <2>3, NewNodes
  <2>5. SameButLinks(f, g)
    BY <2>2, <2>4 DEF SameButLinks
  <2> QED
    BY <1>3, <2>2, <2>4, <2>5 DEF g, parent, next, before
<1> QED
  BY <1>2, <1>3

LEMMA PlacedEffect ==
  ASSUME NEW f \in FsType, NEW parent \in Nodes, NEW at \in Nodes
  PROVE  LET g == Placed(f, parent, at)
         IN  /\ SameButLinks(f, g)
             /\ g.nodes[at].parent = parent /\ g.nodes[at].next_sibling = VFS_NONE
             /\ \A n \in Nodes :
                  /\ g.nodes[n].first_child = f.nodes[n].first_child
                  /\ n # at => /\ g.nodes[n].parent = f.nodes[n].parent
                               /\ g.nodes[n].next_sibling = f.nodes[n].next_sibling
<1> DEFINE g == Placed(f, parent, at)
           node == [f.nodes[at] EXCEPT !.parent = parent, !.next_sibling = VFS_NONE]
           new == [f.nodes EXCEPT ![at] = node]
<1>1. f.nodes \in [Nodes -> NodeType] /\ f.nodes[at] \in NodeType
  BY FsParts
<1>2. /\ node \in NodeType
      /\ node.parent = parent /\ node.next_sibling = VFS_NONE
      /\ node.name = f.nodes[at].name /\ node.kind = f.nodes[at].kind
      /\ node.used = f.nodes[at].used /\ node.length = f.nodes[at].length
      /\ node.blocks = f.nodes[at].blocks
      /\ node.first_child = f.nodes[at].first_child
  BY <1>1, NodesAreNumbers DEF NodeType
<1>3. g = [f EXCEPT !.nodes = new]
  BY <1>1 DEF FsType, NodeType, Placed
<1> HIDE DEF node
<1>4. new \in [Nodes -> NodeType] /\ new[at] = node
      /\ \A n \in Nodes : n # at => new[n] = f.nodes[n]
  BY <1>1, <1>2
<1> HIDE DEF new, g
<1>5. /\ g \in FsType /\ g.nodes = new /\ g.cwd = f.cwd /\ g.blocks = f.blocks
      /\ g.block_used = f.block_used /\ g.changes = f.changes
  BY <1>3, <1>4, NewNodes
<1>6. SameButLinks(f, g)
  BY <1>2, <1>4, <1>5 DEF SameButLinks
<1> QED
  BY <1>2, <1>4, <1>5, <1>6 DEF g

LEMMA AttachedEffect ==
  ASSUME NEW f \in FsType, NEW parent \in Nodes, NEW at \in Nodes
  PROVE  LET g == Attached(f, parent, at)
             empty == f.nodes[parent].first_child = VFS_NONE
         IN  /\ SameButLinks(f, g)
             /\ \A n \in Nodes :
                  /\ g.nodes[n].parent = f.nodes[n].parent
                  /\ g.nodes[n].first_child
                       = IF empty /\ n = parent THEN at ELSE f.nodes[n].first_child
                  /\ g.nodes[n].next_sibling
                       = IF ~empty /\ n \in Ends(f, parent) THEN at
                         ELSE f.nodes[n].next_sibling
<1> DEFINE g == Attached(f, parent, at)
           ends == Ends(f, parent)
<1>1. f.nodes \in [Nodes -> NodeType] /\ at \in Link
  BY FsParts, NodesAreNumbers
<1>2. CASE f.nodes[parent].first_child = VFS_NONE
  <2> DEFINE node == [f.nodes[parent] EXCEPT !.first_child = at]
             new == [f.nodes EXCEPT ![parent] = node]
  <2>1. f.nodes[parent] \in NodeType
    BY <1>1
  <2>2. /\ node \in NodeType
        /\ node.first_child = at
        /\ node.name = f.nodes[parent].name /\ node.kind = f.nodes[parent].kind
        /\ node.used = f.nodes[parent].used /\ node.parent = f.nodes[parent].parent
        /\ node.length = f.nodes[parent].length
        /\ node.blocks = f.nodes[parent].blocks
        /\ node.next_sibling = f.nodes[parent].next_sibling
    BY <1>1, <2>1 DEF NodeType
  <2>3. g = [f EXCEPT !.nodes = new]
    BY <1>1, <1>2 DEF Attached, FsType
  <2> HIDE DEF node
  <2>4. new \in [Nodes -> NodeType] /\ new[parent] = node
        /\ \A n \in Nodes : n # parent => new[n] = f.nodes[n]
    BY <1>1, <2>2
  <2> HIDE DEF new, g
  <2>5. /\ g \in FsType /\ g.nodes = new /\ g.cwd = f.cwd /\ g.blocks = f.blocks
        /\ g.block_used = f.block_used /\ g.changes = f.changes
    BY <2>3, <2>4, NewNodes
  <2>6. SameButLinks(f, g)
    BY <2>2, <2>4, <2>5 DEF SameButLinks
  <2> QED
    BY <1>2, <2>2, <2>4, <2>5, <2>6 DEF g
<1>3. CASE f.nodes[parent].first_child # VFS_NONE
  <2> DEFINE new == [n \in Nodes |->
                       IF n \in ends THEN [f.nodes[n] EXCEPT !.next_sibling = at]
                       ELSE f.nodes[n]]
  <2>1. g = [f EXCEPT !.nodes = new]
    BY <1>3 DEF Attached
  <2> HIDE DEF ends
  <2>2. ASSUME NEW n \in Nodes
        PROVE  /\ new[n] \in NodeType
               /\ new[n].name = f.nodes[n].name /\ new[n].kind = f.nodes[n].kind
               /\ new[n].used = f.nodes[n].used /\ new[n].parent = f.nodes[n].parent
               /\ new[n].length = f.nodes[n].length
               /\ new[n].blocks = f.nodes[n].blocks
               /\ new[n].first_child = f.nodes[n].first_child
               /\ new[n].next_sibling = IF n \in ends THEN at
                                        ELSE f.nodes[n].next_sibling
    <3>1. f.nodes[n] \in NodeType
      BY <1>1
    <3> QED
      BY <1>1, <3>1 DEF NodeType
  <2>3. new \in [Nodes -> NodeType]
    BY <2>2
  <2> HIDE DEF new, g
  <2>4. /\ g \in FsType /\ g.nodes = new /\ g.cwd = f.cwd /\ g.blocks = f.blocks
        /\ g.block_used = f.block_used /\ g.changes = f.changes
    BY <2>1, <2>3, NewNodes
  <2>5. SameButLinks(f, g)
    BY <2>2, <2>4 DEF SameButLinks
  <2> QED
    BY <1>3, <2>2, <2>4, <2>5 DEF g, ends
<1> QED
  BY <1>2, <1>3

----------------------------------------------------------------------------
(* What the list operations keep *)

LEMMA LinksAreFramed ==
  ASSUME NEW f, NEW g, SameButLinks(f, g)
  PROVE  /\ InUse(g) = InUse(f)
         /\ \A out : Members(g, out) = Members(f, out)
         /\ \A n \in Nodes : IsDir(g, n) <=> IsDir(f, n)
BY DEF SameButLinks, InUse, Members, IsDir

\* An entry taken out of its list leaves a tree without it: nothing leads to it
\* any more, and what came after it comes after what came before it.
LEMMA UnlinkLists ==
  ASSUME NEW clean \in BOOLEAN,
         NEW f, Tree(f, {}, clean), NEW at \in Members(f, {}),
         NEW pos, Lists(f, Members(f, {}), pos)
  PROVE  LET g == vfs_unlink_from_parent(f, at)
         IN  Lists(g, Members(g, {at}), pos)
<1> DEFINE g == vfs_unlink_from_parent(f, at)
           M == Members(f, {})
           parent == f.nodes[at].parent
           next == f.nodes[at].next_sibling
           leads == f.nodes[parent].first_child = at
           met == Listed(f, f.nodes[parent].first_child)
<1>1. /\ f \in FsType /\ at \in InUse(f) /\ at \in Nodes /\ at \in M /\ at # VFS_NONE
      /\ M \in SUBSET (InUse(f) \ {0}) /\ M \in SUBSET Nodes
  BY NodesAreNumbers DEF Tree, Members, InUse
<1>2. parent \in InUse(f) /\ parent \in Nodes
  BY <1>1, ParentIsDir DEF InUse
<1>3. /\ SameButLinks(f, g)
      /\ \A n \in Nodes :
           /\ g.nodes[n].parent = f.nodes[n].parent
           /\ g.nodes[n].first_child
                = IF leads /\ n = parent THEN next ELSE f.nodes[n].first_child
           /\ g.nodes[n].next_sibling
                = IF ~leads /\ n \in met /\ f.nodes[n].next_sibling = at THEN next
                  ELSE f.nodes[n].next_sibling
  BY <1>1, UnlinkEffect
<1>4. InUse(g) = InUse(f) /\ Members(g, {at}) = M \ {at}
  <2>1. InUse(g) = InUse(f) /\ Members(g, {at}) = Members(f, {at})
    BY <1>3, LinksAreFramed
  <2> QED
    BY <2>1 DEF Members
<1>5. MeetsAll(f, M, parent, RawChild(f, parent))
  BY <1>1, <1>2, RawChildWalks, ListIsComplete
<1>6. met = Met(f, parent)
  <2> HIDE DEF parent
  <2> QED
    BY ListedIsMet
<1> HIDE DEF g, M, met, parent, next
<1> USE DEF Lists
\* The lists of f, one fact at a time.
<1>7. /\ pos \in [Nodes -> Nat]
      /\ \A n \in M : LET m == f.nodes[n].next_sibling
                      IN  m # VFS_NONE => /\ m \in M
                                          /\ f.nodes[m].parent = f.nodes[n].parent
                                          /\ pos[n] < pos[m]
      /\ \A d \in InUse(f) : LET m == f.nodes[d].first_child
                             IN  m # VFS_NONE => m \in M /\ f.nodes[m].parent = d
      /\ \A n \in M : \/ f.nodes[f.nodes[n].parent].first_child = n
                      \/ \E m \in M : f.nodes[m].next_sibling = n
  BY DEF M
<1>8. \A n, m \in M : /\ f.nodes[n].next_sibling # VFS_NONE
                      /\ f.nodes[n].next_sibling = f.nodes[m].next_sibling
                      => n = m
  BY DEF M
<1>9. \A n, m \in M : f.nodes[f.nodes[n].parent].first_child = n
                        => f.nodes[m].next_sibling # n
  BY DEF M
<1>10. ASSUME NEW n \in M, f.nodes[n].next_sibling = at
       PROVE  ~leads /\ n \in met
  <2>1. ~leads
    BY <1>1, <1>9, <1>10 DEF parent
  <2>2. f.nodes[n].parent = parent
    BY <1>1, <1>7, <1>10 DEF parent
  <2>3. \E k \in Nodes : RawChild(f, parent)[k] = n
    BY <1>5, <2>2 DEF MeetsAll
  <2> QED
    BY <1>1, <1>6, <2>1, <2>3 DEF Met
<1>11. \A n \in M : f.nodes[n].parent \in Nodes
  BY <1>1, NodeParts
\* What follows each entry now.
<1>12. \A n \in M : g.nodes[n].next_sibling = IF f.nodes[n].next_sibling = at THEN next
                                              ELSE f.nodes[n].next_sibling
  BY <1>1, <1>3, <1>10
<1>13. next # VFS_NONE => /\ next \in M /\ next # at
                          /\ f.nodes[next].parent = parent
                          /\ pos[at] < pos[next]
  <2>1. next # VFS_NONE => /\ next \in M /\ f.nodes[next].parent = parent
                           /\ pos[at] < pos[next]
    BY <1>1, <1>7 DEF next, parent
  <2>2. pos[at] \in Nat
    BY <1>1, <1>7
  <2> QED
    BY <2>1, <2>2
<1>14. ASSUME NEW n \in M \ {at}, g.nodes[n].next_sibling # VFS_NONE
       PROVE  /\ g.nodes[n].next_sibling \in M \ {at}
              /\ g.nodes[g.nodes[n].next_sibling].parent = g.nodes[n].parent
              /\ pos[n] < pos[g.nodes[n].next_sibling]
  <2>1. n \in M /\ n \in Nodes
    BY <1>1
  <2>2. CASE f.nodes[n].next_sibling = at
    <3>1. g.nodes[n].next_sibling = next /\ next \in M \ {at} /\ next \in Nodes
      BY <1>1, <1>12, <1>13, <1>14, <2>1, <2>2
    <3>2. /\ g.nodes[next].parent = parent
          /\ g.nodes[n].parent = parent
      BY <1>1, <1>3, <1>7, <1>13, <1>14, <2>1, <2>2, <3>1 DEF parent
    <3>3. pos[n] < pos[at] /\ pos[at] < pos[next]
      BY <1>1, <1>7, <1>13, <1>14, <2>1, <2>2, <3>1
    <3>4. pos[n] \in Nat /\ pos[at] \in Nat /\ pos[next] \in Nat
      BY <1>1, <1>7, <2>1, <3>1
    <3>5. pos[n] < pos[next]
      BY <3>3, <3>4
    <3> QED
      BY <3>1, <3>2, <3>5
  <2>3. CASE f.nodes[n].next_sibling # at
    <3> DEFINE m == f.nodes[n].next_sibling
    <3>1. g.nodes[n].next_sibling = m
      BY <1>12, <2>1, <2>3
    <3>2. m \in M /\ f.nodes[m].parent = f.nodes[n].parent /\ pos[n] < pos[m] /\ m # at
      BY <1>7, <1>14, <2>1, <2>3, <3>1
    <3>3. m \in Nodes
      BY <1>1, <3>2
    <3> HIDE DEF m
    <3> QED
      BY <1>3, <2>1, <3>1, <3>2, <3>3
  <2> QED
    BY <2>2, <2>3
<1>15. ASSUME NEW d \in InUse(g), g.nodes[d].first_child # VFS_NONE
       PROVE  /\ g.nodes[d].first_child \in M \ {at}
              /\ g.nodes[g.nodes[d].first_child].parent = d
  <2>1. d \in InUse(f) /\ d \in Nodes
    BY <1>4 DEF InUse
  <2>2. CASE leads /\ d = parent
    <3>1. g.nodes[d].first_child = next /\ next \in M \ {at} /\ next \in Nodes
      BY <1>1, <1>3, <1>13, <1>15, <2>1, <2>2
    <3> QED
      BY <1>3, <1>13, <1>15, <2>2, <3>1
  <2>3. CASE ~(leads /\ d = parent)
    <3> DEFINE m == f.nodes[d].first_child
    <3>1. g.nodes[d].first_child = m
      BY <1>3, <2>1, <2>3
    <3>2. m \in M /\ f.nodes[m].parent = d
      BY <1>7, <1>15, <2>1, <3>1
    <3>3. m # at
      BY <2>3, <3>2 DEF parent
    <3>4. m \in Nodes
      BY <1>1, <3>2
    <3> HIDE DEF m
    <3> QED
      BY <1>3, <3>1, <3>2, <3>3, <3>4
  <2> QED
    BY <2>2, <2>3
<1>16. ASSUME NEW n \in M \ {at}
       PROVE  \/ g.nodes[g.nodes[n].parent].first_child = n
              \/ \E m \in M \ {at} : g.nodes[m].next_sibling = n
  <2>1. n \in M /\ n \in Nodes /\ g.nodes[n].parent = f.nodes[n].parent
    BY <1>1, <1>3
  <2>2. f.nodes[n].parent \in Nodes
    BY <1>11
  <2>3. CASE f.nodes[f.nodes[n].parent].first_child = n
    <3>1. ~(leads /\ f.nodes[n].parent = parent)
      BY <1>16, <2>3
    <3> QED
      BY <1>3, <2>1, <2>2, <2>3, <3>1
  <2>4. CASE \E m \in M : f.nodes[m].next_sibling = n
    <3>1. PICK m \in M : f.nodes[m].next_sibling = n
      BY <2>4
    <3>2. CASE m # at
      <4>1. g.nodes[m].next_sibling = n
        BY <1>12, <1>16, <3>1
      <4> QED
        BY <3>2, <4>1
    <3>3. CASE m = at
      <4>1. next = n /\ n # VFS_NONE
        BY <2>1, <3>1, <3>3, NodesAreNumbers DEF next
      <4>2. CASE leads
        <5>1. f.nodes[n].parent = parent
          BY <1>13, <4>1
        <5> QED
          BY <1>2, <1>3, <2>1, <4>1, <4>2, <5>1
      <4>3. CASE ~leads
        <5>1. PICK p \in M : f.nodes[p].next_sibling = at
          BY <1>1, <1>7, <4>3 DEF parent
        <5>2. g.nodes[p].next_sibling = n
          BY <1>12, <4>1, <5>1
        <5>3. p # at
          BY <1>13, <3>1, <3>3, <4>1, <5>1
        <5> QED
          BY <5>2, <5>3
      <4> QED
        BY <4>2, <4>3
    <3> QED
      BY <3>2, <3>3
  <2> QED
    BY <1>7, <2>1, <2>3, <2>4
\* Nothing but the entry itself came before what followed it.
<1>17. ASSUME NEW m \in M, f.nodes[m].next_sibling = next, next # VFS_NONE PROVE m = at
  BY <1>1, <1>8, <1>17 DEF next
<1>18. ASSUME NEW n \in M \ {at}, NEW m \in M \ {at},
              g.nodes[n].next_sibling # VFS_NONE,
              g.nodes[n].next_sibling = g.nodes[m].next_sibling
       PROVE  n = m
  <2>1. n \in M /\ m \in M /\ n # at /\ m # at
    OBVIOUS
  <2>2. CASE f.nodes[n].next_sibling = at /\ f.nodes[m].next_sibling = at
    BY <1>1, <1>8, <2>1, <2>2
  <2>3. CASE f.nodes[n].next_sibling # at /\ f.nodes[m].next_sibling # at
    BY <1>8, <1>12, <1>18, <2>1, <2>3
  <2>4. CASE f.nodes[n].next_sibling = at /\ f.nodes[m].next_sibling # at
    BY <1>12, <1>17, <1>18, <2>1, <2>4
  <2>5. CASE f.nodes[n].next_sibling # at /\ f.nodes[m].next_sibling = at
    BY <1>12, <1>17, <1>18, <2>1, <2>5
  <2> QED
    BY <2>2, <2>3, <2>4, <2>5
<1>19. ASSUME NEW n \in M \ {at}, NEW m \in M \ {at},
              g.nodes[g.nodes[n].parent].first_child = n,
              g.nodes[m].next_sibling = n
       PROVE  FALSE
  <2>1. /\ n \in M /\ m \in M /\ n # at /\ m # at /\ n \in Nodes /\ n # VFS_NONE
        /\ g.nodes[n].parent = f.nodes[n].parent /\ f.nodes[n].parent \in Nodes
    BY <1>1, <1>3, <1>11, NodesAreNumbers
  <2>2. CASE leads /\ f.nodes[n].parent = parent
    <3>1. n = next
      BY <1>3, <1>19, <2>1, <2>2
    <3>2. f.nodes[m].next_sibling # at
      BY <1>10, <2>1, <2>2
    <3> QED
      BY <1>12, <1>17, <1>19, <2>1, <3>1, <3>2
  <2>3. CASE ~(leads /\ f.nodes[n].parent = parent)
    <3>1. f.nodes[f.nodes[n].parent].first_child = n
      BY <1>3, <1>19, <2>1, <2>3
    <3>2. f.nodes[m].next_sibling # n /\ f.nodes[at].next_sibling # n
      BY <1>1, <1>9, <2>1, <3>1
    <3> QED
      BY <1>12, <1>19, <2>1, <3>2 DEF next
  <2> QED
    BY <2>2, <2>3
<1>20. Lists(g, M \ {at}, pos)
  BY <1>7, <1>14, <1>15, <1>16, <1>18, <1>19
<1> QED
  BY <1>4, <1>20 DEF g

LEMMA UnlinkTree ==
  ASSUME NEW clean \in BOOLEAN,
         NEW f, Tree(f, {}, clean), NEW at \in Members(f, {})
  PROVE  Tree(vfs_unlink_from_parent(f, at), {at}, clean)
<1> DEFINE g == vfs_unlink_from_parent(f, at)
           parent == f.nodes[at].parent
<1>1. f \in FsType /\ at \in InUse(f) /\ at \in Nodes /\ at # 0
  BY DEF Tree, Members, InUse
<1>2. IsDir(f, parent) /\ parent \in Nodes
  BY <1>1, ParentIsDir DEF InUse
<1>3. /\ SameButLinks(f, g)
      /\ \A n \in Nodes :
           /\ g.nodes[n].parent = f.nodes[n].parent
           /\ n # parent => g.nodes[n].first_child = f.nodes[n].first_child
           /\ \/ g.nodes[n].next_sibling = f.nodes[n].next_sibling
              \/ f.nodes[n].next_sibling = at
  BY <1>1, UnlinkEffect
<1> HIDE DEF g
<1>4. /\ InUse(g) = InUse(f) /\ Members(g, {at}) = Members(f, {at})
      /\ \A n \in Nodes : IsDir(g, n) <=> IsDir(f, n)
  BY <1>3, LinksAreFramed
<1>5. g \in FsType /\ g.cwd = f.cwd /\ f.cwd \in Nodes /\ 0 \in Nodes
  BY <1>1, <1>3, FsParts, NodesAreNumbers DEF SameButLinks
<1>6. RootStands(g)
  BY <1>1, <1>3, <1>4, <1>5, NodesAreNumbers DEF Tree, RootStands
<1>7. KindsAgree(g)
  <2> SUFFICES ASSUME NEW n \in InUse(f)
               PROVE  /\ g.nodes[n].kind = "FILE" => g.nodes[n].first_child = VFS_NONE
                      /\ g.nodes[n].kind = "DIR" => g.nodes[n].length = 0
                      /\ n = 0 <=> g.nodes[n].name = ""
    BY <1>4 DEF KindsAgree
  <2>1. n \in Nodes /\ KindsAgree(f)
    BY DEF InUse, Tree
  <2>2. f.nodes[n].kind = "FILE" => n # parent
    BY <1>2 DEF IsDir
  <2> QED
    BY <1>3, <2>1, <2>2 DEF KindsAgree, SameButLinks
<1>8. \E depth : Deep(g, depth)
  <2>1. PICK depth : Deep(f, depth)
    BY DEF Tree
  <2>2. \A n \in InUse(f) : n \in Nodes /\ f.nodes[n].parent \in Nodes
    BY <1>1, NodeParts DEF InUse
  <2>3. Deep(g, depth)
    BY <1>3, <1>4, <2>1, <2>2 DEF Deep
  <2> QED
    BY <2>3
<1>9. \E pos : Lists(g, Members(g, {at}), pos)
  BY UnlinkLists DEF Tree, g
<1>10. clean => NamesApart(g, Members(g, {at}))
  <2>1. Members(f, {at}) \in SUBSET Members(f, {}) /\ Members(f, {at}) \in SUBSET Nodes
    BY DEF Members, InUse
  <2> QED
    BY <1>3, <1>4, <2>1 DEF Tree, NamesApart, SameButLinks
<1>11. Tree(g, {at}, clean)
  BY <1>5, <1>6, <1>7, <1>8, <1>9, <1>10 DEF Tree
<1> QED
  BY <1>11 DEF g

\* A list does not depend on more than the links of what is in it.
LEMMA ListsAreFramed ==
  ASSUME NEW f \in FsType, NEW g, InUse(g) = InUse(f),
         NEW M \in SUBSET InUse(f), NEW pos, Lists(f, M, pos),
         \A n \in M : /\ g.nodes[n].parent = f.nodes[n].parent
                      /\ g.nodes[n].next_sibling = f.nodes[n].next_sibling,
         \A n \in InUse(f) : g.nodes[n].first_child = f.nodes[n].first_child,
         \A n \in M : f.nodes[n].parent \in InUse(f)
  PROVE  Lists(g, M, pos)
BY DEF Lists

LEMMA PlaceTree ==
  ASSUME NEW clean \in BOOLEAN,
         NEW f, NEW at \in InUse(f) \ {0}, Tree(f, {at}, clean),
         NEW parent \in Nodes, IsDir(f, parent),
         NEW depth, Deep(f, depth), depth[parent] < depth[at]
  PROVE  Tree(Placed(f, parent, at), {at}, clean)
<1> DEFINE g == Placed(f, parent, at)
           M == Members(f, {at})
<1>1. f \in FsType /\ at \in Nodes /\ at # 0
  BY DEF Tree, InUse
<1>2. /\ SameButLinks(f, g)
      /\ g.nodes[at].parent = parent
      /\ \A n \in Nodes :
           /\ g.nodes[n].first_child = f.nodes[n].first_child
           /\ n # at => /\ g.nodes[n].parent = f.nodes[n].parent
                        /\ g.nodes[n].next_sibling = f.nodes[n].next_sibling
  BY <1>1, PlacedEffect
<1> HIDE DEF g
<1>3. /\ InUse(g) = InUse(f) /\ Members(g, {at}) = M
      /\ \A n \in Nodes : IsDir(g, n) <=> IsDir(f, n)
  BY <1>2, LinksAreFramed
<1>4. g \in FsType /\ g.cwd = f.cwd /\ f.cwd \in Nodes /\ 0 \in Nodes
  BY <1>1, <1>2, FsParts, NodesAreNumbers DEF SameButLinks
<1>5. RootStands(g)
  BY <1>1, <1>2, <1>3, <1>4 DEF Tree, RootStands
<1>6. KindsAgree(g)
  <2>1. \A n \in InUse(f) : n \in Nodes
    BY DEF InUse
  <2> QED
    BY <1>2, <1>3, <2>1 DEF Tree, KindsAgree, SameButLinks
<1>7. Deep(g, depth)
  <2> SUFFICES ASSUME NEW n \in InUse(f) \ {0}
               PROVE  /\ IsDir(g, g.nodes[n].parent)
                      /\ depth[g.nodes[n].parent] < depth[n]
    BY <1>3 DEF Deep
  <2>1. n \in Nodes /\ f.nodes[n].parent \in Nodes
    BY <1>1, NodeParts DEF InUse
  <2>2. CASE n = at
    BY <1>2, <1>3, <2>2
  <2>3. CASE n # at
    BY <1>2, <1>3, <2>1, <2>3 DEF Deep
  <2> QED
    BY <2>2, <2>3
<1>8. \E pos : Lists(g, M, pos)
  <2>1. PICK pos : Lists(f, M, pos)
    BY DEF Tree
  <2>2. /\ M \in SUBSET InUse(f) /\ M \in SUBSET Nodes /\ at \notin M
        /\ InUse(f) \in SUBSET Nodes
    BY DEF Members, InUse
  <2>3. \A n \in M : f.nodes[n].parent \in InUse(f)
    BY <2>2, ParentIsDir
  <2> HIDE DEF M
  <2>4. Lists(g, M, pos)
    BY <1>1, <1>2, <1>3, <2>1, <2>2, <2>3, ListsAreFramed
  <2> QED
    BY <2>4
<1>9. clean => NamesApart(g, M)
  <2>1. M \in SUBSET Nodes /\ at \notin M
    BY DEF Members, InUse
  <2> QED
    BY <1>2, <2>1 DEF Tree, NamesApart, SameButLinks
<1>10. Tree(g, {at}, clean)
  BY <1>3, <1>4, <1>5, <1>6, <1>7, <1>8, <1>9 DEF Tree
<1> QED
  BY <1>10 DEF g

\* The loop of vfs_link_into finds one place for the new entry.
LEMMA OneEnd ==
  ASSUME NEW f \in FsType, NEW M \in SUBSET (InUse(f) \ {0}), NEW pos, Lists(f, M, pos),
         NEW dir \in InUse(f), f.nodes[dir].first_child # VFS_NONE
  PROVE  \E last \in M : f.nodes[last].parent = dir /\ Ends(f, dir) = {last}
<1> DEFINE w == RawChild(f, dir)
<1>1. WalkAlong(f, dir, w)
  BY RawChildWalks DEF InUse
<1>2. w[0] # VFS_NONE
  BY <1>1 DEF WalkAlong
<1>3. Ends(f, dir) = Tails(f, w)
  <2> DEFINE met == Listed(f, f.nodes[dir].first_child)
  <2>1. met = Met(f, dir)
    BY ListedIsMet
  <2>2. Ends(f, dir) = {n \in met : f.nodes[n].next_sibling = VFS_NONE}
    BY DEF Ends
  <2> HIDE DEF met
  <2> QED
    BY <2>1, <2>2 DEF Tails, Met
<1> HIDE DEF w
<1>4. \E last \in M : f.nodes[last].parent = dir /\ Tails(f, w) = {last}
  BY <1>1, <1>2, ListHasOneEnd
<1> QED
  BY <1>3, <1>4

\* An entry put at the end of a list is after everything else there.
LEMMA AttachLists ==
  ASSUME NEW clean \in BOOLEAN,
         NEW f, NEW at \in InUse(f) \ {0}, Tree(f, {at}, clean),
         f.nodes[at].next_sibling = VFS_NONE,
         NEW pos, Lists(f, Members(f, {at}), pos)
  PROVE  LET g == Attached(f, f.nodes[at].parent, at)
         IN  \E after : Lists(g, Members(g, {}), after)
<1> DEFINE parent == f.nodes[at].parent
           g == Attached(f, parent, at)
           M == Members(f, {at})
           empty == f.nodes[parent].first_child = VFS_NONE
           ends == Ends(f, parent)
<1>1. /\ f \in FsType /\ at \in InUse(f) /\ at \in Nodes /\ at \notin M /\ at # VFS_NONE
      /\ M \in SUBSET (InUse(f) \ {0}) /\ M \in SUBSET Nodes
  BY NodesAreNumbers DEF Tree, Members, InUse
<1>2. parent \in InUse(f) /\ parent \in Nodes
  BY <1>1, ParentIsDir DEF InUse
<1>3. /\ SameButLinks(f, g)
      /\ \A n \in Nodes :
           /\ g.nodes[n].parent = f.nodes[n].parent
           /\ g.nodes[n].first_child
                = IF empty /\ n = parent THEN at ELSE f.nodes[n].first_child
           /\ g.nodes[n].next_sibling
                = IF ~empty /\ n \in ends THEN at ELSE f.nodes[n].next_sibling
  BY <1>1, <1>2, AttachedEffect
<1>4. InUse(g) = InUse(f) /\ Members(g, {}) = M \cup {at}
  <2>1. InUse(g) = InUse(f) /\ Members(g, {}) = Members(f, {})
    BY <1>3, LinksAreFramed
  <2> QED
    BY <1>1, <2>1 DEF Members
<1>5. ~empty => \E last \in M : f.nodes[last].parent = parent /\ ends = {last}
  <2>1. Lists(f, M, pos)
    OBVIOUS
  <2> HIDE DEF M, parent
  <2> QED
    BY <1>1, <1>2, <2>1, OneEnd
<1> HIDE DEF g, M, ends, parent, empty
<1>6. /\ pos \in [Nodes -> Nat]
      /\ \A n \in M : LET m == f.nodes[n].next_sibling
                      IN  m # VFS_NONE => /\ m \in M
                                          /\ f.nodes[m].parent = f.nodes[n].parent
                                          /\ pos[n] < pos[m]
      /\ \A d \in InUse(f) : LET m == f.nodes[d].first_child
                             IN  m # VFS_NONE => m \in M /\ f.nodes[m].parent = d
      /\ \A n \in M : \/ f.nodes[f.nodes[n].parent].first_child = n
                      \/ \E m \in M : f.nodes[m].next_sibling = n
  BY DEF M, Lists
<1>7. \A n, m \in M : /\ f.nodes[n].next_sibling # VFS_NONE
                      /\ f.nodes[n].next_sibling = f.nodes[m].next_sibling
                      => n = m
  BY DEF M, Lists
<1>8. \A n, m \in M : f.nodes[f.nodes[n].parent].first_child = n
                        => f.nodes[m].next_sibling # n
  BY DEF M, Lists
<1>9. \A n \in M : f.nodes[n].parent \in Nodes /\ n # at /\ n # VFS_NONE
  BY <1>1, NodeParts, NodesAreNumbers
<1>10. g.nodes[at].parent = parent /\ parent = f.nodes[at].parent
  BY <1>1, <1>3 DEF parent
\* Nothing in f leads to the entry.
<1>11. /\ \A n \in M : f.nodes[n].next_sibling # at
       /\ \A d \in InUse(f) : f.nodes[d].first_child # at
  BY <1>1, <1>6
<1>12. CASE empty
  <2>1. \A n \in Nodes : /\ g.nodes[n].parent = f.nodes[n].parent
                         /\ g.nodes[n].next_sibling = f.nodes[n].next_sibling
                         /\ n # parent => g.nodes[n].first_child = f.nodes[n].first_child
    BY <1>3, <1>12
  <2>2. g.nodes[parent].first_child = at /\ f.nodes[parent].first_child = VFS_NONE
    BY <1>2, <1>3, <1>12 DEF empty
  <2>3. ASSUME NEW n \in M \cup {at}, g.nodes[n].next_sibling # VFS_NONE
        PROVE  /\ g.nodes[n].next_sibling \in M \cup {at}
               /\ g.nodes[g.nodes[n].next_sibling].parent = g.nodes[n].parent
               /\ pos[n] < pos[g.nodes[n].next_sibling]
    BY <1>1, <1>6, <2>1, <2>3
  <2>4. ASSUME NEW d \in InUse(g), g.nodes[d].first_child # VFS_NONE
        PROVE  /\ g.nodes[d].first_child \in M \cup {at}
               /\ g.nodes[g.nodes[d].first_child].parent = d
    <3>1. d \in InUse(f) /\ d \in Nodes
      BY <1>4 DEF InUse
    <3>2. CASE d = parent
      BY <1>10, <2>2, <3>2
    <3>3. CASE d # parent
      BY <1>1, <1>6, <2>1, <2>4, <3>1, <3>3
    <3> QED
      BY <3>2, <3>3
  <2>5. ASSUME NEW n \in M \cup {at}
        PROVE  \/ g.nodes[g.nodes[n].parent].first_child = n
               \/ \E m \in M \cup {at} : g.nodes[m].next_sibling = n
    <3>1. CASE n = at
      BY <1>10, <2>2, <3>1
    <3>2. CASE n \in M
      <4>1. CASE f.nodes[f.nodes[n].parent].first_child = n
        BY <1>1, <1>9, <2>1, <2>2, <3>2, <4>1
      <4>2. CASE \E m \in M : f.nodes[m].next_sibling = n
        BY <1>1, <2>1, <4>2
      <4> QED
        BY <1>6, <3>2, <4>1, <4>2
    <3> QED
      BY <3>1, <3>2
  <2>6. ASSUME NEW n \in M \cup {at}, NEW m \in M \cup {at},
               g.nodes[n].next_sibling # VFS_NONE,
               g.nodes[n].next_sibling = g.nodes[m].next_sibling
        PROVE  n = m
    BY <1>1, <1>7, <2>1, <2>6
  <2>7. ASSUME NEW n \in M \cup {at}, NEW m \in M \cup {at},
               g.nodes[g.nodes[n].parent].first_child = n,
               g.nodes[m].next_sibling = n
        PROVE  FALSE
    <3>1. m \in M /\ f.nodes[m].next_sibling = n /\ n # at /\ n \in M
      BY <1>1, <1>6, <1>11, <2>1, <2>7, NodesAreNumbers
    <3>2. f.nodes[f.nodes[n].parent].first_child = n
      BY <1>1, <1>9, <2>1, <2>2, <2>7, <3>1
    <3> QED
      BY <1>8, <3>1, <3>2
  <2>8. Lists(g, M \cup {at}, pos)
    BY <1>6, <2>3, <2>4, <2>5, <2>6, <2>7 DEF Lists
  <2> QED
    BY <1>4, <2>8 DEF g, parent
<1>13. CASE ~empty
  <2>1. PICK last \in M : f.nodes[last].parent = parent /\ ends = {last}
    BY <1>5, <1>13
  <2>2. last \in Nodes /\ last # at /\ f.nodes[last].next_sibling = VFS_NONE
    <3>1. last \in Ends(f, parent)
      BY <2>1 DEF ends
    <3> QED
      BY <1>1, <1>9, <3>1 DEF Ends
  <2>3. /\ \A n \in Nodes : /\ g.nodes[n].parent = f.nodes[n].parent
                            /\ g.nodes[n].first_child = f.nodes[n].first_child
                            /\ n # last => g.nodes[n].next_sibling = f.nodes[n].next_sibling
        /\ g.nodes[last].next_sibling = at
    BY <1>3, <1>13, <2>1, <2>2
  <2> DEFINE after == [pos EXCEPT ![at] = pos[last] + 1]
  <2>4. /\ after \in [Nodes -> Nat] /\ after[at] = pos[last] + 1 /\ pos[last] \in Nat
        /\ \A n \in M : after[n] = pos[n]
    BY <1>1, <1>6, <1>9, <2>2
  <2> HIDE DEF after
  <2>5. ASSUME NEW n \in M \cup {at}, g.nodes[n].next_sibling # VFS_NONE
        PROVE  /\ g.nodes[n].next_sibling \in M \cup {at}
               /\ g.nodes[g.nodes[n].next_sibling].parent = g.nodes[n].parent
               /\ after[n] < after[g.nodes[n].next_sibling]
    <3>1. CASE n = last
      BY <1>10, <2>1, <2>2, <2>3, <2>4, <3>1
    <3>2. CASE n # last
      <4>1. n \in M /\ n \in Nodes /\ g.nodes[n].next_sibling = f.nodes[n].next_sibling
        BY <1>1, <2>3, <2>5, <3>2
      <4> DEFINE m == f.nodes[n].next_sibling
      <4>2. m \in M /\ f.nodes[m].parent = f.nodes[n].parent /\ pos[n] < pos[m]
        BY <1>6, <2>5, <4>1
      <4>3. m \in Nodes
        BY <1>1, <4>2
      <4> HIDE DEF m
      <4> QED
        BY <2>3, <2>4, <4>1, <4>2, <4>3 DEF m
    <3> QED
      BY <3>1, <3>2
  <2>6. ASSUME NEW d \in InUse(g), g.nodes[d].first_child # VFS_NONE
        PROVE  /\ g.nodes[d].first_child \in M \cup {at}
               /\ g.nodes[g.nodes[d].first_child].parent = d
    <3>1. d \in InUse(f) /\ d \in Nodes
      BY <1>4 DEF InUse
    <3> QED
      BY <1>1, <1>6, <2>3, <2>6, <3>1
  <2>7. ASSUME NEW n \in M \cup {at}
        PROVE  \/ g.nodes[g.nodes[n].parent].first_child = n
               \/ \E m \in M \cup {at} : g.nodes[m].next_sibling = n
    <3>1. CASE n = at
      BY <2>1, <2>3, <3>1
    <3>2. CASE n \in M
      <4>1. CASE f.nodes[f.nodes[n].parent].first_child = n
        BY <1>1, <1>9, <2>3, <3>2, <4>1
      <4>2. CASE \E m \in M : f.nodes[m].next_sibling = n
        <5>1. PICK m \in M : f.nodes[m].next_sibling = n
          BY <4>2
        <5>2. m # last
          BY <1>9, <2>2, <3>2, <5>1
        <5>3. m \in Nodes
          BY <1>1
        <5> QED
          BY <2>3, <5>1, <5>2, <5>3
      <4> QED
        BY <1>6, <3>2, <4>1, <4>2
    <3> QED
      BY <3>1, <3>2
  <2>8. ASSUME NEW n \in M \cup {at}, NEW m \in M \cup {at},
               g.nodes[n].next_sibling # VFS_NONE,
               g.nodes[n].next_sibling = g.nodes[m].next_sibling
        PROVE  n = m
    <3>1. n \in M /\ m \in M
      BY <1>1, <2>2, <2>3, <2>8
    <3> QED
      BY <1>1, <1>7, <1>11, <2>3, <2>8, <3>1
  <2>9. ASSUME NEW n \in M \cup {at}, NEW m \in M \cup {at},
               g.nodes[g.nodes[n].parent].first_child = n,
               g.nodes[m].next_sibling = n
        PROVE  FALSE
    <3>1. n \in Nodes /\ n # VFS_NONE /\ g.nodes[n].parent = f.nodes[n].parent
      BY <1>1, <1>9, <2>3
    <3>2. f.nodes[n].parent \in InUse(f)
      BY <1>1, ParentIsDir
    <3>3. f.nodes[f.nodes[n].parent].first_child = n
      BY <2>3, <2>9, <3>1, <3>2 DEF InUse
    <3>4. n # at /\ n \in M
      BY <1>11, <3>2, <3>3
    <3>5. m \in M /\ m # last /\ f.nodes[m].next_sibling = n
      BY <1>1, <2>3, <2>9, <3>1, <3>4
    <3> QED
      BY <1>8, <3>3, <3>4, <3>5
  <2>10. Lists(g, M \cup {at}, after)
    BY <2>4, <2>5, <2>6, <2>7, <2>8, <2>9 DEF Lists
  <2> QED
    BY <1>4, <2>10 DEF g, parent
<1> QED
  BY <1>12, <1>13

LEMMA AttachTree ==
  ASSUME NEW clean \in BOOLEAN,
         NEW f, NEW at \in InUse(f) \ {0}, Tree(f, {at}, clean),
         f.nodes[at].next_sibling = VFS_NONE,
         \A n \in Members(f, {at}) : f.nodes[n].parent = f.nodes[at].parent
                                       => f.nodes[n].name # f.nodes[at].name
  PROVE  LET g == Attached(f, f.nodes[at].parent, at)
         IN  Tree(g, {}, clean) /\ SameButLinks(f, g)
<1> DEFINE parent == f.nodes[at].parent
           g == Attached(f, parent, at)
           M == Members(f, {at})
           empty == f.nodes[parent].first_child = VFS_NONE
<1>1. f \in FsType /\ at \in Nodes /\ M \in SUBSET (InUse(f) \ {0})
  BY DEF Tree, InUse, Members
<1>2. IsDir(f, parent) /\ parent \in InUse(f) /\ parent \in Nodes
  BY ParentIsDir DEF InUse
<1>3. /\ SameButLinks(f, g)
      /\ \A n \in Nodes :
           /\ g.nodes[n].parent = f.nodes[n].parent
           /\ n # parent => g.nodes[n].first_child = f.nodes[n].first_child
           /\ g.nodes[n].next_sibling
                = IF ~empty /\ n \in Ends(f, parent) THEN at ELSE f.nodes[n].next_sibling
  BY <1>1, <1>2, AttachedEffect
<1>4. /\ InUse(g) = InUse(f) /\ Members(g, {}) = M \cup {at}
      /\ \A n \in Nodes : IsDir(g, n) <=> IsDir(f, n)
  <2>1. /\ InUse(g) = InUse(f) /\ Members(g, {}) = Members(f, {})
        /\ \A n \in Nodes : IsDir(g, n) <=> IsDir(f, n)
    BY <1>3, LinksAreFramed
  <2> QED
    BY <1>1, <2>1 DEF Members
<1>5. ~empty => 0 \notin Ends(f, parent)
  <2>1. PICK pos : Lists(f, M, pos)
    BY DEF Tree
  <2> HIDE DEF M, parent
  <2>2. ~empty => \E last \in M : Ends(f, parent) = {last}
    BY <1>1, <1>2, <2>1, OneEnd
  <2> QED
    BY <1>1, <2>2
<1>6. \E pos : Lists(g, Members(g, {}), pos)
  <2>1. PICK pos : Lists(f, Members(f, {at}), pos)
    BY DEF Tree
  <2> QED
    BY <2>1, AttachLists
<1> HIDE DEF g, M, empty, parent
<1>7. g \in FsType /\ g.cwd = f.cwd /\ f.cwd \in Nodes /\ 0 \in Nodes
  BY <1>1, <1>3, FsParts, NodesAreNumbers DEF SameButLinks
<1>8. RootStands(g)
  BY <1>3, <1>4, <1>5, <1>7 DEF Tree, RootStands
<1>9. KindsAgree(g)
  <2> SUFFICES ASSUME NEW n \in InUse(f)
               PROVE  /\ g.nodes[n].kind = "FILE" => g.nodes[n].first_child = VFS_NONE
                      /\ g.nodes[n].kind = "DIR" => g.nodes[n].length = 0
                      /\ n = 0 <=> g.nodes[n].name = ""
    BY <1>4 DEF KindsAgree
  <2>1. n \in Nodes /\ KindsAgree(f)
    BY DEF InUse, Tree
  <2>2. f.nodes[n].kind = "FILE" => n # parent
    BY <1>2 DEF IsDir
  <2> QED
    BY <1>3, <2>1, <2>2 DEF KindsAgree, SameButLinks
<1>10. \E depth : Deep(g, depth)
  <2>1. PICK depth : Deep(f, depth)
    BY DEF Tree
  <2>2. \A n \in InUse(f) : n \in Nodes /\ f.nodes[n].parent \in Nodes
    BY <1>1, NodeParts DEF InUse
  <2>3. Deep(g, depth)
    BY <1>3, <1>4, <2>1, <2>2 DEF Deep
  <2> QED
    BY <2>3
<1>11. clean => NamesApart(g, M \cup {at})
  <2>1. \A n \in M \cup {at} : /\ n \in Nodes
                               /\ g.nodes[n].parent = f.nodes[n].parent
                               /\ g.nodes[n].name = f.nodes[n].name
    BY <1>1, <1>3 DEF SameButLinks, InUse
  <2>2. clean => NamesApart(f, M)
    BY DEF Tree, M
  <2>3. \A n \in M : f.nodes[n].parent = f.nodes[at].parent
                       => f.nodes[n].name # f.nodes[at].name
    BY DEF M
  <2> QED
    BY <2>1, <2>2, <2>3 DEF NamesApart
<1>12. Tree(g, {}, clean)
  BY <1>4, <1>6, <1>7, <1>8, <1>9, <1>10, <1>11 DEF Tree
<1> QED
  BY <1>3, <1>12 DEF g, parent

\* An entry is put into a directory that is not inside it and has no entry of
\* its name.
LEMMA LinkTree ==
  ASSUME NEW clean \in BOOLEAN,
         NEW f, NEW at \in InUse(f) \ {0}, Tree(f, {at}, clean),
         NEW parent \in Nodes, IsDir(f, parent),
         NEW depth, Deep(f, depth), depth[parent] < depth[at],
         \A n \in Members(f, {at}) : f.nodes[n].parent = parent
                                       => f.nodes[n].name # f.nodes[at].name
  PROVE  LET g == vfs_link_into(f, parent, at)
         IN  Tree(g, {}, clean) /\ SameButLinks(f, g)
<1> DEFINE placed == Placed(f, parent, at)
           g == Attached(placed, parent, at)
<1>1. f \in FsType /\ at \in Nodes
  BY DEF Tree, InUse
<1>2. /\ SameButLinks(f, placed)
      /\ placed.nodes[at].parent = parent
      /\ placed.nodes[at].next_sibling = VFS_NONE
      /\ \A n \in Nodes : n # at => placed.nodes[n].parent = f.nodes[n].parent
  BY <1>1, PlacedEffect
<1>3. Tree(placed, {at}, clean)
  BY PlaceTree
<1>4. vfs_link_into(f, parent, at) = g
  BY LinkHalves
<1> HIDE DEF placed
<1>5. /\ InUse(placed) = InUse(f) /\ Members(placed, {at}) = Members(f, {at})
  BY <1>2, LinksAreFramed
<1>6. \A n \in Members(placed, {at}) : placed.nodes[n].parent = parent
                                         => placed.nodes[n].name # placed.nodes[at].name
  <2>1. \A n \in Members(f, {at}) : n \in Nodes /\ n # at
    BY DEF Members, InUse
  <2> QED
    BY <1>1, <1>2, <1>5, <2>1 DEF SameButLinks
<1>7. Tree(g, {}, clean) /\ SameButLinks(placed, g)
  BY <1>2, <1>3, <1>5, <1>6, AttachTree
<1> HIDE DEF g
<1>8. SameButLinks(f, g)
  BY <1>2, <1>7 DEF SameButLinks
<1> QED
  BY <1>4, <1>7, <1>8

\* What is in the blocks of files is of no account to the tree.
SameTree(f, g) ==
  /\ g \in FsType /\ g.cwd = f.cwd
  /\ \A n \in Nodes : /\ g.nodes[n].name = f.nodes[n].name
                      /\ g.nodes[n].kind = f.nodes[n].kind
                      /\ g.nodes[n].used = f.nodes[n].used
                      /\ g.nodes[n].parent = f.nodes[n].parent
                      /\ g.nodes[n].first_child = f.nodes[n].first_child
                      /\ g.nodes[n].next_sibling = f.nodes[n].next_sibling
                      /\ IsDir(f, n) => g.nodes[n].length = f.nodes[n].length

LEMMA TreeIsFramed ==
  ASSUME NEW clean \in BOOLEAN,
         NEW f, NEW out, Tree(f, out, clean), NEW g, SameTree(f, g)
  PROVE  Tree(g, out, clean)
<1>1. /\ InUse(g) = InUse(f) /\ Members(g, out) = Members(f, out)
      /\ \A n \in Nodes : IsDir(g, n) <=> IsDir(f, n)
  BY DEF SameTree, InUse, Members, IsDir
<1>2. \A n \in InUse(f) : n \in Nodes /\ f.nodes[n].parent \in Nodes
  BY NodeParts DEF InUse, Tree
<1>3. f.cwd \in Nodes /\ 0 \in Nodes
  BY FsParts, NodesAreNumbers DEF Tree
<1>4. RootStands(g)
  BY <1>1, <1>3 DEF SameTree, Tree, RootStands
<1>5. KindsAgree(g)
  <2> SUFFICES ASSUME NEW n \in InUse(f)
               PROVE  /\ g.nodes[n].kind = "FILE" => g.nodes[n].first_child = VFS_NONE
                      /\ g.nodes[n].kind = "DIR" => g.nodes[n].length = 0
                      /\ n = 0 <=> g.nodes[n].name = ""
    BY <1>1 DEF KindsAgree
  <2>1. /\ f.nodes[n].kind = "FILE" => f.nodes[n].first_child = VFS_NONE
        /\ f.nodes[n].kind = "DIR" => f.nodes[n].length = 0
        /\ n = 0 <=> f.nodes[n].name = ""
    BY DEF Tree, KindsAgree
  <2>2. /\ g.nodes[n].name = f.nodes[n].name
        /\ g.nodes[n].kind = f.nodes[n].kind
        /\ g.nodes[n].first_child = f.nodes[n].first_child
        /\ IsDir(f, n) => g.nodes[n].length = f.nodes[n].length
    BY <1>2 DEF SameTree
  <2>3. f.nodes[n].kind = "DIR" => IsDir(f, n)
    BY DEF IsDir, InUse
  <2> QED
    BY <2>1, <2>2, <2>3
<1>6. \E depth : Deep(g, depth)
  <2>1. PICK depth : Deep(f, depth)
    BY DEF Tree
  <2>2. Deep(g, depth)
    BY <1>1, <1>2, <2>1 DEF SameTree, Deep
  <2> QED
    BY <2>2
<1>7. \E pos : Lists(g, Members(g, out), pos)
  <2>1. PICK pos : Lists(f, Members(f, out), pos)
    BY DEF Tree
  <2>2. Members(f, out) \in SUBSET InUse(f)
    BY DEF Members
  <2>3. \A n \in Members(f, out) : f.nodes[n].parent \in InUse(f)
    BY <2>2, ParentIsDir
  <2>4. f \in FsType
    BY DEF Tree
  <2>5. Lists(g, Members(f, out), pos)
    BY <1>1, <1>2, <2>1, <2>2, <2>3, <2>4, ListsAreFramed DEF SameTree
  <2> QED
    BY <1>1, <2>5
<1>8. clean => NamesApart(g, Members(g, out))
  <2>1. Members(f, out) \in SUBSET Nodes
    BY DEF Members, InUse
  <2> QED
    BY <1>1, <2>1 DEF SameTree, Tree, NamesApart
<1> QED
  BY <1>4, <1>5, <1>6, <1>7, <1>8 DEF Tree, SameTree

----------------------------------------------------------------------------
(* Climbing *)

\* The walk of is_within, from a node up.
Climb(f, node) ==
  Iterate([i \in Nat |-> [at \in Nodes |->
             IF at = 0 THEN 0 ELSE f.nodes[at].parent]],
          node)

LEMMA WithinIsClimb ==
  ASSUME NEW f, NEW node, NEW maybe_parent
  PROVE  is_within(f, node, maybe_parent)
           <=> \E k \in Nodes : maybe_parent = Climb(f, node)[k]
BY DEF is_within, Climb

\* A climb goes from entry to directory and is at the root after as many steps
\* as there are other nodes.
LEMMA ClimbEnds ==
  ASSUME NEW clean \in BOOLEAN,
         NEW f, NEW out, Tree(f, out, clean), NEW node \in InUse(f)
  PROVE  LET w == Climb(f, node)
         IN  /\ w[0] = node
             /\ \A k \in Nat : /\ w[k] \in InUse(f)
                               /\ w[k + 1] = IF w[k] = 0 THEN 0 ELSE f.nodes[w[k]].parent
                               /\ w[k] # 0 => k + 1 \in Nodes
             /\ VFS_MAX_NODES - 1 \in Nodes /\ w[VFS_MAX_NODES - 1] = 0
<1> DEFINE step == [i \in Nat |-> [at \in Nodes |->
                      IF at = 0 THEN 0 ELSE f.nodes[at].parent]]
           w == Climb(f, node)
<1>1. f \in FsType /\ node \in Nodes /\ InUse(f) \in SUBSET Nodes /\ 0 \in Nodes
  BY NodesAreNumbers DEF Tree, InUse
<1>2. step \in [Nat -> [Nodes -> Nodes]]
  BY <1>1, NodeParts
<1>3. \A k \in Nat, at \in Nodes : step[k + 1][at] = IF at = 0 THEN 0 ELSE f.nodes[at].parent
  OBVIOUS
<1>4. w = Iterate(step, node)
  BY DEF Climb
<1> HIDE DEF step, w
<1>5. /\ w \in [Nat -> Nodes] /\ w[0] = node
      /\ \A k \in Nat : w[k + 1] = step[k + 1][w[k]]
  BY <1>1, <1>2, <1>4, IterateWalks
<1>6. \A k \in Nat : w[k + 1] = IF w[k] = 0 THEN 0 ELSE f.nodes[w[k]].parent
  BY <1>3, <1>5
<1>7. 0 \in InUse(f)
  BY <1>1 DEF Tree, RootStands, IsDir, InUse
<1>8. \A k \in Nat : w[k] \in InUse(f) => w[k + 1] \in InUse(f)
  BY <1>6, <1>7, ParentIsDir
<1>9. \A k \in Nat : w[k] \in InUse(f)
  BY <1>5, <1>8, WalkStays
<1> DEFINE L == InUse(f) \ {0}
<1>10. L \in SUBSET (Nodes \ {0})
  BY <1>1
<1>11. IsFiniteSet(L) /\ Cardinality(L) \in Nat /\ Cardinality(L) <= VFS_MAX_NODES - 1
  BY <1>10, MembersAreFinite
<1>12. PICK depth : Deep(f, depth)
  BY DEF Tree
<1> DEFINE rank == [n \in L |-> -depth[n]]
<1>13. rank \in [L -> Int]
  BY <1>1, <1>12 DEF Deep
<1>14. ASSUME NEW k \in Nat, w[k + 1] \in L PROVE w[k] \in L /\ rank[w[k]] < rank[w[k + 1]]
  <2>1. w[k] # 0 /\ w[k + 1] = f.nodes[w[k]].parent
    BY <1>6, <1>14
  <2>2. w[k] \in L
    BY <1>9, <2>1
  <2>3. depth[w[k + 1]] < depth[w[k]]
    BY <1>12, <2>1, <2>2 DEF Deep
  <2>4. depth[w[k]] \in Nat /\ depth[w[k + 1]] \in Nat
    BY <1>1, <1>12, <1>14, <2>2 DEF Deep
  <2> QED
    BY <1>14, <2>2, <2>3, <2>4
<1> HIDE DEF L, rank
<1>15. \A k \in Nat : w[k] \in L => k < Cardinality(L)
  BY <1>11, <1>13, <1>14, WalkLeaves
<1>16. ASSUME NEW k \in Nat, w[k] # 0 PROVE k + 1 \in Nodes /\ k < VFS_MAX_NODES - 1
  <2>1. w[k] \in L
    BY <1>9, <1>16 DEF L
  <2> QED
    BY <1>11, <1>15, <2>1, SizesAssumption DEF Nodes
<1>17. VFS_MAX_NODES - 1 \in Nodes /\ VFS_MAX_NODES - 1 \in Nat
  BY SizesAssumption DEF Nodes
<1>18. w[VFS_MAX_NODES - 1] = 0
  BY <1>16, <1>17
<1> QED
  BY <1>5, <1>6, <1>9, <1>16, <1>17, <1>18 DEF w

\* A node is within itself.
LEMMA WithinItself ==
  ASSUME NEW clean \in BOOLEAN,
         NEW f, NEW out, Tree(f, out, clean), NEW node \in InUse(f)
  PROVE  is_within(f, node, node)
<1>1. Climb(f, node)[0] = node
  BY ClimbEnds
<1> QED
  BY <1>1, WithinIsClimb, NodesAreNumbers

LEMMA ClimbsToRoot ==
  ASSUME NEW clean \in BOOLEAN,
         NEW f, NEW out, Tree(f, out, clean), NEW node \in InUse(f)
  PROVE  climbs_to_the_root(f, node)
<1>1. VFS_MAX_NODES - 1 \in Nodes /\ Climb(f, node)[VFS_MAX_NODES - 1] = 0
  BY ClimbEnds
<1> QED
  BY <1>1, WithinIsClimb DEF climbs_to_the_root

\* When an entry is not above a directory, everything else can be taken to be
\* deeper than what is above the directory, the entry included.
LEMMA DepthForMove ==
  ASSUME NEW clean \in BOOLEAN,
         NEW f, NEW out, Tree(f, out, clean), NEW parent \in InUse(f), NEW at \in InUse(f),
         ~is_within(f, parent, at)
  PROVE  \E depth : Deep(f, depth) /\ depth[parent] < depth[at]
<1> DEFINE w == Climb(f, parent)
           above == {w[k] : k \in Nodes}
<1>1. f \in FsType /\ InUse(f) \in SUBSET Nodes
  BY DEF Tree, InUse
<1>2. /\ w[0] = parent
      /\ \A k \in Nat : /\ w[k + 1] = IF w[k] = 0 THEN 0 ELSE f.nodes[w[k]].parent
                        /\ w[k] # 0 => k + 1 \in Nodes
  BY ClimbEnds
<1>3. parent \in above /\ at \notin above
  <2> HIDE DEF w
  <2>1. 0 \in Nodes
    BY NodesAreNumbers
  <2>2. \A k \in Nodes : at # w[k]
    BY WithinIsClimb DEF w
  <2> QED
    BY <1>2, <2>1, <2>2
<1>4. ASSUME NEW n \in above, n # 0 PROVE f.nodes[n].parent \in above
  <2> HIDE DEF w
  <2>1. PICK k \in Nodes : n = w[k]
    OBVIOUS
  <2>2. k \in Nat
    BY NodesAreNumbers
  <2>3. k + 1 \in Nodes /\ w[k + 1] = f.nodes[n].parent
    BY <1>2, <1>4, <2>1, <2>2
  <2> QED
    BY <2>3
<1>5. PICK d : Deep(f, d)
  BY DEF Tree
<1> HIDE DEF above
<1> DEFINE depth == [n \in Nodes |-> IF n \in above THEN d[n] ELSE d[n] + d[parent] + 1]
<1>6. d \in [Nodes -> Nat] /\ d[parent] \in Nat /\ d[at] \in Nat
  BY <1>1, <1>5 DEF Deep
<1>7. depth \in [Nodes -> Nat]
  BY <1>6
<1>8. ASSUME NEW n \in InUse(f) \ {0}
      PROVE  IsDir(f, f.nodes[n].parent) /\ depth[f.nodes[n].parent] < depth[n]
  <2> DEFINE p == f.nodes[n].parent
  <2>1. n \in Nodes /\ p \in Nodes
    BY <1>1, NodeParts
  <2>2. IsDir(f, p) /\ d[p] < d[n] /\ d[p] \in Nat /\ d[n] \in Nat
    BY <1>5, <1>6, <2>1 DEF Deep
  <2>3. n \in above => p \in above
    BY <1>4
  <2> HIDE DEF p
  <2>4. depth[p] < depth[n]
    BY <1>6, <2>1, <2>2, <2>3
  <2> QED
    BY <2>2, <2>4 DEF p
<1>9. depth[parent] < depth[at]
  BY <1>1, <1>3, <1>6
<1> HIDE DEF depth
<1>10. Deep(f, depth)
  BY <1>7, <1>8 DEF Deep
<1> QED
  BY <1>9, <1>10

----------------------------------------------------------------------------
(* Entries that come and go *)

\* The pool's operations touch a file, never a directory: the tree stays.
LEMMA TouchesTree ==
  ASSUME NEW clean \in BOOLEAN,
         NEW f, NEW out, Tree(f, out, clean), NEW at \in Nodes, NEW g, Touches(f, g, at),
         f.nodes[at].kind = "FILE" \/ g.nodes[at].length = f.nodes[at].length
  PROVE  Tree(g, out, clean)
<1>1. ASSUME NEW n \in Nodes
      PROVE  /\ SameEntry(g.nodes[n], f.nodes[n])
             /\ IsDir(f, n) => g.nodes[n].length = f.nodes[n].length
  <2>1. CASE n = at
    BY <2>1 DEF Touches, IsDir
  <2>2. CASE n # at
    BY <2>2 DEF Touches, SameEntry
  <2> QED
    BY <2>1, <2>2
<1>2. SameTree(f, g)
  BY <1>1 DEF SameTree, SameEntry, Touches
<1> QED
  BY <1>2, TreeIsFramed

\* A directory without a first child has no entries.
LEMMA NoChildren ==
  ASSUME NEW clean \in BOOLEAN,
         NEW f, Tree(f, {}, clean), NEW at \in InUse(f), f.nodes[at].first_child = VFS_NONE
  PROVE  \A n \in Members(f, {}) : f.nodes[n].parent # at
<1> DEFINE M == Members(f, {})
           w == RawChild(f, at)
<1>1. f \in FsType /\ at \in Nodes
  BY DEF Tree, InUse
<1>2. PICK pos : Lists(f, M, pos)
  BY DEF Tree
<1>3. WalkAlong(f, at, w)
  BY <1>1, RawChildWalks
<1>4. M \in SUBSET (InUse(f) \ {0})
  BY MembersAreUsed
<1>5. Lists(f, M, pos)
  BY <1>2
<1> HIDE DEF M, w
<1>6. MeetsAll(f, M, at, w)
  BY <1>1, <1>3, <1>4, <1>5, ListIsComplete
<1>7. w[0] \in {VFS_NONE} /\ \A k \in Nat : w[k] \in {VFS_NONE} => w[k + 1] \in {VFS_NONE}
  BY <1>3 DEF WalkAlong
<1>8. \A k \in Nat : w[k] \in {VFS_NONE}
  <2> DEFINE T == {VFS_NONE}
  <2>1. w[0] \in T /\ \A k \in Nat : w[k] \in T => w[k + 1] \in T
    BY <1>7
  <2> HIDE DEF T
  <2>2. \A k \in Nat : w[k] \in T
    BY <2>1, WalkStays
  <2> QED
    BY <2>2 DEF T
<1>9. \A n \in M : n # VFS_NONE
  BY <1>4, NodesAreNumbers DEF InUse
<1>10. \A k \in Nodes : w[k] = VFS_NONE
  BY <1>8, NodesAreNumbers
<1>11. \A n \in M : f.nodes[n].parent # at
  BY <1>6, <1>9, <1>10 DEF MeetsAll
<1> QED
  BY <1>11 DEF M

\* An entry that is in no list, has no entries and is not where the kernel is
\* can be given up.
LEMMA FreedTree ==
  ASSUME NEW clean \in BOOLEAN,
         NEW f, NEW at \in InUse(f) \ {0}, Tree(f, {at}, clean),
         \A n \in Members(f, {at}) : f.nodes[n].parent # at,
         f.cwd # at,
         NEW g \in FsType, g.cwd = f.cwd, ~g.nodes[at].used,
         \A n \in Nodes : n # at => g.nodes[n] = f.nodes[n]
  PROVE  Tree(g, {}, clean)
<1>1. f \in FsType /\ at \in Nodes /\ 0 \in Nodes /\ f.cwd \in Nodes /\ at # 0
  BY FsParts, NodesAreNumbers DEF Tree, InUse
<1>2. /\ InUse(g) = InUse(f) \ {at}
      /\ Members(g, {}) = Members(f, {at})
      /\ \A n \in InUse(g) : n \in InUse(f) /\ n # at /\ g.nodes[n] = f.nodes[n]
  BY DEF InUse, Members
<1>3. RootStands(g)
  BY <1>1 DEF Tree, RootStands, IsDir
<1>4. KindsAgree(g)
  BY <1>2 DEF Tree, KindsAgree
<1>5. \A n \in InUse(g) \ {0} : /\ f.nodes[n].parent \in Nodes
                              /\ f.nodes[n].parent # at
  <2>1. \A n \in InUse(g) \ {0} : n \in Members(f, {at}) /\ n \in InUse(f)
    BY <1>2 DEF Members
  <2> QED
    BY <2>1, ParentIsDir DEF InUse
<1>6. \E depth : Deep(g, depth)
  <2>1. PICK depth : Deep(f, depth)
    BY DEF Tree
  <2>2. Deep(g, depth)
    BY <1>2, <1>5, <2>1 DEF Deep, IsDir
  <2> QED
    BY <2>2
<1>7. \E pos : Lists(g, Members(g, {}), pos)
  <2>1. PICK pos : Lists(f, Members(f, {at}), pos)
    BY DEF Tree
  <2>2. Members(f, {at}) \in SUBSET InUse(g) /\ Members(f, {at}) \in SUBSET (InUse(g) \ {0})
    BY <1>2 DEF Members
  <2> DEFINE M == Members(f, {at})
  <2>3. Lists(f, M, pos)
    BY <2>1
  <2>4. \A n \in M : g.nodes[n] = f.nodes[n] /\ n \in InUse(f)
    BY <1>2, <2>2
  <2>5. \A n \in M : /\ g.nodes[f.nodes[n].parent] = f.nodes[f.nodes[n].parent]
    BY <1>5, <2>2
  <2>6. \A d \in InUse(g) : g.nodes[d] = f.nodes[d] /\ d \in InUse(f)
    BY <1>2
  <2> HIDE DEF M
  <2>7. Lists(g, M, pos)
    BY <2>3, <2>4, <2>5, <2>6 DEF Lists
  <2> QED
    BY <1>2, <2>7 DEF M
<1>8. clean => NamesApart(g, Members(g, {}))
  <2>1. \A n \in Members(f, {at}) : g.nodes[n] = f.nodes[n]
    BY DEF Members, InUse
  <2> QED
    BY <1>2, <2>1 DEF Tree, NamesApart
<1> QED
  BY <1>3, <1>4, <1>6, <1>7, <1>8 DEF Tree

\* Every list of g begins in M, and within M the links are those of f.
Begin(g, M) ==
  \A d \in InUse(g) : g.nodes[d].first_child # VFS_NONE =>
     /\ g.nodes[d].first_child \in M
     /\ g.nodes[g.nodes[d].first_child].parent = d
Continue(f, g, M) ==
  \A n \in M : /\ g.nodes[n].parent = f.nodes[n].parent
               /\ g.nodes[n].next_sibling = f.nodes[n].next_sibling
               /\ g.nodes[f.nodes[n].parent].first_child
                    = f.nodes[f.nodes[n].parent].first_child

LEMMA ListsStay ==
  ASSUME NEW f, NEW g, NEW M, NEW pos,
         Lists(f, M, pos), Begin(g, M), Continue(f, g, M)
  PROVE  Lists(g, M, pos)
BY DEF Lists, Begin, Continue

LEMMA DeeperStill ==
  ASSUME NEW d \in [Nodes -> Nat], NEW parent \in Nodes, NEW made \in Nodes,
         parent # made
  PROVE  \E depth \in [Nodes -> Nat] :
           /\ depth[parent] < depth[made]
           /\ \A n \in Nodes : n # made => depth[n] = d[n]
<1> DEFINE depth == [n \in Nodes |-> IF n = made THEN d[parent] + 1 ELSE d[n]]
<1>1. depth \in [Nodes -> Nat]
  OBVIOUS
<1>2. depth[made] = d[parent] + 1 /\ \A n \in Nodes : n # made => depth[n] = d[n]
  OBVIOUS
<1>3. d[parent] \in Nat
  OBVIOUS
<1> HIDE DEF depth
<1>4. depth[parent] < depth[made]
  BY <1>2, <1>3
<1> QED
  BY <1>1, <1>2, <1>4

\* `at' can be taken to be deeper than `parent'.
DeeperThan(f, parent, at) == \E depth : Deep(f, depth) /\ depth[parent] < depth[at]

\* A free node becomes an entry that is in no list yet.
LEMMA FilledTree ==
  ASSUME NEW clean \in BOOLEAN,
         NEW f, Tree(f, {}, clean), NEW made \in FreeNodes(f),
         NEW parent \in Nodes, IsDir(f, parent),
         NEW g \in FsType, g.cwd = f.cwd,
         g.nodes[made].used, g.nodes[made].parent = parent,
         g.nodes[made].name # "", g.nodes[made].length = 0,
         g.nodes[made].first_child = VFS_NONE,
         \A n \in Nodes : n # made => g.nodes[n] = f.nodes[n]
  PROVE  Tree(g, {made}, clean) /\ DeeperThan(g, parent, made)
<1>1. /\ f \in FsType /\ made \in Nodes /\ made # 0 /\ ~f.nodes[made].used
      /\ 0 \in Nodes /\ f.cwd \in Nodes
  BY FsParts, NodesAreNumbers DEF Tree, FreeNodes
<1>2. /\ InUse(g) = InUse(f) \cup {made} /\ made \notin InUse(f)
      /\ Members(g, {made}) = Members(f, {})
      /\ \A n \in InUse(f) : n # made /\ n \in Nodes /\ g.nodes[n] = f.nodes[n]
  BY <1>1 DEF InUse, Members
<1>3. RootStands(g)
  BY <1>1 DEF Tree, RootStands, IsDir
<1>4. KindsAgree(g)
  <2> SUFFICES ASSUME NEW n \in InUse(g)
               PROVE  /\ g.nodes[n].kind = "FILE" => g.nodes[n].first_child = VFS_NONE
                      /\ g.nodes[n].kind = "DIR" => g.nodes[n].length = 0
                      /\ n = 0 <=> g.nodes[n].name = ""
    BY DEF KindsAgree
  <2>1. CASE n = made
    BY <1>1, <2>1
  <2>2. CASE n \in InUse(f)
    <3>1. g.nodes[n] = f.nodes[n]
      BY <1>2, <2>2
    <3> QED
      BY <2>2, <3>1 DEF Tree, KindsAgree
  <2> QED
    BY <1>2, <2>1, <2>2
<1>5. parent \in InUse(f) /\ IsDir(g, parent)
  BY <1>1, <1>2 DEF IsDir, InUse
<1>6. PICK d : Deep(f, d)
  BY DEF Tree
<1>7. parent # made /\ d \in [Nodes -> Nat]
  BY <1>2, <1>5, <1>6 DEF Deep
<1>8. PICK depth \in [Nodes -> Nat] :
        /\ depth[parent] < depth[made]
        /\ \A n \in Nodes : n # made => depth[n] = d[n]
  BY <1>1, <1>7, DeeperStill
<1>9. depth[parent] < depth[made]
  BY <1>8
<1>10. ASSUME NEW n \in InUse(g) \ {0}
       PROVE  IsDir(g, g.nodes[n].parent) /\ depth[g.nodes[n].parent] < depth[n]
  <2>1. CASE n = made
    BY <1>5, <1>9, <2>1
  <2>2. CASE n \in InUse(f)
    <3>1. g.nodes[n].parent = f.nodes[n].parent
      BY <1>2, <2>2
    <3>2. f.nodes[n].parent \in InUse(f)
      BY <2>2, ParentIsDir
    <3>3. IsDir(f, f.nodes[n].parent) /\ d[f.nodes[n].parent] < d[n]
      BY <1>6, <2>2 DEF Deep
    <3> QED
      BY <1>2, <1>8, <2>2, <3>1, <3>2, <3>3 DEF IsDir
  <2> QED
    BY <1>2, <2>1, <2>2
<1>11. Deep(g, depth)
  BY <1>8, <1>10 DEF Deep
<1>12. \E pos : Lists(g, Members(g, {made}), pos)
  <2> DEFINE M == Members(f, {})
  <2>1. PICK pos : Lists(f, M, pos)
    BY DEF Tree
  <2>2. M \in SUBSET InUse(f)
    BY DEF Members
  <2>3. Lists(f, M, pos) /\ \A n \in M : f.nodes[n].parent \in InUse(f)
    BY <2>1, <2>2, ParentIsDir
  <2> HIDE DEF M
  <2>4. \A n \in InUse(f) : g.nodes[n] = f.nodes[n]
    BY <1>2
  <2>5. \A n \in InUse(g) : n \in InUse(f) \/ g.nodes[n].first_child = VFS_NONE
    BY <1>2
  <2>6. \A n \in M : /\ g.nodes[n] = f.nodes[n]
                     /\ g.nodes[f.nodes[n].parent] = f.nodes[f.nodes[n].parent]
    BY <2>2, <2>3, <2>4
  <2>7. ASSUME NEW e \in InUse(g), g.nodes[e].first_child # VFS_NONE
        PROVE  g.nodes[e].first_child \in M /\ g.nodes[g.nodes[e].first_child].parent = e
    <3>1. e \in InUse(f) /\ g.nodes[e] = f.nodes[e]
      BY <2>4, <2>5, <2>7
    <3>2. f.nodes[e].first_child \in M /\ f.nodes[f.nodes[e].first_child].parent = e
      BY <2>3, <2>7, <3>1 DEF Lists
    <3> QED
      BY <2>6, <3>1, <3>2
  <2>8. Continue(f, g, M) /\ Begin(g, M)
    BY <2>6, <2>7 DEF Continue, Begin
  <2>9. Lists(g, M, pos)
    BY <2>3, <2>8, ListsStay
  <2> QED
    BY <1>2, <2>9 DEF M
<1>13. clean => NamesApart(g, Members(g, {made}))
  <2>1. \A n \in Members(f, {}) : g.nodes[n] = f.nodes[n]
    BY <1>2 DEF Members
  <2> QED
    BY <1>2, <2>1 DEF Tree, NamesApart
<1>14. Tree(g, {made}, clean)
  BY <1>3, <1>4, <1>11, <1>12, <1>13 DEF Tree
<1> QED
  BY <1>9, <1>11, <1>14 DEF DeeperThan

\* Two filesystems that differ in names, or in what is in a block, alone.
SameLinks(f, g) ==
  \A n \in Nodes : /\ g.nodes[n].kind = f.nodes[n].kind
                  /\ g.nodes[n].used = f.nodes[n].used
                  /\ g.nodes[n].parent = f.nodes[n].parent
                  /\ g.nodes[n].first_child = f.nodes[n].first_child
                  /\ g.nodes[n].next_sibling = f.nodes[n].next_sibling
                  /\ g.nodes[n].length = f.nodes[n].length
                  /\ g.nodes[n].blocks = f.nodes[n].blocks

\* A node has another name, and nothing else is different.
Renamed(f, g, at, name) ==
  /\ g \in FsType /\ g.cwd = f.cwd
  /\ g.nodes[at] = [f.nodes[at] EXCEPT !.name = name]
  /\ \A n \in Nodes : n # at => g.nodes[n] = f.nodes[n]

\* An entry that is in no list can take another name.
LEMMA RenamedTree ==
  ASSUME NEW clean \in BOOLEAN,
         NEW f, NEW at \in InUse(f) \ {0}, Tree(f, {at}, clean),
         NEW name, name # "", NEW g, Renamed(f, g, at, name)
  PROVE  Tree(g, {at}, clean) /\ g.nodes[at].name = name /\ SameLinks(f, g)
<1> USE DEF Renamed
<1>1. /\ f \in FsType /\ at \in Nodes /\ at # 0 /\ f.nodes[at].used
      /\ f.nodes[at] \in NodeType /\ 0 \in Nodes /\ f.cwd \in Nodes
  BY FsParts, NodesAreNumbers DEF Tree, InUse
<1>2. /\ g.nodes[at].name = name
      /\ g.nodes[at].kind = f.nodes[at].kind /\ g.nodes[at].used = f.nodes[at].used
      /\ g.nodes[at].parent = f.nodes[at].parent
      /\ g.nodes[at].first_child = f.nodes[at].first_child
      /\ g.nodes[at].next_sibling = f.nodes[at].next_sibling
      /\ g.nodes[at].length = f.nodes[at].length
      /\ g.nodes[at].blocks = f.nodes[at].blocks
  BY <1>1 DEF NodeType
<1>3. SameLinks(f, g)
  BY <1>2 DEF SameLinks
<1>4. /\ InUse(g) = InUse(f) /\ Members(g, {at}) = Members(f, {at})
      /\ \A n \in Nodes : IsDir(g, n) <=> IsDir(f, n)
      /\ InUse(f) \in SUBSET Nodes
  BY <1>3 DEF SameLinks, InUse, Members, IsDir
<1>5. RootStands(g)
  BY <1>1, <1>3, <1>4 DEF Tree, RootStands, SameLinks
<1>6. KindsAgree(g)
  <2> SUFFICES ASSUME NEW n \in InUse(f)
               PROVE  /\ g.nodes[n].kind = "FILE" => g.nodes[n].first_child = VFS_NONE
                      /\ g.nodes[n].kind = "DIR" => g.nodes[n].length = 0
                      /\ n = 0 <=> g.nodes[n].name = ""
    BY <1>4 DEF KindsAgree
  <2>1. /\ f.nodes[n].kind = "FILE" => f.nodes[n].first_child = VFS_NONE
        /\ f.nodes[n].kind = "DIR" => f.nodes[n].length = 0
        /\ n = 0 <=> f.nodes[n].name = ""
    BY DEF Tree, KindsAgree
  <2>2. n \in Nodes
    BY <1>4
  <2>3. CASE n = at
    BY <1>1, <1>2, <2>1, <2>3
  <2>4. CASE n # at
    <3>1. g.nodes[n] = f.nodes[n]
      BY <2>2, <2>4
    <3> QED
      BY <2>1, <3>1
  <2> QED
    BY <2>3, <2>4
<1>7. \A n \in InUse(f) : f.nodes[n].parent \in InUse(f)
  BY ParentIsDir
<1>8. \E depth : Deep(g, depth)
  <2>1. PICK depth : Deep(f, depth)
    BY DEF Tree
  <2>2. Deep(g, depth)
    BY <1>3, <1>4, <1>7, <2>1 DEF SameLinks, Deep
  <2> QED
    BY <2>2
<1>9. \E pos : Lists(g, Members(g, {at}), pos)
  <2> DEFINE M == Members(f, {at})
  <2>1. PICK pos : Lists(f, M, pos)
    BY DEF Tree
  <2>2. M \in SUBSET InUse(f)
    BY DEF Members
  <2> HIDE DEF M
  <2>3. Lists(g, M, pos)
    BY <1>1, <1>3, <1>4, <1>7, <2>1, <2>2, ListsAreFramed DEF SameLinks
  <2> QED
    BY <1>4, <2>3 DEF M
<1>10. clean => NamesApart(g, Members(g, {at}))
  <2>1. \A n \in Members(f, {at}) : g.nodes[n] = f.nodes[n]
    BY <1>4 DEF Members
  <2> QED
    BY <1>4, <2>1 DEF Tree, NamesApart
<1>11. Tree(g, {at}, clean)
  BY <1>5, <1>6, <1>8, <1>9, <1>10 DEF Tree
<1> QED
  BY <1>2, <1>3, <1>11

----------------------------------------------------------------------------
(* What vfsdisk_sound asks of a filesystem read off a disk *)

LEMMA RawChildMeetsAll ==
  ASSUME NEW clean \in BOOLEAN,
         NEW f, Tree(f, {}, clean), NEW dir \in InUse(f)
  PROVE  MeetsAll(f, Members(f, {}), dir, RawChild(f, dir))
<1> DEFINE M == Members(f, {})
<1>1. f \in FsType /\ dir \in Nodes
  BY DEF Tree, InUse
<1>2. PICK pos : Lists(f, M, pos)
  BY DEF Tree
<1>3. M \in SUBSET (InUse(f) \ {0}) /\ Lists(f, M, pos)
  BY <1>2, MembersAreUsed
<1> HIDE DEF M
<1>4. MeetsAll(f, M, dir, RawChild(f, dir))
  BY <1>1, <1>3, RawChildWalks, ListIsComplete
<1> QED
  BY <1>4 DEF M

LEMMA ChildrenAgree ==
  ASSUME NEW clean \in BOOLEAN,
         NEW f, Tree(f, {}, clean)
  PROVE  children_agree_with_parents(f)
<1> DEFINE M == Members(f, {})
<1>1. M \in SUBSET (InUse(f) \ {0}) /\ M \in SUBSET Nodes
  BY DEF Members, InUse
<1>2. ASSUME NEW dir \in UsedDirs(f)
      PROVE  /\ RawChild(f, dir)[VFS_MAX_NODES] = VFS_NONE
             /\ \A k \in Nodes : RawChild(f, dir)[k] # VFS_NONE =>
                                   /\ RawChild(f, dir)[k] # 0
                                   /\ f.nodes[RawChild(f, dir)[k]].parent = dir
  <2>1. dir \in InUse(f)
    BY DEF UsedDirs, InUse
  <2>2. MeetsAll(f, M, dir, RawChild(f, dir))
    BY <2>1, RawChildMeetsAll
  <2>3. \A k \in Nodes : k \in Nat
    BY NodesAreNumbers
  <2> HIDE DEF M
  <2> QED
    BY <1>1, <2>2, <2>3 DEF MeetsAll
<1>3. ASSUME NEW at \in Nodes \ {0}, f.nodes[at].used
      PROVE  \E dir \in UsedDirs(f), k \in Nodes : RawChild(f, dir)[k] = at
  <2> DEFINE dir == f.nodes[at].parent
  <2>1. at \in InUse(f) /\ at \in M
    BY <1>3 DEF Members, InUse
  <2>2. dir \in InUse(f) /\ dir \in UsedDirs(f)
    BY <2>1, ParentIsDir DEF IsDir, UsedDirs, InUse
  <2>3. MeetsAll(f, M, dir, RawChild(f, dir))
    BY <2>2, RawChildMeetsAll
  <2> HIDE DEF M
  <2>4. \E k \in Nodes : RawChild(f, dir)[k] = at
    BY <2>1, <2>3 DEF MeetsAll
  <2> QED
    BY <2>2, <2>4
<1> QED
  BY <1>2, <1>3 DEF children_agree_with_parents

LEMMA FieldsAreOk ==
  ASSUME NEW clean \in BOOLEAN,
         NEW f, Tree(f, {}, clean), WellKept(f), NothingSpare(f), NEW at \in InUse(f)
  PROVE  fields_ok(f, at)
<1> DEFINE node == f.nodes[at]
<1>1. /\ f \in FsType /\ at \in Nodes /\ node.used /\ node.length \in Nat
      /\ node.next_sibling \in Link
  BY FsParts, NodeParts DEF Tree, InUse
<1>2. PICK pos : Lists(f, Members(f, {}), pos)
  BY DEF Tree
<1>3. \A n \in Members(f, {}) : n \in Nodes /\ f.nodes[n].used
  BY DEF Members, InUse
<1>4. link_ok(f, node.first_child)
  <2>1. node.first_child # VFS_NONE => node.first_child \in Members(f, {})
    BY <1>2 DEF Lists
  <2> QED
    BY <1>3, <2>1 DEF link_ok
<1>5. link_ok(f, node.next_sibling)
  <2>1. CASE at = 0
    BY <2>1 DEF Tree, RootStands, link_ok
  <2>2. CASE at # 0
    <3>1. at \in Members(f, {})
      BY <2>2 DEF Members
    <3>2. node.next_sibling # VFS_NONE => node.next_sibling \in Members(f, {})
      BY <1>2, <3>1 DEF Lists
    <3> QED
      BY <1>3, <3>2 DEF link_ok
  <2> QED
    BY <2>1, <2>2
<1>6. f.nodes[node.parent].used /\ f.nodes[node.parent].kind = "DIR"
  BY ParentIsDir DEF IsDir
<1>7. node.length <= VFS_FILE_MAX
  BY <1>1 DEF WellKept, BytesHaveBlocks
<1>8. /\ node.kind = "DIR" => node.length = 0
      /\ node.kind = "FILE" => node.first_child = VFS_NONE
      /\ at = 0 <=> node.name = ""
  BY DEF Tree, KindsAgree
<1>9. vfsblock_held(node) = vfs_blocks_for(node.length)
  <2>1. \A i \in Slots : node.blocks[i] # VFS_NONE <=> i * VFS_BLOCK < node.length
    BY <1>1 DEF WellKept, BytesHaveBlocks, NothingSpare
  <2> HIDE DEF node
  <2> QED
    BY <1>1, <1>7, <2>1, HeldIsNeeded
<1>10. \A i \in Slots : node.blocks[i] # VFS_NONE => f.block_used[node.blocks[i]]
  BY <1>1 DEF WellKept, OwnedIsMarked
<1> QED
  BY <1>4, <1>5, <1>6, <1>7, <1>8, <1>9, <1>10 DEF fields_ok

\* A filesystem whose nodes form a tree and whose files own what they need is
\* one the check after a restart accepts.
LEMMA TreesAreSound ==
  ASSUME NEW clean \in BOOLEAN,
         NEW f, Tree(f, {}, clean), WellKept(f), NothingSpare(f)
  PROVE  vfsdisk_sound(f)
<1>1. ASSUME NEW at \in Nodes, f.nodes[at].used
      PROVE  fields_ok(f, at) /\ climbs_to_the_root(f, at)
  <2>1. at \in InUse(f)
    BY <1>1 DEF InUse
  <2> QED
    BY <2>1, FieldsAreOk, ClimbsToRoot
<1>2. children_agree_with_parents(f)
  BY ChildrenAgree
<1> QED
  BY <1>1, <1>2 DEF vfsdisk_sound, Tree, RootStands, IsDir

----------------------------------------------------------------------------
(* What the check after a restart establishes *)

LEMMA EndPersists ==
  ASSUME NEW f, NEW dir, NEW w, WalkAlong(f, dir, w), NEW e \in Nat, w[e] = VFS_NONE,
         NEW k \in Nat, e <= k
  PROVE  w[k] = VFS_NONE
<1> DEFINE v == [d \in Nat |-> w[e + d]]
           T == {VFS_NONE}
<1>1. v[0] \in T
  OBVIOUS
<1>2. ASSUME NEW d \in Nat, v[d] \in T PROVE v[d + 1] \in T
  <2>1. e + d \in Nat /\ (e + d) + 1 = e + (d + 1) /\ w[e + d] = VFS_NONE
    BY <1>2
  <2>2. w[(e + d) + 1] = VFS_NONE
    BY <2>1 DEF WalkAlong
  <2> QED
    BY <2>1, <2>2
<1> HIDE DEF v, T
<1>3. \A d \in Nat : v[d] \in T
  BY <1>1, <1>2, WalkStays
<1>4. k - e \in Nat /\ e + (k - e) = k
  OBVIOUS
<1>5. v[k - e] = w[k]
  BY <1>4 DEF v
<1> QED
  BY <1>3, <1>4, <1>5 DEF T

\* Two places of a list that hold one node are followed by the same.
LEMMA SameFollows ==
  ASSUME NEW f, NEW dir, NEW w, WalkAlong(f, dir, w), NEW i \in Nat, NEW j \in Nat,
         w[i] = w[j], NEW d \in Nat
  PROVE  w[i + d] = w[j + d]
<1> DEFINE v == [c \in Nat |-> IF w[i + c] = w[j + c] THEN 0 ELSE 1]
           T == {0}
<1>1. v[0] \in T
  OBVIOUS
<1>2. ASSUME NEW c \in Nat, v[c] \in T PROVE v[c + 1] \in T
  <2>1. /\ i + c \in Nat /\ (i + c) + 1 = i + (c + 1)
        /\ j + c \in Nat /\ (j + c) + 1 = j + (c + 1)
        /\ w[i + c] = w[j + c]
    BY <1>2
  <2>2. w[(i + c) + 1] = w[(j + c) + 1]
    BY <2>1 DEF WalkAlong
  <2> QED
    BY <2>1, <2>2
<1> HIDE DEF v, T
<1>3. \A c \in Nat : v[c] \in T
  BY <1>1, <1>2, WalkStays
<1>4. v[d] = IF w[i + d] = w[j + d] THEN 0 ELSE 1
  BY DEF v
<1> QED
  BY <1>3, <1>4 DEF T

\* A list that ends holds no node twice.
LEMMA NoRepeat ==
  ASSUME NEW f, NEW dir, NEW w, WalkAlong(f, dir, w), NEW end \in Nat, w[end] = VFS_NONE,
         NEW i \in Nat, NEW j \in Nat, w[i] = w[j], w[i] # VFS_NONE
  PROVE  i = j
<1>1. ASSUME NEW a \in Nat, NEW b \in Nat, a < b, w[a] = w[b], w[a] # VFS_NONE
      PROVE  FALSE
  <2> DEFINE Past == {k \in Nat : w[k] = VFS_NONE}
  <2>1. PICK e \in Past : \A k \in Past : e <= k
    <3>1. end \in Past
      OBVIOUS
    <3> QED
      BY <3>1, LeastNat
  <2>2. b < e
    <3> SUFFICES ASSUME e <= b PROVE FALSE
      BY <1>1, <2>1
    <3>1. w[b] = VFS_NONE
      BY <1>1, <2>1, EndPersists
    <3> QED
      BY <1>1, <3>1
  <2>3. /\ e - b \in Nat /\ b + (e - b) = e /\ a + (e - b) \in Nat
        /\ ~(e <= a + (e - b))
    BY <1>1, <2>1, <2>2
  <2>4. w[a + (e - b)] = w[b + (e - b)]
    BY <1>1, <2>3, SameFollows
  <2>5. a + (e - b) \in Past
    BY <2>1, <2>3, <2>4
  <2> QED
    BY <2>1, <2>3, <2>5
<1>2. CASE i < j
  BY <1>1, <1>2
<1>3. CASE j < i
  BY <1>1, <1>3
<1> QED
  BY <1>2, <1>3

\* What children_agree_with_parents says of the entries and of the lists, with
\* the links they follow in use.
Agreed(f) ==
  /\ children_agree_with_parents(f)
  /\ \A n \in InUse(f) :
       /\ link_ok(f, f.nodes[n].first_child)
       /\ link_ok(f, f.nodes[n].next_sibling)
       /\ f.nodes[n].kind = "FILE" => f.nodes[n].first_child = VFS_NONE
       /\ IsDir(f, f.nodes[n].parent)

\* An entry has a place in the list of its parent, and what is next to it is an
\* entry of the same directory.
LEMMA PlaceInList ==
  ASSUME NEW f \in FsType, Agreed(f), NEW n \in Members(f, {})
  PROVE  LET dir == f.nodes[n].parent
             w == RawChild(f, dir)
             next == f.nodes[n].next_sibling
         IN  /\ dir \in UsedDirs(f) /\ WalkAlong(f, dir, w) /\ w[VFS_MAX_NODES] = VFS_NONE
             /\ \E k \in Nodes : w[k] = n
             /\ next # VFS_NONE => next \in Members(f, {}) /\ f.nodes[next].parent = dir
<1>1. n \in Nodes /\ n # 0 /\ f.nodes[n].used /\ n # VFS_NONE /\ n \in InUse(f)
  BY NodesAreNumbers DEF Members, InUse
<1>2. PICK dir \in UsedDirs(f), k \in Nodes : RawChild(f, dir)[k] = n
  BY <1>1 DEF Agreed, children_agree_with_parents
<1> DEFINE w == RawChild(f, dir)
           next == f.nodes[n].next_sibling
<1>3. f.nodes[n].parent = dir /\ w[VFS_MAX_NODES] = VFS_NONE
  BY <1>1, <1>2 DEF Agreed, children_agree_with_parents
<1>4. dir \in Nodes /\ k \in Nat
  BY <1>2, NodesAreNumbers DEF UsedDirs
<1>7. \A j \in Nodes : w[j] # VFS_NONE => w[j] # 0 /\ f.nodes[w[j]].parent = dir
  BY <1>2 DEF Agreed, children_agree_with_parents
<1>5. WalkAlong(f, dir, w)
  BY <1>4, RawChildWalks
<1>6. ASSUME next # VFS_NONE
      PROVE  next \in Members(f, {}) /\ f.nodes[next].parent = dir
  <2>1. w[k + 1] = next
    BY <1>1, <1>2, <1>4, <1>5 DEF WalkAlong
  <2>2. k + 1 \in Nodes
    BY <1>2, <1>3, <1>4, <1>6, <2>1, SizesAssumption DEF Nodes
  <2>3. next # 0 /\ f.nodes[next].parent = dir
    <3> HIDE DEF w, next
    <3> QED
      BY <1>6, <1>7, <2>1, <2>2
  <2>4. next \in Nodes /\ f.nodes[next].used
    BY <1>1, <1>6 DEF Agreed, link_ok
  <2> QED
    BY <2>3, <2>4 DEF Members, InUse
<1> QED
  BY <1>2, <1>3, <1>5, <1>6

\* Where an entry is first met in the list of its parent.
PlaceOf(f, n) ==
  CHOOSE k \in Nodes : RawChild(f, f.nodes[n].parent)[k] = n

LEMMA PlacesAreOrdered ==
  ASSUME NEW f \in FsType, Agreed(f), NEW n \in Members(f, {})
  PROVE  LET w == RawChild(f, f.nodes[n].parent)
             next == f.nodes[n].next_sibling
         IN  /\ PlaceOf(f, n) \in Nat /\ w[PlaceOf(f, n)] = n
             /\ \A k \in Nat : w[k] = n => k = PlaceOf(f, n)
             /\ next # VFS_NONE => PlaceOf(f, next) = PlaceOf(f, n) + 1
<1> DEFINE w == RawChild(f, f.nodes[n].parent)
           next == f.nodes[n].next_sibling
<1>1. ASSUME NEW m \in Members(f, {}), f.nodes[m].parent = f.nodes[n].parent
      PROVE  /\ PlaceOf(f, m) \in Nat /\ w[PlaceOf(f, m)] = m
             /\ \A k \in Nat : w[k] = m => k = PlaceOf(f, m)
  <2>1. /\ WalkAlong(f, f.nodes[n].parent, w) /\ w[VFS_MAX_NODES] = VFS_NONE
        /\ \E k \in Nodes : w[k] = m
    BY <1>1, PlaceInList
  <2>2. PlaceOf(f, m) = CHOOSE k \in Nodes : w[k] = m
    BY <1>1 DEF PlaceOf
  <2>3. m # VFS_NONE /\ VFS_MAX_NODES \in Nat
    BY NodesAreNumbers, SizesAssumption DEF Members, InUse
  <2> HIDE DEF w
  <2>4. PlaceOf(f, m) \in Nodes /\ w[PlaceOf(f, m)] = m
    BY <2>1, <2>2
  <2>5. PlaceOf(f, m) \in Nat
    BY <2>4, NodesAreNumbers
  <2>6. ASSUME NEW k \in Nat, w[k] = m PROVE k = PlaceOf(f, m)
    BY <2>1, <2>3, <2>4, <2>5, <2>6, NoRepeat
  <2> QED
    BY <2>4, <2>5, <2>6
<1>2. ASSUME next # VFS_NONE PROVE PlaceOf(f, next) = PlaceOf(f, n) + 1
  <2>1. next \in Members(f, {}) /\ f.nodes[next].parent = f.nodes[n].parent
    BY <1>2, PlaceInList
  <2>2. n # VFS_NONE /\ WalkAlong(f, f.nodes[n].parent, w)
    BY PlaceInList, NodesAreNumbers DEF Members, InUse
  <2>3. PlaceOf(f, n) \in Nat /\ w[PlaceOf(f, n)] = n
    BY <1>1
  <2>4. w[PlaceOf(f, n) + 1] = next
    BY <2>2, <2>3 DEF WalkAlong
  <2>5. PlaceOf(f, n) + 1 \in Nat
    BY <2>3
  <2> HIDE DEF next, w
  <2> QED
    BY <1>1, <2>1, <2>4, <2>5
<1> QED
  BY <1>1, <1>2

\* A filesystem whose entries and lists agree has each entry in one place.
LEMMA AgreedLists ==
  ASSUME NEW f \in FsType, Agreed(f)
  PROVE  \E pos : Lists(f, Members(f, {}), pos)
<1> DEFINE M == Members(f, {})
           pos == [n \in Nodes |-> IF n \in M THEN PlaceOf(f, n) ELSE 0]
<1>1. ASSUME NEW n \in M
      PROVE  LET w == RawChild(f, f.nodes[n].parent)
                 next == f.nodes[n].next_sibling
             IN  /\ n \in Nodes /\ n # 0 /\ n # VFS_NONE /\ n \in InUse(f)
                 /\ WalkAlong(f, f.nodes[n].parent, w)
                 /\ next # VFS_NONE => /\ next \in M
                                       /\ f.nodes[next].parent = f.nodes[n].parent
                                       /\ PlaceOf(f, next) = PlaceOf(f, n) + 1
                 /\ PlaceOf(f, n) \in Nat /\ w[PlaceOf(f, n)] = n
                 /\ \A k \in Nat : w[k] = n => k = PlaceOf(f, n)
                 /\ pos[n] = PlaceOf(f, n)
  <2>1. n \in Nodes /\ n # 0 /\ n # VFS_NONE /\ n \in InUse(f)
    BY NodesAreNumbers DEF Members, InUse
  <2> QED
    BY <2>1, PlaceInList, PlacesAreOrdered
<1>2. pos \in [Nodes -> Nat]
  BY PlacesAreOrdered
<1>3. \A n \in M : LET m == f.nodes[n].next_sibling
                   IN  m # VFS_NONE => /\ m \in M
                                       /\ f.nodes[m].parent = f.nodes[n].parent
                                       /\ pos[n] < pos[m]
  <2> HIDE DEF M, pos
  <2> QED
    BY <1>1
<1>4. ASSUME NEW d \in InUse(f), f.nodes[d].first_child # VFS_NONE
      PROVE  f.nodes[d].first_child \in M /\ f.nodes[f.nodes[d].first_child].parent = d
  <2> DEFINE m == f.nodes[d].first_child
             w == RawChild(f, d)
  <2>1. d \in Nodes /\ f.nodes[d].kind = "DIR" /\ f.nodes[d].used
    <3>1. d \in Nodes /\ f.nodes[d] \in NodeType /\ f.nodes[d].used
      BY NodeParts DEF InUse
    <3>2. f.nodes[d].kind \in Kinds
      BY <3>1 DEF NodeType
    <3> QED
      BY <1>4, <3>1, <3>2 DEF Agreed, Kinds
  <2>2. d \in UsedDirs(f)
    BY <2>1 DEF UsedDirs
  <2>3. w[0] = m
    BY <2>1, RawChildWalks DEF WalkAlong
  <2>4. \A j \in Nodes : w[j] # VFS_NONE => w[j] # 0 /\ f.nodes[w[j]].parent = d
    BY <2>2 DEF Agreed, children_agree_with_parents
  <2>5. m \in Nodes /\ f.nodes[m].used
    BY <1>4 DEF Agreed, link_ok
  <2> HIDE DEF w, m
  <2>6. m # 0 /\ f.nodes[m].parent = d
    BY <2>3, <2>4, <2>5, NodesAreNumbers
  <2> QED
    BY <2>5, <2>6 DEF Members, InUse, m
<1>5. ASSUME NEW n \in M
      PROVE  \/ f.nodes[f.nodes[n].parent].first_child = n
             \/ \E m \in M : f.nodes[m].next_sibling = n
  <2> DEFINE dir == f.nodes[n].parent
             w == RawChild(f, dir)
             k == PlaceOf(f, n)
  <2>1. WalkAlong(f, dir, w) /\ k \in Nat /\ w[k] = n /\ n # VFS_NONE
    BY <1>1
  <2>2. dir \in UsedDirs(f) /\ \E j \in Nodes : w[j] = n
    BY PlaceInList
  <2>3. k \in Nodes
    <3>1. PICK j \in Nodes : w[j] = n
      BY <2>2
    <3>2. j = k
      BY <1>1, <3>1, NodesAreNumbers
    <3> QED
      BY <3>1, <3>2
  <2>4. \A j \in Nodes : w[j] # VFS_NONE => w[j] # 0 /\ f.nodes[w[j]].parent = dir
    BY <2>2 DEF Agreed, children_agree_with_parents
  <2>5. CASE k = 0
    BY <2>1, <2>5 DEF WalkAlong
  <2>6. CASE k # 0
    <3> HIDE DEF k, w, dir
    <3>1. k - 1 \in Nat /\ (k - 1) + 1 = k /\ k - 1 \in Nodes
      BY <2>1, <2>3, <2>6, SizesAssumption DEF Nodes
    <3> DEFINE m == w[k - 1]
    <3>2. n = IF m = VFS_NONE THEN VFS_NONE ELSE f.nodes[m].next_sibling
      BY <2>1, <3>1 DEF WalkAlong
    <3>3. m # VFS_NONE /\ f.nodes[m].next_sibling = n
      BY <2>1, <3>2
    <3>4. m \in Link /\ m # 0
      BY <2>1, <2>4, <3>1, <3>3 DEF WalkAlong
    <3>5. m \in M
      <4>1. \A j \in Nodes : w[j] # VFS_NONE => w[j] \in InUse(f)
        <5> DEFINE T == InUse(f) \cup {VFS_NONE}
        <5>1. w[0] \in T
          <6>1. dir \in InUse(f)
            BY <2>2 DEF UsedDirs, InUse
          <6>2. link_ok(f, f.nodes[dir].first_child)
            BY <6>1 DEF Agreed
          <6> QED
            BY <2>1, <6>2 DEF WalkAlong, link_ok, InUse
        <5>2. ASSUME NEW j \in Nat, w[j] \in T PROVE w[j + 1] \in T
          <6>1. CASE w[j] = VFS_NONE
            BY <2>1, <6>1 DEF WalkAlong
          <6>2. CASE w[j] \in InUse(f)
            <7>1. link_ok(f, f.nodes[w[j]].next_sibling)
              BY <6>2 DEF Agreed
            <7>2. w[j] # VFS_NONE
              BY <6>2, NodesAreNumbers DEF InUse
            <7>3. w[j + 1] = f.nodes[w[j]].next_sibling
              BY <2>1, <7>2 DEF WalkAlong
            <7> QED
              BY <7>1, <7>3 DEF link_ok, InUse
          <6> QED
            BY <5>2, <6>1, <6>2
        <5> HIDE DEF T
        <5>3. \A j \in Nat : w[j] \in T
          BY <5>1, <5>2, WalkStays
        <5> QED
          BY <5>3, NodesAreNumbers DEF T
      <4>2. m \in InUse(f)
        BY <3>1, <3>3, <4>1
      <4> QED
        BY <3>4, <4>2 DEF Members
    <3> QED
      BY <3>3, <3>5
  <2> QED
    BY <2>5, <2>6
<1>6. ASSUME NEW n \in M, NEW m \in M, f.nodes[n].next_sibling # VFS_NONE,
             f.nodes[n].next_sibling = f.nodes[m].next_sibling
      PROVE  n = m
  <2> HIDE DEF M, pos
  <2>1. f.nodes[n].parent = f.nodes[m].parent
    BY <1>1, <1>6
  <2>2. PlaceOf(f, n) + 1 = PlaceOf(f, m) + 1
    BY <1>1, <1>6
  <2>3. PlaceOf(f, n) = PlaceOf(f, m)
    BY <1>1, <2>2
  <2> QED
    BY <1>1, <2>1, <2>3
<1>7. ASSUME NEW n \in M, NEW m \in M, f.nodes[f.nodes[n].parent].first_child = n
      PROVE  f.nodes[m].next_sibling # n
  <2> HIDE DEF M, pos
  <2> SUFFICES ASSUME f.nodes[m].next_sibling = n PROVE FALSE
    OBVIOUS
  <2>1. PlaceOf(f, n) = PlaceOf(f, m) + 1 /\ PlaceOf(f, m) \in Nat
    BY <1>1
  <2>2. RawChild(f, f.nodes[n].parent)[0] = n
    BY <1>1, <1>7 DEF WalkAlong
  <2>3. PlaceOf(f, n) = 0
    BY <1>1, <2>2
  <2> QED
    BY <2>1, <2>3
<1> HIDE DEF M, pos
<1>8. Lists(f, M, pos)
  BY <1>2, <1>3, <1>4, <1>5, <1>6, <1>7 DEF Lists
<1> QED
  BY <1>8 DEF M

\* `w' is a climb from `node'.
Climbing(f, node, w) ==
  /\ w \in [Nat -> Nodes]
  /\ w[0] = node
  /\ \A k \in Nat : w[k + 1] = IF w[k] = 0 THEN 0 ELSE f.nodes[w[k]].parent

LEMMA ClimbWalks ==
  ASSUME NEW f \in FsType, NEW node \in Nodes
  PROVE  Climbing(f, node, Climb(f, node))
<1> DEFINE step == [i \in Nat |-> [at \in Nodes |->
                      IF at = 0 THEN 0 ELSE f.nodes[at].parent]]
           w == Climb(f, node)
<1>1. step \in [Nat -> [Nodes -> Nodes]]
  BY NodeParts, NodesAreNumbers
<1>2. w = Iterate(step, node)
  BY DEF Climb
<1>3. \A k \in Nat, at \in Nodes :
        step[k + 1][at] = IF at = 0 THEN 0 ELSE f.nodes[at].parent
  OBVIOUS
<1> HIDE DEF step, w
<1>4. /\ w \in [Nat -> Nodes] /\ w[0] = node
      /\ \A k \in Nat : w[k + 1] = step[k + 1][w[k]]
  BY <1>1, <1>2, IterateWalks
<1>5. Climbing(f, node, w)
  BY <1>3, <1>4 DEF Climbing
<1> QED
  BY <1>5 DEF w

LEMMA ClimbFromParent ==
  ASSUME NEW f \in FsType, NEW node \in Nodes, node # 0, NEW k \in Nat
  PROVE  Climb(f, node)[k + 1] = Climb(f, f.nodes[node].parent)[k]
<1> DEFINE w == Climb(f, node)
           u == Climb(f, f.nodes[node].parent)
           v == [c \in Nat |-> IF w[c + 1] = u[c] THEN 0 ELSE 1]
           T == {0}
<1>1. Climbing(f, node, w) /\ Climbing(f, f.nodes[node].parent, u)
  BY ClimbWalks, NodeParts
<1> HIDE DEF w, u
<1>2. v[0] \in T
  BY <1>1 DEF Climbing
<1>3. ASSUME NEW c \in Nat, v[c] \in T PROVE v[c + 1] \in T
  <2>1. w[c + 1] = u[c] /\ c + 1 \in Nat
    BY <1>3
  <2>2. w[(c + 1) + 1] = u[c + 1]
    BY <1>1, <2>1 DEF Climbing
  <2> QED
    BY <2>1, <2>2
<1> HIDE DEF v, T
<1>4. \A c \in Nat : v[c] \in T
  BY <1>2, <1>3, WalkStays
<1>5. v[k] = IF w[k + 1] = u[k] THEN 0 ELSE 1
  BY DEF v
<1> QED
  BY <1>4, <1>5 DEF T, w, u

\* How many steps a climb takes to the root.
DepthOf(f, n) ==
  CHOOSE k \in {j \in Nat : Climb(f, n)[j] = 0} :
    \A i \in {j \in Nat : Climb(f, n)[j] = 0} : k <= i

LEMMA DepthIsLeast ==
  ASSUME NEW f, NEW n, NEW k \in Nat, Climb(f, n)[k] = 0
  PROVE  DepthOf(f, n) \in Nat /\ Climb(f, n)[DepthOf(f, n)] = 0 /\ DepthOf(f, n) <= k
<1> DEFINE S == {j \in Nat : Climb(f, n)[j] = 0}
<1>1. S \in SUBSET Nat /\ k \in S
  OBVIOUS
<1>2. \E least \in S : \A j \in S : least <= j
  BY <1>1, LeastNat
<1>3. DepthOf(f, n) = CHOOSE least \in S : \A j \in S : least <= j
  BY DEF DepthOf
<1> HIDE DEF S
<1>4. DepthOf(f, n) \in S /\ \A j \in S : DepthOf(f, n) <= j
  BY <1>2, <1>3
<1> QED
  BY <1>1, <1>4 DEF S

\* When every climb ends at the root, a directory is less deep than its entries.
LEMMA ClimbsAreDeep ==
  ASSUME NEW f \in FsType,
         \A n \in InUse(f) : climbs_to_the_root(f, n) /\ IsDir(f, f.nodes[n].parent)
  PROVE  \E depth : Deep(f, depth)
<1> DEFINE depth == [n \in Nodes |-> IF n \in InUse(f) THEN DepthOf(f, n) ELSE 0]
<1>1. ASSUME NEW n \in InUse(f)
      PROVE  /\ n \in Nodes /\ DepthOf(f, n) \in Nat /\ Climb(f, n)[DepthOf(f, n)] = 0
             /\ f.nodes[n].parent \in InUse(f)
  <2>1. n \in Nodes /\ f.nodes[n].parent \in Nodes
    BY NodeParts DEF InUse
  <2>2. PICK k \in Nodes : Climb(f, n)[k] = 0
    BY WithinIsClimb DEF climbs_to_the_root
  <2>3. k \in Nat
    BY NodesAreNumbers
  <2> QED
    BY <2>1, <2>2, <2>3, DepthIsLeast DEF IsDir, InUse
<1>2. depth \in [Nodes -> Nat]
  BY <1>1
<1>3. ASSUME NEW n \in InUse(f) \ {0} PROVE depth[f.nodes[n].parent] < depth[n]
  <2> DEFINE p == f.nodes[n].parent
             k == DepthOf(f, n)
  <2>1. n \in Nodes /\ k \in Nat /\ Climb(f, n)[k] = 0 /\ p \in InUse(f) /\ p \in Nodes
    BY <1>1
  <2>2. k # 0
    <3>1. Climb(f, n)[0] = n
      BY <2>1, ClimbWalks DEF Climbing
    <3> QED
      BY <2>1, <3>1
  <2>3. k - 1 \in Nat /\ (k - 1) + 1 = k
    BY <2>1, <2>2
  <2>4. Climb(f, n)[(k - 1) + 1] = Climb(f, p)[k - 1]
    BY <2>1, <2>3, ClimbFromParent
  <2>5. Climb(f, p)[k - 1] = 0
    BY <2>1, <2>3, <2>4
  <2>6. DepthOf(f, p) \in Nat /\ DepthOf(f, p) <= k - 1
    BY <2>3, <2>5, DepthIsLeast
  <2>7. depth[p] = DepthOf(f, p) /\ depth[n] = k
    BY <2>1
  <2> HIDE DEF depth, k, p
  <2> QED
    BY <2>1, <2>6, <2>7 DEF p
<1> HIDE DEF depth
<1>4. Deep(f, depth)
  BY <1>2, <1>3 DEF Deep
<1> QED
  BY <1>4

\* What vfsdisk_sound accepts is a tree.  It does not compare names.
LEMMA SoundIsTree ==
  ASSUME NEW f \in FsType, vfsdisk_sound(f)
  PROVE  Tree(f, {}, FALSE)
<1>1. ASSUME NEW n \in InUse(f)
      PROVE  fields_ok(f, n) /\ climbs_to_the_root(f, n)
  BY DEF vfsdisk_sound, InUse
<1>2. ASSUME NEW n \in InUse(f)
      PROVE  /\ link_ok(f, f.nodes[n].first_child)
             /\ link_ok(f, f.nodes[n].next_sibling)
             /\ f.nodes[n].kind = "FILE" => f.nodes[n].first_child = VFS_NONE
             /\ IsDir(f, f.nodes[n].parent)
             /\ f.nodes[n].kind = "DIR" => f.nodes[n].length = 0
             /\ n = 0 <=> f.nodes[n].name = ""
  BY <1>1 DEF fields_ok, IsDir
<1>3. RootStands(f)
  BY DEF vfsdisk_sound, RootStands, IsDir
<1>4. KindsAgree(f)
  BY <1>2 DEF KindsAgree
<1>5. \E depth : Deep(f, depth)
  BY <1>1, <1>2, ClimbsAreDeep
<1>6. Agreed(f)
  BY <1>2 DEF Agreed, vfsdisk_sound
<1>7. \E pos : Lists(f, Members(f, {}), pos)
  BY <1>6, AgreedLists
<1> QED
  BY <1>3, <1>4, <1>5, <1>7 DEF Tree

----------------------------------------------------------------------------
(* THE OPERATIONS *)

\* What every call has to come back with.
Answers(outcome) == WellKept(outcome.fs) /\ outcome.reply \in Results

----------------------------------------------------------------------------
(* Changing links *)

\* Ownership of blocks does not depend on names, links, the working directory
\* or the counter.
LEMMA LinksChange ==
  ASSUME NEW f, WellKept(f), NEW g \in FsType,
         g.block_used = f.block_used,
         \A n \in Nodes : /\ g.nodes[n].blocks = f.nodes[n].blocks
                          /\ g.nodes[n].length = f.nodes[n].length
                          /\ g.nodes[n].used => f.nodes[n].used
  PROVE  WellKept(g)
BY DEF WellKept, BlocksArePacked, BytesHaveBlocks, OwnersAreApart, OwnedIsMarked

\* The same, for a change of nodes alone.
LEMMA NodesChange ==
  ASSUME NEW f, WellKept(f), NEW new \in [Nodes -> NodeType],
         \A n \in Nodes : /\ new[n].blocks = f.nodes[n].blocks
                          /\ new[n].length = f.nodes[n].length
                          /\ new[n].used => f.nodes[n].used
  PROVE  WellKept([f EXCEPT !.nodes = new]) /\ [f EXCEPT !.nodes = new].nodes = new
<1> DEFINE g == [f EXCEPT !.nodes = new]
<1>1. g \in FsType /\ g.nodes = new /\ g.block_used = f.block_used
  BY DEF WellKept, FsType
<1> HIDE DEF g
<1>2. \A n \in Nodes : /\ g.nodes[n].blocks = f.nodes[n].blocks
                        /\ g.nodes[n].length = f.nodes[n].length
                        /\ g.nodes[n].used => f.nodes[n].used
  BY <1>1
<1>3. WellKept(g)
  BY <1>1, <1>2, LinksChange
<1> QED
  BY <1>1, <1>3 DEF g

LEMMA ChangedType ==
  ASSUME NEW f \in FsType
  PROVE  /\ changed(f) \in FsType /\ changed(f).nodes = f.nodes
         /\ changed(f).cwd = f.cwd /\ changed(f).blocks = f.blocks
         /\ changed(f).block_used = f.block_used
<1>1. (f.changes + 1) % CHANGES_MOD \in 0 .. CHANGES_MOD - 1
  <2>1. f.changes \in Nat
    BY SizesAssumption DEF FsType
  <2> QED
    BY <2>1, SizesAssumption
<1> QED
  BY <1>1 DEF changed, FsType

LEMMA ChangedKeeps ==
  ASSUME NEW f, WellKept(f)
  PROVE  WellKept(changed(f)) /\ changed(f).nodes = f.nodes
<1>1. f \in FsType
  BY DEF WellKept
<1> QED
  BY <1>1, ChangedType, LinksChange

LEMMA UnlinkKeeps ==
  ASSUME NEW f, WellKept(f), NEW at \in Nodes
  PROVE  WellKept(vfs_unlink_from_parent(f, at))
<1> DEFINE parent == f.nodes[at].parent
           next == f.nodes[at].next_sibling
           before == {n \in Listed(f, f.nodes[parent].first_child) :
                        f.nodes[n].next_sibling = at}
<1>1. /\ f \in FsType /\ f.nodes \in [Nodes -> NodeType]
      /\ parent \in Nodes /\ next \in Link
  BY NodeParts, FsParts DEF WellKept
<1>2. CASE f.nodes[parent].first_child = at
  <2> DEFINE node == [f.nodes[parent] EXCEPT !.first_child = next]
             new == [f.nodes EXCEPT ![parent] = node]
  <2>1. /\ node \in NodeType /\ node.blocks = f.nodes[parent].blocks
        /\ node.length = f.nodes[parent].length /\ node.used = f.nodes[parent].used
    <3>1. f.nodes[parent] \in NodeType
      BY <1>1
    <3> QED
      BY <1>1, <3>1 DEF NodeType
  <2>2. vfs_unlink_from_parent(f, at) = [f EXCEPT !.nodes = new]
    BY <1>1, <1>2 DEF vfs_unlink_from_parent, FsType
  <2> HIDE DEF node
  <2>3. new \in [Nodes -> NodeType]
    BY <1>1, <2>1
  <2>4. \A n \in Nodes : /\ new[n].blocks = f.nodes[n].blocks
                         /\ new[n].length = f.nodes[n].length
                         /\ new[n].used => f.nodes[n].used
    BY <1>1, <2>1
  <2> HIDE DEF new
  <2> QED
    BY <2>2, <2>3, <2>4, NodesChange
<1>3. CASE f.nodes[parent].first_child # at
  <2> DEFINE new == [n \in Nodes |->
                       IF n \in before THEN [f.nodes[n] EXCEPT !.next_sibling = next]
                       ELSE f.nodes[n]]
  <2>1. vfs_unlink_from_parent(f, at) = [f EXCEPT !.nodes = new]
    BY <1>3 DEF vfs_unlink_from_parent
  <2> HIDE DEF before
  <2>2. ASSUME NEW n \in Nodes
        PROVE  /\ new[n] \in NodeType
               /\ new[n].blocks = f.nodes[n].blocks
               /\ new[n].length = f.nodes[n].length
               /\ new[n].used => f.nodes[n].used
    <3>1. f.nodes[n] \in NodeType
      BY <1>1
    <3> QED
      BY <1>1, <3>1 DEF NodeType
  <2>3. new \in [Nodes -> NodeType]
    BY <2>2
  <2> HIDE DEF new
  <2> QED
    BY <2>1, <2>2, <2>3, NodesChange
<1> QED
  BY <1>2, <1>3

LEMMA LinkIntoKeeps ==
  ASSUME NEW f, WellKept(f), NEW parent \in Nodes, NEW at \in Nodes
  PROVE  /\ WellKept(vfs_link_into(f, parent, at))
         /\ \A n \in Nodes :
              vfs_link_into(f, parent, at).nodes[n].length = f.nodes[n].length
<1> DEFINE placed == [f EXCEPT !.nodes[at].parent = parent,
                               !.nodes[at].next_sibling = VFS_NONE]
           node == [f.nodes[at] EXCEPT !.parent = parent, !.next_sibling = VFS_NONE]
           moved == [f.nodes EXCEPT ![at] = node]
           first == placed.nodes[parent].first_child
           last == {n \in Listed(placed, first) :
                      placed.nodes[n].next_sibling = VFS_NONE}
<1>1. f \in FsType /\ f.nodes \in [Nodes -> NodeType] /\ f.nodes[at] \in NodeType
  BY FsParts DEF WellKept
<1>2. /\ node \in NodeType /\ node.blocks = f.nodes[at].blocks
      /\ node.length = f.nodes[at].length /\ node.used = f.nodes[at].used
  BY <1>1, NodesAreNumbers DEF NodeType
<1>3. placed = [f EXCEPT !.nodes = moved]
  BY <1>1 DEF FsType, NodeType
<1> HIDE DEF node
<1>4. /\ moved \in [Nodes -> NodeType]
      /\ \A n \in Nodes : /\ moved[n].blocks = f.nodes[n].blocks
                          /\ moved[n].length = f.nodes[n].length
                          /\ moved[n].used => f.nodes[n].used
  BY <1>1, <1>2
<1> HIDE DEF moved, placed
<1>5. WellKept(placed) /\ placed.nodes = moved /\ placed \in FsType
  BY <1>3, <1>4, NodesChange DEF WellKept
<1>6. CASE first = VFS_NONE
  <2> DEFINE dir == [placed.nodes[parent] EXCEPT !.first_child = at]
             new == [placed.nodes EXCEPT ![parent] = dir]
  <2>1. /\ dir \in NodeType /\ dir.blocks = placed.nodes[parent].blocks
        /\ dir.length = placed.nodes[parent].length
        /\ dir.used = placed.nodes[parent].used
    <3>1. placed.nodes[parent] \in NodeType
      BY <1>4, <1>5
    <3> QED
      BY <3>1, NodesAreNumbers DEF NodeType
  <2>2. vfs_link_into(f, parent, at) = [placed EXCEPT !.nodes = new]
    BY <1>5, <1>6 DEF vfs_link_into, FsType, placed
  <2> HIDE DEF dir
  <2>3. new \in [Nodes -> NodeType]
    BY <1>4, <1>5, <2>1
  <2>4. \A n \in Nodes : /\ new[n].blocks = placed.nodes[n].blocks
                         /\ new[n].length = placed.nodes[n].length
                         /\ new[n].used => placed.nodes[n].used
    BY <1>4, <1>5, <2>1
  <2> HIDE DEF new
  <2> QED
    BY <1>4, <1>5, <2>2, <2>3, <2>4, NodesChange
<1>7. CASE first # VFS_NONE
  <2> DEFINE new == [n \in Nodes |->
                IF n \in last THEN [placed.nodes[n] EXCEPT !.next_sibling = at]
                ELSE placed.nodes[n]]
  <2>1. vfs_link_into(f, parent, at) = [placed EXCEPT !.nodes = new]
    BY <1>7 DEF vfs_link_into, placed
  <2> HIDE DEF last
  <2>2. ASSUME NEW n \in Nodes
        PROVE  /\ new[n] \in NodeType
               /\ new[n].blocks = placed.nodes[n].blocks
               /\ new[n].length = placed.nodes[n].length
               /\ new[n].used => placed.nodes[n].used
    <3>1. placed.nodes[n] \in NodeType
      BY <1>4, <1>5
    <3> QED
      BY <3>1, NodesAreNumbers DEF NodeType
  <2>3. new \in [Nodes -> NodeType]
    BY <2>2
  <2> HIDE DEF new
  <2> QED
    BY <1>4, <1>5, <2>1, <2>2, <2>3, NodesChange
<1> QED
  BY <1>6, <1>7

----------------------------------------------------------------------------
(* The operations *)

LEMMA FreeNodeType ==
  ASSUME NEW f, FreeNodes(f) # {}
  PROVE  free_node(f) \in Nodes
<1>1. FreeNodes(f) \in SUBSET Nat
  BY NodesAreNumbers DEF FreeNodes
<1>2. free_node(f) \in FreeNodes(f)
  BY <1>1, LeastNat DEF free_node
<1> QED
  BY <1>2 DEF FreeNodes

\* The checks before an entry is put somewhere.
LEMMA PlaceType ==
  ASSUME NEW f \in FsType, NEW path \in PathType
  PROVE  /\ PlaceRefused(f, path) \in Results
         /\ PlaceRefused(f, path) = "OK" => /\ ParentOf(f, path) \in Nodes
                                            /\ LastName(path) \in Names
BY PathsLeadToNodes DEF PlaceRefused, Results, vfs_usable_name

LEMMA MakeKeeps ==
  ASSUME NEW f, WellKept(f), NEW path \in PathType, NEW kind \in Kinds
  PROVE  LET made == vfs_make(f, path, kind)
         IN  /\ Answers(made)
             /\ made.reply = "OK" => /\ free_node(f) \in Nodes
                                     /\ made.fs.nodes[free_node(f)].length = 0
<1> DEFINE parent == ParentOf(f, path)
           made == free_node(f)
           node == [name |-> LastName(path), kind |-> kind, used |-> TRUE,
                    parent |-> parent, first_child |-> VFS_NONE,
                    next_sibling |-> VFS_NONE, length |-> 0, blocks |-> NoBlocks]
           filled == [f EXCEPT !.nodes[made] = node]
<1>1. f \in FsType /\ f.nodes \in [Nodes -> NodeType]
  BY FsParts DEF WellKept
<1>2. CASE PlaceRefused(f, path) # "OK"
  <2>1. vfs_make(f, path, kind) = Did(f, PlaceRefused(f, path))
    BY <1>2 DEF vfs_make
  <2> QED
    BY <1>1, <1>2, <2>1, PlaceType DEF Did, Answers
<1>3. CASE PlaceRefused(f, path) = "OK" /\ FreeNodes(f) = {}
  <2>1. vfs_make(f, path, kind) = Did(f, "NO_SPACE")
    BY <1>3 DEF vfs_make
  <2> QED
    BY <1>1, <2>1 DEF Did, Answers, Results
<1>4. CASE PlaceRefused(f, path) = "OK" /\ FreeNodes(f) # {}
  <2>1. vfs_make(f, path, kind) = Did(changed(vfs_link_into(filled, parent, made)), "OK")
    BY <1>4 DEF vfs_make
  <2>2. parent \in Nodes /\ LastName(path) \in Names /\ made \in Nodes
    BY <1>1, <1>4, PlaceType, FreeNodeType
  <2> HIDE DEF parent, made
  <2>3. NoBlocks \in [Slots -> Blocks \cup {VFS_NONE}]
    BY DEF NoBlocks
  <2>4. node \in NodeType /\ node.length = 0 /\ node.blocks = NoBlocks
    BY <2>2, <2>3, NodesAreNumbers DEF NodeType
  <2> HIDE DEF node
  <2>5. /\ filled \in FsType /\ filled.block_used = f.block_used
        /\ filled.nodes[made] = node
        /\ \A n \in Nodes : n # made => filled.nodes[n] = f.nodes[n]
    BY <1>1, <2>2, <2>4 DEF FsType
  <2>6. \A i \in Slots : filled.nodes[made].blocks[i] = VFS_NONE
    BY <2>4, <2>5 DEF NoBlocks
  <2> HIDE DEF filled
  <2>7. BlocksArePacked(filled) /\ OwnersAreApart(filled)
    BY <2>5, <2>6 DEF WellKept, BlocksArePacked, OwnersAreApart
  <2>8. OwnedIsMarked(filled)
    BY <2>5, <2>6 DEF WellKept, OwnedIsMarked
  <2>9. BytesHaveBlocks(filled)
    <3>1. VFS_FILE_MAX \in Nat
      BY SizesAssumption DEF VFS_FILE_MAX
    <3>2. \A i \in Slots : ~(i * VFS_BLOCK < 0)
      BY SizesAssumption DEF Slots
    <3> QED
      BY <2>4, <2>5, <3>1, <3>2 DEF WellKept, BytesHaveBlocks
  <2>10. WellKept(filled)
    BY <2>5, <2>7, <2>8, <2>9 DEF WellKept
  <2> DEFINE linked == vfs_link_into(filled, parent, made)
  <2>11. WellKept(linked) /\ linked.nodes[made].length = 0
    BY <2>2, <2>4, <2>5, <2>10, LinkIntoKeeps
  <2> HIDE DEF linked
  <2>12. WellKept(changed(linked)) /\ changed(linked).nodes[made].length = 0
    BY <2>11, ChangedKeeps
  <2> QED
    BY <2>1, <2>2, <2>12 DEF Did, Answers, Results, linked, made
<1> QED
  BY <1>2, <1>3, <1>4

LEMMA ChdirKeeps ==
  ASSUME NEW f, WellKept(f), NEW path \in PathType
  PROVE  Answers(vfs_chdir(f, path))
<1> DEFINE at == vfs_resolve(f, path)
<1>1. f \in FsType /\ at \in Nodes \cup {VFS_NONE}
  BY PathsLeadToNodes DEF WellKept
<1>2. ASSUME at \in Nodes PROVE WellKept([f EXCEPT !.cwd = at])
  <2> DEFINE g == [f EXCEPT !.cwd = at]
  <2>1. g \in FsType /\ g.nodes = f.nodes /\ g.block_used = f.block_used
    BY <1>1, <1>2 DEF FsType
  <2> HIDE DEF g
  <2>2. WellKept(g)
    BY <2>1, LinksChange
  <2> QED
    BY <2>2 DEF g
<1> QED
  BY <1>1, <1>2 DEF vfs_chdir, Did, Answers, Results

LEMMA BlocksForType ==
  ASSUME NEW length \in Nat
  PROVE  vfs_blocks_for(length) \in Nat
BY SizesAssumption DEF vfs_blocks_for

\* A file that is found or made is a node, and finding it refuses nothing else.
LEMMA FileForWritingKeeps ==
  ASSUME NEW f, WellKept(f), NEW path \in PathType
  PROVE  /\ Answers(file_for_writing(f, path))
         /\ file_for_writing(f, path).reply = "OK" => FileWritten(f, path) \in Nodes
<1>1. vfs_resolve(f, path) \in Nodes \cup {VFS_NONE}
  BY PathsLeadToNodes DEF WellKept
<1>2. CASE vfs_resolve(f, path) = VFS_NONE
  <2>1. file_for_writing(f, path) = vfs_make(f, path, "FILE")
    BY <1>2 DEF file_for_writing
  <2>2. FileWritten(f, path) = free_node(f)
    BY <1>2 DEF FileWritten
  <2>3. "FILE" \in Kinds
    BY DEF Kinds
  <2> QED
    BY <2>1, <2>2, <2>3, MakeKeeps
<1>3. CASE vfs_resolve(f, path) # VFS_NONE
  BY <1>1, <1>3 DEF file_for_writing, FileWritten, Did, Answers, Results
<1> QED
  BY <1>2, <1>3

LEMMA AppendToKeeps ==
  ASSUME NEW f, WellKept(f), NEW at \in Nodes, NEW data \in Seq(Bytes)
  PROVE  Answers(AppendTo(f, at, data))
<1> DEFINE length == f.nodes[at].length + Len(data)
           wanted == vfs_blocks_for(length)
           reserved == vfsblock_reserve(f, at, wanted)
<1>1. length \in Nat
  BY FsParts DEF WellKept
<1>2. wanted \in Nat
  BY <1>1, BlocksForType
<1>3. CASE length > VFS_FILE_MAX
  <2>1. AppendTo(f, at, data) = Did(f, "TOO_BIG")
    BY <1>3 DEF AppendTo
  <2> QED
    BY <2>1 DEF Did, Answers, Results
<1>4. CASE ~(length > VFS_FILE_MAX) /\ ~reserve_succeeds(f, at, wanted)
  <2>1. AppendTo(f, at, data) = Did(reserved, "NO_SPACE")
    BY <1>4 DEF AppendTo
  <2>2. WellKept(reserved)
    BY <1>2, ReserveKeeps
  <2> QED
    BY <2>1, <2>2 DEF Did, Answers, Results
<1>5. CASE ~(length > VFS_FILE_MAX) /\ reserve_succeeds(f, at, wanted)
  <2>1. AppendTo(f, at, data) = Did(changed(put_bytes(reserved, at, data)), "OK")
    BY <1>5 DEF AppendTo
  <2>2. /\ WellKept(reserved)
        /\ reserved.nodes[at].length = f.nodes[at].length
        /\ \A i \in Slots : i < wanted => reserved.nodes[at].blocks[i] # VFS_NONE
    BY <1>2, <1>5, ReserveSucceeds
  <2>3. data \in Seq(Bytes \cup {0})
    OBVIOUS
  <2>4. length <= VFS_FILE_MAX
    <3>1. VFS_FILE_MAX \in Nat
      BY SizesAssumption DEF VFS_FILE_MAX
    <3> QED
      BY <1>1, <1>5, <3>1
  <2>5. length = reserved.nodes[at].length + Len(data)
    BY <2>2
  <2> HIDE DEF length, reserved
  <2>6. WellKept(put_bytes(reserved, at, data))
    BY <1>1, <2>2, <2>3, <2>4, <2>5, PutKeeps
  <2>7. WellKept(changed(put_bytes(reserved, at, data)))
    BY <2>6, ChangedKeeps
  <2> QED
    BY <2>1, <2>7 DEF Did, Answers, Results
<1> QED
  BY <1>3, <1>4, <1>5

LEMMA AppendKeeps ==
  ASSUME NEW f, WellKept(f), NEW path \in PathType, NEW data \in Seq(Bytes)
  PROVE  Answers(vfs_append(f, path, data))
BY FileForWritingKeeps, AppendToKeeps DEF vfs_append, Answers

LEMMA WriteKeeps ==
  ASSUME NEW f, WellKept(f), NEW path \in PathType, NEW data \in Seq(Bytes)
  PROVE  Answers(vfs_write(f, path, data))
<1> DEFINE found == file_for_writing(f, path)
           at == FileWritten(f, path)
<1>1. Answers(found) /\ (found.reply = "OK" => at \in Nodes)
  BY FileForWritingKeeps
<1>2. CASE found.reply # "OK"
  BY <1>1, <1>2 DEF vfs_write
<1>3. CASE found.reply = "OK"
  <2>1. vfs_write(f, path, data) = AppendTo(vfsblock_release(found.fs, at), at, data)
    BY <1>3 DEF vfs_write
  <2>2. WellKept(vfsblock_release(found.fs, at))
    BY <1>1, <1>3, ReleaseKeeps DEF Answers
  <2> QED
    BY <1>1, <1>3, <2>1, <2>2, AppendToKeeps
<1> QED
  BY <1>2, <1>3

LEMMA RemoveKeeps ==
  ASSUME NEW f, WellKept(f), NEW path \in PathType
  PROVE  Answers(vfs_remove(f, path))
<1> DEFINE at == vfs_resolve(f, path)
           released == vfsblock_release(vfs_unlink_from_parent(f, at), at)
           freed == [released EXCEPT !.nodes[at].used = FALSE]
<1>1. at \in Nodes \cup {VFS_NONE}
  BY PathsLeadToNodes DEF WellKept
<1>2. ASSUME at \in Nodes PROVE WellKept(RemoveNode(f, at))
  <2>1. WellKept(released)
    BY <1>2, UnlinkKeeps, ReleaseKeeps
  <2> HIDE DEF released
  <2>2. /\ released \in FsType /\ released.nodes \in [Nodes -> NodeType]
        /\ released.nodes[at] \in NodeType
    BY <1>2, <2>1, FsParts DEF WellKept
  <2> DEFINE node == [released.nodes[at] EXCEPT !.used = FALSE]
             new == [released.nodes EXCEPT ![at] = node]
  <2>3. /\ node \in NodeType
        /\ node.blocks = released.nodes[at].blocks
        /\ node.length = released.nodes[at].length /\ ~node.used
    BY <2>2 DEF NodeType
  <2>4. freed = [released EXCEPT !.nodes = new]
    BY <2>2 DEF FsType
  <2> HIDE DEF node
  <2>5. /\ new \in [Nodes -> NodeType]
        /\ \A n \in Nodes : /\ new[n].blocks = released.nodes[n].blocks
                            /\ new[n].length = released.nodes[n].length
                            /\ new[n].used => released.nodes[n].used
    BY <1>2, <2>2, <2>3
  <2> HIDE DEF new, freed
  <2>6. WellKept(changed(freed))
    BY <2>1, <2>4, <2>5, NodesChange, ChangedKeeps
  <2>7. RemoveNode(f, at) = changed(freed)
    BY DEF RemoveNode, freed, released
  <2> QED
    BY <2>6, <2>7
<1> QED
  BY <1>1, <1>2 DEF vfs_remove, Did, Answers, Results

LEMMA MoveKeeps ==
  ASSUME NEW f, WellKept(f), NEW from \in PathType, NEW to \in PathType
  PROVE  Answers(vfs_move(f, from, to))
<1> DEFINE at == vfs_resolve(f, from)
           parent == ParentOf(f, to)
           unlinked == vfs_unlink_from_parent(f, at)
           renamed == [unlinked EXCEPT !.nodes[at].name = LastName(to)]
<1>1. f \in FsType /\ at \in Nodes \cup {VFS_NONE}
  BY PathsLeadToNodes DEF WellKept
<1>2. ASSUME at \in Nodes, PlaceRefused(f, to) = "OK"
      PROVE  WellKept(changed(vfs_link_into(renamed, parent, at)))
  <2>1. WellKept(unlinked)
    BY <1>2, UnlinkKeeps
  <2> HIDE DEF unlinked
  <2>2. /\ unlinked \in FsType /\ unlinked.nodes \in [Nodes -> NodeType]
        /\ unlinked.nodes[at] \in NodeType
    BY <1>2, <2>1, FsParts DEF WellKept
  <2>3. parent \in Nodes /\ LastName(to) \in Names
    BY <1>1, <1>2, PlaceType
  <2> HIDE DEF parent
  <2> DEFINE node == [unlinked.nodes[at] EXCEPT !.name = LastName(to)]
             new == [unlinked.nodes EXCEPT ![at] = node]
  <2>4. /\ node \in NodeType
        /\ node.blocks = unlinked.nodes[at].blocks
        /\ node.length = unlinked.nodes[at].length
        /\ node.used = unlinked.nodes[at].used
    BY <2>2, <2>3 DEF NodeType
  <2>5. renamed = [unlinked EXCEPT !.nodes = new]
    BY <2>2 DEF FsType
  <2> HIDE DEF node
  <2>6. /\ new \in [Nodes -> NodeType]
        /\ \A n \in Nodes : /\ new[n].blocks = unlinked.nodes[n].blocks
                            /\ new[n].length = unlinked.nodes[n].length
                            /\ new[n].used => unlinked.nodes[n].used
    BY <1>2, <2>2, <2>4
  <2> HIDE DEF new, renamed
  <2>7. WellKept(renamed)
    BY <2>1, <2>5, <2>6, NodesChange
  <2> QED
    BY <1>2, <2>3, <2>7, LinkIntoKeeps, ChangedKeeps
<1>3. \/ /\ \E refused \in Results : vfs_move(f, from, to) = Did(f, refused)
      \/ /\ at \in Nodes /\ PlaceRefused(f, to) = "OK"
         /\ vfs_move(f, from, to) = Did(changed(vfs_link_into(renamed, parent, at)), "OK")
  <2>1. PlaceRefused(f, to) \in Results
    BY <1>1, PlaceType
  <2> HIDE DEF parent, renamed
  <2> QED
    BY <1>1, <2>1 DEF vfs_move, Results, parent, renamed
<1> HIDE DEF at, parent, renamed
<1> QED
  BY <1>2, <1>3 DEF Did, Answers, Results

LEMMA CopyKeeps ==
  ASSUME NEW clean \in BOOLEAN,
         NEW f, WellKept(f), Tree(f, {}, clean), NEW from \in PathType, NEW to \in PathType
  PROVE  Answers(vfs_copy(f, from, to))
<1> DEFINE at == vfs_resolve(f, from)
           created == vfs_make(f, to, "FILE")
           made == free_node(f)
           length == f.nodes[at].length
           wanted == vfs_blocks_for(length)
           reserved == vfsblock_reserve(created.fs, made, wanted)
<1>1. /\ f \in FsType /\ at \in Nodes \cup {VFS_NONE}
      /\ at # VFS_NONE => f.nodes[at].used
  BY PathsLeadToNodes, PathsLeadToEntries DEF WellKept, InUse
<1>2. /\ Answers(created)
      /\ created.reply = "OK" => made \in Nodes /\ created.fs.nodes[made].length = 0
  <2>1. "FILE" \in Kinds
    BY DEF Kinds
  <2> QED
    BY <2>1, MakeKeeps
<1> HIDE DEF created, made
<1>3. CASE \/ at = VFS_NONE \/ f.nodes[at].kind # "FILE"
           \/ vfs_resolve(f, to) # VFS_NONE \/ created.reply # "OK"
  BY <1>2, <1>3 DEF vfs_copy, Did, Answers, Results, created
<1>4. CASE /\ at \in Nodes /\ f.nodes[at].used /\ f.nodes[at].kind = "FILE"
           /\ vfs_resolve(f, to) = VFS_NONE /\ created.reply = "OK"
  <2>1. length \in Nat /\ wanted \in Nat
    BY <1>1, <1>4, FsParts, BlocksForType
  <2>2. WellKept(created.fs) /\ made \in Nodes /\ created.fs.nodes[made].length = 0
    BY <1>2, <1>4 DEF Answers
  <2>3. CASE ~reserve_succeeds(created.fs, made, wanted)
    <3>1. vfs_copy(f, from, to) = Did(vfs_remove(reserved, to).fs, "NO_SPACE")
      BY <1>4, <2>3, NodesAreNumbers DEF vfs_copy, created, made
    <3>2. WellKept(reserved)
      BY <2>1, <2>2, ReserveKeeps
    <3> HIDE DEF reserved
    <3>3. WellKept(vfs_remove(reserved, to).fs)
      BY <3>2, RemoveKeeps DEF Answers
    <3> QED
      BY <3>1, <3>3 DEF Did, Answers, Results
  <2>4. CASE reserve_succeeds(created.fs, made, wanted)
    <3>1. vfs_copy(f, from, to) = Did(put_bytes(reserved, made, contents(f, at)), "OK")
      BY <1>4, <2>4, NodesAreNumbers DEF vfs_copy, created, made
    <3>2. /\ WellKept(reserved) /\ reserved.nodes[made].length = 0
          /\ \A i \in Slots : i < wanted => reserved.nodes[made].blocks[i] # VFS_NONE
      BY <2>1, <2>2, <2>4, ReserveSucceeds
    <3>3. contents(f, at) \in Seq(Bytes \cup {0}) /\ Len(contents(f, at)) = length
      BY <1>4, ContentsType
    <3>4. length <= VFS_FILE_MAX
      BY <1>4 DEF WellKept, BytesHaveBlocks
    <3>5. length = reserved.nodes[made].length + Len(contents(f, at))
      BY <2>1, <3>2, <3>3
    <3> HIDE DEF reserved, length
    <3>6. WellKept(put_bytes(reserved, made, contents(f, at)))
      BY <2>1, <2>2, <3>2, <3>3, <3>4, <3>5, PutKeeps
    <3> QED
      BY <3>1, <3>6 DEF Did, Answers, Results
  <2> QED
    BY <2>3, <2>4
<1> QED
  BY <1>1, <1>3, <1>4

----------------------------------------------------------------------------
(* What holds between two calls *)

\* Each block is in a file that needs it, each byte past a file's end is zero,
\* and the nodes form one tree.
Settled(f, clean) == Filed(f, clean) /\ NothingSpare(f) /\ Tree(f, {}, clean)

Orderly(f, clean) == WellKept(f) /\ Settled(f, clean)

\* An entry that can be written to.
IsFile(f, at) == at \in InUse(f) \ {0} /\ f.nodes[at].kind = "FILE"

LEMMA LinksKeepFiles ==
  ASSUME NEW clean \in BOOLEAN,
         NEW f, NEW g, SameButLinks(f, g), Filed(f, clean)
  PROVE  Filed(g, clean) /\ (NothingSpare(f) => NothingSpare(g))
<1>1. MarkedIsOwned(g)
  BY DEF SameButLinks, Filed, MarkedIsOwned
<1>2. OwnersAreFiles(g)
  BY DEF SameButLinks, Filed, OwnersAreFiles
<1>3. clean => TailsAreZero(g)
  BY DEF SameButLinks, Filed, TailsAreZero
<1>4. NothingSpare(f) => NothingSpare(g)
  BY DEF SameButLinks, NothingSpare
<1> QED
  BY <1>1, <1>2, <1>3, <1>4 DEF Filed

\* Counting a change changes nothing else.
LEMMA ChangedSettled ==
  ASSUME NEW clean \in BOOLEAN,
         NEW f, Settled(f, clean)
  PROVE  Settled(changed(f), clean) /\ changed(f).nodes = f.nodes
<1> DEFINE g == changed(f)
<1>1. f \in FsType
  BY DEF Settled, Tree
<1>2. /\ g \in FsType /\ g.nodes = f.nodes /\ g.cwd = f.cwd
      /\ g.blocks = f.blocks /\ g.block_used = f.block_used
  BY <1>1, ChangedType
<1> HIDE DEF g
<1>3. Filed(g, clean) /\ NothingSpare(g)
  BY <1>2 DEF Settled, Filed, MarkedIsOwned, OwnersAreFiles, TailsAreZero,
              NothingSpare
<1>4. SameTree(f, g)
  BY <1>2 DEF SameTree
<1>5. Tree(g, {}, clean)
  BY <1>4, TreeIsFramed DEF Settled
<1> QED
  BY <1>2, <1>3, <1>5 DEF Settled, g

\* The checks before an entry is put somewhere: the place is a directory, and
\* none of its entries has the name.
LEMMA PlaceIsFree ==
  ASSUME NEW clean \in BOOLEAN,
         NEW f, Tree(f, {}, clean), NEW path \in PathType, PlaceRefused(f, path) = "OK"
  PROVE  LET parent == ParentOf(f, path)
         IN  /\ parent \in InUse(f) /\ parent \in Nodes /\ IsDir(f, parent)
             /\ LastName(path) \in Names /\ LastName(path) # ""
             /\ \A n \in Members(f, {}) : f.nodes[n].parent = parent
                                            => f.nodes[n].name # LastName(path)
<1> DEFINE parent == ParentOf(f, path)
<1>1. /\ parent # VFS_NONE /\ ~(f.nodes[parent].kind # "DIR")
      /\ vfs_usable_name(LastName(path))
      /\ ~(vfs_child_named(f, parent, LastName(path)) # VFS_NONE)
  BY DEF PlaceRefused
<1>2. parent \in InUse(f)
  BY <1>1, PathsLeadToEntries
<1> HIDE DEF parent
<1>3. parent \in Nodes /\ IsDir(f, parent)
  BY <1>1, <1>2 DEF InUse, IsDir
<1>4. LastName(path) \in Names /\ LastName(path) # ""
  BY <1>1, NamesAssumption DEF vfs_usable_name
<1>5. vfs_child_named(f, parent, LastName(path)) = VFS_NONE
  BY <1>1
<1>6. \A n \in Members(f, {}) : f.nodes[n].parent = parent
                                  => f.nodes[n].name # LastName(path)
  BY <1>2, <1>5, NameIsFound
<1> QED
  BY <1>2, <1>3, <1>4, <1>6 DEF parent

\* The node vfs_make fills in before it is put into a list.
LEMMA MakeFills ==
  ASSUME NEW f \in FsType, NEW path \in PathType, NEW kind \in Kinds,
         PlaceRefused(f, path) = "OK", FreeNodes(f) # {}
  PROVE  LET made == free_node(f)
         IN  /\ made \in FreeNodes(f)
             /\ \E filled \in FsType :
                  /\ filled.cwd = f.cwd /\ filled.blocks = f.blocks
                  /\ filled.block_used = f.block_used
                  /\ \A n \in Nodes : n # made => filled.nodes[n] = f.nodes[n]
                  /\ filled.nodes[made] =
                       [name |-> LastName(path), kind |-> kind, used |-> TRUE,
                        parent |-> ParentOf(f, path), first_child |-> VFS_NONE,
                        next_sibling |-> VFS_NONE, length |-> 0, blocks |-> NoBlocks]
                  /\ vfs_make(f, path, kind) =
                       Did(changed(vfs_link_into(filled, ParentOf(f, path), made)), "OK")
<1> DEFINE parent == ParentOf(f, path)
           made == free_node(f)
           node == [name |-> LastName(path), kind |-> kind, used |-> TRUE,
                    parent |-> parent, first_child |-> VFS_NONE,
                    next_sibling |-> VFS_NONE, length |-> 0, blocks |-> NoBlocks]
           filled == [f EXCEPT !.nodes[made] = node]
<1>1. vfs_make(f, path, kind) = Did(changed(vfs_link_into(filled, parent, made)), "OK")
  BY DEF vfs_make
<1>2. made \in FreeNodes(f)
  <2>1. FreeNodes(f) \in SUBSET Nat
    BY NodesAreNumbers DEF FreeNodes
  <2> QED
    BY <2>1, LeastNat DEF free_node
<1>3. parent \in Nodes /\ LastName(path) \in Names /\ made \in Nodes
  BY <1>2, PlaceType DEF FreeNodes
<1> HIDE DEF parent, made
<1>4. NoBlocks \in [Slots -> Blocks \cup {VFS_NONE}]
  BY DEF NoBlocks
<1>5. node \in NodeType
  BY <1>3, <1>4, NodesAreNumbers DEF NodeType
<1> HIDE DEF node
<1>6. /\ filled \in FsType /\ filled.cwd = f.cwd /\ filled.blocks = f.blocks
      /\ filled.block_used = f.block_used /\ filled.nodes[made] = node
      /\ \A n \in Nodes : n # made => filled.nodes[n] = f.nodes[n]
  BY <1>3, <1>5 DEF FsType
<1> HIDE DEF filled
<1> QED
  BY <1>1, <1>2, <1>6 DEF node, made, parent

LEMMA MakeOrderly ==
  ASSUME NEW clean \in BOOLEAN,
         NEW f, Orderly(f, clean), NEW path \in PathType, NEW kind \in Kinds
  PROVE  LET made == vfs_make(f, path, kind)
         IN  /\ Orderly(made.fs, clean)
             /\ made.reply = "OK" /\ kind = "FILE" => IsFile(made.fs, free_node(f))
<1>1. f \in FsType /\ Tree(f, {}, clean)
  BY DEF Orderly, Settled, WellKept
<1>2. CASE PlaceRefused(f, path) # "OK"
  BY <1>2 DEF vfs_make, Did
<1>3. CASE PlaceRefused(f, path) = "OK" /\ FreeNodes(f) = {}
  BY <1>3 DEF vfs_make, Did
<1>4. CASE PlaceRefused(f, path) = "OK" /\ FreeNodes(f) # {}
  <2> DEFINE made == free_node(f)
             parent == ParentOf(f, path)
  <2>1. made \in FreeNodes(f)
    BY <1>1, <1>4, MakeFills
  <2>2. PICK filled \in FsType :
          /\ filled.cwd = f.cwd /\ filled.blocks = f.blocks
          /\ filled.block_used = f.block_used
          /\ \A n \in Nodes : n # made => filled.nodes[n] = f.nodes[n]
          /\ filled.nodes[made] =
               [name |-> LastName(path), kind |-> kind, used |-> TRUE,
                parent |-> parent, first_child |-> VFS_NONE,
                next_sibling |-> VFS_NONE, length |-> 0, blocks |-> NoBlocks]
          /\ vfs_make(f, path, kind) =
               Did(changed(vfs_link_into(filled, parent, made)), "OK")
    BY <1>1, <1>4, MakeFills
  <2>3. /\ parent \in Nodes /\ IsDir(f, parent) /\ LastName(path) # ""
        /\ \A n \in Members(f, {}) : f.nodes[n].parent = parent
                                       => f.nodes[n].name # LastName(path)
    BY <1>1, <1>4, PlaceIsFree
  <2> DEFINE linked == vfs_link_into(filled, parent, made)
  <2>4. vfs_make(f, path, kind).fs = changed(linked)
    BY <2>2 DEF Did
  <2>5. /\ filled.nodes[made].parent = parent /\ filled.nodes[made].length = 0
        /\ filled.nodes[made].name = LastName(path)
        /\ filled.nodes[made].kind = kind
        /\ filled.nodes[made].first_child = VFS_NONE
        /\ filled.nodes[made].blocks = NoBlocks
    BY <2>2
  <2>17. filled.nodes[made].used
    BY <2>2
  <2>18. \A n \in Nodes : n # made => filled.nodes[n] = f.nodes[n]
    BY <2>2
  <2>19. /\ filled.cwd = f.cwd /\ filled.blocks = f.blocks
         /\ filled.block_used = f.block_used
    BY <2>2
  <2>20. \A i \in Slots : filled.nodes[made].blocks[i] = VFS_NONE
    BY <2>5 DEF NoBlocks
  <2> HIDE DEF made, parent, linked
  <2>6. made \in Nodes /\ made # 0 /\ ~f.nodes[made].used
    BY <2>1 DEF FreeNodes
  <2>7. Tree(filled, {made}, clean) /\ DeeperThan(filled, parent, made)
    BY <1>1, <2>1, <2>3, <2>5, <2>17, <2>18, <2>19, FilledTree
  <2>8. made \in InUse(filled) \ {0} /\ IsDir(filled, parent)
    BY <2>3, <2>6, <2>17, <2>18 DEF InUse, IsDir
  <2>9. \A n \in Members(filled, {made}) : filled.nodes[n].parent = parent
          => filled.nodes[n].name # filled.nodes[made].name
    <3>1. \A n \in Members(filled, {made}) : /\ n \in Members(f, {})
                                            /\ filled.nodes[n] = f.nodes[n]
      BY <2>18 DEF Members, InUse
    <3> QED
      BY <2>3, <2>5, <3>1
  <2>10. Tree(linked, {}, clean) /\ SameButLinks(filled, linked)
    BY <2>3, <2>7, <2>8, <2>9, LinkTree DEF linked, DeeperThan
  <2>11. Filed(filled, clean) /\ NothingSpare(filled)
    <3>1. \A i \in Slots : f.nodes[made].blocks[i] = VFS_NONE
      BY <2>6 DEF Orderly, Settled, Filed, OwnersAreFiles
    <3>2. \A n \in Nodes, i \in Slots :
            /\ filled.nodes[n].blocks[i] = f.nodes[n].blocks[i]
            /\ filled.nodes[n].blocks[i] # VFS_NONE => filled.nodes[n] = f.nodes[n]
      BY <2>18, <2>20, <3>1
    <3>3. MarkedIsOwned(filled)
      BY <2>19, <3>2 DEF Orderly, Settled, Filed, MarkedIsOwned
    <3>4. OwnersAreFiles(filled) /\ NothingSpare(filled)
      BY <3>2 DEF Orderly, Settled, Filed, OwnersAreFiles, NothingSpare
    <3>5. clean => TailsAreZero(filled)
      BY <2>19, <3>2 DEF Orderly, Settled, Filed, TailsAreZero
    <3> QED
      BY <3>3, <3>4, <3>5 DEF Filed
  <2>12. Filed(linked, clean) /\ NothingSpare(linked)
    BY <2>10, <2>11, LinksKeepFiles
  <2>13. WellKept(vfs_make(f, path, kind).fs)
    BY MakeKeeps DEF Answers, Orderly
  <2>14. Settled(changed(linked), clean) /\ changed(linked).nodes = linked.nodes
    BY <2>10, <2>12, ChangedSettled DEF Settled
  <2>15. IsFile(filled, made) => IsFile(linked, made)
    BY <2>6, <2>10 DEF SameButLinks, InUse, IsFile
  <2>16. kind = "FILE" => IsFile(changed(linked), made)
    BY <2>5, <2>8, <2>14, <2>15 DEF InUse, IsFile
  <2> QED
    BY <2>4, <2>13, <2>14, <2>16 DEF Orderly, made
<1> QED
  BY <1>2, <1>3, <1>4

LEMMA ChdirOrderly ==
  ASSUME NEW clean \in BOOLEAN,
         NEW f, Orderly(f, clean), NEW path \in PathType
  PROVE  Orderly(vfs_chdir(f, path).fs, clean)
<1> DEFINE at == vfs_resolve(f, path)
           g == [f EXCEPT !.cwd = at]
<1>1. f \in FsType /\ at \in InUse(f) \cup {VFS_NONE}
  BY PathsLeadToEntries DEF Orderly, Settled, WellKept
<1>2. CASE at = VFS_NONE \/ f.nodes[at].kind # "DIR"
  BY <1>2 DEF vfs_chdir, Did
<1>3. CASE at \in InUse(f) /\ f.nodes[at].kind = "DIR" /\ at # VFS_NONE
  <2>1. vfs_chdir(f, path).fs = g
    BY <1>3 DEF vfs_chdir, Did
  <2>2. WellKept(g)
    BY <2>1, ChdirKeeps DEF Orderly, Answers
  <2> HIDE DEF at
  <2>3. /\ g.nodes = f.nodes /\ g.blocks = f.blocks /\ g.block_used = f.block_used
        /\ g.cwd = at /\ IsDir(f, at)
    BY <1>1, <1>3 DEF FsType, IsDir, InUse
  <2> HIDE DEF g
  <2>4. Filed(g, clean) /\ NothingSpare(g)
    BY <2>3 DEF Orderly, Settled, Filed, MarkedIsOwned, OwnersAreFiles, TailsAreZero,
                NothingSpare
  <2>5. Tree(g, {}, clean)
    <3>1. Tree(f, {}, clean)
      BY DEF Orderly, Settled
    <3>2. InUse(g) = InUse(f) /\ Members(g, {}) = Members(f, {})
      BY <2>3 DEF InUse, Members
    <3>3. RootStands(g) /\ KindsAgree(g)
      BY <2>3, <3>1, <3>2 DEF Tree, RootStands, KindsAgree, IsDir
    <3>4. \A depth : Deep(f, depth) => Deep(g, depth)
      BY <2>3, <3>2 DEF Deep, IsDir
    <3>5. \A pos : Lists(f, Members(f, {}), pos) => Lists(g, Members(g, {}), pos)
      BY <2>3, <3>2 DEF Lists
    <3>6. clean => NamesApart(g, Members(g, {}))
      BY <2>3, <3>1, <3>2 DEF Tree, NamesApart
    <3> QED
      BY <2>2, <3>1, <3>3, <3>4, <3>5, <3>6 DEF Tree, WellKept
  <2> QED
    BY <2>1, <2>2, <2>4, <2>5 DEF Orderly, Settled
<1> QED
  BY <1>1, <1>2, <1>3

\* A file that is found or made is one, and can be written to.
LEMMA FileForWritingOrderly ==
  ASSUME NEW clean \in BOOLEAN,
         NEW f, Orderly(f, clean), NEW path \in PathType
  PROVE  LET found == file_for_writing(f, path)
         IN  /\ Orderly(found.fs, clean)
             /\ found.reply = "OK" => IsFile(found.fs, FileWritten(f, path))
<1> DEFINE at == vfs_resolve(f, path)
<1>1. at \in InUse(f) \cup {VFS_NONE}
  BY PathsLeadToEntries DEF Orderly, Settled
<1>2. CASE at = VFS_NONE
  <2>1. /\ file_for_writing(f, path) = vfs_make(f, path, "FILE")
        /\ FileWritten(f, path) = free_node(f)
    BY <1>2 DEF file_for_writing, FileWritten
  <2>2. "FILE" \in Kinds
    BY DEF Kinds
  <2> QED
    BY <2>1, <2>2, MakeOrderly
<1>3. CASE at \in InUse(f) /\ at # VFS_NONE
  <2>1. f.nodes[0].kind = "DIR"
    BY DEF Orderly, Settled, Tree, RootStands, IsDir
  <2>2. f.nodes[at].kind = "FILE" => IsFile(f, at)
    BY <1>3, <2>1 DEF IsFile
  <2> HIDE DEF at
  <2> QED
    BY <1>3, <2>2 DEF file_for_writing, FileWritten, Did, at
<1> QED
  BY <1>1, <1>2, <1>3

\* The pool's operations keep a file a file and the tree a tree.
LEMMA TouchesFile ==
  ASSUME NEW clean \in BOOLEAN,
         NEW f, NEW at, IsFile(f, at), Tree(f, {}, clean), NEW g, Touches(f, g, at)
  PROVE  Tree(g, {}, clean) /\ IsFile(g, at) /\ g.nodes[at].used /\ g.nodes[at].kind = "FILE"
<1>1. /\ at \in Nodes /\ at # 0 /\ f.nodes[at].used /\ f.nodes[at].kind = "FILE"
  BY DEF IsFile, InUse
<1>2. Tree(g, {}, clean)
  BY <1>1, TouchesTree
<1>3. g.nodes[at].used /\ g.nodes[at].kind = "FILE"
  BY <1>1 DEF Touches, SameEntry
<1> QED
  BY <1>1, <1>2, <1>3 DEF IsFile, InUse

\* A request that is refused leaves everything as it was, some free blocks
\* cleared.
LEMMA RefusalOrderly ==
  ASSUME NEW clean \in BOOLEAN,
         NEW f, Orderly(f, clean), NEW at, IsFile(f, at), NEW wanted \in Nat,
         ~reserve_succeeds(f, at, wanted)
  PROVE  Orderly(vfsblock_reserve(f, at, wanted), clean)
<1> DEFINE reserved == vfsblock_reserve(f, at, wanted)
<1>1. /\ WellKept(f) /\ Filed(f, clean) /\ NothingSpare(f) /\ Tree(f, {}, clean) /\ at \in Nodes
  BY DEF Orderly, Settled, IsFile, InUse
<1>2. WellKept(reserved)
  BY <1>1, ReserveKeeps
<1>3. Filed(reserved, clean) /\ reserved.nodes = f.nodes
  BY <1>1, RefusalFiles
<1>4. Touches(f, reserved, at)
  BY <1>1, ReserveTouches
<1> HIDE DEF reserved
<1>5. Tree(reserved, {}, clean) /\ NothingSpare(reserved)
  BY <1>1, <1>3, <1>4, TouchesFile DEF NothingSpare
<1>6. Orderly(reserved, clean)
  BY <1>2, <1>3, <1>5 DEF Orderly, Settled
<1> QED
  BY <1>6 DEF reserved

\* Bytes put at the end of a file for which the blocks were granted.
LEMMA StoreOrderly ==
  ASSUME NEW clean \in BOOLEAN,
         NEW f, Orderly(f, clean), NEW at, IsFile(f, at), NEW data \in Seq(Bytes \cup {0}),
         NEW length \in Nat, length = f.nodes[at].length + Len(data),
         length <= VFS_FILE_MAX,
         reserve_succeeds(f, at, vfs_blocks_for(length))
  PROVE  Orderly(put_bytes(vfsblock_reserve(f, at, vfs_blocks_for(length)), at, data), clean)
<1> DEFINE wanted == vfs_blocks_for(length)
           reserved == vfsblock_reserve(f, at, wanted)
           put == put_bytes(reserved, at, data)
<1>1. /\ WellKept(f) /\ Filed(f, clean) /\ NothingSpare(f) /\ Tree(f, {}, clean)
      /\ at \in Nodes /\ f.nodes[at].used /\ f.nodes[at].kind = "FILE"
  BY DEF Orderly, Settled, IsFile, InUse
<1>2. f \in FsType /\ f.nodes[at].length \in Nat /\ f.nodes[at].length <= length
  BY <1>1, FsParts DEF WellKept
<1>3. wanted \in Nat
  BY BlocksForType
<1>4. /\ WellKept(reserved)
      /\ reserved.nodes[at].length = f.nodes[at].length
      /\ \A i \in Slots : i < wanted => reserved.nodes[at].blocks[i] # VFS_NONE
  BY <1>1, <1>3, ReserveSucceeds
<1>5. /\ Filed(reserved, clean)
      /\ \A i \in Slots : reserved.nodes[at].blocks[i] # VFS_NONE =>
                            i < wanted \/ f.nodes[at].blocks[i] # VFS_NONE
  BY <1>1, <1>3, GrantFiles
<1>6. Touches(f, reserved, at)
  BY <1>1, <1>3, ReserveTouches
<1>7. Tree(reserved, {}, clean) /\ IsFile(reserved, at)
  BY <1>1, <1>6, TouchesFile
<1>8. length = reserved.nodes[at].length + Len(data)
  BY <1>4
<1>9. \A i \in Slots : i < wanted \/ f.nodes[at].blocks[i] # VFS_NONE
                         => i * VFS_BLOCK < length
  <2> SUFFICES ASSUME NEW i \in Slots
               PROVE  /\ i < wanted => i * VFS_BLOCK < length
                      /\ f.nodes[at].blocks[i] # VFS_NONE => i * VFS_BLOCK < length
    OBVIOUS
  <2>1. i \in Nat /\ i * VFS_BLOCK \in Nat
    BY SizesAssumption DEF Slots
  <2>2. i < wanted => i * VFS_BLOCK < length
    BY <2>1, BlocksForIsTight
  <2>3. f.nodes[at].blocks[i] # VFS_NONE => i * VFS_BLOCK < f.nodes[at].length
    BY <1>1 DEF NothingSpare
  <2> HIDE DEF wanted
  <2> QED
    BY <1>2, <2>1, <2>2, <2>3
<1> HIDE DEF reserved
<1>10. WellKept(put) /\ Filed(put, clean)
  BY <1>1, <1>4, <1>5, <1>8, PutKeeps, PutFiles
<1>11. put \in FsType
  BY <1>10 DEF WellKept
<1>12. /\ Touches(reserved, put, at)
       /\ put.nodes[at].length = length
       /\ put.nodes[at].blocks = reserved.nodes[at].blocks
  BY <1>1, <1>4, <1>8, <1>11, PutTouches
<1> HIDE DEF put
<1>13. Tree(put, {}, clean)
  BY <1>7, <1>12, TouchesFile
<1>14. NothingSpare(put)
  <2> SUFFICES ASSUME NEW n \in Nodes, NEW i \in Slots,
                      put.nodes[n].blocks[i] # VFS_NONE
               PROVE  i * VFS_BLOCK < put.nodes[n].length
    BY DEF NothingSpare
  <2>1. CASE n = at
    BY <1>5, <1>9, <1>12, <2>1
  <2>2. CASE n # at
    <3>1. put.nodes[n] = f.nodes[n]
      BY <1>6, <1>12, <2>2 DEF Touches
    <3> QED
      BY <1>1, <3>1 DEF NothingSpare
  <2> QED
    BY <2>1, <2>2
<1>15. Orderly(put, clean)
  BY <1>10, <1>13, <1>14 DEF Orderly, Settled
<1> QED
  BY <1>15 DEF put, reserved

LEMMA AppendToOrderly ==
  ASSUME NEW clean \in BOOLEAN,
         NEW f, Orderly(f, clean), NEW at, IsFile(f, at), NEW data \in Seq(Bytes)
  PROVE  Orderly(AppendTo(f, at, data).fs, clean)
<1> DEFINE length == f.nodes[at].length + Len(data)
           wanted == vfs_blocks_for(length)
           reserved == vfsblock_reserve(f, at, wanted)
           put == put_bytes(reserved, at, data)
<1>1. length \in Nat /\ data \in Seq(Bytes \cup {0})
  BY FsParts DEF Orderly, WellKept, IsFile, InUse
<1>2. wanted \in Nat
  BY <1>1, BlocksForType
<1>3. CASE length > VFS_FILE_MAX
  BY <1>3 DEF AppendTo, Did
<1>4. CASE ~(length > VFS_FILE_MAX) /\ ~reserve_succeeds(f, at, wanted)
  <2>1. AppendTo(f, at, data).fs = reserved
    BY <1>4 DEF AppendTo, Did
  <2> QED
    BY <1>2, <1>4, <2>1, RefusalOrderly
<1>5. CASE ~(length > VFS_FILE_MAX) /\ reserve_succeeds(f, at, wanted)
  <2>1. AppendTo(f, at, data).fs = changed(put)
    BY <1>5 DEF AppendTo, Did
  <2>2. length <= VFS_FILE_MAX
    <3>1. VFS_FILE_MAX \in Nat
      BY SizesAssumption DEF VFS_FILE_MAX
    <3> QED
      BY <1>1, <1>5, <3>1
  <2>3. Orderly(put, clean)
    BY <1>1, <1>5, <2>2, StoreOrderly
  <2> HIDE DEF put
  <2> QED
    BY <2>1, <2>3, ChangedKeeps, ChangedSettled DEF Orderly
<1> QED
  BY <1>3, <1>4, <1>5

LEMMA AppendOrderly ==
  ASSUME NEW clean \in BOOLEAN,
         NEW f, Orderly(f, clean), NEW path \in PathType, NEW data \in Seq(Bytes)
  PROVE  Orderly(vfs_append(f, path, data).fs, clean)
BY FileForWritingOrderly, AppendToOrderly DEF vfs_append

LEMMA WriteOrderly ==
  ASSUME NEW clean \in BOOLEAN,
         NEW f, Orderly(f, clean), NEW path \in PathType, NEW data \in Seq(Bytes)
  PROVE  Orderly(vfs_write(f, path, data).fs, clean)
<1> DEFINE found == file_for_writing(f, path)
           at == FileWritten(f, path)
<1>1. Orderly(found.fs, clean) /\ (found.reply = "OK" => IsFile(found.fs, at))
  BY FileForWritingOrderly
<1>2. CASE found.reply # "OK"
  BY <1>1, <1>2 DEF vfs_write
<1>3. CASE found.reply = "OK"
  <2> DEFINE released == vfsblock_release(found.fs, at)
  <2>1. vfs_write(f, path, data) = AppendTo(released, at, data)
    BY <1>3 DEF vfs_write
  <2>2. /\ WellKept(found.fs) /\ Filed(found.fs, clean) /\ NothingSpare(found.fs)
        /\ Tree(found.fs, {}, clean) /\ found.fs \in FsType
        /\ IsFile(found.fs, at) /\ at \in Nodes
    BY <1>1, <1>3 DEF Orderly, Settled, IsFile, InUse, WellKept
  <2> HIDE DEF found, at
  <2>3. WellKept(released) /\ Filed(released, clean) /\ NothingSpare(released)
    BY <2>2, ReleaseKeeps, ReleaseFiles
  <2>4. Touches(found.fs, released, at)
    BY <2>2, ReleaseTouches
  <2> HIDE DEF released
  <2>5. Tree(released, {}, clean) /\ IsFile(released, at)
    BY <2>2, <2>4, TouchesFile
  <2>6. Orderly(released, clean)
    BY <2>3, <2>5 DEF Orderly, Settled
  <2> QED
    BY <2>1, <2>5, <2>6, AppendToOrderly
<1> QED
  BY <1>2, <1>3

\* An entry without entries of its own, in which the kernel is not, can go.
LEMMA RemoveNodeOrderly ==
  ASSUME NEW clean \in BOOLEAN,
         NEW f, Orderly(f, clean), NEW at \in InUse(f) \ {0},
         f.nodes[at].kind = "DIR" => f.nodes[at].first_child = VFS_NONE,
         ~is_within(f, f.cwd, at)
  PROVE  Orderly(RemoveNode(f, at), clean)
<1> DEFINE unlinked == vfs_unlink_from_parent(f, at)
           released == vfsblock_release(unlinked, at)
           freed == [released EXCEPT !.nodes[at].used = FALSE]
<1>1. /\ WellKept(f) /\ Filed(f, clean) /\ NothingSpare(f) /\ Tree(f, {}, clean) /\ f \in FsType
      /\ at \in Nodes /\ at # 0 /\ f.nodes[at].used /\ at \in Members(f, {})
      /\ f.nodes[at].kind \in Kinds
  BY DEF Orderly, Settled, InUse, Members, WellKept, FsType, NodeType
<1>2. f.nodes[at].first_child = VFS_NONE
  BY <1>1 DEF Tree, KindsAgree, Kinds
<1>3. \A n \in Members(f, {}) : f.nodes[n].parent # at
  BY <1>1, <1>2, NoChildren
<1>4. f.cwd # at
  BY <1>1, WithinItself
<1>5. /\ SameButLinks(f, unlinked)
      /\ \A n \in Nodes : unlinked.nodes[n].parent = f.nodes[n].parent
  BY <1>1, UnlinkEffect
<1>6. Tree(unlinked, {at}, clean) /\ WellKept(unlinked)
  BY <1>1, UnlinkTree, UnlinkKeeps
<1>7. Filed(unlinked, clean) /\ NothingSpare(unlinked)
  BY <1>1, <1>5, LinksKeepFiles
<1>8. /\ InUse(unlinked) = InUse(f) /\ Members(unlinked, {at}) = Members(f, {at})
      /\ unlinked.cwd = f.cwd /\ unlinked \in FsType
      /\ unlinked.nodes[at].kind = f.nodes[at].kind
      /\ unlinked.nodes[at].length = f.nodes[at].length
      /\ unlinked.nodes[at].used
  BY <1>1, <1>5, LinksAreFramed DEF SameButLinks
<1>9. RemoveNode(f, at) = changed(freed)
  BY DEF RemoveNode
<1> HIDE DEF unlinked
<1>10. WellKept(released) /\ Filed(released, clean) /\ NothingSpare(released)
  BY <1>1, <1>6, <1>7, ReleaseKeeps, ReleaseFiles
<1>11. /\ Touches(unlinked, released, at)
       /\ released.nodes[at].length = 0 /\ released.nodes[at].blocks = NoBlocks
  BY <1>1, <1>8, ReleaseTouches
<1> HIDE DEF released
<1>12. Tree(released, {at}, clean)
  <2>1. f.nodes[at].kind = "DIR" => f.nodes[at].length = 0
    BY <1>1 DEF Tree, KindsAgree
  <2>2. \/ unlinked.nodes[at].kind = "FILE"
        \/ released.nodes[at].length = unlinked.nodes[at].length
    BY <1>1, <1>8, <1>11, <2>1 DEF Kinds
  <2> QED
    BY <1>1, <1>6, <1>11, <2>2, TouchesTree
<1>13. /\ released.cwd # at /\ at \in InUse(released) \ {0}
       /\ \A n \in Members(released, {at}) : released.nodes[n].parent # at
  <2>1. \A n \in Nodes : SameEntry(released.nodes[n], unlinked.nodes[n])
    BY <1>11 DEF Touches, SameEntry
  <2>2. /\ InUse(released) = InUse(f)
        /\ \A n \in Nodes : released.nodes[n].parent = f.nodes[n].parent
    BY <1>5, <1>8, <2>1 DEF SameEntry, InUse
  <2>3. \A n \in Members(released, {at}) : n \in Nodes /\ n \in Members(f, {})
    BY <2>2 DEF Members, InUse
  <2> QED
    BY <1>3, <1>4, <1>8, <1>11, <2>2, <2>3 DEF Touches
<1> DEFINE node == [released.nodes[at] EXCEPT !.used = FALSE]
           new == [released.nodes EXCEPT ![at] = node]
<1>14. /\ released \in FsType /\ released.nodes \in [Nodes -> NodeType]
       /\ released.nodes[at] \in NodeType
  BY <1>1, <1>10, FsParts DEF WellKept
<1>15. /\ node \in NodeType /\ node.used = FALSE
       /\ node.blocks = NoBlocks /\ node.length = released.nodes[at].length
  BY <1>11, <1>14 DEF NodeType
<1>16. freed = [released EXCEPT !.nodes = new]
  BY <1>14 DEF FsType
<1> HIDE DEF node
<1>17. /\ new \in [Nodes -> NodeType] /\ new[at] = node
       /\ \A n \in Nodes : n # at => new[n] = released.nodes[n]
       /\ \A n \in Nodes : /\ new[n].blocks = released.nodes[n].blocks
                           /\ new[n].length = released.nodes[n].length
                           /\ new[n].used => released.nodes[n].used
  BY <1>1, <1>11, <1>14, <1>15
<1> HIDE DEF new, freed
<1>18. WellKept(freed)
  BY <1>10, <1>16, <1>17, NodesChange
<1>19. /\ freed \in FsType /\ freed.nodes = new /\ freed.cwd = released.cwd
       /\ freed.blocks = released.blocks /\ freed.block_used = released.block_used
  BY <1>14, <1>16, <1>17, NewNodes
<1>20. Filed(freed, clean) /\ NothingSpare(freed)
  <2>1. \A n \in Nodes, i \in Slots :
          /\ new[n].blocks[i] = released.nodes[n].blocks[i]
          /\ new[n].blocks[i] # VFS_NONE => new[n] = released.nodes[n]
    BY <1>15, <1>17 DEF NoBlocks
  <2>2. MarkedIsOwned(freed)
    BY <1>10, <1>19, <2>1 DEF Filed, MarkedIsOwned
  <2>3. OwnersAreFiles(freed) /\ NothingSpare(freed)
    BY <1>10, <1>19, <2>1 DEF Filed, OwnersAreFiles, NothingSpare
  <2>4. clean => TailsAreZero(freed)
    BY <1>10, <1>19, <2>1 DEF Filed, TailsAreZero
  <2> QED
    BY <2>2, <2>3, <2>4 DEF Filed
<1>21. Tree(freed, {}, clean)
  <2>1. ~freed.nodes[at].used
    BY <1>15, <1>17, <1>19
  <2>2. \A n \in Nodes : n # at => freed.nodes[n] = released.nodes[n]
    BY <1>17, <1>19
  <2> QED
    BY <1>12, <1>13, <1>19, <2>1, <2>2, FreedTree
<1>22. WellKept(changed(freed)) /\ Settled(changed(freed), clean)
  BY <1>18, <1>20, <1>21, ChangedKeeps, ChangedSettled DEF Settled
<1> QED
  BY <1>9, <1>22 DEF Orderly

LEMMA RemoveOrderly ==
  ASSUME NEW clean \in BOOLEAN,
         NEW f, Orderly(f, clean), NEW path \in PathType
  PROVE  Orderly(vfs_remove(f, path).fs, clean)
<1> DEFINE at == vfs_resolve(f, path)
<1>1. at \in InUse(f) \cup {VFS_NONE}
  BY PathsLeadToEntries DEF Orderly, Settled
<1>2. \/ vfs_remove(f, path).fs = f
      \/ /\ at \in InUse(f) \ {0} /\ ~is_within(f, f.cwd, at)
         /\ f.nodes[at].kind = "DIR" => f.nodes[at].first_child = VFS_NONE
         /\ vfs_remove(f, path).fs = RemoveNode(f, at)
  BY <1>1 DEF vfs_remove, Did
<1> HIDE DEF at
<1> QED
  BY <1>2, RemoveNodeOrderly

\* An entry is moved to a directory that is not inside it.
LEMMA MoveNodeOrderly ==
  ASSUME NEW clean \in BOOLEAN,
         NEW f, Orderly(f, clean), NEW at \in InUse(f) \ {0}, NEW to \in PathType,
         PlaceRefused(f, to) = "OK", ~is_within(f, ParentOf(f, to), at)
  PROVE  LET renamed == [vfs_unlink_from_parent(f, at)
                           EXCEPT !.nodes[at].name = LastName(to)]
         IN  Settled(changed(vfs_link_into(renamed, ParentOf(f, to), at)), clean)
<1> DEFINE parent == ParentOf(f, to)
           name == LastName(to)
           unlinked == vfs_unlink_from_parent(f, at)
           renamed == [unlinked EXCEPT !.nodes[at].name = name]
           linked == vfs_link_into(renamed, parent, at)
<1>1. /\ Filed(f, clean) /\ NothingSpare(f) /\ Tree(f, {}, clean) /\ f \in FsType
      /\ at \in Nodes /\ at # 0 /\ at \in Members(f, {})
  BY DEF Orderly, Settled, InUse, Members, WellKept
<1>2. /\ parent \in InUse(f) /\ parent \in Nodes /\ IsDir(f, parent)
      /\ name \in Names /\ name # ""
      /\ \A n \in Members(f, {}) : f.nodes[n].parent = parent
                                     => f.nodes[n].name # name
  BY <1>1, PlaceIsFree
<1>3. PICK depth : Deep(f, depth) /\ depth[parent] < depth[at]
  BY <1>1, <1>2, DepthForMove
<1>4. /\ SameButLinks(f, unlinked) /\ Tree(unlinked, {at}, clean)
      /\ \A n \in Nodes : unlinked.nodes[n].parent = f.nodes[n].parent
  BY <1>1, UnlinkEffect, UnlinkTree
<1>5. Filed(unlinked, clean) /\ NothingSpare(unlinked)
  BY <1>1, <1>4, LinksKeepFiles
<1>6. /\ InUse(unlinked) = InUse(f) /\ Members(unlinked, {at}) = Members(f, {at})
      /\ unlinked \in FsType
      /\ \A n \in Nodes : IsDir(unlinked, n) <=> IsDir(f, n)
  BY <1>4, LinksAreFramed DEF SameButLinks
<1>7. renamed = [unlinked EXCEPT !.nodes[at].name = name]
  OBVIOUS
<1> HIDE DEF unlinked, name, parent
<1> DEFINE node == [unlinked.nodes[at] EXCEPT !.name = name]
           new == [unlinked.nodes EXCEPT ![at] = node]
<1>8. unlinked.nodes \in [Nodes -> NodeType] /\ unlinked.nodes[at] \in NodeType
  BY <1>1, <1>6, FsParts
<1>9. node \in NodeType
  BY <1>2, <1>8 DEF NodeType
<1>10. renamed = [unlinked EXCEPT !.nodes = new]
  BY <1>6, <1>7, <1>8 DEF FsType
<1>11. /\ new \in [Nodes -> NodeType] /\ new[at] = node
       /\ \A n \in Nodes : n # at => new[n] = unlinked.nodes[n]
  <2> HIDE DEF node
  <2> QED
    BY <1>1, <1>8, <1>9
<1> HIDE DEF new, node, renamed, linked
<1>12. /\ renamed \in FsType /\ renamed.nodes = new /\ renamed.cwd = unlinked.cwd
       /\ renamed.blocks = unlinked.blocks
       /\ renamed.block_used = unlinked.block_used
  <2>1. unlinked \in FsType /\ new \in [Nodes -> NodeType]
    BY <1>6, <1>11
  <2> QED
    BY <1>10, <2>1, NewNodes
<1>13. /\ Tree(renamed, {at}, clean) /\ renamed.nodes[at].name = name
       /\ SameLinks(unlinked, renamed)
  <2>1. at \in InUse(unlinked) \ {0}
    BY <1>6
  <2>2. renamed.nodes[at] = [unlinked.nodes[at] EXCEPT !.name = name]
    BY <1>11, <1>12 DEF node
  <2>3. \A n \in Nodes : n # at => renamed.nodes[n] = unlinked.nodes[n]
    BY <1>11, <1>12
  <2>4. /\ Tree(unlinked, {at}, clean) /\ name # ""
        /\ renamed \in FsType /\ renamed.cwd = unlinked.cwd
    BY <1>2, <1>4, <1>12
  <2>5. Renamed(unlinked, renamed, at, name)
    BY <2>2, <2>3, <2>4 DEF Renamed
  <2> QED
    BY <2>1, <2>4, <2>5, RenamedTree
<1>14. Filed(renamed, clean) /\ NothingSpare(renamed)
  <2>1. MarkedIsOwned(renamed)
    BY <1>5, <1>12, <1>13 DEF Filed, MarkedIsOwned, SameLinks
  <2>2. OwnersAreFiles(renamed)
    BY <1>5, <1>13 DEF Filed, OwnersAreFiles, SameLinks
  <2>3. clean => TailsAreZero(renamed)
    BY <1>5, <1>12, <1>13 DEF Filed, TailsAreZero, SameLinks
  <2>4. NothingSpare(renamed)
    BY <1>5, <1>13 DEF NothingSpare, SameLinks
  <2> QED
    BY <2>1, <2>2, <2>3, <2>4 DEF Filed
<1>15. /\ InUse(renamed) = InUse(f) /\ Members(renamed, {at}) = Members(f, {at})
       /\ \A n \in Nodes : /\ IsDir(renamed, n) <=> IsDir(f, n)
                           /\ renamed.nodes[n].parent = f.nodes[n].parent
  BY <1>4, <1>6, <1>13 DEF SameLinks, InUse, Members, IsDir
<1>16. Deep(renamed, depth)
  <2>1. \A n \in InUse(f) : n \in Nodes /\ f.nodes[n].parent \in Nodes
    BY <1>1, NodeParts DEF InUse
  <2> QED
    BY <1>3, <1>15, <2>1 DEF Deep
<1>17. \A n \in Members(renamed, {at}) : renamed.nodes[n].parent = parent
                                           => renamed.nodes[n].name # renamed.nodes[at].name
  <2>1. \A n \in Members(f, {at}) : /\ n \in Members(f, {})
                                   /\ renamed.nodes[n].name = f.nodes[n].name
    BY <1>4, <1>11, <1>12 DEF Members, InUse, SameButLinks
  <2>2. \A n \in Members(f, {}) : renamed.nodes[n].parent = f.nodes[n].parent
    BY <1>15 DEF Members, InUse
  <2>3. \A n \in Members(f, {at}) : renamed.nodes[n].parent = parent
                                       => renamed.nodes[n].name # name
    BY <1>2, <2>1, <2>2
  <2> QED
    BY <1>13, <1>15, <2>3
<1>18. Tree(linked, {}, clean) /\ SameButLinks(renamed, linked)
  BY <1>2, <1>3, <1>13, <1>15, <1>16, <1>17, LinkTree DEF linked
<1>19. Settled(linked, clean)
  BY <1>14, <1>18, LinksKeepFiles DEF Settled
<1> QED
  BY <1>19, ChangedSettled DEF linked, renamed, unlinked, name, parent

LEMMA MoveOrderly ==
  ASSUME NEW clean \in BOOLEAN,
         NEW f, Orderly(f, clean), NEW from \in PathType, NEW to \in PathType
  PROVE  Orderly(vfs_move(f, from, to).fs, clean)
<1> DEFINE at == vfs_resolve(f, from)
           parent == ParentOf(f, to)
           renamed == [vfs_unlink_from_parent(f, at)
                         EXCEPT !.nodes[at].name = LastName(to)]
<1>1. at \in InUse(f) \cup {VFS_NONE}
  BY PathsLeadToEntries DEF Orderly, Settled
<1>2. \/ vfs_move(f, from, to).fs = f
      \/ /\ at \in InUse(f) \ {0} /\ PlaceRefused(f, to) = "OK"
         /\ ~is_within(f, parent, at)
         /\ vfs_move(f, from, to).fs = changed(vfs_link_into(renamed, parent, at))
  BY <1>1 DEF vfs_move, Did
<1>3. WellKept(vfs_move(f, from, to).fs)
  BY MoveKeeps DEF Orderly, Answers
<1> HIDE DEF at, renamed
<1> QED
  BY <1>2, <1>3, MoveNodeOrderly DEF Orderly, renamed

LEMMA CopyOrderly ==
  ASSUME NEW clean \in BOOLEAN,
         NEW f, Orderly(f, clean), NEW from \in PathType, NEW to \in PathType
  PROVE  Orderly(vfs_copy(f, from, to).fs, clean)
<1> DEFINE at == vfs_resolve(f, from)
           created == vfs_make(f, to, "FILE")
           made == free_node(f)
           length == f.nodes[at].length
           wanted == vfs_blocks_for(length)
           reserved == vfsblock_reserve(created.fs, made, wanted)
           put == put_bytes(reserved, made, contents(f, at))
<1>1. at \in InUse(f) \cup {VFS_NONE}
  BY PathsLeadToEntries DEF Orderly, Settled
<1>2. /\ Orderly(created.fs, clean)
      /\ created.reply = "OK" => /\ IsFile(created.fs, made)
                                 /\ created.fs.nodes[made].length = 0
  <2>1. "FILE" \in Kinds
    BY DEF Kinds
  <2>2. WellKept(f)
    BY DEF Orderly
  <2> QED
    BY <2>1, <2>2, MakeOrderly, MakeKeeps
<1>3. \/ vfs_copy(f, from, to).fs = f
      \/ vfs_copy(f, from, to).fs = created.fs
      \/ /\ at \in InUse(f) /\ created.reply = "OK"
         /\ ~reserve_succeeds(created.fs, made, wanted)
         /\ vfs_copy(f, from, to).fs = vfs_remove(reserved, to).fs
      \/ /\ at \in InUse(f) /\ created.reply = "OK"
         /\ reserve_succeeds(created.fs, made, wanted)
         /\ vfs_copy(f, from, to).fs = put
  BY <1>1 DEF vfs_copy, Did
<1> HIDE DEF created, made, at
<1>4. ASSUME at \in InUse(f), created.reply = "OK"
      PROVE  /\ at \in Nodes /\ length \in Nat /\ wanted \in Nat
             /\ length <= VFS_FILE_MAX
             /\ contents(f, at) \in Seq(Bytes \cup {0}) /\ Len(contents(f, at)) = length
  <2>1. at \in Nodes /\ f.nodes[at].used /\ WellKept(f) /\ f \in FsType
    BY <1>4 DEF InUse, Orderly, WellKept
  <2>2. length \in Nat /\ length <= VFS_FILE_MAX
    BY <2>1, FsParts DEF WellKept, BytesHaveBlocks
  <2>3. wanted \in Nat
    BY <2>2, BlocksForType
  <2> QED
    BY <2>1, <2>2, <2>3, ContentsType
<1>5. ASSUME at \in InUse(f), created.reply = "OK",
             ~reserve_succeeds(created.fs, made, wanted)
      PROVE  Orderly(vfs_remove(reserved, to).fs, clean)
  <2>1. Orderly(reserved, clean)
    BY <1>2, <1>4, <1>5, RefusalOrderly
  <2> HIDE DEF reserved
  <2> QED
    BY <2>1, RemoveOrderly
<1>6. ASSUME at \in InUse(f), created.reply = "OK",
             reserve_succeeds(created.fs, made, wanted)
      PROVE  Orderly(put, clean)
  <2>1. length = created.fs.nodes[made].length + Len(contents(f, at))
    BY <1>2, <1>4, <1>6
  <2> HIDE DEF length
  <2> QED
    BY <1>2, <1>4, <1>6, <2>1, StoreOrderly
<1> QED
  BY <1>2, <1>3, <1>5, <1>6

----------------------------------------------------------------------------
(* What is counted *)

\* A record of struct vfs's fields, whatever is in them.
Shaped(f) ==
  f = [nodes |-> f.nodes, blocks |-> f.blocks, block_used |-> f.block_used,
       cwd |-> f.cwd, changes |-> f.changes]

\* The counter is where it was, ...
Uncounted(f, g) == Shaped(g) /\ g.changes = f.changes

\* ... or has moved on by one.
Counted(f, g) == Shaped(g) /\ g.changes = (f.changes + 1) % CHANGES_MOD

LEMMA FsIsShaped ==
  ASSUME NEW f \in FsType
  PROVE  Shaped(f)
BY DEF FsType, Shaped

LEMMA NodesAreUncounted ==
  ASSUME NEW f, Shaped(f), NEW new
  PROVE  Uncounted(f, [f EXCEPT !.nodes = new])
BY DEF Shaped, Uncounted

LEMMA MarksAreUncounted ==
  ASSUME NEW f, Shaped(f), NEW new, NEW marks
  PROVE  Uncounted(f, [f EXCEPT !.block_used = marks, !.nodes = new])
<1> DEFINE g == [f EXCEPT !.block_used = marks]
<1>1. Uncounted(f, g)
  BY DEF Shaped, Uncounted
<1>2. [f EXCEPT !.block_used = marks, !.nodes = new] = [g EXCEPT !.nodes = new]
  BY DEF Shaped
<1> HIDE DEF g
<1>3. Uncounted(g, [g EXCEPT !.nodes = new])
  BY <1>1, NodesAreUncounted DEF Uncounted
<1> QED
  BY <1>1, <1>2, <1>3 DEF Uncounted

LEMMA BytesAreUncounted ==
  ASSUME NEW f, Shaped(f), NEW new, NEW bytes
  PROVE  Uncounted(f, [f EXCEPT !.blocks = bytes, !.nodes = new])
<1> DEFINE g == [f EXCEPT !.blocks = bytes]
<1>1. Uncounted(f, g)
  BY DEF Shaped, Uncounted
<1>2. [f EXCEPT !.blocks = bytes, !.nodes = new] = [g EXCEPT !.nodes = new]
  BY DEF Shaped
<1> HIDE DEF g
<1>3. Uncounted(g, [g EXCEPT !.nodes = new])
  BY <1>1, NodesAreUncounted DEF Uncounted
<1> QED
  BY <1>1, <1>2, <1>3 DEF Uncounted

LEMMA ChangedCounts ==
  ASSUME NEW f, Shaped(f)
  PROVE  Counted(f, changed(f))
BY DEF Shaped, changed, Counted

LEMMA UnlinkCounts ==
  ASSUME NEW f, Shaped(f), NEW at
  PROVE  Uncounted(f, vfs_unlink_from_parent(f, at))
<1> DEFINE parent == f.nodes[at].parent
           next == f.nodes[at].next_sibling
           before == {n \in Listed(f, f.nodes[parent].first_child) :
                        f.nodes[n].next_sibling = at}
<1>1. CASE f.nodes[parent].first_child = at
  BY <1>1 DEF vfs_unlink_from_parent, Shaped, Uncounted
<1>2. CASE f.nodes[parent].first_child # at
  <2> DEFINE new == [n \in Nodes |->
                       IF n \in before THEN [f.nodes[n] EXCEPT !.next_sibling = next]
                       ELSE f.nodes[n]]
  <2>1. vfs_unlink_from_parent(f, at) = [f EXCEPT !.nodes = new]
    BY <1>2 DEF vfs_unlink_from_parent
  <2> HIDE DEF new
  <2> QED
    BY <2>1, NodesAreUncounted
<1> QED
  BY <1>1, <1>2

LEMMA LinkIntoCounts ==
  ASSUME NEW f, Shaped(f), NEW parent, NEW at
  PROVE  Uncounted(f, vfs_link_into(f, parent, at))
<1> DEFINE placed == [f EXCEPT !.nodes[at].parent = parent,
                               !.nodes[at].next_sibling = VFS_NONE]
           first == placed.nodes[parent].first_child
           last == {n \in Listed(placed, first) :
                      placed.nodes[n].next_sibling = VFS_NONE}
<1>1. Uncounted(f, placed)
  <2> DEFINE new == [f.nodes EXCEPT ![at].parent = parent,
                                    ![at].next_sibling = VFS_NONE]
  <2>1. placed = [f EXCEPT !.nodes = new]
    BY DEF Shaped
  <2> HIDE DEF new, placed
  <2> QED
    BY <2>1, NodesAreUncounted
<1>2. CASE first = VFS_NONE
  <2>1. vfs_link_into(f, parent, at) = [placed EXCEPT !.nodes[parent].first_child = at]
    BY <1>2 DEF vfs_link_into
  <2> HIDE DEF placed
  <2> QED
    BY <1>1, <2>1 DEF Shaped, Uncounted
<1>3. CASE first # VFS_NONE
  <2> DEFINE new == [n \in Nodes |->
                       IF n \in last THEN [placed.nodes[n] EXCEPT !.next_sibling = at]
                       ELSE placed.nodes[n]]
  <2>1. vfs_link_into(f, parent, at) = [placed EXCEPT !.nodes = new]
    BY <1>3 DEF vfs_link_into
  <2> HIDE DEF new, placed
  <2>2. Uncounted(placed, [placed EXCEPT !.nodes = new])
    BY <1>1, NodesAreUncounted DEF Uncounted
  <2> QED
    BY <1>1, <2>1, <2>2 DEF Uncounted
<1> QED
  BY <1>2, <1>3

LEMMA BlocksCount ==
  ASSUME NEW f, Shaped(f), NEW at
  PROVE  /\ Uncounted(f, vfsblock_release(f, at))
         /\ \A wanted : Uncounted(f, vfsblock_reserve(f, at, wanted))
         /\ \A data : Uncounted(f, put_bytes(f, at, data))
<1>1. Uncounted(f, vfsblock_release(f, at))
  <2> DEFINE marks == [b \in Blocks |->
               f.block_used[b] /\ \A i \in Slots : f.nodes[at].blocks[i] # b]
             new == [f.nodes EXCEPT ![at] = [@ EXCEPT !.blocks = NoBlocks,
                                                     !.length = 0]]
  <2>1. vfsblock_release(f, at) = [f EXCEPT !.block_used = marks, !.nodes = new]
    BY DEF Shaped, vfsblock_release
  <2> HIDE DEF marks, new
  <2>2. Uncounted(f, [f EXCEPT !.block_used = marks, !.nodes = new])
    BY MarksAreUncounted
  <2> QED
    BY <2>1, <2>2
<1>2. ASSUME NEW wanted PROVE Uncounted(f, vfsblock_reserve(f, at, wanted))
  BY DEF vfsblock_reserve, Shaped, Uncounted
<1>3. ASSUME NEW data PROVE Uncounted(f, put_bytes(f, at, data))
  <2> DEFINE node == f.nodes[at]
             goes(b, o) == {i \in DOMAIN data :
                              vfsblock_at(node, node.length + i - 1) = <<b, o>>}
             bytes == [b \in Blocks |-> [o \in Offsets |->
                         IF goes(b, o) = {} THEN f.blocks[b][o]
                         ELSE data[CHOOSE i \in goes(b, o) : TRUE]]]
             new == [f.nodes EXCEPT ![at] = [node EXCEPT !.length = @ + Len(data)]]
  <2>1. put_bytes(f, at, data) = [f EXCEPT !.blocks = bytes, !.nodes = new]
    BY DEF Shaped, put_bytes
  <2> HIDE DEF bytes, new
  <2>2. Uncounted(f, [f EXCEPT !.blocks = bytes, !.nodes = new])
    BY BytesAreUncounted
  <2> QED
    BY <2>1, <2>2
<1> QED
  BY <1>1, <1>2, <1>3

\* Steps that are not counted, and then one that is.
LEMMA CountedOnce ==
  ASSUME NEW f, NEW g, Uncounted(f, g)
  PROVE  Counted(f, changed(g))
BY ChangedCounts DEF Uncounted, Counted

LEMMA MakeCounts ==
  ASSUME NEW f, Shaped(f), NEW path, NEW kind, vfs_make(f, path, kind).reply = "OK"
  PROVE  Counted(f, vfs_make(f, path, kind).fs)
<1> DEFINE parent == ParentOf(f, path)
           made == free_node(f)
           filled == [f EXCEPT !.nodes[made] =
                        [name |-> LastName(path), kind |-> kind, used |-> TRUE,
                         parent |-> parent, first_child |-> VFS_NONE,
                         next_sibling |-> VFS_NONE, length |-> 0,
                         blocks |-> NoBlocks]]
           linked == vfs_link_into(filled, parent, made)
<1>1. vfs_make(f, path, kind) = Did(changed(linked), "OK")
  <2>1. CASE PlaceRefused(f, path) # "OK"
    BY <2>1 DEF vfs_make, Did
  <2>2. CASE PlaceRefused(f, path) = "OK" /\ FreeNodes(f) = {}
    BY <2>2 DEF vfs_make, Did
  <2>3. CASE PlaceRefused(f, path) = "OK" /\ FreeNodes(f) # {}
    BY <2>3 DEF vfs_make
  <2> QED
    BY <2>1, <2>2, <2>3
<1>2. Uncounted(f, filled)
  <2> DEFINE node == [name |-> LastName(path), kind |-> kind, used |-> TRUE,
                      parent |-> parent, first_child |-> VFS_NONE,
                      next_sibling |-> VFS_NONE, length |-> 0,
                      blocks |-> NoBlocks]
  <2> HIDE DEF node, made
  <2>1. filled = [f EXCEPT !.nodes = [f.nodes EXCEPT ![made] = node]]
    BY DEF Shaped, node
  <2> HIDE DEF filled
  <2> QED
    BY <2>1, NodesAreUncounted
<1> HIDE DEF filled, parent, made
<1>3. Uncounted(f, linked)
  BY <1>2, LinkIntoCounts DEF Uncounted
<1> HIDE DEF linked
<1> QED
  BY <1>1, <1>3, CountedOnce DEF Did

LEMMA AppendToCounts ==
  ASSUME NEW f, Shaped(f), NEW at, NEW data, AppendTo(f, at, data).reply = "OK"
  PROVE  Counted(f, AppendTo(f, at, data).fs)
<1> DEFINE length == f.nodes[at].length + Len(data)
           wanted == vfs_blocks_for(length)
           reserved == vfsblock_reserve(f, at, wanted)
           put == put_bytes(reserved, at, data)
<1>1. AppendTo(f, at, data) = Did(changed(put), "OK")
  <2> HIDE DEF wanted
  <2>1. CASE length > VFS_FILE_MAX
    BY <2>1 DEF AppendTo, Did
  <2>2. CASE ~(length > VFS_FILE_MAX) /\ ~reserve_succeeds(f, at, wanted)
    BY <2>2 DEF AppendTo, Did, wanted
  <2>3. CASE ~(length > VFS_FILE_MAX) /\ reserve_succeeds(f, at, wanted)
    BY <2>3 DEF AppendTo, wanted
  <2> QED
    BY <2>1, <2>2, <2>3
<1>2. Uncounted(f, reserved)
  BY BlocksCount
<1> HIDE DEF reserved
<1>3. Uncounted(f, put)
  <2>1. Shaped(reserved)
    BY <1>2 DEF Uncounted
  <2>2. Uncounted(reserved, put)
    BY <2>1, BlocksCount
  <2> HIDE DEF put
  <2> QED
    BY <1>2, <2>2 DEF Uncounted
<1> HIDE DEF put
<1> QED
  BY <1>1, <1>3, CountedOnce DEF Did

\* Writing counts once, and once more when it makes the file.
WriteCounted(f, g) ==
  Counted(f, g) \/ \E made : Counted(f, made) /\ Counted(made, g)

LEMMA FileForWritingCounts ==
  ASSUME NEW f, Shaped(f), NEW path, file_for_writing(f, path).reply = "OK"
  PROVE  LET found == file_for_writing(f, path).fs
         IN  Uncounted(f, found) \/ Counted(f, found)
<1>1. CASE vfs_resolve(f, path) = VFS_NONE
  BY <1>1, MakeCounts DEF file_for_writing
<1>2. CASE vfs_resolve(f, path) # VFS_NONE
  BY <1>2 DEF file_for_writing, Did, Uncounted
<1> QED
  BY <1>1, <1>2

LEMMA AppendCounts ==
  ASSUME NEW f, Shaped(f), NEW path, NEW data, vfs_append(f, path, data).reply = "OK"
  PROVE  WriteCounted(f, vfs_append(f, path, data).fs)
<1> DEFINE found == file_for_writing(f, path)
           at == FileWritten(f, path)
<1>1. found.reply = "OK" /\ vfs_append(f, path, data) = AppendTo(found.fs, at, data)
  BY DEF vfs_append
<1>2. Uncounted(f, found.fs) \/ Counted(f, found.fs)
  BY <1>1, FileForWritingCounts
<1> HIDE DEF found, at
<1>3. Counted(found.fs, vfs_append(f, path, data).fs)
  BY <1>1, <1>2, AppendToCounts DEF Uncounted, Counted
<1> QED
  BY <1>2, <1>3 DEF WriteCounted, Uncounted, Counted

LEMMA WriteCounts ==
  ASSUME NEW f, Shaped(f), NEW path, NEW data, vfs_write(f, path, data).reply = "OK"
  PROVE  WriteCounted(f, vfs_write(f, path, data).fs)
<1> DEFINE found == file_for_writing(f, path)
           at == FileWritten(f, path)
           released == vfsblock_release(found.fs, at)
<1>1. found.reply = "OK" /\ vfs_write(f, path, data) = AppendTo(released, at, data)
  BY DEF vfs_write
<1>2. Uncounted(f, found.fs) \/ Counted(f, found.fs)
  BY <1>1, FileForWritingCounts
<1> HIDE DEF found, at
<1>3. Uncounted(found.fs, released)
  BY <1>2, BlocksCount DEF Uncounted, Counted
<1> HIDE DEF released
<1>4. Counted(found.fs, vfs_write(f, path, data).fs)
  BY <1>1, <1>3, AppendToCounts DEF Uncounted, Counted
<1> QED
  BY <1>2, <1>4 DEF WriteCounted, Uncounted, Counted

LEMMA RemoveCounts ==
  ASSUME NEW f, Shaped(f), NEW path, vfs_remove(f, path).reply = "OK"
  PROVE  Counted(f, vfs_remove(f, path).fs)
<1> DEFINE at == vfs_resolve(f, path)
           unlinked == vfs_unlink_from_parent(f, at)
           released == vfsblock_release(unlinked, at)
           freed == [released EXCEPT !.nodes[at].used = FALSE]
<1>1. vfs_remove(f, path) = Did(changed(freed), "OK")
  <2>1. vfs_remove(f, path) = Did(RemoveNode(f, at), "OK")
    BY DEF vfs_remove, Did
  <2> QED
    BY <2>1 DEF RemoveNode
<1> HIDE DEF at
<1>2. Uncounted(f, unlinked)
  BY UnlinkCounts
<1> HIDE DEF unlinked
<1>3. Uncounted(f, released)
  BY <1>2, BlocksCount DEF Uncounted
<1> HIDE DEF released
<1>4. Uncounted(f, freed)
  <2> DEFINE new == [released.nodes EXCEPT ![at].used = FALSE]
  <2>1. freed = [released EXCEPT !.nodes = new]
    BY <1>3 DEF Shaped, Uncounted
  <2> HIDE DEF new, freed
  <2>2. Uncounted(released, freed)
    BY <1>3, <2>1, NodesAreUncounted DEF Uncounted
  <2> QED
    BY <1>3, <2>2 DEF Uncounted
<1> HIDE DEF freed
<1> QED
  BY <1>1, <1>4, CountedOnce DEF Did

LEMMA MoveCounts ==
  ASSUME NEW f, Shaped(f), NEW from, NEW to, vfs_move(f, from, to).reply = "OK"
  PROVE  Counted(f, vfs_move(f, from, to).fs)
<1> DEFINE at == vfs_resolve(f, from)
           parent == ParentOf(f, to)
           unlinked == vfs_unlink_from_parent(f, at)
           renamed == [unlinked EXCEPT !.nodes[at].name = LastName(to)]
           linked == vfs_link_into(renamed, parent, at)
<1>1. vfs_move(f, from, to) = Did(changed(linked), "OK")
  BY DEF vfs_move, Did
<1> HIDE DEF at, parent
<1>2. Uncounted(f, unlinked)
  BY UnlinkCounts
<1> HIDE DEF unlinked
<1>3. Uncounted(f, renamed)
  BY <1>2 DEF Shaped, Uncounted
<1> HIDE DEF renamed
<1>4. Uncounted(f, linked)
  BY <1>3, LinkIntoCounts DEF Uncounted
<1> HIDE DEF linked
<1> QED
  BY <1>1, <1>4, CountedOnce DEF Did

LEMMA CopyCounts ==
  ASSUME NEW f, Shaped(f), NEW from, NEW to, vfs_copy(f, from, to).reply = "OK"
  PROVE  Counted(f, vfs_copy(f, from, to).fs)
<1> DEFINE at == vfs_resolve(f, from)
           created == vfs_make(f, to, "FILE")
           made == free_node(f)
           wanted == vfs_blocks_for(f.nodes[at].length)
           reserved == vfsblock_reserve(created.fs, made, wanted)
           put == put_bytes(reserved, made, contents(f, at))
<1>1. created.reply = "OK" /\ vfs_copy(f, from, to) = Did(put, "OK")
  BY DEF vfs_copy, Did
<1>2. Counted(f, created.fs)
  BY <1>1, MakeCounts
<1> HIDE DEF created, made, wanted
<1>3. Uncounted(created.fs, reserved)
  BY <1>2, BlocksCount DEF Counted
<1> HIDE DEF reserved
<1>4. Uncounted(created.fs, put)
  BY <1>3, BlocksCount DEF Uncounted
<1> HIDE DEF put
<1> QED
  BY <1>1, <1>2, <1>4 DEF Did, Uncounted, Counted

\* No two claims on one block, so they are at most one.
LEMMA OneClaim ==
  ASSUME NEW f, OwnersAreApart(f), NEW b \in Blocks
  PROVE  Cardinality(Claims(f, b)) <= 1
<1>1. CASE Claims(f, b) = {}
  BY <1>1, FS_EmptySet
<1>2. CASE Claims(f, b) # {}
  <2>1. PICK c \in Claims(f, b) : TRUE
    BY <1>2
  <2>2. ASSUME NEW d \in Claims(f, b) PROVE d = c
    <3>1. c \in Nodes \X Slots /\ d \in Nodes \X Slots
      BY DEF Claims
    <3>2. /\ f.nodes[c[1]].blocks[c[2]] = b
          /\ f.nodes[d[1]].blocks[d[2]] = b
      BY DEF Claims
    <3>3. b # VFS_NONE
      BY SizesAssumption DEF Blocks, VFS_NONE
    <3>4. c[1] = d[1] /\ c[2] = d[2]
      BY <3>1, <3>2, <3>3 DEF OwnersAreApart
    <3> QED
      BY <3>1, <3>4
  <2>3. Claims(f, b) = {c}
    BY <2>1, <2>2
  <2> QED
    BY <2>3, FS_Singleton
<1> QED
  BY <1>1, <1>2

\* One or two steps of the counter do not bring it back where it was.
LEMMA CountingMoves ==
  ASSUME CHANGES_MOD > 2, NEW f \in FsType, NEW g, WriteCounted(f, g)
  PROVE  g.changes # f.changes
<1> DEFINE c == f.changes
           next(k) == (k + 1) % CHANGES_MOD
<1>1. CHANGES_MOD \in Nat /\ c \in 0 .. CHANGES_MOD - 1
  BY SizesAssumption DEF FsType
<1>2. g.changes = next(c) \/ g.changes = next(next(c))
  BY DEF WriteCounted, Counted
<1> HIDE DEF c
<1>3. ASSUME NEW k \in 0 .. CHANGES_MOD - 1
      PROVE  next(k) = IF k = CHANGES_MOD - 1 THEN 0 ELSE k + 1
  BY <1>1, <1>3
<1>4. next(c) \in 0 .. CHANGES_MOD - 1
  BY <1>1
<1> HIDE DEF next
<1>5. next(c) # c /\ next(next(c)) # c
  BY <1>1, <1>3, <1>4
<1> QED
  BY <1>2, <1>5 DEF c

\* Where the kernel is working is not something a restart has to bring back.
LEMMA ChdirChangesNothing ==
  ASSUME NEW f \in FsType, NEW path
  PROVE  Kept(vfs_chdir(f, path).fs) = Kept(f)
<1> DEFINE g == vfs_chdir(f, path).fs
<1>1. g.nodes = f.nodes /\ g.blocks = f.blocks
  BY DEF vfs_chdir, Did, FsType
<1> HIDE DEF g
<1>2. \A n \in Nodes : contents(g, n) = contents(f, n)
  BY <1>1 DEF contents
<1>3. Kept(g) = Kept(f)
  BY <1>1, <1>2 DEF Kept
<1> QED
  BY <1>3 DEF g

----------------------------------------------------------------------------
(* The bitmap, worked out again *)

\* Whether what vfsblock_rebuild makes of the claims is the bitmap there is.
Rebuilt(f) == rebuild_succeeds(f) /\ vfsblock_rebuild(f) = f

LEMMA KeptIsRebuilt ==
  ASSUME NEW f, WellKept(f), MarkedIsOwned(f), OwnersAreFiles(f)
  PROVE  Rebuilt(f)
<1>1. rebuild_succeeds(f)
  <2>1. ASSUME NEW at \in Nodes, NEW i \in Slots, f.nodes[at].blocks[i] # VFS_NONE
        PROVE  /\ f.nodes[at].used
               /\ f.nodes[at].kind = "FILE"
               /\ f.nodes[at].blocks[i] \in Blocks
               /\ \A j \in 0 .. i - 1 : f.nodes[at].blocks[j] # VFS_NONE
    <3>1. f.nodes[at].used /\ f.nodes[at].kind = "FILE"
      BY <2>1, Zenon DEF OwnersAreFiles
    <3>2. f.nodes[at].blocks[i] \in Blocks
      <4>1. f.nodes[at] \in NodeType
        BY DEF WellKept, FsType
      <4>2. f.nodes[at].blocks \in [Slots -> Blocks \cup {VFS_NONE}]
        BY <4>1 DEF NodeType
      <4>3. f.nodes[at].blocks[i] \in Blocks \cup {VFS_NONE}
        BY <4>2
      <4> QED
        BY <2>1, <4>3
    <3>3. \A j \in 0 .. i - 1 : j \in Slots /\ j < i
      BY SizesAssumption DEF Slots
    <3> QED
      BY <2>1, <3>1, <3>2, <3>3 DEF WellKept, BlocksArePacked
  <2>2. \A b \in Blocks : Cardinality(Claims(f, b)) <= 1
    BY OneClaim DEF WellKept
  <2> QED
    BY <2>1, <2>2 DEF rebuild_succeeds
<1>2. vfsblock_rebuild(f) = f
  <2>1. ASSUME NEW b \in Blocks
        PROVE  (Claims(f, b) # {}) = f.block_used[b]
    <3>1. f.block_used[b] \in BOOLEAN
      BY DEF WellKept, FsType
    <3>2. ASSUME Claims(f, b) # {} PROVE f.block_used[b]
      <4>1. PICK c \in Nodes \X Slots : f.nodes[c[1]].blocks[c[2]] = b
        BY <3>2 DEF Claims
      <4>2. b # VFS_NONE
        BY SizesAssumption DEF Blocks, VFS_NONE
      <4> QED
        BY <4>1, <4>2 DEF WellKept, OwnedIsMarked
    <3>3. ASSUME f.block_used[b] PROVE Claims(f, b) # {}
      <4>1. PICK n \in Nodes, i \in Slots : f.nodes[n].blocks[i] = b
        BY <3>3 DEF MarkedIsOwned
      <4>2. <<n, i>> \in Claims(f, b)
        BY <4>1 DEF Claims
      <4> QED
        BY <4>2
    <3> QED
      BY <3>1, <3>2, <3>3
  <2> DEFINE claimed == [b \in Blocks |-> Claims(f, b) # {}]
  <2>2. f.block_used \in [Blocks -> BOOLEAN] /\ f \in FsType
    BY DEF WellKept, FsType
  <2>3. f.block_used = claimed
    BY <2>1, <2>2
  <2> HIDE DEF claimed
  <2>4. [f EXCEPT !.block_used = claimed] = f
    BY <2>2, <2>3 DEF FsType
  <2> QED
    BY <2>4 DEF vfsblock_rebuild, claimed
<1> QED
  BY <1>1, <1>2 DEF Rebuilt

LEMMA RebuiltMarks ==
  ASSUME NEW f \in FsType, Rebuilt(f), NEW b \in Blocks
  PROVE  f.block_used[b] <=> \E n \in Nodes, i \in Slots : f.nodes[n].blocks[i] = b
<1> DEFINE claimed == [c \in Blocks |-> Claims(f, c) # {}]
<1>1. [f EXCEPT !.block_used = claimed] = f
  BY DEF Rebuilt, vfsblock_rebuild
<1> HIDE DEF claimed
<1>2. [f EXCEPT !.block_used = claimed].block_used = claimed
  BY DEF FsType
<1>3. f.block_used = claimed
  BY <1>1, <1>2
<1>4. f.block_used[b] <=> Claims(f, b) # {}
  BY <1>3 DEF claimed
<1>5. Claims(f, b) # {} <=> \E n \in Nodes, i \in Slots : f.nodes[n].blocks[i] = b
  <2>1. ASSUME Claims(f, b) # {}
        PROVE  \E n \in Nodes, i \in Slots : f.nodes[n].blocks[i] = b
    <3>1. PICK c \in Nodes \X Slots : f.nodes[c[1]].blocks[c[2]] = b
      BY <2>1 DEF Claims
    <3> QED
      BY <3>1
  <2>2. ASSUME NEW n \in Nodes, NEW i \in Slots, f.nodes[n].blocks[i] = b
        PROVE  Claims(f, b) # {}
    <3>1. <<n, i>> \in Claims(f, b)
      BY <2>2 DEF Claims
    <3> QED
      BY <3>1
  <2> QED
    BY <2>1, <2>2
<1> QED
  BY <1>4, <1>5

\* A filesystem that passed both checks of vfsdisk_load is orderly, whatever was
\* on the disk.
LEMMA CheckedIsOrderly ==
  ASSUME NEW f \in FsType, vfsdisk_sound(f), Rebuilt(f)
  PROVE  Orderly(f, FALSE)
<1>1. \A n \in Nodes : f.nodes[n].used => fields_ok(f, n)
  BY DEF vfsdisk_sound
<1>2. ASSUME NEW n \in Nodes, NEW i \in Slots, f.nodes[n].blocks[i] # VFS_NONE
      PROVE  /\ f.nodes[n].used /\ f.nodes[n].kind = "FILE"
             /\ f.nodes[n].blocks[i] \in Blocks
             /\ \A j \in 0 .. i - 1 : f.nodes[n].blocks[j] # VFS_NONE
  BY <1>2 DEF Rebuilt, rebuild_succeeds
<1>3. BlocksArePacked(f)
  <2> SUFFICES ASSUME NEW n \in Nodes, NEW i \in Slots, f.nodes[n].blocks[i] # VFS_NONE,
                      NEW j \in Slots, j < i
               PROVE  f.nodes[n].blocks[j] # VFS_NONE
    BY DEF BlocksArePacked
  <2>1. j \in 0 .. i - 1
    BY SizesAssumption DEF Slots
  <2> QED
    BY <1>2, <2>1
<1>4. ASSUME NEW n \in Nodes, f.nodes[n].used, NEW i \in Slots
      PROVE  f.nodes[n].blocks[i] # VFS_NONE <=> i * VFS_BLOCK < f.nodes[n].length
  <2> DEFINE node == f.nodes[n]
  <2>1. node.length \in Nat /\ i \in Nat
    BY FsParts, SizesAssumption DEF Slots
  <2>2. vfsblock_held(node) = vfs_blocks_for(node.length)
    BY <1>1, <1>4 DEF fields_ok
  <2>3. \A x, y \in Slots : node.blocks[x] # VFS_NONE /\ y < x => node.blocks[y] # VFS_NONE
    BY <1>3 DEF BlocksArePacked
  <2> HIDE DEF node
  <2>4. node.blocks[i] # VFS_NONE <=> i < vfsblock_held(node)
    BY <2>3, HeldAreFirst
  <2>5. i < vfs_blocks_for(node.length) <=> i * VFS_BLOCK < node.length
    BY <2>1, BlocksForIsEnough, BlocksForIsTight
  <2> QED
    BY <2>2, <2>4, <2>5 DEF node
<1>5. BytesHaveBlocks(f)
  BY <1>1, <1>4 DEF BytesHaveBlocks, fields_ok
<1>6. NothingSpare(f)
  BY <1>2, <1>4 DEF NothingSpare
<1>7. OwnersAreApart(f)
  <2> SUFFICES ASSUME NEW n \in Nodes, NEW m \in Nodes, NEW i \in Slots, NEW j \in Slots,
                      f.nodes[n].blocks[i] # VFS_NONE,
                      f.nodes[n].blocks[i] = f.nodes[m].blocks[j]
               PROVE  n = m /\ i = j
    BY DEF OwnersAreApart
  <2> DEFINE b == f.nodes[n].blocks[i]
             C == Claims(f, b)
  <2>1. b \in Blocks
    BY <1>2
  <2>2. <<n, i>> \in C /\ <<m, j>> \in C
    BY DEF Claims
  <2>3. Cardinality(C) <= 1
    BY <2>1 DEF Rebuilt, rebuild_succeeds
  <2>4. IsFiniteSet(C)
    <3>1. IsFiniteSet(Nodes) /\ IsFiniteSet(Slots)
      BY FS_Interval, SizesAssumption DEF Nodes, Slots
    <3>2. IsFiniteSet(Nodes \X Slots)
      BY <3>1, FS_Product
    <3>3. C \in SUBSET (Nodes \X Slots)
      BY DEF Claims
    <3> QED
      BY <3>2, <3>3, FS_Subset
  <2> HIDE DEF C, b
  <2> DEFINE c == <<n, i>>
             d == <<m, j>>
  <2>6. c \in C /\ d \in C
    BY <2>2
  <2>5. c = d
    <3> HIDE DEF c, d
    <3> SUFFICES ASSUME c # d PROVE FALSE
      OBVIOUS
    <3> DEFINE two == {c, d}
    <3>1. two \in SUBSET C
      BY <2>6
    <3>2. IsFiniteSet(two) /\ Cardinality(two) = 2
      <4>1. IsFiniteSet({c}) /\ Cardinality({c}) = 1
        BY FS_Singleton
      <4>2. two = {c} \cup {d} /\ d \notin {c}
        OBVIOUS
      <4> HIDE DEF two
      <4> QED
        BY <4>1, <4>2, FS_AddElement
    <3> HIDE DEF two
    <3>3. Cardinality(two) <= Cardinality(C) /\ Cardinality(C) \in Nat
      BY <2>4, <3>1, FS_Subset, FS_CardinalityType
    <3> QED
      BY <2>3, <3>2, <3>3
  <2> QED
    BY <2>5
<1>8. OwnedIsMarked(f)
  <2> SUFFICES ASSUME NEW n \in Nodes, NEW i \in Slots, f.nodes[n].blocks[i] # VFS_NONE
               PROVE  f.block_used[f.nodes[n].blocks[i]]
    BY DEF OwnedIsMarked
  <2> QED
    BY <1>2, RebuiltMarks
<1>9. MarkedIsOwned(f)
  BY RebuiltMarks DEF MarkedIsOwned
<1>10. OwnersAreFiles(f)
  BY <1>2 DEF OwnersAreFiles
<1>11. Tree(f, {}, FALSE)
  BY SoundIsTree
<1> QED
  BY <1>3, <1>5, <1>6, <1>7, <1>8, <1>9, <1>10, <1>11
     DEF Orderly, Settled, WellKept, Filed

\* An orderly filesystem passes both checks.
LEMMA OrderlyIsChecked ==
  ASSUME NEW clean \in BOOLEAN, NEW f, Orderly(f, clean)
  PROVE  vfsdisk_sound(f) /\ Rebuilt(f)
BY TreesAreSound, KeptIsRebuilt DEF Orderly, Settled, Filed

----------------------------------------------------------------------------
(* A filesystem that is started again *)

\* What vfs_init leaves: the root and nothing else.
Empty(f) ==
  /\ f \in FsType
  /\ f.cwd = 0
  /\ \A b \in Blocks : ~f.block_used[b]
  /\ \A n \in Nodes : f.nodes[n].blocks = NoBlocks /\ (f.nodes[n].used <=> n = 0)
  /\ f.nodes[0].name = "" /\ f.nodes[0].kind = "DIR" /\ f.nodes[0].parent = 0
  /\ f.nodes[0].first_child = VFS_NONE /\ f.nodes[0].next_sibling = VFS_NONE
  /\ f.nodes[0].length = 0

LEMMA EmptyIsOrderly ==
  ASSUME NEW f, Empty(f)
  PROVE  Orderly(f, TRUE)
<1>1. f \in FsType /\ 0 \in Nodes /\ 0 # VFS_NONE
  BY NodesAreNumbers DEF Empty
<1>2. \A n \in Nodes, i \in Slots : f.nodes[n].blocks[i] = VFS_NONE
  <2>1. \A i \in Slots : NoBlocks[i] = VFS_NONE
    BY DEF NoBlocks
  <2> QED
    BY <2>1 DEF Empty
<1>3. BytesHaveBlocks(f)
  <2>1. VFS_FILE_MAX \in Nat
    BY SizesAssumption DEF VFS_FILE_MAX
  <2>2. \A i \in Slots : ~(i * VFS_BLOCK < 0)
    BY SizesAssumption DEF Slots
  <2>3. \A n \in Nodes : f.nodes[n].used => f.nodes[n].length = 0
    <3>1. \A n \in Nodes : f.nodes[n].used => n = 0
      BY Zenon DEF Empty
    <3> QED
      BY <3>1 DEF Empty
  <2> QED
    BY <2>1, <2>2, <2>3 DEF BytesHaveBlocks
<1>4. BlocksArePacked(f) /\ OwnersAreApart(f) /\ OwnedIsMarked(f)
  BY <1>2 DEF BlocksArePacked, OwnersAreApart, OwnedIsMarked
<1>5. Filed(f, TRUE) /\ NothingSpare(f)
  BY <1>2 DEF Empty, Filed, MarkedIsOwned, OwnersAreFiles, TailsAreZero, NothingSpare
<1>6. InUse(f) = {0} /\ Members(f, {}) = {} /\ IsDir(f, 0)
  <2>1. InUse(f) = {0}
    BY <1>1 DEF Empty, InUse
  <2> QED
    BY <1>1, <2>1 DEF Empty, Members, IsDir
<1>7. RootStands(f) /\ KindsAgree(f)
  BY <1>1, <1>6 DEF Empty, RootStands, KindsAgree
<1>8. Deep(f, [n \in Nodes |-> 0]) /\ Lists(f, {}, [n \in Nodes |-> 0])
  BY <1>1, <1>6 DEF Empty, Deep, Lists
<1>9. NamesApart(f, {})
  BY DEF NamesApart
<1>10. Tree(f, {}, TRUE)
  BY <1>1, <1>6, <1>7, <1>8, <1>9 DEF Tree
<1> QED
  BY <1>1, <1>3, <1>4, <1>5, <1>10 DEF Orderly, Settled, WellKept

\* Whatever memory it is given, vfs_init empties it.
LEMMA InitEmpties ==
  ASSUME NEW f \in FsType
  PROVE  Empty(vfs_init(f)) /\ vfs_init(f).changes = 0
<1> DEFINE root == [name |-> "", kind |-> "DIR", used |-> TRUE, parent |-> 0,
                    first_child |-> VFS_NONE, next_sibling |-> VFS_NONE,
                    length |-> 0, blocks |-> NoBlocks]
           free(n) == [f.nodes[n] EXCEPT !.used = FALSE, !.blocks = NoBlocks]
           nodes == [n \in Nodes |-> IF n = 0 THEN root ELSE free(n)]
           marks == [b \in Blocks |-> FALSE]
           g == [f EXCEPT !.nodes = nodes, !.block_used = marks, !.cwd = 0, !.changes = 0]
<1>1. vfs_init(f) = g
  BY DEF vfs_init
<1>2. NoBlocks \in [Slots -> Blocks \cup {VFS_NONE}]
  BY DEF NoBlocks
<1>3. /\ root \in NodeType /\ root.blocks = NoBlocks /\ root.used /\ root.name = ""
      /\ root.kind = "DIR" /\ root.parent = 0 /\ root.first_child = VFS_NONE
      /\ root.next_sibling = VFS_NONE /\ root.length = 0
  BY <1>2, NodesAreNumbers DEF NodeType, Kinds
<1>4. ASSUME NEW n \in Nodes
      PROVE  free(n) \in NodeType /\ free(n).blocks = NoBlocks /\ ~free(n).used
  <2>1. f.nodes[n] \in NodeType
    BY NodeParts
  <2> QED
    BY <1>2, <2>1 DEF NodeType
<1> HIDE DEF root, free
<1>5. /\ nodes \in [Nodes -> NodeType]
      /\ nodes[0] = root /\ \A n \in Nodes : n # 0 => nodes[n] = free(n)
  BY <1>3, <1>4, NodesAreNumbers
<1>6. marks \in [Blocks -> BOOLEAN] /\ \A b \in Blocks : ~marks[b]
  OBVIOUS
<1>7. 0 \in 0 .. CHANGES_MOD - 1
  BY SizesAssumption
<1> HIDE DEF nodes, marks
<1>8. /\ g \in FsType /\ g.nodes = nodes /\ g.block_used = marks /\ g.cwd = 0
      /\ g.changes = 0
  BY <1>5, <1>6, <1>7, NodesAreNumbers DEF FsType
<1> HIDE DEF g
<1>9. \A n \in Nodes : g.nodes[n].blocks = NoBlocks /\ (g.nodes[n].used <=> n = 0)
  BY <1>3, <1>4, <1>5, <1>8
<1>10. Empty(g)
  BY <1>3, <1>5, <1>6, <1>8, <1>9 DEF Empty
<1> QED
  BY <1>1, <1>8, <1>10
=============================================================================
