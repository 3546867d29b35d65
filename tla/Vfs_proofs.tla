----------------------------- MODULE Vfs_proofs -----------------------------
(***************************************************************************)
(* Theorems about the filesystem in memory, for every number of nodes and  *)
(* blocks, every size of a block and every set of names, paths and texts.  *)
(*                                                                         *)
(* The inductive invariant is IInv: every call, whichever way it ends,     *)
(* keeps the blocks WellKept, Filed and NothingSpare and the entries a     *)
(* Tree (VfsOps_proofs has what these are).                                *)
(*                                                                         *)
(* The second half proves that the table implements the tree of paths of   *)
(* VfsPaths: where each node is (Places), that the tree shows the nodes    *)
(* (Shows), that paths lead to the same places in both, that there is room *)
(* in the one when there is in the other, and then each call.              *)
(***************************************************************************)
EXTENDS VfsRefinement, VfsOps_proofs

----------------------------------------------------------------------------
(* The system *)

\* The inductive invariant.
IInv == Orderly(fs, TRUE) /\ reply \in Results

LEMMA InitIsEmpty == Init => Empty(fs)
<1> SUFFICES ASSUME Init PROVE Empty(fs)
  OBVIOUS
<1> DEFINE root == [name |-> "", kind |-> "DIR", used |-> TRUE, parent |-> 0,
                    first_child |-> VFS_NONE, next_sibling |-> VFS_NONE,
                    length |-> 0, blocks |-> NoBlocks]
           zero == [name |-> "", kind |-> "DIR", used |-> FALSE, parent |-> 0,
                    first_child |-> 0, next_sibling |-> 0, length |-> 0,
                    blocks |-> [i \in Slots |-> 0]]
           free == [zero EXCEPT !.used = FALSE, !.blocks = NoBlocks]
           nodes == [n \in Nodes |-> IF n = 0 THEN root ELSE free]
           start == [ZeroedFs EXCEPT !.nodes = nodes,
                                     !.block_used = [b \in Blocks |-> FALSE],
                                     !.cwd = 0,
                                     !.changes = 0]
<1>1. fs = start
  <2>1. \A n \in Nodes : ZeroedFs.nodes[n] = zero
    BY DEF ZeroedFs
  <2>2. [n \in Nodes |-> IF n = 0 THEN root
           ELSE [ZeroedFs.nodes[n] EXCEPT !.used = FALSE, !.blocks = NoBlocks]]
          = nodes
    BY <2>1
  <2>3. vfs_init(ZeroedFs) = start
    BY <2>2 DEF vfs_init
  <2> QED
    BY <2>3 DEF Init
<1>2. NoBlocks \in [Slots -> Blocks \cup {VFS_NONE}]
  BY DEF NoBlocks
<1>3. root \in NodeType /\ free \in NodeType
  BY <1>2, NodesAreNumbers DEF NodeType, Kinds
<1>4. /\ root.length = 0 /\ free.length = 0
      /\ root.blocks = NoBlocks /\ free.blocks = NoBlocks
  OBVIOUS
<1>10. /\ root.used /\ root.kind = "DIR" /\ root.name = "" /\ root.parent = 0
       /\ root.first_child = VFS_NONE /\ root.next_sibling = VFS_NONE
  OBVIOUS
<1>11. ~free.used
  OBVIOUS
<1> HIDE DEF root, free
<1>5. /\ nodes \in [Nodes -> NodeType]
      /\ \A n \in Nodes : nodes[n].length = 0 /\ nodes[n].blocks = NoBlocks
      /\ nodes[0] = root /\ \A n \in Nodes : n # 0 => nodes[n] = free
  BY <1>3, <1>4, NodesAreNumbers
<1> HIDE DEF nodes
<1>6. /\ start \in FsType /\ start.nodes = nodes /\ start.cwd = 0
      /\ \A b \in Blocks : ~start.block_used[b]
  <2> DEFINE unmarked == [b \in Blocks |-> FALSE]
             blank == [b \in Blocks |-> [o \in Offsets |-> 0]]
             old == [n \in Nodes |-> zero]
             made(n, b, u, c, h) ==
               [nodes |-> n, blocks |-> b, block_used |-> u, cwd |-> c, changes |-> h]
  <2>1. unmarked \in [Blocks -> BOOLEAN]
    OBVIOUS
  <2>2. blank \in [Blocks -> [Offsets -> Bytes \cup {0}]]
    OBVIOUS
  <2>3. 0 \in 0 .. CHANGES_MOD - 1
    BY SizesAssumption
  <2>4. start = [made(old, blank, unmarked, 0, 0)
                   EXCEPT !.nodes = nodes, !.block_used = unmarked,
                          !.cwd = 0, !.changes = 0]
    BY DEF ZeroedFs
  <2> HIDE DEF unmarked, blank, old, start
  <2>5. start \in FsType
    BY <1>5, <2>1, <2>2, <2>3, <2>4, NodesAreNumbers DEF FsType
  <2>6. start.nodes = nodes /\ start.cwd = 0 /\ start.block_used = unmarked
    BY <2>4
  <2>7. \A b \in Blocks : ~unmarked[b]
    BY DEF unmarked
  <2> QED
    BY <2>5, <2>6, <2>7
<1> HIDE DEF start
<1>7. \A n \in Nodes : start.nodes[n].blocks = NoBlocks /\ (start.nodes[n].used <=> n = 0)
  BY <1>5, <1>6, <1>10, <1>11
<1>8. Empty(start)
  BY <1>4, <1>5, <1>6, <1>7, <1>10 DEF Empty
<1> QED
  BY <1>1, <1>8

LEMMA InitKeeps == Init => IInv
BY InitIsEmpty, EmptyIsOrderly DEF IInv, Init, Results

\* One step for each operation of vfs.h.
LEMMA NextKeeps == IInv /\ [Next]_vars => IInv'
<1> SUFFICES ASSUME Orderly(fs, TRUE), reply \in Results, [Next]_vars
             PROVE  Orderly(fs', TRUE) /\ reply' \in Results
  BY DEF IInv
<1>1. ASSUME NEW outcome, Orderly(outcome.fs, TRUE), Answers(outcome), Do(outcome)
      PROVE  Orderly(fs', TRUE) /\ reply' \in Results
  BY <1>1 DEF Answers, Do
<1>13. WellKept(fs)
  BY DEF Orderly
<1>2. Paths \in SUBSET PathType /\ Texts \in SUBSET Seq(Bytes)
  BY InputsAssumption, StringPaths
<1>3. "DIR" \in Kinds /\ "FILE" \in Kinds
  BY DEF Kinds
<1>4. CASE \E path \in Paths : Mkdir(path)
  BY <1>1, <1>2, <1>3, <1>4, <1>13, MakeKeeps, MakeOrderly DEF Mkdir, vfs_mkdir
<1>5. CASE \E path \in Paths : Create(path)
  BY <1>1, <1>2, <1>3, <1>5, <1>13, MakeKeeps, MakeOrderly DEF Create, vfs_create
<1>6. CASE \E path \in Paths : Chdir(path)
  BY <1>1, <1>2, <1>6, <1>13, ChdirKeeps, ChdirOrderly DEF Chdir
<1>7. CASE \E path \in Paths : Remove(path)
  BY <1>1, <1>2, <1>7, <1>13, RemoveKeeps, RemoveOrderly DEF Remove
<1>8. CASE \E path \in Paths, text \in Texts : Write(path, text)
  BY <1>1, <1>2, <1>8, <1>13, WriteKeeps, WriteOrderly DEF Write
<1>9. CASE \E path \in Paths, text \in Texts : AppendText(path, text)
  BY <1>1, <1>2, <1>9, <1>13, AppendKeeps, AppendOrderly DEF AppendText
<1>10. CASE \E from, to \in Paths : Move(from, to)
  BY <1>1, <1>2, <1>10, <1>13, MoveKeeps, MoveOrderly DEF Move
<1>11. CASE \E from, to \in Paths : Copy(from, to)
  BY <1>1, <1>2, <1>11, <1>13, CopyKeeps, CopyOrderly DEF Copy, Orderly, Settled
<1>12. CASE UNCHANGED vars
  BY <1>12 DEF vars
<1> QED
  BY <1>4, <1>5, <1>6, <1>7, <1>8, <1>9, <1>10, <1>11, <1>12 DEF Next

\* Whatever calls are made, the filesystem stays orderly.
THEOREM AlwaysOrderly == Spec => []IInv
BY InitKeeps, NextKeeps, PTL DEF Spec

\* The type invariant: every index an operation leaves behind is in range, and
\* every operation returns a vfs_result.
THEOREM TypeCorrect == Spec => []TypeOK
<1>1. IInv => TypeOK
  BY DEF IInv, Orderly, WellKept, TypeOK
<1> QED
  BY <1>1, AlwaysOrderly, PTL

\* No block ever belongs to two files.
THEOREM BlocksAreNeverShared == Spec => []NoSharedBlocks
<1>1. IInv => NoSharedBlocks
  BY DEF IInv, Orderly, WellKept, OwnersAreApart, NoSharedBlocks
<1> QED
  BY <1>1, AlwaysOrderly, PTL

\* A block a file holds is never free to be handed out.
THEOREM ClaimsAreAlwaysMarked == Spec => []ClaimsAreMarked
<1>1. IInv => ClaimsAreMarked
  BY DEF IInv, Orderly, WellKept, OwnedIsMarked, ClaimsAreMarked
<1> QED
  BY <1>1, AlwaysOrderly, PTL

\* What the tail of a file's last block holds is never what an earlier owner of
\* the block wrote.
THEOREM TailsAreAlwaysClear == Spec => []TailsAreClear
<1>1. IInv => TailsAreClear
  BY DEF IInv, Orderly, Settled, Filed, TailsAreZero, TailsAreClear
<1> QED
  BY <1>1, AlwaysOrderly, PTL

\* No sequence of calls puts two entries of one name in a directory.
THEOREM NamesAreAlwaysUnique == Spec => []NamesAreUnique
<1>1. IInv => NamesAreUnique
  <2> SUFFICES ASSUME Tree(fs, {}, TRUE) PROVE NamesAreUnique
    BY DEF IInv, Orderly, Settled
  <2> QED
    BY DEF Tree, NamesApart, Members, InUse, NamesAreUnique
<1> QED
  BY <1>1, AlwaysOrderly, PTL

\* What the operations build is never refused by vfsdisk_sound.
THEOREM AlwaysLoadable == Spec => []AlwaysSound
<1>1. IInv => AlwaysSound
  BY TreesAreSound DEF IInv, Orderly, Settled, AlwaysSound
<1> QED
  BY <1>1, AlwaysOrderly, PTL

\* The bitmap is at every moment the one a restart works out from the files, so
\* no block leaks and none is lost.
THEOREM BitmapIsAlwaysWhatFilesClaim == Spec => []BitmapIsWhatFilesClaim
<1>1. IInv => BitmapIsWhatFilesClaim
  BY OrderlyIsChecked DEF IInv, Rebuilt, BitmapIsWhatFilesClaim
<1> QED
  BY <1>1, AlwaysOrderly, PTL

\* A call that succeeds and changes what a restart has to bring back moves the
\* counter, so the shell cannot take a changed filesystem for a saved one.  The
\* counter has to have a third value: making a file and writing to it counts 2.
THEOREM SuccessIsAlwaysCounted ==
  ASSUME CHANGES_MOD > 2
  PROVE  Spec => SuccessIsCounted
<1> DEFINE Told == reply' = "OK" /\ Kept(fs') # Kept(fs) => fs'.changes # fs.changes
<1>1. IInv /\ [Next]_vars => [Told]_vars
  <2> SUFFICES ASSUME fs \in FsType, Next, reply' = "OK", Kept(fs') # Kept(fs)
               PROVE  fs'.changes # fs.changes
    BY DEF IInv, Orderly, WellKept
  <2>1. Shaped(fs)
    BY FsIsShaped
  <2>2. ASSUME NEW outcome, Do(outcome),
               outcome.reply = "OK" => WriteCounted(fs, outcome.fs)
        PROVE  fs'.changes # fs.changes
    BY <2>2, CountingMoves DEF Do
  <2>3. CASE \E path \in Paths : Mkdir(path)
    BY <2>1, <2>2, <2>3, MakeCounts DEF Mkdir, vfs_mkdir, WriteCounted
  <2>4. CASE \E path \in Paths : Create(path)
    BY <2>1, <2>2, <2>4, MakeCounts DEF Create, vfs_create, WriteCounted
  <2>5. CASE \E path \in Paths : Chdir(path)
    BY <2>5, ChdirChangesNothing DEF Chdir, Do
  <2>6. CASE \E path \in Paths : Remove(path)
    BY <2>1, <2>2, <2>6, RemoveCounts DEF Remove, WriteCounted
  <2>7. CASE \E path \in Paths, text \in Texts : Write(path, text)
    BY <2>1, <2>2, <2>7, WriteCounts DEF Write
  <2>8. CASE \E path \in Paths, text \in Texts : AppendText(path, text)
    BY <2>1, <2>2, <2>8, AppendCounts DEF AppendText
  <2>9. CASE \E from, to \in Paths : Move(from, to)
    BY <2>1, <2>2, <2>9, MoveCounts DEF Move, WriteCounted
  <2>10. CASE \E from, to \in Paths : Copy(from, to)
    BY <2>1, <2>2, <2>10, CopyCounts DEF Copy, WriteCounted
  <2> QED
    BY <2>3, <2>4, <2>5, <2>6, <2>7, <2>8, <2>9, <2>10 DEF Next
<1> QED
  BY <1>1, AlwaysOrderly, PTL DEF Spec, SuccessIsCounted

----------------------------------------------------------------------------
(* The system as a tree of paths *)

----------------------------------------------------------------------------
(* Where the nodes are *)

\* The root is reached from `n' in k steps up, and not before.
HighBy(f, n, k) ==
  /\ k \in Nodes /\ Climb(f, n)[k] = 0
  /\ \A j \in 0 .. k - 1 : Climb(f, n)[j] # 0

NamesUp(f, n, k) == [i \in 1 .. k |-> f.nodes[Climb(f, n)[k - i]].name]

LEMMA HighByOne ==
  ASSUME NEW f, NEW n, NEW k, HighBy(f, n, k), NEW l, HighBy(f, n, l)
  PROVE  k = l
<1>1. k \in Nat /\ l \in Nat
  BY NodesAreNumbers DEF HighBy
<1>2. ~(k < l) /\ ~(l < k)
  BY <1>1 DEF HighBy
<1> QED
  BY <1>1, <1>2

LEMMA SomeHeight ==
  ASSUME NEW clean \in BOOLEAN, NEW f, Tree(f, {}, clean), NEW n \in InUse(f)
  PROVE  \E k : HighBy(f, n, k)
<1> DEFINE w == Climb(f, n)
           S == {k \in Nat : w[k] = 0}
<1>1. VFS_MAX_NODES - 1 \in Nodes /\ w[VFS_MAX_NODES - 1] = 0
  BY ClimbEnds
<1>2. VFS_MAX_NODES - 1 \in S /\ S \in SUBSET Nat
  BY <1>1, NodesAreNumbers
<1>3. PICK k \in S : \A m \in S : k <= m
  BY <1>2, LeastNat
<1>4. k \in Nat /\ w[k] = 0 /\ k <= VFS_MAX_NODES - 1
  BY <1>2, <1>3
<1>5. k \in Nodes
  BY <1>4, SizesAssumption DEF Nodes
<1>6. \A j \in 0 .. k - 1 : w[j] # 0
  BY <1>3, <1>4
<1> QED
  BY <1>4, <1>5, <1>6 DEF HighBy

LEMMA PathIs ==
  ASSUME NEW f, NEW n, NEW k, HighBy(f, n, k)
  PROVE  vfs_path_of(f, n) = NamesUp(f, n, k)
<1> DEFINE w == Climb(f, n)
           steps == CHOOSE l \in Nodes : w[l] = 0 /\ \A j \in 0 .. l - 1 : w[j] # 0
<1>1. vfs_path_of(f, n) = [i \in 1 .. steps |-> f.nodes[w[steps - i]].name]
  BY DEF vfs_path_of, Climb
<1>2. HighBy(f, n, steps)
  BY DEF HighBy
<1>3. steps = k
  BY <1>2, HighByOne
<1> QED
  BY <1>1, <1>3 DEF NamesUp

\* A way to say where each node is that starts at the root and follows the names.
Places(f, w) ==
  /\ w \in [InUse(f) -> Seq(Names)]
  /\ w[0] = << >>
  /\ \A n \in InUse(f) \ {0} : w[n] = Append(w[f.nodes[n].parent], f.nodes[n].name)

LEMMA InUseFacts ==
  ASSUME NEW clean \in BOOLEAN, NEW f, Tree(f, {}, clean)
  PROVE  /\ f \in FsType /\ 0 \in InUse(f) /\ InUse(f) \in SUBSET Nodes
         /\ f.nodes[0].parent = 0 /\ f.nodes[0].kind = "DIR" /\ f.cwd \in InUse(f)
         /\ \A n \in InUse(f) : /\ f.nodes[n].parent \in InUse(f)
                                /\ f.nodes[f.nodes[n].parent].kind = "DIR"
                                /\ f.nodes[n].kind \in Kinds
                                /\ n # 0 => f.nodes[n].name \in Names /\ f.nodes[n].name # ""
<1>1. f \in FsType /\ RootStands(f) /\ KindsAgree(f)
  BY DEF Tree
<1>2. 0 \in InUse(f) /\ InUse(f) \in SUBSET Nodes /\ f.nodes[0].parent = 0 /\ f.nodes[0].kind = "DIR"
  BY <1>1, NodesAreNumbers DEF RootStands, IsDir, InUse
<1>3. f.cwd \in InUse(f)
  BY <1>1 DEF RootStands, IsDir, InUse, FsType
<1>4. ASSUME NEW n \in InUse(f)
      PROVE  /\ f.nodes[n].parent \in InUse(f) /\ f.nodes[f.nodes[n].parent].kind = "DIR"
             /\ f.nodes[n].kind \in Kinds
             /\ n # 0 => f.nodes[n].name \in Names /\ f.nodes[n].name # ""
  <2>1. f.nodes[n].parent \in InUse(f) /\ IsDir(f, f.nodes[n].parent)
    BY ParentIsDir
  <2>2. f.nodes[n] \in NodeType
    BY <1>1, <1>2, NodeParts
  <2>3. n # 0 => f.nodes[n].name # ""
    BY <1>1 DEF KindsAgree
  <2> QED
    BY <2>1, <2>2, <2>3 DEF IsDir, NodeType
<1> QED
  BY <1>1, <1>2, <1>3, <1>4

LEMMA HeightOfParent ==
  ASSUME NEW clean \in BOOLEAN, NEW f, Tree(f, {}, clean), NEW n \in InUse(f) \ {0}
  PROVE  \E k \in Nat : HighBy(f, f.nodes[n].parent, k) /\ HighBy(f, n, k + 1)
<1> DEFINE p == f.nodes[n].parent
<1>1. p \in InUse(f) /\ f \in FsType /\ InUse(f) \in SUBSET Nodes
  BY InUseFacts
<1>2. PICK k : HighBy(f, p, k)
  BY <1>1, SomeHeight
<1>3. PICK l : HighBy(f, n, l)
  BY SomeHeight
<1>4. k \in Nat /\ l \in Nat /\ l \in Nodes
  BY <1>2, <1>3, NodesAreNumbers DEF HighBy
<1>5. Climb(f, n)[0] = n
  BY ClimbEnds
<1>6. l # 0
  BY <1>3, <1>5 DEF HighBy
<1>7. \A j \in Nat : Climb(f, n)[j + 1] = Climb(f, p)[j]
  BY <1>1, ClimbFromParent
<1> HIDE DEF p
<1>8. HighBy(f, p, l - 1)
  <2>1. l - 1 \in Nodes /\ l - 1 \in Nat
    BY <1>4, <1>6, SizesAssumption DEF Nodes
  <2>2. Climb(f, p)[l - 1] = Climb(f, n)[l]
    <3>1. (l - 1) + 1 = l
      BY <1>4
    <3> QED
      BY <1>7, <2>1, <3>1
  <2>3. ASSUME NEW j \in 0 .. (l - 1) - 1 PROVE Climb(f, p)[j] # 0
    <3>1. j \in Nat /\ j + 1 \in 0 .. l - 1
      BY <2>1
    <3>2. Climb(f, n)[j + 1] # 0
      BY <3>1, <1>3 DEF HighBy
    <3> QED
      BY <3>1, <3>2, <1>7
  <2> QED
    BY <1>3, <2>1, <2>2, <2>3 DEF HighBy
<1>9. l - 1 \in Nat /\ (l - 1) + 1 = l
  BY <1>4, <1>6
<1> QED
  BY <1>3, <1>8, <1>9 DEF p

\* vfs_path_of is such a way.
LEMMA PathsArePlaces ==
  ASSUME NEW clean \in BOOLEAN, NEW f, Tree(f, {}, clean)
  PROVE  Places(f, [n \in InUse(f) |-> vfs_path_of(f, n)])
<1>1. /\ f \in FsType /\ 0 \in InUse(f) /\ InUse(f) \in SUBSET Nodes
      /\ \A n \in InUse(f) : /\ f.nodes[n].parent \in InUse(f)
                             /\ n # 0 => f.nodes[n].name \in Names
  BY InUseFacts
<1>2. vfs_path_of(f, 0) = << >>
  <2>1. Climb(f, 0)[0] = 0 /\ 0 \in Nodes
    BY <1>1, ClimbEnds
  <2>2. HighBy(f, 0, 0)
    BY <2>1 DEF HighBy
  <2>3. NamesUp(f, 0, 0) = << >>
    BY DEF NamesUp
  <2> QED
    BY <2>2, <2>3, PathIs
<1>3. ASSUME NEW n \in InUse(f) PROVE vfs_path_of(f, n) \in Seq(Names)
  <2>1. PICK k : HighBy(f, n, k)
    BY SomeHeight
  <2>2. k \in Nat
    BY <2>1, NodesAreNumbers DEF HighBy
  <2> DEFINE w == Climb(f, n)
  <2>3. \A j \in Nat : w[j] \in InUse(f)
    BY ClimbEnds
  <2>4. ASSUME NEW i \in 1 .. k PROVE f.nodes[w[k - i]].name \in Names
    <3>1. k - i \in 0 .. k - 1 /\ k - i \in Nat
      BY <2>2
    <3>2. w[k - i] # 0 /\ w[k - i] \in InUse(f)
      BY <2>1, <2>3, <3>1 DEF HighBy
    <3> QED
      BY <3>2, <1>1
  <2>5. NamesUp(f, n, k) \in Seq(Names)
    BY <2>2, <2>4 DEF NamesUp
  <2> QED
    BY <2>1, <2>5, PathIs
<1>4. ASSUME NEW n \in InUse(f) \ {0}
      PROVE  vfs_path_of(f, n) = Append(vfs_path_of(f, f.nodes[n].parent), f.nodes[n].name)
  <2> DEFINE p == f.nodes[n].parent
  <2>1. PICK k \in Nat : HighBy(f, p, k) /\ HighBy(f, n, k + 1)
    BY HeightOfParent
  <2>2. \A j \in Nat : Climb(f, n)[j + 1] = Climb(f, p)[j]
    BY <1>1, ClimbFromParent
  <2>3. Climb(f, n)[0] = n
    BY ClimbEnds
  <2>4. vfs_path_of(f, p) = NamesUp(f, p, k) /\ vfs_path_of(f, n) = NamesUp(f, n, k + 1)
    BY <2>1, PathIs
  <2> HIDE DEF p
  <2>5. ASSUME NEW i \in 1 .. (k + 1)
        PROVE  NamesUp(f, n, k + 1)[i] = Append(NamesUp(f, p, k), f.nodes[n].name)[i]
    <3>1. CASE i = k + 1
      <4>1. NamesUp(f, n, k + 1)[i] = f.nodes[Climb(f, n)[0]].name
        BY <3>1 DEF NamesUp
      <4>2. Len(NamesUp(f, p, k)) = k
        BY DEF NamesUp
      <4>3. Append(NamesUp(f, p, k), f.nodes[n].name)[k + 1] = f.nodes[n].name
        BY <4>2 DEF NamesUp
      <4> QED
        BY <4>1, <4>3, <2>3, <3>1
    <3>2. CASE i # k + 1
      <4>1. i \in 1 .. k /\ k - i \in Nat /\ (k - i) + 1 = (k + 1) - i
        BY <3>2
      <4>2. NamesUp(f, n, k + 1)[i] = f.nodes[Climb(f, n)[(k - i) + 1]].name
        BY <4>1 DEF NamesUp
      <4>3. NamesUp(f, p, k)[i] = f.nodes[Climb(f, p)[k - i]].name
        BY <4>1 DEF NamesUp
      <4>4. Append(NamesUp(f, p, k), f.nodes[n].name)[i] = NamesUp(f, p, k)[i]
        BY <4>1 DEF NamesUp
      <4> QED
        BY <4>1, <4>2, <4>3, <4>4, <2>2
    <3> QED
      BY <3>1, <3>2
  <2>6. NamesUp(f, n, k + 1) = Append(NamesUp(f, p, k), f.nodes[n].name)
    <3>1. Append(NamesUp(f, p, k), f.nodes[n].name) = [i \in 1 .. (k + 1) |->
             Append(NamesUp(f, p, k), f.nodes[n].name)[i]]
      BY DEF NamesUp
    <3>2. NamesUp(f, n, k + 1) = [i \in 1 .. (k + 1) |-> NamesUp(f, n, k + 1)[i]]
      BY DEF NamesUp
    <3> QED
      BY <3>1, <3>2, <2>5
  <2> QED
    BY <2>4, <2>6 DEF p
<1> QED
  BY <1>1, <1>2, <1>3, <1>4 DEF Places

\* What holds of the root and goes from a directory to its entries holds of all.
LEMMA DownTheTree ==
  ASSUME NEW clean \in BOOLEAN, NEW f, Tree(f, {}, clean), NEW S, 0 \in S,
         \A n \in InUse(f) \ {0} : f.nodes[n].parent \in S => n \in S
  PROVE  \A n \in InUse(f) : n \in S
<1>1. PICK depth : Deep(f, depth)
  BY DEF Tree
<1> DEFINE Bad == {depth[n] : n \in InUse(f) \ S}
<1>2. \A n \in InUse(f) : depth[n] \in Nat
  BY <1>1, InUseFacts DEF Deep
<1>3. Bad \in SUBSET Nat
  BY <1>2
<1>4. ASSUME NEW n \in InUse(f) \ S PROVE FALSE
  <2>1. Bad # {}
    BY <1>4
  <2>2. PICK d \in Bad : \A e \in Bad : d <= e
    BY <1>3, <2>1, LeastNat
  <2>3. PICK m \in InUse(f) \ S : depth[m] = d
    BY <2>2
  <2>4. m \in InUse(f) \ {0}
    BY <2>3
  <2>5. f.nodes[m].parent \in InUse(f) /\ f.nodes[m].parent \notin S
    BY <2>3, <2>4, InUseFacts
  <2>6. depth[f.nodes[m].parent] < depth[m]
    BY <1>1, <2>4 DEF Deep
  <2>7. depth[f.nodes[m].parent] \in Bad
    BY <2>5
  <2> HIDE DEF Bad
  <2> QED
    BY <1>2, <2>2, <2>3, <2>5, <2>6, <2>7
<1> QED
  BY <1>4

LEMMA AppendsAgree ==
  ASSUME NEW S, NEW s \in Seq(S), NEW t \in Seq(S), NEW a \in S, NEW b \in S,
         Append(s, a) = Append(t, b)
  PROVE  s = t /\ a = b
<1>1. Len(Append(s, a)) = Len(s) + 1 /\ Len(Append(t, b)) = Len(t) + 1
  OBVIOUS
<1>2. Len(s) \in Nat /\ Len(t) \in Nat /\ Len(s) = Len(t)
  BY <1>1
<1>3. Append(s, a)[Len(s) + 1] = a /\ Append(t, b)[Len(t) + 1] = b
  OBVIOUS
<1>4. \A i \in 1 .. Len(s) : Append(s, a)[i] = s[i] /\ Append(t, b)[i] = t[i]
  BY <1>2
<1>5. \A i \in 1 .. Len(s) : s[i] = t[i]
  BY <1>4
<1>6. s = [i \in 1 .. Len(s) |-> s[i]] /\ t = [i \in 1 .. Len(t) |-> t[i]]
  OBVIOUS
<1> QED
  BY <1>2, <1>3, <1>5, <1>6

LEMMA AppendsAreNotEmpty ==
  ASSUME NEW S, NEW s \in Seq(S), NEW a \in S
  PROVE  /\ Append(s, a) # << >> /\ Append(s, a) \in Seq(S)
         /\ Len(Append(s, a)) = Len(s) + 1 /\ Len(s) \in Nat
<1>1. Len(Append(s, a)) = Len(s) + 1 /\ Len(<< >>) = 0 /\ Len(s) \in Nat /\ Append(s, a) \in Seq(S)
  OBVIOUS
<1> QED
  BY <1>1

LEMMA PlaceParts ==
  ASSUME NEW clean \in BOOLEAN, NEW f, Tree(f, {}, clean), NEW w, Places(f, w), NEW n \in InUse(f)
  PROVE  /\ w[n] \in Seq(Names) /\ w[0] = << >> /\ f.nodes[n].parent \in InUse(f)
         /\ n # 0 => /\ w[n] = Append(w[f.nodes[n].parent], f.nodes[n].name)
                     /\ f.nodes[n].name \in Names
                     /\ w[n] # << >>
<1>1. f.nodes[n].parent \in InUse(f) /\ (n # 0 => f.nodes[n].name \in Names)
  BY InUseFacts
<1>2. w[n] \in Seq(Names) /\ w[f.nodes[n].parent] \in Seq(Names) /\ w[0] = << >>
  BY <1>1 DEF Places
<1>3. n # 0 => w[n] = Append(w[f.nodes[n].parent], f.nodes[n].name)
  BY DEF Places
<1> QED
  BY <1>1, <1>2, <1>3, AppendsAreNotEmpty

\* There is one such way, ...
LEMMA PlacesAgree ==
  ASSUME NEW clean \in BOOLEAN, NEW f, Tree(f, {}, clean), NEW w, Places(f, w), NEW v, Places(f, v)
  PROVE  \A n \in InUse(f) : w[n] = v[n]
<1> DEFINE S == {n \in InUse(f) : w[n] = v[n]}
<1>1. 0 \in S
  BY InUseFacts DEF Places
<1>2. ASSUME NEW n \in InUse(f) \ {0}, f.nodes[n].parent \in S PROVE n \in S
  BY <1>2 DEF Places
<1> HIDE DEF S
<1>3. \A n \in InUse(f) : n \in S
  BY <1>1, <1>2, DownTheTree
<1> QED
  BY <1>3 DEF S

\* ... and it takes no two nodes to one place.
LEMMA PlacesApart ==
  ASSUME NEW f, Tree(f, {}, TRUE), NEW w, Places(f, w),
         NEW n \in InUse(f), NEW m \in InUse(f), w[n] = w[m]
  PROVE  n = m
<1> DEFINE Alone(x) == \A y \in InUse(f) : w[x] = w[y] => x = y
           S == {x \in InUse(f) : Alone(x)}
<1>1. 0 \in S
  <2>1. 0 \in InUse(f) /\ w[0] = << >>
    BY InUseFacts, PlaceParts
  <2>2. ASSUME NEW y \in InUse(f), w[0] = w[y] PROVE 0 = y
    <3>1. y # 0 => w[y] # << >>
      BY PlaceParts
    <3> QED
      BY <2>1, <2>2, <3>1
  <2> QED
    BY <2>1, <2>2
<1>2. ASSUME NEW x \in InUse(f) \ {0}, f.nodes[x].parent \in S PROVE x \in S
  <2> SUFFICES ASSUME NEW y \in InUse(f), w[x] = w[y] PROVE x = y
    OBVIOUS
  <2>1. w[x] = Append(w[f.nodes[x].parent], f.nodes[x].name) /\ f.nodes[x].name \in Names
        /\ w[x] # << >> /\ f.nodes[x].parent \in InUse(f) /\ w[f.nodes[x].parent] \in Seq(Names)
    BY PlaceParts
  <2>2. y # 0
    BY <2>1, PlaceParts
  <2>3. w[y] = Append(w[f.nodes[y].parent], f.nodes[y].name) /\ f.nodes[y].name \in Names
        /\ f.nodes[y].parent \in InUse(f) /\ w[f.nodes[y].parent] \in Seq(Names)
    BY <2>2, PlaceParts
  <2>4. w[f.nodes[x].parent] = w[f.nodes[y].parent] /\ f.nodes[x].name = f.nodes[y].name
    <3> DEFINE s == w[f.nodes[x].parent]
               t == w[f.nodes[y].parent]
               a == f.nodes[x].name
               b == f.nodes[y].name
    <3>1. s \in Seq(Names) /\ t \in Seq(Names) /\ a \in Names /\ b \in Names
          /\ Append(s, a) = Append(t, b)
      BY <2>1, <2>3
    <3> HIDE DEF s, t, a, b
    <3>2. s = t /\ a = b
      BY <3>1, AppendsAgree
    <3> QED
      BY <3>2 DEF s, t, a, b
  <2>5. f.nodes[x].parent = f.nodes[y].parent
    BY <1>2, <2>3, <2>4
  <2>6. NamesApart(f, Members(f, {})) /\ x \in Members(f, {}) /\ y \in Members(f, {})
    BY <2>2 DEF Tree, Members
  <2> QED
    BY <2>4, <2>5, <2>6 DEF NamesApart
<1> HIDE DEF S
<1>3. \A x \in InUse(f) : x \in S
  BY <1>1, <1>2, DownTheTree
<1> QED
  BY <1>3 DEF S

LEMMA UsedIsInUse ==
  ASSUME NEW f PROVE UsedNodes(f) = InUse(f)
BY DEF UsedNodes, InUse

LEMMA PathsAre ==
  ASSUME NEW clean \in BOOLEAN, NEW f, Tree(f, {}, clean), NEW w, Places(f, w), NEW n \in InUse(f)
  PROVE  vfs_path_of(f, n) = w[n]
<1> DEFINE v == [m \in InUse(f) |-> vfs_path_of(f, m)]
<1>1. Places(f, v)
  BY PathsArePlaces
<1>2. v[n] = vfs_path_of(f, n)
  OBVIOUS
<1> HIDE DEF v
<1> QED
  BY <1>1, <1>2, PlacesAgree

\* What the tree of paths shows.
Shows(f, w, t) ==
  /\ DOMAIN t = {w[n] : n \in InUse(f)}
  /\ \A n \in InUse(f) : t[w[n]] = Shown(f, n)

LEMMA TreeShows ==
  ASSUME NEW f, Tree(f, {}, TRUE), NEW w, Places(f, w)
  PROVE  Shows(f, w, TreeOf(f)) /\ TreeOf(f) = [p \in DOMAIN TreeOf(f) |-> TreeOf(f)[p]]
<1> DEFINE where == [n \in InUse(f) |-> vfs_path_of(f, n)]
           D == {where[n] : n \in InUse(f)}
           at(p) == CHOOSE n \in InUse(f) : where[n] = p
<1>1. TreeOf(f) = [p \in D |-> Shown(f, at(p))]
  <2>1. UsedNodes(f) = InUse(f)
    BY UsedIsInUse
  <2>2. TreeOf(f) = LET wh == [n \in InUse(f) |-> vfs_path_of(f, n)]
                    IN  [p \in {wh[n] : n \in InUse(f)} |->
                           Shown(f, CHOOSE n \in InUse(f) : wh[n] = p)]
    BY <2>1 DEF TreeOf
  <2> QED
    BY <2>2
<1>2. \A n \in InUse(f) : where[n] = w[n]
  BY PathsAre
<1>3. D = {w[n] : n \in InUse(f)}
  BY <1>2
<1> HIDE DEF where
<1>4. ASSUME NEW n \in InUse(f) PROVE w[n] \in D /\ at(w[n]) = n
  <2>1. at(w[n]) \in InUse(f) /\ where[at(w[n])] = w[n]
    BY <1>2
  <2>2. w[at(w[n])] = w[n]
    BY <1>2, <2>1
  <2> HIDE DEF at
  <2> QED
    BY <1>3, <2>1, <2>2, PlacesApart
<1> HIDE DEF D, at
<1>5. ASSUME NEW n \in InUse(f) PROVE TreeOf(f)[w[n]] = Shown(f, n)
  BY <1>1, <1>4
<1> QED
  BY <1>1, <1>3, <1>5 DEF Shows

LEMMA TreeIs ==
  ASSUME NEW f, Tree(f, {}, TRUE), NEW w, Places(f, w), NEW t, Shows(f, w, t),
         t = [p \in DOMAIN t |-> t[p]]
  PROVE  TreeOf(f) = t
<1> DEFINE u == TreeOf(f)
<1>1. Shows(f, w, u) /\ u = [p \in DOMAIN u |-> u[p]]
  BY TreeShows
<1> HIDE DEF u
<1>2. DOMAIN t = DOMAIN u /\ \A p \in DOMAIN t : t[p] = u[p]
  BY <1>1 DEF Shows
<1> QED
  BY <1>1, <1>2 DEF u

LEMMA EntryParts ==
  ASSUME NEW f, Tree(f, {}, TRUE), NEW w, Places(f, w), NEW n \in InUse(f) \ {0}
  PROVE  /\ w[n] = Append(w[f.nodes[n].parent], f.nodes[n].name)
         /\ f.nodes[n].name \in Names /\ f.nodes[n].parent \in InUse(f)
         /\ w[f.nodes[n].parent] \in Seq(Names) /\ w[n] # << >>
<1>1. f.nodes[n].parent \in InUse(f)
  BY PlaceParts
<1> QED
  BY <1>1, PlaceParts

ChildCalled(f, n, d, called) == n # 0 /\ f.nodes[n].parent = d /\ f.nodes[n].name = called
Enters(w, n, d, called) == w[n] = Append(w[d], called)

\* An entry is at its directory's place with its name at the end, ...
LEMMA EntryPlace ==
  ASSUME NEW f, Tree(f, {}, TRUE), NEW w, Places(f, w), NEW d \in InUse(f),
         NEW n \in InUse(f), NEW called, Enters(w, n, d, called)
  PROVE  ChildCalled(f, n, d, called)
<1> USE DEF Enters
<1> DEFINE S == Names \cup {called}
           q == w[d]
<1>1. q \in Seq(S)
  <2>1. w[d] \in Seq(Names)
    BY PlaceParts
  <2>2. Seq(Names) \in SUBSET Seq(S)
    BY SeqGrows
  <2> QED
    BY <2>1, <2>2
<1>2. Append(q, called) # << >>
  BY <1>1, AppendsAreNotEmpty
<1>3. n # 0
  <2>1. w[0] = << >>
    BY PlaceParts
  <2> QED
    BY <1>2, <2>1
<1> DEFINE p == w[f.nodes[n].parent]
           a == f.nodes[n].name
<1>4. w[n] = Append(p, a) /\ a \in Names /\ f.nodes[n].parent \in InUse(f) /\ p \in Seq(Names)
  <2>1. n \in InUse(f) \ {0}
    BY <1>3
  <2> QED
    BY <2>1, EntryParts
<1>5. p \in Seq(S)
  <2>1. p \in Seq(Names)
    BY <1>4
  <2>2. Seq(Names) \in SUBSET Seq(S)
    BY SeqGrows
  <2> QED
    BY <2>1, <2>2
<1>6. p = q /\ a = called
  <2>1. a \in S /\ called \in S /\ Append(p, a) = Append(q, called)
    BY <1>4
  <2> HIDE DEF p, q, a, S
  <2> QED
    BY <1>1, <1>5, <2>1, AppendsAgree
<1>7. f.nodes[n].parent = d
  BY <1>4, <1>6, PlacesApart
<1> QED
  BY <1>3, <1>6, <1>7 DEF ChildCalled

\* ... and vfs_child_named finds it if it is there.
LEMMA NamedPlace ==
  ASSUME NEW f, Tree(f, {}, TRUE), NEW w, Places(f, w), NEW d \in InUse(f), NEW called
  PROVE  LET found == vfs_child_named(f, d, called)
         IN  /\ found # VFS_NONE => found \in InUse(f) \ {0} /\ Enters(w, found, d, called)
             /\ found = VFS_NONE => \A n \in InUse(f) : ~Enters(w, n, d, called)
<1> DEFINE found == vfs_child_named(f, d, called)
<1>1. /\ found # VFS_NONE => /\ found \in Members(f, {})
                             /\ f.nodes[found].parent = d
                             /\ f.nodes[found].name = called
      /\ found = VFS_NONE => \A n \in Members(f, {}) : f.nodes[n].parent = d
                                                         => f.nodes[n].name # called
  <2>1. found # VFS_NONE => /\ found \in Members(f, {})
                            /\ f.nodes[found].parent = d
                            /\ f.nodes[found].name = called
    BY NameIsFound
  <2>2. ASSUME vfs_child_named(f, d, called) = VFS_NONE
        PROVE  \A n \in Members(f, {}) : f.nodes[n].parent = d => f.nodes[n].name # called
    BY <2>2, NameIsFound
  <2> QED
    BY <2>1, <2>2
<1> HIDE DEF found
<1>2. found # VFS_NONE => found \in InUse(f) \ {0} /\ Enters(w, found, d, called)
  <2> SUFFICES ASSUME found # VFS_NONE
               PROVE  found \in InUse(f) \ {0} /\ Enters(w, found, d, called)
    OBVIOUS
  <2>1. found \in InUse(f) \ {0}
    BY <1>1 DEF Members
  <2> QED
    BY <1>1, <2>1 DEF Places, Enters
<1>3. ASSUME found = VFS_NONE, NEW n \in InUse(f), Enters(w, n, d, called)
      PROVE  FALSE
  <2>0. Enters(w, n, d, called)
    BY <1>3 DEF Enters
  <2>1. n # 0 /\ f.nodes[n].parent = d /\ f.nodes[n].name = called
    <3>1. ChildCalled(f, n, d, called)
      BY <2>0, EntryPlace
    <3> QED
      BY <3>1 DEF ChildCalled
  <2>2. n \in Members(f, {})
    BY <2>1 DEF Members
  <2> QED
    BY <1>1, <1>3, <2>1, <2>2
<1> QED
  BY <1>2, <1>3 DEF found

LEMMA AppendFront ==
  ASSUME NEW S, NEW s \in Seq(S), NEW a \in S
  PROVE  SubSeq(Append(s, a), 1, Len(Append(s, a)) - 1) = s
<1>1. Len(Append(s, a)) - 1 = Len(s) /\ Len(s) \in Nat
  OBVIOUS
<1>2. SubSeq(Append(s, a), 1, Len(s)) = [i \in 1 .. Len(s) |-> Append(s, a)[i]]
  OBVIOUS
<1>3. \A i \in 1 .. Len(s) : Append(s, a)[i] = s[i]
  OBVIOUS
<1>4. s = [i \in 1 .. Len(s) |-> s[i]]
  OBVIOUS
<1> QED
  BY <1>1, <1>2, <1>3, <1>4

----------------------------------------------------------------------------
(* Following a path *)

NoPlace == <<"">>

\* One component followed in the tree of paths.
Onward(t, p, comp) ==
  IF p = NoPlace THEN NoPlace
  ELSE IF comp = "." THEN p
  ELSE IF comp = ".." THEN IF p = << >> THEN << >> ELSE SubSeq(p, 1, Len(p) - 1)
  ELSE IF t[p].kind = "FILE" \/ Append(p, comp) \notin DOMAIN t THEN NoPlace
  ELSE Append(p, comp)

\* The place of a node, and no place for no node.
Spot(w, at) == IF at = VFS_NONE THEN NoPlace ELSE w[at]

LEMMA PlacesAreSomewhere ==
  ASSUME NEW clean \in BOOLEAN, NEW f, Tree(f, {}, clean), NEW w, Places(f, w), NEW n \in InUse(f)
  PROVE  w[n] # NoPlace /\ n # VFS_NONE
<1>1. w[n] \in Seq(Names)
  BY PlaceParts
<1>2. ASSUME w[n] = NoPlace PROVE FALSE
  <2>1. Len(NoPlace) = 1
    BY DEF NoPlace
  <2>4. NoPlace[1] = ""
    BY DEF NoPlace
  <2>2. NoPlace \in Seq(Names)
    BY <1>1, <1>2
  <2>3. NoPlace[1] \in Names
    <3>1. 1 \in 1 .. Len(NoPlace)
      BY <2>1
    <3> HIDE <1>2
    <3> QED
      BY <3>1, <2>2
  <2> QED
    BY <2>3, <2>4, NamesAssumption
<1> QED
  BY <1>2, NodesAreNumbers DEF InUse

LeadsAlong(f, w, t, at, comp) ==
  Onward(t, Spot(w, at), comp) = Spot(w, WalkInto(f, at, comp))

\* A component leads in the tree of paths where it leads in the table.
LEMMA OnwardIsWalk ==
  ASSUME NEW f, Tree(f, {}, TRUE), NEW w, Places(f, w), NEW t, Shows(f, w, t),
         NEW at \in InUse(f) \cup {VFS_NONE}, NEW comp
  PROVE  /\ WalkInto(f, at, comp) \in InUse(f) \cup {VFS_NONE}
         /\ LeadsAlong(f, w, t, at, comp)
<1> USE DEF LeadsAlong
<1>1. CASE at = VFS_NONE
  BY <1>1 DEF WalkInto, Onward, Spot
<1>2. CASE at \in InUse(f)
  <2>1. w[at] # NoPlace /\ at # VFS_NONE /\ Spot(w, at) = w[at]
    BY <1>2, PlacesAreSomewhere DEF Spot
  <2>2. CASE comp = "."
    BY <1>2, <2>1, <2>2 DEF WalkInto, Onward
  <2>3. CASE comp = ".."
    <3> DEFINE up == f.nodes[at].parent
    <3>1. up \in InUse(f) /\ (at = 0 => up = 0)
      BY <1>2, InUseFacts
    <3>2. WalkInto(f, at, comp) = up
      BY <2>1, <2>3 DEF WalkInto
    <3>3. Spot(w, up) = w[up]
      BY <3>1, PlacesAreSomewhere DEF Spot
    <3>4. Onward(t, w[at], comp) = IF w[at] = << >> THEN << >>
                                   ELSE SubSeq(w[at], 1, Len(w[at]) - 1)
      BY <2>1, <2>3 DEF Onward
    <3>5. CASE at = 0
      <4>1. w[0] = << >>
        BY <1>2, PlaceParts
      <4> QED
        BY <2>1, <3>1, <3>2, <3>3, <3>4, <3>5, <4>1
    <3>6. CASE at # 0
      <4> DEFINE a == f.nodes[at].name
      <4>1. w[at] = Append(w[up], a) /\ a \in Names /\ w[at] # << >>
        <5>1. at \in InUse(f) \ {0}
          BY <1>2, <3>6
        <5> QED
          BY <5>1, EntryParts
      <4>2. w[up] \in Seq(Names)
        BY <3>1, PlaceParts
      <4> HIDE DEF a, up
      <4>3. SubSeq(w[at], 1, Len(w[at]) - 1) = w[up]
        BY <4>1, <4>2, AppendFront
      <4> QED
        BY <2>1, <3>1, <3>2, <3>3, <3>4, <4>1, <4>3
    <3> QED
      BY <3>5, <3>6
  <2>4. CASE comp # "." /\ comp # ".."
    <3>1. t[w[at]].kind = f.nodes[at].kind /\ f.nodes[at].kind \in {"DIR", "FILE"}
      <4>1. t[w[at]] = Shown(f, at)
        BY <1>2 DEF Shows
      <4>2. f.nodes[at].kind \in Kinds
        BY <1>2, InUseFacts
      <4> QED
        BY <4>1, <4>2 DEF Shown, Kinds
    <3>2. WalkInto(f, at, comp) = IF f.nodes[at].kind # "DIR" THEN VFS_NONE
                                  ELSE vfs_child_named(f, at, comp)
      BY <2>1, <2>4 DEF WalkInto
    <3>3. Onward(t, w[at], comp) =
            IF t[w[at]].kind = "FILE" \/ Append(w[at], comp) \notin DOMAIN t THEN NoPlace
            ELSE Append(w[at], comp)
      BY <2>1, <2>4 DEF Onward
    <3>4. CASE f.nodes[at].kind # "DIR"
      BY <2>1, <3>1, <3>2, <3>3, <3>4 DEF Spot
    <3>5. CASE f.nodes[at].kind = "DIR"
      <4> DEFINE found == vfs_child_named(f, at, comp)
      <4>1. /\ found # VFS_NONE => found \in InUse(f) \ {0} /\ w[found] = Append(w[at], comp)
            /\ found = VFS_NONE => \A n \in InUse(f) : w[n] # Append(w[at], comp)
        <5>1. found # VFS_NONE => found \in InUse(f) \ {0} /\ Enters(w, found, at, comp)
          BY <1>2, NamedPlace
        <5>2. ASSUME found = VFS_NONE, NEW n \in InUse(f) PROVE ~Enters(w, n, at, comp)
          BY <1>2, <5>2, NamedPlace
        <5> QED
          BY <5>1, <5>2 DEF Enters
      <4>2. WalkInto(f, at, comp) = found
        BY <3>2, <3>5
      <4>3. DOMAIN t = {w[n] : n \in InUse(f)}
        BY DEF Shows
      <4> HIDE DEF found
      <4>4. CASE found = VFS_NONE
        <5>1. Append(w[at], comp) \notin DOMAIN t
          BY <4>1, <4>3, <4>4
        <5> QED
          BY <2>1, <3>3, <4>2, <4>4, <5>1 DEF Spot
      <4>5. CASE found # VFS_NONE
        <5>1. Append(w[at], comp) \in DOMAIN t
          BY <4>1, <4>3, <4>5
        <5> QED
          BY <2>1, <3>1, <3>3, <3>5, <4>1, <4>2, <4>5, <5>1 DEF Spot
      <4> QED
        BY <4>4, <4>5
    <3> QED
      BY <3>4, <3>5
  <2> QED
    BY <2>2, <2>3, <2>4
<1> QED
  BY <1>1, <1>2

LEMMA WalkSteps ==
  ASSUME NEW clean \in BOOLEAN, NEW f, Tree(f, {}, clean), NEW path \in PathType
  PROVE  /\ WalkTo(f, path, 0) = IF path.root THEN 0 ELSE f.cwd
         /\ \A k \in Nat : k + 1 \in DOMAIN path.comps =>
              WalkTo(f, path, k + 1) = WalkInto(f, WalkTo(f, path, k), path.comps[k + 1])
<1> DEFINE step == [k \in Nat |-> [at \in Link |->
                      IF k \in DOMAIN path.comps THEN WalkInto(f, at, path.comps[k])
                      ELSE at]]
           start == IF path.root THEN 0 ELSE f.cwd
           v == Iterate(step, start)
<1>1. f \in FsType
  BY DEF Tree
<1>2. step \in [Nat -> [Link -> Link]]
  BY <1>1, WalkIntoType
<1>3. start \in Link
  BY <1>1, FsParts, NodesAreNumbers
<1>4. \A k \in Nat : WalkTo(f, path, k) = v[k]
  BY DEF WalkTo
<1>5. \A k \in Nat, at \in Link : k + 1 \in DOMAIN path.comps =>
        step[k + 1][at] = WalkInto(f, at, path.comps[k + 1])
  OBVIOUS
<1>6. WalkTo(f, path, 0) = v[0]
  BY <1>4
<1> HIDE DEF step, start
<1>7. v \in [Nat -> Link] /\ v[0] = start /\ \A k \in Nat : v[k + 1] = step[k + 1][v[k]]
  BY <1>2, <1>3, IterateWalks
<1> HIDE DEF v
<1>8. ASSUME NEW k \in Nat, k + 1 \in DOMAIN path.comps
      PROVE  WalkTo(f, path, k + 1) = WalkInto(f, WalkTo(f, path, k), path.comps[k + 1])
  <2>1. v[k] \in Link /\ k + 1 \in Nat
    BY <1>7
  <2> QED
    BY <1>4, <1>5, <1>7, <1>8, <2>1
<1> QED
  BY <1>6, <1>7, <1>8 DEF start

\* Where every node is.
W(f) == [n \in InUse(f) |-> vfs_path_of(f, n)]

\* The tree of paths and the places of its nodes, of a filesystem in order.
LEMMA Views ==
  ASSUME NEW f, Tree(f, {}, TRUE)
  PROVE  /\ Places(f, W(f)) /\ Shows(f, W(f), TreeOf(f))
         /\ \A n \in InUse(f) : W(f)[n] = vfs_path_of(f, n)
<1>1. Places(f, W(f))
  <2>1. TRUE \in BOOLEAN
    OBVIOUS
  <2> QED
    BY <2>1, PathsArePlaces DEF W
<1> QED
  BY <1>1, TreeShows DEF W

LEMMA FollowIs ==
  ASSUME NEW p, NEW comp
  PROVE  Promised!Follow(p, comp) = Onward(TreeOf(fs), p, comp)
<1>1. Promised!Up(p) = IF p = << >> THEN << >> ELSE SubSeq(p, 1, Len(p) - 1)
  BY DEF Promised!Up, Promised!Root, Promised!Front
<1> QED
  BY <1>1 DEF Promised!Follow, Promised!Nowhere, Onward, NoPlace

LEMMA StartIs ==
  ASSUME Tree(fs, {}, TRUE), NEW path \in PathType
  PROVE  Promised!Start(path) = Spot(W(fs), WalkTo(fs, path, 0))
<1>1. WalkTo(fs, path, 0) = IF path.root THEN 0 ELSE fs.cwd
  BY WalkSteps
<1>2. 0 \in InUse(fs) /\ fs.cwd \in InUse(fs)
  BY InUseFacts
<1>3. W(fs)[0] = << >> /\ W(fs)[fs.cwd] = vfs_path_of(fs, fs.cwd)
  BY <1>2, Views DEF Places
<1>4. 0 # VFS_NONE /\ fs.cwd # VFS_NONE
  BY <1>2, NodesAreNumbers DEF InUse
<1> QED
  BY <1>1, <1>3, <1>4 DEF Promised!Start, Promised!Root, Spot

\* Where the first components of a path lead in the table they lead in the tree.
LEMMA LeadIs ==
  ASSUME Tree(fs, {}, TRUE), NEW path \in PathType
  PROVE  \A k \in 0 .. Len(path.comps) : Promised!Lead(path)[k] = Spot(W(fs), WalkTo(fs, path, k))
<1> DEFINE w == W(fs)
           len == Len(path.comps)
           start == Promised!Start(path)
           f == [k \in 0 .. len |-> Spot(w, WalkTo(fs, path, k))]
           Rec(to) == to = [k \in 0 .. len |-> IF k = 0 THEN start
                                     ELSE Promised!Follow(to[k - 1], path.comps[k])]
           T == InUse(fs) \cup {VFS_NONE}
<1>1. path.comps \in Seq(Components) /\ len \in Nat /\ DOMAIN path.comps = 1 .. len
  BY DEF PathType
<1>2. Places(fs, w) /\ Shows(fs, w, TreeOf(fs))
  BY Views
<1>3. start = Spot(w, WalkTo(fs, path, 0))
  BY StartIs
<1>4. WalkTo(fs, path, 0) \in T
  BY WalkSteps, InUseFacts
<1>5. \A k \in Nat : k + 1 \in 1 .. len =>
        WalkTo(fs, path, k + 1) = WalkInto(fs, WalkTo(fs, path, k), path.comps[k + 1])
  BY <1>1, WalkSteps
<1>6. \A at \in T : \A comp : /\ WalkInto(fs, at, comp) \in T
                          /\ Promised!Follow(Spot(w, at), comp) = Spot(w, WalkInto(fs, at, comp))
  <2> SUFFICES ASSUME NEW at \in T, NEW comp
               PROVE  /\ WalkInto(fs, at, comp) \in T
                      /\ Promised!Follow(Spot(w, at), comp) = Spot(w, WalkInto(fs, at, comp))
    OBVIOUS
  <2>1. Promised!Follow(Spot(w, at), comp) = Onward(TreeOf(fs), Spot(w, at), comp)
    BY FollowIs
  <2> HIDE DEF w
  <2>2. /\ WalkInto(fs, at, comp) \in T
        /\ Onward(TreeOf(fs), Spot(w, at), comp) = Spot(w, WalkInto(fs, at, comp))
    <3> DEFINE t == TreeOf(fs)
    <3>1. Shows(fs, w, t) /\ Places(fs, w)
      BY <1>2
    <3> HIDE DEF t
    <3>2. WalkInto(fs, at, comp) \in T
      BY <3>1, OnwardIsWalk
    <3>3. LeadsAlong(fs, w, t, at, comp)
      BY <3>1, OnwardIsWalk
    <3> QED
      BY <3>2, <3>3 DEF t, LeadsAlong
  <2> QED
    BY <2>1, <2>2
<1> HIDE DEF w, T
<1>7. \A k \in 0 .. len : WalkTo(fs, path, k) \in T
  <2> DEFINE Bad == {k \in 0 .. len : WalkTo(fs, path, k) \notin T}
  <2> SUFFICES ASSUME Bad # {} PROVE FALSE
    OBVIOUS
  <2>1. Bad \in SUBSET Nat
    BY <1>1
  <2>2. PICK k \in Bad : \A i \in Bad : k <= i
    BY <2>1, LeastNat
  <2>3. k # 0
    BY <1>4
  <2>4. k - 1 \in Nat /\ k - 1 \in 0 .. len /\ (k - 1) + 1 = k /\ k \in 1 .. len /\ k - 1 \notin Bad
    BY <1>1, <2>2, <2>3
  <2>5. WalkTo(fs, path, k) = WalkInto(fs, WalkTo(fs, path, k - 1), path.comps[k])
    BY <1>5, <2>4
  <2>6. WalkTo(fs, path, k - 1) \in T
    BY <2>4
  <2> QED
    BY <1>6, <2>2, <2>5, <2>6
<1>8. Rec(f)
  <2>1. ASSUME NEW k \in 0 .. len
        PROVE  f[k] = IF k = 0 THEN start ELSE Promised!Follow(f[k - 1], path.comps[k])
    <3>1. CASE k = 0
      BY <1>3, <3>1
    <3>2. CASE k # 0
      <4>1. k - 1 \in Nat /\ k - 1 \in 0 .. len /\ (k - 1) + 1 = k /\ k \in 1 .. len
        BY <1>1, <3>2
      <4>2. WalkTo(fs, path, k) = WalkInto(fs, WalkTo(fs, path, k - 1), path.comps[k])
        BY <1>5, <4>1
      <4>3. WalkTo(fs, path, k - 1) \in T
        BY <1>7, <4>1
      <4>4. f[k] = Spot(w, WalkTo(fs, path, k)) /\ f[k - 1] = Spot(w, WalkTo(fs, path, k - 1))
        BY <4>1
      <4> HIDE DEF f
      <4> QED
        BY <1>6, <3>2, <4>2, <4>3, <4>4
    <3> QED
      BY <3>1, <3>2
  <2>2. f = [k \in 0 .. len |-> f[k]]
    OBVIOUS
  <2> HIDE DEF f
  <2> QED
    BY <2>1, <2>2
<1>9. Promised!Lead(path) = CHOOSE to : Rec(to)
  BY DEF Promised!Lead
<1> DEFINE v == Promised!Lead(path)
<1>10. Rec(v)
  <2> HIDE DEF Rec, f
  <2> QED
    BY <1>8, <1>9
<1>11. \A k \in 0 .. len : v[k] = f[k]
  <2> HIDE DEF v, f
  <2>1. \A k \in 0 .. len : v[k] = IF k = 0 THEN start
                                   ELSE Promised!Follow(v[k - 1], path.comps[k])
    BY <1>10
  <2>2. \A k \in 0 .. len : f[k] = IF k = 0 THEN start
                                   ELSE Promised!Follow(f[k - 1], path.comps[k])
    BY <1>8
  <2> HIDE DEF Rec
  <2> DEFINE Bad == {k \in 0 .. len : v[k] # f[k]}
  <2> SUFFICES ASSUME Bad # {} PROVE FALSE
    OBVIOUS
  <2>3. Bad \in SUBSET Nat
    BY <1>1
  <2>4. PICK k \in Bad : \A i \in Bad : k <= i
    BY <2>3, LeastNat
  <2>5. k # 0
    BY <1>1, <2>1, <2>2
  <2>6. k - 1 \in 0 .. len /\ k - 1 \notin Bad
    BY <1>1, <2>4, <2>5
  <2>7. v[k - 1] = f[k - 1]
    BY <2>6
  <2> QED
    BY <2>1, <2>2, <2>4, <2>5, <2>7
<1> QED
  BY <1>11 DEF w

LEMMA AtIs ==
  ASSUME Tree(fs, {}, TRUE), NEW path \in PathType
  PROVE  Promised!At(path) = Spot(W(fs), vfs_resolve(fs, path))
<1>1. Len(path.comps) \in 0 .. Len(path.comps)
  BY DEF PathType
<1> QED
  BY <1>1, LeadIs DEF Promised!At, vfs_resolve

LEMMA InIs ==
  ASSUME Tree(fs, {}, TRUE), NEW path \in PathType
  PROVE  Promised!In(path) = Spot(W(fs), ParentOf(fs, path))
<1> DEFINE k == IF path.comps = << >> THEN 0 ELSE Len(path.comps) - 1
<1>1. k \in 0 .. Len(path.comps)
  <2>1. path.comps \in Seq(Components)
    BY DEF PathType
  <2> QED
    BY <2>1
<1>2. Promised!In(path) = Promised!Lead(path)[k] /\ ParentOf(fs, path) = WalkTo(fs, path, k)
  BY DEF Promised!In, ParentOf
<1> HIDE DEF k
<1> QED
  BY <1>1, <1>2, LeadIs

\* What stands in the way of a new entry is the same in both.
LEMMA TakenIs ==
  ASSUME Tree(fs, {}, TRUE), NEW path \in PathType
  PROVE  /\ Promised!Taken(path) = PlaceRefused(fs, path)
         /\ PlaceRefused(fs, path) = "OK" =>
              /\ Promised!New(path) = Append(W(fs)[ParentOf(fs, path)], LastName(path))
              /\ path.comps # << >>
<1> DEFINE w == W(fs)
           parent == ParentOf(fs, path)
           last == LastName(path)
           t == TreeOf(fs)
<1>1. Promised!In(path) = Spot(w, parent) /\ parent \in InUse(fs) \cup {VFS_NONE}
  BY InIs, PathsLeadToEntries
<1>2. path.comps = << >> => last = "" /\ last \notin Names
  BY NamesAssumption DEF LastName
<1>3. path.comps # << >> => last = Promised!Last(path.comps)
  BY DEF LastName, Promised!Last
<1>4. Promised!Taken(path) =
        IF Spot(w, parent) = NoPlace THEN "NOT_FOUND"
        ELSE IF t[Spot(w, parent)].kind = "FILE" THEN "NOT_A_DIRECTORY"
        ELSE IF last \notin Names THEN "BAD_NAME"
        ELSE IF Append(Spot(w, parent), last) \in DOMAIN t THEN "EXISTS"
        ELSE "OK"
  <2>1. path.comps # << >> => Promised!New(path) = Append(Spot(w, parent), last)
    BY <1>1, <1>3 DEF Promised!New
  <2> HIDE DEF w, parent, last, t
  <2> QED
    BY <1>1, <1>2, <1>3, <2>1 DEF Promised!Taken, Promised!Nowhere, NoPlace, t
<1>5. PlaceRefused(fs, path) =
        IF parent = VFS_NONE THEN "NOT_FOUND"
        ELSE IF fs.nodes[parent].kind # "DIR" THEN "NOT_A_DIRECTORY"
        ELSE IF last \notin Names THEN "BAD_NAME"
        ELSE IF vfs_child_named(fs, parent, last) # VFS_NONE THEN "EXISTS"
        ELSE "OK"
  BY DEF PlaceRefused, vfs_usable_name
<1>6. Places(fs, w) /\ Shows(fs, w, t)
  BY Views
<1>7. path.comps # << >> => Promised!New(path) = Append(Spot(w, parent), last)
  BY <1>1, <1>3 DEF Promised!New
<1> HIDE DEF w, parent, last, t
<1>8. CASE parent = VFS_NONE
  BY <1>4, <1>5, <1>8 DEF Spot
<1>9. CASE parent \in InUse(fs)
  <2>1. w[parent] # NoPlace /\ parent # VFS_NONE /\ Spot(w, parent) = w[parent]
    BY <1>6, <1>9, PlacesAreSomewhere DEF Spot
  <2>2. t[w[parent]].kind = fs.nodes[parent].kind /\ fs.nodes[parent].kind \in {"DIR", "FILE"}
    <3>1. t[w[parent]] = Shown(fs, parent)
      BY <1>6, <1>9 DEF Shows
    <3>2. fs.nodes[parent].kind \in Kinds
      BY <1>9, InUseFacts
    <3> QED
      BY <3>1, <3>2 DEF Shown, Kinds
  <2> DEFINE found == vfs_child_named(fs, parent, last)
  <2>3. found # VFS_NONE <=> Append(w[parent], last) \in DOMAIN t
    <3>1. found # VFS_NONE => found \in InUse(fs) \ {0} /\ Enters(w, found, parent, last)
      BY <1>6, <1>9, NamedPlace
    <3>2. ASSUME found = VFS_NONE, NEW n \in InUse(fs) PROVE ~Enters(w, n, parent, last)
      BY <1>6, <1>9, <3>2, NamedPlace
    <3>3. DOMAIN t = {w[n] : n \in InUse(fs)}
      BY <1>6 DEF Shows
    <3> HIDE DEF found
    <3> QED
      BY <3>1, <3>2, <3>3 DEF Enters
  <2> HIDE DEF found
  <2>4. Promised!Taken(path) = PlaceRefused(fs, path)
    BY <1>4, <1>5, <2>1, <2>2, <2>3 DEF found
  <2>5. PlaceRefused(fs, path) = "OK" => path.comps # << >>
    BY <1>2, <1>5
  <2> QED
    BY <1>7, <2>1, <2>4, <2>5 DEF w, parent, last
<1> QED
  BY <1>1, <1>8, <1>9

MapsOnto(h, S, T) ==
  /\ h \in [S -> T]
  /\ \A a, b \in S : h[a] = h[b] => a = b
  /\ \A y \in T : \E x \in S : h[x] = y

LEMMA Matched ==
  ASSUME NEW S, NEW T, NEW h, MapsOnto(h, S, T), IsFiniteSet(S)
  PROVE  IsFiniteSet(T) /\ Cardinality(T) = Cardinality(S)
<1>1. h \in Bijection(S, T)
  BY DEF MapsOnto, Bijection, Injection, Surjection, IsInjective
<1>2. ExistsBijection(S, T)
  BY <1>1 DEF ExistsBijection
<1> QED
  BY <1>2, FS_Bijection

\* The tree of paths has as many entries as the table has nodes in use.
LEMMA RoomIs ==
  ASSUME NEW f, Tree(f, {}, TRUE)
  PROVE  Cardinality(DOMAIN TreeOf(f)) = VFS_MAX_NODES <=> FreeNodes(f) = {}
<1> DEFINE w == W(f)
           S == InUse(f)
           T == {w[n] : n \in S}
<1>1. Places(f, w) /\ DOMAIN TreeOf(f) = T /\ S \in SUBSET Nodes /\ 0 \in S
  BY Views, InUseFacts DEF Shows
<1>2. IsFiniteSet(Nodes) /\ Cardinality(Nodes) = VFS_MAX_NODES
  <2>1. VFS_MAX_NODES \in Nat /\ VFS_MAX_NODES > 0
    BY SizesAssumption
  <2> QED
    BY <2>1, FS_Interval DEF Nodes
<1>3. IsFiniteSet(S)
  BY <1>1, <1>2, FS_Subset
<1>4. Cardinality(T) = Cardinality(S)
  <2> DEFINE h == [n \in S |-> w[n]]
  <2>1. MapsOnto(h, S, T)
    <3>1. \A n, m \in S : w[n] = w[m] => n = m
      BY <1>1, PlacesApart
    <3> HIDE DEF w, S
    <3> QED
      BY <3>1 DEF MapsOnto
  <2> HIDE DEF S, T, h
  <2> QED
    BY <1>3, <2>1, Matched
<1>5. Cardinality(S) = VFS_MAX_NODES <=> S = Nodes
  <2> HIDE DEF S
  <2> QED
    BY <1>1, <1>2, FS_Subset
<1>6. S = Nodes <=> FreeNodes(f) = {}
  BY <1>1 DEF InUse, FreeNodes
<1> HIDE DEF S, T
<1> QED
  BY <1>1, <1>4, <1>5, <1>6

\* Every block marked in the bitmap is one of those the texts in the tree need.
LEMMA UsedIsMarked ==
  ASSUME NEW f, Orderly(f, TRUE)
  PROVE  /\ IsFiniteSet(Promised!BlocksUsed(TreeOf(f)))
         /\ Cardinality(Promised!BlocksUsed(TreeOf(f))) + Cardinality(Free(f)) = VFS_MAX_BLOCKS
         /\ Cardinality(Promised!BlocksUsed(TreeOf(f))) \in Nat
<1> DEFINE w == W(f)
           t == TreeOf(f)
           Owned == {c \in Nodes \X Slots : f.nodes[c[1]].blocks[c[2]] # VFS_NONE}
           Marked == {b \in Blocks : f.block_used[b]}
           Needed == Promised!BlocksUsed(t)
           held == [c \in Owned |-> f.nodes[c[1]].blocks[c[2]]]
           need == [c \in Owned |-> <<w[c[1]], c[2] + 1>>]
<1>1. Tree(f, {}, TRUE) /\ WellKept(f) /\ NothingSpare(f) /\ Filed(f, TRUE)
  BY DEF Orderly, Settled
<1>2. f \in FsType /\ \A n \in Nodes : f.nodes[n].blocks \in [Slots -> Blocks \cup {VFS_NONE}]
  BY <1>1, FsParts DEF Tree
<1>3. IsFiniteSet(Owned)
  <2>1. IsFiniteSet(Nodes) /\ IsFiniteSet(Slots)
    BY SizesAssumption, FS_Interval DEF Nodes, Slots
  <2>2. IsFiniteSet(Nodes \X Slots)
    BY <2>1, FS_Product
  <2> QED
    BY <2>2, FS_Subset
<1>4. MapsOnto(held, Owned, Marked)
  <2>1. \A c \in Owned : /\ f.nodes[c[1]].blocks[c[2]] \in Blocks
                         /\ f.block_used[f.nodes[c[1]].blocks[c[2]]]
    BY <1>1, <1>2 DEF WellKept, OwnedIsMarked
  <2>2. \A c, d \in Owned : f.nodes[c[1]].blocks[c[2]] = f.nodes[d[1]].blocks[d[2]] => c = d
    <3> SUFFICES ASSUME NEW c \in Owned, NEW d \in Owned,
                        f.nodes[c[1]].blocks[c[2]] = f.nodes[d[1]].blocks[d[2]]
                 PROVE  c = d
      OBVIOUS
    <3>1. c[1] \in Nodes /\ c[2] \in Slots /\ d[1] \in Nodes /\ d[2] \in Slots
          /\ c = <<c[1], c[2]>> /\ d = <<d[1], d[2]>>
      OBVIOUS
    <3>2. f.nodes[c[1]].blocks[c[2]] # VFS_NONE
      OBVIOUS
    <3>3. c[1] = d[1] /\ c[2] = d[2]
      BY <1>1, <3>1, <3>2 DEF WellKept, OwnersAreApart
    <3> QED
      BY <3>1, <3>3
  <2>3. \A b \in Marked : \E c \in Owned : f.nodes[c[1]].blocks[c[2]] = b
    <3> TAKE b \in Marked
    <3>1. PICK n \in Nodes, i \in Slots : f.nodes[n].blocks[i] = b
      BY <1>1 DEF Filed, MarkedIsOwned
    <3>2. b # VFS_NONE
      BY SizesAssumption DEF Blocks, VFS_NONE
    <3>3. <<n, i>> \in Owned /\ <<n, i>>[1] = n /\ <<n, i>>[2] = i
      BY <3>1, <3>2
    <3> QED
      BY <3>1, <3>3
  <2>4. held \in [Owned -> Marked]
    BY <2>1
  <2> HIDE DEF Owned, Marked
  <2> QED
    BY <2>2, <2>3, <2>4 DEF MapsOnto
<1>5. \A n \in Nodes : Promised!BlocksFor(contents(f, n)) = vfs_blocks_for(f.nodes[n].length)
  <2> TAKE n \in Nodes
  <2>1. f.nodes[n].length \in Nat
    BY <1>2, FsParts
  <2>2. Len(contents(f, n)) = f.nodes[n].length
    BY <2>1 DEF contents
  <2> QED
    BY <2>2 DEF Promised!BlocksFor, vfs_blocks_for
<1>6. \A n \in InUse(f), i \in Slots :
         f.nodes[n].blocks[i] # VFS_NONE <=> i + 1 \in 1 .. vfs_blocks_for(f.nodes[n].length)
  <2> TAKE n \in InUse(f), i \in Slots
  <2>1. n \in Nodes /\ f.nodes[n].used /\ f.nodes[n].length \in Nat
    BY <1>2, FsParts DEF InUse
  <2>2. i \in Nat
    BY DEF Slots
  <2>3. f.nodes[n].blocks[i] # VFS_NONE <=> i * VFS_BLOCK < f.nodes[n].length
    BY <1>1, <2>1 DEF WellKept, BytesHaveBlocks, NothingSpare
  <2>4. i * VFS_BLOCK < f.nodes[n].length <=> i < vfs_blocks_for(f.nodes[n].length)
    BY <2>1, <2>2, BlocksForIsEnough, BlocksForIsTight
  <2>5. vfs_blocks_for(f.nodes[n].length) \in Nat
    BY <2>1, BlocksForType
  <2> QED
    BY <2>2, <2>3, <2>4, <2>5
<1>7. \A n \in InUse(f) : \A k \in 1 .. vfs_blocks_for(f.nodes[n].length) : k - 1 \in Slots
  <2> TAKE n \in InUse(f)
  <2> TAKE k \in 1 .. vfs_blocks_for(f.nodes[n].length)
  <2>1. f.nodes[n].length \in Nat /\ f.nodes[n].length <= VFS_FILE_MAX
    BY <1>1, <1>2, FsParts DEF InUse, WellKept, BytesHaveBlocks
  <2>2. vfs_blocks_for(f.nodes[n].length) \in Nat
    BY <2>1, BlocksForType
  <2>3. k - 1 \in Nat /\ k - 1 < vfs_blocks_for(f.nodes[n].length)
    BY <2>2
  <2>4. (k - 1) * VFS_BLOCK < f.nodes[n].length
    BY <2>1, <2>3, BlocksForIsTight
  <2>5. (k - 1) * VFS_BLOCK < VFS_BLOCK * VFS_DIRECT_BLOCKS
    <3>1. (k - 1) * VFS_BLOCK \in Nat /\ VFS_FILE_MAX \in Nat
      BY <2>3, SizesAssumption DEF VFS_FILE_MAX
    <3> QED
      BY <2>1, <2>4, <3>1 DEF VFS_FILE_MAX
  <2>6. k - 1 < VFS_DIRECT_BLOCKS
    BY <2>3, <2>5, SizesAssumption
  <2> QED
    BY <2>3, <2>6, SizesAssumption DEF Slots
<1>8. MapsOnto(need, Owned, Needed)
  <2>0. Places(f, w) /\ Shows(f, w, t)
    BY <1>1, Views
  <2>1. \A y : y \in Needed <=> \E n \in InUse(f) : \E k \in 1 .. vfs_blocks_for(f.nodes[n].length) :
                                  y = <<w[n], k>>
    <3>1. DOMAIN t = {w[n] : n \in InUse(f)}
          /\ \A n \in InUse(f) : Promised!BlocksFor(t[w[n]].text) = vfs_blocks_for(f.nodes[n].length)
      <4>1. ASSUME NEW n \in InUse(f)
            PROVE  Promised!BlocksFor(t[w[n]].text) = vfs_blocks_for(f.nodes[n].length)
        <5>1. t[w[n]] = Shown(f, n)
          BY <2>0 DEF Shows
        <5>2. t[w[n]].text = contents(f, n)
          BY <5>1 DEF Shown
        <5>3. n \in Nodes
          BY DEF InUse
        <5> HIDE DEF t, w
        <5> QED
          BY <1>5, <5>2, <5>3
      <4>2. DOMAIN t = {w[n] : n \in InUse(f)}
        BY <2>0 DEF Shows
      <4> QED
        BY <4>1, <4>2
    <3>2. Needed = UNION {{p} \X (1 .. Promised!BlocksFor(t[p].text)) : p \in DOMAIN t}
      BY DEF Promised!BlocksUsed
    <3> HIDE DEF Needed, t, w
    <3>3. ASSUME NEW y \in Needed
          PROVE  \E n \in InUse(f) : \E k \in 1 .. vfs_blocks_for(f.nodes[n].length) : y = <<w[n], k>>
      <4>1. PICK p \in DOMAIN t : y \in {p} \X (1 .. Promised!BlocksFor(t[p].text))
        BY <3>2
      <4>2. PICK n \in InUse(f) : p = w[n]
        BY <3>1
      <4> QED
        BY <3>1, <4>1, <4>2
    <3>4. ASSUME NEW n \in InUse(f), NEW k \in 1 .. vfs_blocks_for(f.nodes[n].length)
          PROVE  <<w[n], k>> \in Needed
      BY <3>1, <3>2
    <3> QED
      BY <3>3, <3>4
  <2>2. \A c \in Owned : c[1] \in InUse(f) /\ c[2] \in Slots /\ c = <<c[1], c[2]>>
    BY <1>1 DEF Filed, OwnersAreFiles, InUse
  <2>3. need \in [Owned -> Needed]
    <3>1. ASSUME NEW c \in Owned PROVE <<w[c[1]], c[2] + 1>> \in Needed
      <4>1. c[1] \in InUse(f) /\ c[2] \in Slots
        BY <2>2
      <4>2. c[2] + 1 \in 1 .. vfs_blocks_for(f.nodes[c[1]].length)
        BY <1>6, <4>1
      <4> HIDE DEF Needed
      <4> QED
        BY <2>1, <4>1, <4>2
    <3> HIDE DEF Owned, Needed
    <3> QED
      BY <3>1
  <2>4. \A c, d \in Owned : need[c] = need[d] => c = d
    <3> SUFFICES ASSUME NEW c \in Owned, NEW d \in Owned, need[c] = need[d] PROVE c = d
      OBVIOUS
    <3>1. w[c[1]] = w[d[1]] /\ c[2] + 1 = d[2] + 1
      OBVIOUS
    <3>2. c[1] = d[1]
      BY <1>1, <2>0, <2>2, <3>1, PlacesApart
    <3>3. c[2] = d[2]
      <4>1. c[2] \in Nat /\ d[2] \in Nat
        BY <2>2 DEF Slots
      <4> HIDE DEF Owned, need
      <4> QED
        BY <3>1, <4>1
    <3> HIDE DEF Owned
    <3> QED
      BY <2>2, <3>2, <3>3
  <2>5. \A y \in Needed : \E c \in Owned : need[c] = y
    <3> HIDE DEF Needed
    <3> TAKE y \in Needed
    <3>1. PICK n \in InUse(f) : \E k \in 1 .. vfs_blocks_for(f.nodes[n].length) : y = <<w[n], k>>
      BY <2>1
    <3>7. PICK k \in 1 .. vfs_blocks_for(f.nodes[n].length) : y = <<w[n], k>>
      BY <3>1
    <3>2. k - 1 \in Slots /\ n \in Nodes
      BY <1>7 DEF InUse
    <3>3. k \in Int /\ (k - 1) + 1 = k
      OBVIOUS
    <3>4. f.nodes[n].blocks[k - 1] # VFS_NONE
      BY <1>6, <3>2, <3>3
    <3>5. <<n, k - 1>> \in Owned
      BY <3>2, <3>4
    <3>6. need[<<n, k - 1>>] = <<w[n], (k - 1) + 1>>
      BY <3>5
    <3> QED
      BY <3>7, <3>3, <3>5, <3>6
  <2> HIDE DEF Owned, Needed, need
  <2> QED
    BY <2>3, <2>4, <2>5 DEF MapsOnto
<1>9. IsFiniteSet(Needed) /\ Cardinality(Needed) = Cardinality(Marked)
  <2> HIDE DEF Owned, Needed, Marked, held, need
  <2> QED
    BY <1>3, <1>4, <1>8, Matched
<1>10. Cardinality(Marked) + Cardinality(Free(f)) = VFS_MAX_BLOCKS /\ Cardinality(Marked) \in Nat
  <2>1. IsFiniteSet(Blocks) /\ Cardinality(Blocks) = VFS_MAX_BLOCKS
    BY SizesAssumption, FS_Interval DEF Blocks
  <2>2. Blocks \ Marked = Free(f) /\ Blocks \cap Marked = Marked
    BY <1>2, FsParts DEF Free
  <2>3. Cardinality(Blocks \ Marked) = Cardinality(Blocks) - Cardinality(Blocks \cap Marked)
    BY <2>1, FS_Difference
  <2>4. IsFiniteSet(Marked) /\ Cardinality(Marked) \in Nat
    BY <2>1, FS_Subset, FS_CardinalityType
  <2> HIDE DEF Marked
  <2>5. Cardinality(Free(f)) = VFS_MAX_BLOCKS - Cardinality(Marked)
    BY <2>1, <2>2, <2>3
  <2>6. VFS_MAX_BLOCKS \in Nat
    BY SizesAssumption
  <2> QED
    BY <2>4, <2>5, <2>6
<1> HIDE DEF Owned, Needed, Marked, held, need
<1> QED
  BY <1>9, <1>10 DEF Needed, t

LEMMA CountsAgree ==
  ASSUME NEW S
  PROVE  Promised!Cardinality(S) = Cardinality(S)
BY DEF Promised!Cardinality, Cardinality, Promised!IsFiniteSet, IsFiniteSet

\* The blocks one file needs.
LEMMA BlocksOfOne ==
  ASSUME NEW p, NEW k \in Nat
  PROVE  IsFiniteSet({p} \X (1 .. k)) /\ Cardinality({p} \X (1 .. k)) = k
<1>1. IsFiniteSet({p}) /\ Cardinality({p}) = 1
  BY FS_Singleton
<1>2. IsFiniteSet(1 .. k) /\ Cardinality(1 .. k) = k
  BY FS_Interval
<1> DEFINE S == {p}
           T == 1 .. k
<1> HIDE DEF S, T
<1>3. IsFiniteSet(S \X T) /\ Cardinality(S \X T) = Cardinality(S) * Cardinality(T)
  BY <1>1, <1>2, FS_Product DEF S, T
<1>4. Cardinality(S) * Cardinality(T) = k
  BY <1>1, <1>2 DEF S, T
<1> QED
  BY <1>3, <1>4 DEF S, T

LEMMA BlocksForIsNat ==
  ASSUME NEW S, NEW s \in Seq(S)
  PROVE  Promised!BlocksFor(s) \in Nat /\ Promised!BlocksFor(s) = vfs_blocks_for(Len(s))
<1>1. Len(s) \in Nat
  OBVIOUS
<1> QED
  BY <1>1, BlocksForType DEF Promised!BlocksFor, vfs_blocks_for

\* Giving one file another text changes what is needed by what that file needs.
LEMMA BlocksUsedWith ==
  ASSUME NEW t, NEW p \in DOMAIN t, NEW e,
         IsFiniteSet(Promised!BlocksUsed(t)), Cardinality(Promised!BlocksUsed(t)) \in Nat,
         Promised!BlocksFor(t[p].text) \in Nat, Promised!BlocksFor(e.text) \in Nat
  PROVE  Cardinality(Promised!BlocksUsed(Promised!With(t, p, e)))
           = Cardinality(Promised!BlocksUsed(t)) - Promised!BlocksFor(t[p].text)
             + Promised!BlocksFor(e.text)
<1> DEFINE u == Promised!With(t, p, e)
           old == {p} \X (1 .. Promised!BlocksFor(t[p].text))
           new == {p} \X (1 .. Promised!BlocksFor(e.text))
           U == Promised!BlocksUsed(t)
           V == Promised!BlocksUsed(u)
<1>1. DOMAIN u = DOMAIN t /\ u[p] = e /\ \A q \in DOMAIN t : q # p => u[q] = t[q]
  BY DEF Promised!With
<1> HIDE DEF u
<1>2. \A y : y \in U <=> \E q \in DOMAIN t : y \in {q} \X (1 .. Promised!BlocksFor(t[q].text))
  BY DEF Promised!BlocksUsed
<1>3. \A y : y \in V <=> \E q \in DOMAIN t : y \in {q} \X (1 .. Promised!BlocksFor(u[q].text))
  BY <1>1 DEF Promised!BlocksUsed
<1> HIDE DEF U, V
<1>4. old \subseteq U
  BY <1>2
<1>5. V = (U \ old) \cup new
  <2>1. ASSUME NEW y \in V PROVE y \in (U \ old) \cup new
    <3>1. PICK q \in DOMAIN t : y \in {q} \X (1 .. Promised!BlocksFor(u[q].text))
      BY <1>3
    <3>2. CASE q = p
      BY <1>1, <3>1, <3>2
    <3>3. CASE q # p
      <4>1. y \in {q} \X (1 .. Promised!BlocksFor(t[q].text))
        BY <1>1, <3>1, <3>3
      <4>2. y \in U /\ y \notin old
        BY <1>2, <3>3, <4>1
      <4> QED
        BY <4>2
    <3> QED
      BY <3>2, <3>3
  <2>2. ASSUME NEW y \in new PROVE y \in V
    BY <1>1, <1>3
  <2>3. ASSUME NEW y \in U, y \notin old PROVE y \in V
    <3>1. PICK q \in DOMAIN t : y \in {q} \X (1 .. Promised!BlocksFor(t[q].text))
      BY <1>2
    <3>2. q # p
      BY <2>3, <3>1
    <3>3. y \in {q} \X (1 .. Promised!BlocksFor(u[q].text))
      BY <1>1, <3>1, <3>2
    <3> QED
      BY <1>3, <3>3
  <2> HIDE DEF old, new
  <2> QED
    BY <2>1, <2>2, <2>3
<1>6. (U \ old) \cap new = {}
  <2>1. \A y \in new : y[1] = p
    OBVIOUS
  <2>2. ASSUME NEW y \in (U \ old) \cap new PROVE FALSE
    <3>1. PICK q \in DOMAIN t : y \in {q} \X (1 .. Promised!BlocksFor(t[q].text))
      BY <1>2
    <3>2. q = p
      BY <2>1, <3>1
    <3> QED
      BY <3>1, <3>2
  <2> QED
    BY <2>2
<1>7. /\ IsFiniteSet(old) /\ Cardinality(old) = Promised!BlocksFor(t[p].text)
      /\ IsFiniteSet(new) /\ Cardinality(new) = Promised!BlocksFor(e.text)
  BY BlocksOfOne
<1>8. IsFiniteSet(U) /\ Cardinality(U) \in Nat
  BY DEF U
<1> HIDE DEF old, new
<1>9. IsFiniteSet(U \ old) /\ Cardinality(U \ old) = Cardinality(U) - Cardinality(old)
  <2>1. U \cap old = old
    BY <1>4
  <2> QED
    BY <1>8, <2>1, FS_Difference
<1>10. Cardinality((U \ old) \cup new) = Cardinality(U \ old) + Cardinality(new) - Cardinality({})
  <2> DEFINE X == U \ old
  <2>1. X \cap new = {} /\ IsFiniteSet(X) /\ IsFiniteSet(new)
    BY <1>6, <1>7, <1>9
  <2> HIDE DEF X
  <2>2. Cardinality(X \cup new) = Cardinality(X) + Cardinality(new) - Cardinality(X \cap new)
    BY <2>1, FS_Union
  <2> QED
    BY <2>1, <2>2 DEF X
<1>11. Cardinality({}) = 0
  BY FS_EmptySet
<1>12. Cardinality(U \ old) \in Nat
  BY <1>9, FS_CardinalityType
<1>13. Cardinality(V) = Cardinality(U) - Promised!BlocksFor(t[p].text) + Promised!BlocksFor(e.text)
  BY <1>5, <1>7, <1>8, <1>9, <1>10, <1>11, <1>12
<1> QED
  BY <1>13 DEF U, V, u

\* A text fits in the tree of paths exactly when vfsblock_reserve finds the blocks.
LEMMA FitsIs ==
  ASSUME NEW f, Orderly(f, TRUE), NEW at, IsFile(f, at), NEW S, NEW text \in Seq(S),
         Len(text) <= VFS_FILE_MAX
  PROVE  Promised!Fits(Promised!With(TreeOf(f), W(f)[at], Promised!File(text)))
           <=> reserve_succeeds(f, at, vfs_blocks_for(Len(text)))
<1> DEFINE t == TreeOf(f)
           p == W(f)[at]
           e == Promised!File(text)
           wanted == vfs_blocks_for(Len(text))
           node == f.nodes[at]
           held == vfsblock_held(node)
<1>1. Tree(f, {}, TRUE) /\ WellKept(f) /\ NothingSpare(f)
  BY DEF Orderly, Settled
<1>2. at \in InUse(f) /\ at \in Nodes /\ node.used
  BY DEF IsFile, InUse
<1>3. node.length \in Nat /\ node.length <= VFS_FILE_MAX
  BY <1>1, <1>2, FsParts DEF WellKept, BytesHaveBlocks
<1>4. held = vfs_blocks_for(node.length) /\ held \in Nat
  <2>1. \A i \in Slots : node.blocks[i] # VFS_NONE <=> i * VFS_BLOCK < node.length
    BY <1>1, <1>2 DEF WellKept, BytesHaveBlocks, NothingSpare
  <2>2. held = vfs_blocks_for(node.length)
    <3> HIDE DEF node
    <3> QED
      BY <1>3, <2>1, HeldIsNeeded
  <2> QED
    BY <1>3, <2>2, BlocksForType
<1>5. p \in DOMAIN t /\ t[p].text = contents(f, at)
  <2>1. Shows(f, W(f), t)
    BY <1>1, Views
  <2>2. t[p] = Shown(f, at) /\ p \in DOMAIN t
    BY <1>2, <2>1 DEF Shows
  <2> QED
    BY <2>2 DEF Shown
<1>6. Promised!BlocksFor(t[p].text) = held
  <2>1. Len(contents(f, at)) = node.length
    BY <1>1, <1>2, ContentsType
  <2> QED
    BY <1>4, <1>5, <2>1 DEF Promised!BlocksFor, vfs_blocks_for
<1>7. e.text = text /\ Promised!BlocksFor(text) \in Nat /\ Promised!BlocksFor(text) = wanted
  BY BlocksForIsNat DEF Promised!File
<1>8. /\ IsFiniteSet(Promised!BlocksUsed(t))
      /\ Cardinality(Promised!BlocksUsed(t)) + Cardinality(Free(f)) = VFS_MAX_BLOCKS
      /\ Cardinality(Promised!BlocksUsed(t)) \in Nat
  BY UsedIsMarked
<1>9. wanted <= VFS_DIRECT_BLOCKS
  <2>1. Len(text) \in Nat
    OBVIOUS
  <2>2. ASSUME VFS_DIRECT_BLOCKS < wanted PROVE FALSE
    <3>1. VFS_DIRECT_BLOCKS \in Nat /\ VFS_BLOCK \in Nat
      BY SizesAssumption
    <3>2. VFS_DIRECT_BLOCKS * VFS_BLOCK < Len(text)
      BY <2>1, <2>2, <3>1, BlocksForIsTight
    <3>3. VFS_DIRECT_BLOCKS * VFS_BLOCK = VFS_FILE_MAX /\ VFS_FILE_MAX \in Nat
      BY <3>1 DEF VFS_FILE_MAX
    <3> QED
      BY <2>1, <3>2, <3>3
  <2> QED
    BY <1>7, <2>2, SizesAssumption
<1>10. Cardinality(Free(f)) \in Nat
  BY FreeIsFinite
<1> HIDE DEF t, p, e, wanted, held
<1>11. Cardinality(Promised!BlocksUsed(Promised!With(t, p, e)))
         = Cardinality(Promised!BlocksUsed(t)) - Promised!BlocksFor(t[p].text)
             + Promised!BlocksFor(e.text)
  BY <1>4, <1>5, <1>6, <1>7, <1>8, BlocksUsedWith
<1>12. Cardinality(Promised!BlocksUsed(Promised!With(t, p, e)))
         = Cardinality(Promised!BlocksUsed(t)) - held + wanted
  BY <1>6, <1>7, <1>11
<1>13. Promised!Fits(Promised!With(t, p, e)) <=>
         Cardinality(Promised!BlocksUsed(t)) - held + wanted <= VFS_MAX_BLOCKS
  <2> DEFINE u == Promised!With(t, p, e)
  <2>1. Promised!Fits(u) <=> Cardinality(Promised!BlocksUsed(u)) <= VFS_MAX_BLOCKS
    <3> HIDE DEF u
    <3> QED
      BY CountsAgree DEF Promised!Fits
  <2> QED
    BY <1>12, <2>1
<1>14. reserve_succeeds(f, at, wanted) <=> wanted - held <= Cardinality(Free(f))
  BY <1>9 DEF reserve_succeeds, held
<1>15. wanted \in Nat /\ held \in Nat /\ VFS_MAX_BLOCKS \in Nat
  BY <1>4, <1>7, SizesAssumption
<1>16. Promised!Fits(Promised!With(t, p, e)) <=> reserve_succeeds(f, at, wanted)
  <2> DEFINE u == Cardinality(Promised!BlocksUsed(t))
             free == Cardinality(Free(f))
  <2>1. u \in Nat /\ free \in Nat /\ u + free = VFS_MAX_BLOCKS
    BY <1>8, <1>10
  <2> HIDE DEF u, free
  <2>2. u - held + wanted <= VFS_MAX_BLOCKS <=> wanted - held <= free
    BY <1>15, <2>1
  <2> QED
    BY <1>13, <1>14, <2>2 DEF u, free
<1> QED
  BY <1>16 DEF t, p, e, wanted

----------------------------------------------------------------------------
(* What files hold *)

\* Byte number k of a file is in the pool.
Holds(f, n, k) ==
  /\ k \in Nat /\ k \div VFS_BLOCK \in Slots /\ k % VFS_BLOCK \in Offsets
  /\ f.nodes[n].blocks[k \div VFS_BLOCK] # VFS_NONE
  /\ f.nodes[n].blocks[k \div VFS_BLOCK] \in Blocks

Byte(f, n, k) == f.blocks[f.nodes[n].blocks[k \div VFS_BLOCK]][k % VFS_BLOCK]

LEMMA ContentsAre ==
  ASSUME NEW f, NEW n
  PROVE  contents(f, n) = [i \in 1 .. f.nodes[n].length |-> Byte(f, n, i - 1)]
BY DEF contents, vfsblock_at, Byte

LEMMA BytesAreHeld ==
  ASSUME NEW f, WellKept(f), NEW n \in InUse(f), NEW k \in Nat, k < f.nodes[n].length
  PROVE  Holds(f, n, k)
<1>1. n \in Nodes /\ f.nodes[n].used /\ f \in FsType
  BY DEF InUse, WellKept
<1>2. f.nodes[n].length \in Nat /\ f.nodes[n].blocks \in [Slots -> Blocks \cup {VFS_NONE}]
  BY <1>1, FsParts
<1>3. f.nodes[n].length <= VFS_FILE_MAX
  BY <1>1 DEF WellKept, BytesHaveBlocks
<1>4. k \div VFS_BLOCK \in Slots /\ (k \div VFS_BLOCK) * VFS_BLOCK < f.nodes[n].length
      /\ k % VFS_BLOCK \in Offsets
  BY <1>2, <1>3, OffsetHasSlot
<1>5. f.nodes[n].blocks[k \div VFS_BLOCK] # VFS_NONE
  BY <1>1, <1>4 DEF WellKept, BytesHaveBlocks
<1> QED
  BY <1>2, <1>4, <1>5 DEF Holds

\* No byte of the pool is two bytes of files.
LEMMA BytesAreApart ==
  ASSUME NEW f, WellKept(f), NEW n \in Nodes, NEW m \in Nodes, NEW k, NEW l,
         Holds(f, n, k), Holds(f, m, l),
         vfsblock_at(f.nodes[n], k) = vfsblock_at(f.nodes[m], l)
  PROVE  n = m /\ k = l
<1>1. /\ f.nodes[n].blocks[k \div VFS_BLOCK] = f.nodes[m].blocks[l \div VFS_BLOCK]
      /\ k % VFS_BLOCK = l % VFS_BLOCK
  BY DEF vfsblock_at
<1>2. n = m /\ k \div VFS_BLOCK = l \div VFS_BLOCK
  BY <1>1 DEF Holds, WellKept, OwnersAreApart
<1>3. k = (k \div VFS_BLOCK) * VFS_BLOCK + (k % VFS_BLOCK)
      /\ l = (l \div VFS_BLOCK) * VFS_BLOCK + (l % VFS_BLOCK)
  BY SizesAssumption, DivMod DEF Holds
<1> QED
  BY <1>1, <1>2, <1>3

\* The text of a file is the same in two tables that keep its blocks.
KeepsFile(f, g, n) ==
  /\ g.nodes[n].length = f.nodes[n].length
  /\ \A k \in Nat : k < f.nodes[n].length => Byte(g, n, k) = Byte(f, n, k)

LEMMA ContentsStay ==
  ASSUME NEW f \in FsType, NEW g, NEW n \in Nodes, KeepsFile(f, g, n)
  PROVE  contents(g, n) = contents(f, n)
<1>1. f.nodes[n].length \in Nat
  BY FsParts
<1> DEFINE len == f.nodes[n].length
<1>2. contents(g, n) = [i \in 1 .. len |-> Byte(g, n, i - 1)]
      /\ contents(f, n) = [i \in 1 .. len |-> Byte(f, n, i - 1)]
  BY ContentsAre DEF KeepsFile
<1>3. \A i \in 1 .. len : Byte(g, n, i - 1) = Byte(f, n, i - 1)
  <2> TAKE i \in 1 .. len
  <2>1. i - 1 \in Nat /\ i - 1 < len
    BY <1>1
  <2> QED
    BY <2>1 DEF KeepsFile
<1> QED
  BY <1>2, <1>3

\* Nothing but a file's own blocks is its text.
LEMMA KeepsByBlocks ==
  ASSUME NEW f, WellKept(f), NEW g, NEW n \in InUse(f),
         g.nodes[n].length = f.nodes[n].length,
         g.nodes[n].blocks = f.nodes[n].blocks,
         \A b \in Blocks : f.block_used[b] => g.blocks[b] = f.blocks[b]
  PROVE  KeepsFile(f, g, n)
<1>1. ASSUME NEW k \in Nat, k < f.nodes[n].length PROVE Byte(g, n, k) = Byte(f, n, k)
  <2> DEFINE b == f.nodes[n].blocks[k \div VFS_BLOCK]
  <2>1. b # VFS_NONE /\ b \in Blocks /\ k \div VFS_BLOCK \in Slots
    BY <1>1, BytesAreHeld DEF Holds
  <2>2. n \in Nodes
    BY DEF InUse
  <2>3. f.block_used[b]
    BY <2>1, <2>2 DEF WellKept, OwnedIsMarked
  <2>4. g.blocks[b] = f.blocks[b]
    BY <2>1, <2>3
  <2> QED
    BY <2>4 DEF Byte
<1> QED
  BY <1>1 DEF KeepsFile

LEMMA ReserveKeepsTexts ==
  ASSUME NEW f, WellKept(f), NEW at \in InUse(f), NEW wanted \in Nat, NEW n \in InUse(f)
  PROVE  KeepsFile(f, vfsblock_reserve(f, at, wanted), n)
<1> DEFINE g == vfsblock_reserve(f, at, wanted)
<1>1. at \in Nodes /\ n \in Nodes /\ f \in FsType
  BY DEF InUse, WellKept
<1>2. CASE reserve_succeeds(f, at, wanted)
  <2>1. Granted(f, g, at, wanted) /\ g.nodes[at].length = f.nodes[at].length
    BY <1>1, <1>2, ReserveSucceeds
  <2> HIDE DEF g
  <2>2. g.nodes[n].length = f.nodes[n].length
    BY <1>1, <2>1 DEF Granted
  <2>3. ASSUME NEW k \in Nat, k < f.nodes[n].length PROVE Byte(g, n, k) = Byte(f, n, k)
    <3> DEFINE b == f.nodes[n].blocks[k \div VFS_BLOCK]
    <3>1. b # VFS_NONE /\ b \in Blocks /\ k \div VFS_BLOCK \in Slots
      BY <2>3, BytesAreHeld DEF Holds
    <3>2. f.block_used[b]
      BY <1>1, <3>1 DEF WellKept, OwnedIsMarked
    <3>3. g.blocks[b] = f.blocks[b]
      BY <2>1, <3>1, <3>2 DEF Granted
    <3>4. g.nodes[n].blocks[k \div VFS_BLOCK] = b
      <4>1. CASE n = at
        BY <2>1, <3>1, <4>1 DEF Granted
      <4>2. CASE n # at
        BY <1>1, <2>1, <4>2 DEF Granted
      <4> QED
        BY <4>1, <4>2
    <3> QED
      BY <3>3, <3>4 DEF Byte
  <2>4. KeepsFile(f, g, n)
    BY <2>2, <2>3 DEF KeepsFile
  <2> QED
    BY <2>4 DEF g
<1>3. CASE ~reserve_succeeds(f, at, wanted)
  <2> DEFINE cleared == IF wanted <= VFS_DIRECT_BLOCKS THEN Free(f) ELSE {}
  <2>1. g = [f EXCEPT !.blocks = Cleared(f, cleared)]
    BY <1>3 DEF vfsblock_reserve
  <2>2. cleared \subseteq Free(f)
    OBVIOUS
  <2> HIDE DEF cleared
  <2>3. \A b \in Blocks : f.block_used[b] => Cleared(f, cleared)[b] = f.blocks[b]
    BY <2>2 DEF Cleared, Free
  <2>4. g.nodes = f.nodes /\ g.blocks = Cleared(f, cleared)
    BY <1>1, <2>1, ClearedType DEF FsType
  <2> HIDE DEF g
  <2>5. KeepsFile(f, g, n)
    BY <2>3, <2>4, KeepsByBlocks
  <2> QED
    BY <2>5 DEF g
<1> QED
  BY <1>2, <1>3

LEMMA ReleaseKeepsTexts ==
  ASSUME NEW f, WellKept(f), NEW at \in InUse(f), NEW n \in InUse(f)
  PROVE  /\ n # at => contents(vfsblock_release(f, at), n) = contents(f, n)
         /\ contents(vfsblock_release(f, at), at) = << >>
<1> DEFINE g == vfsblock_release(f, at)
<1>1. at \in Nodes /\ n \in Nodes /\ f \in FsType
  BY DEF InUse, WellKept
<1>2. Touches(f, g, at) /\ g.nodes[at].length = 0 /\ g.blocks = f.blocks
  BY <1>1, ReleaseTouches
<1> HIDE DEF g
<1>3. contents(g, at) = << >>
  BY <1>2 DEF contents
<1>4. ASSUME n # at PROVE contents(g, n) = contents(f, n)
  <2>1. g.nodes[n] = f.nodes[n]
    BY <1>1, <1>2, <1>4 DEF Touches
  <2>2. KeepsFile(f, g, n)
    BY <1>2, <2>1 DEF KeepsFile, Byte
  <2> QED
    BY <1>1, <2>2, ContentsStay
<1> QED
  BY <1>3, <1>4 DEF g

LEMMA SeqIs ==
  ASSUME NEW S, NEW u \in Seq(S)
  PROVE  u = [i \in 1 .. Len(u) |-> u[i]]
OBVIOUS

LEMMA Joined ==
  ASSUME NEW S, NEW s \in Seq(S), NEW t \in Seq(S)
  PROVE  /\ s \o t \in Seq(S) /\ Len(s \o t) = Len(s) + Len(t)
         /\ \A i \in 1 .. Len(s) : (s \o t)[i] = s[i]
         /\ \A i \in 1 .. Len(t) : (s \o t)[Len(s) + i] = t[i]
         /\ s \o t = [i \in 1 .. (Len(s) + Len(t)) |-> (s \o t)[i]]
<1>1. s \o t \in Seq(S)
  OBVIOUS
<1>2. Len(s \o t) = Len(s) + Len(t)
  OBVIOUS
<1>3. \A i \in 1 .. Len(s) : (s \o t)[i] = s[i]
  OBVIOUS
<1>4. \A i \in 1 .. Len(t) : (s \o t)[Len(s) + i] = t[i]
  OBVIOUS
<1>5. s \o t = [i \in 1 .. Len(s \o t) |-> (s \o t)[i]]
  BY <1>1, SeqIs
<1> QED
  BY <1>1, <1>2, <1>3, <1>4, <1>5

\* Where the bytes of `data' are put, after those the file has.
PutAt(f, at, data, i, b, o) ==
  i \in 1 .. Len(data) /\ vfsblock_at(f.nodes[at], f.nodes[at].length + i - 1) = <<b, o>>

PutWrites(f, g, at, data) ==
  \A b \in Blocks, o \in Offsets :
     /\ (\A i : ~PutAt(f, at, data, i, b, o)) => g.blocks[b][o] = f.blocks[b][o]
     /\ (\E i : PutAt(f, at, data, i, b, o)) =>
          \E i : PutAt(f, at, data, i, b, o) /\ g.blocks[b][o] = data[i]

LEMMA PutEffect ==
  ASSUME NEW f, WellKept(f), NEW at \in Nodes, NEW data \in Seq(Bytes \cup {0})
  PROVE  PutWrites(f, put_bytes(f, at, data), at, data)
<1> DEFINE g == put_bytes(f, at, data)
           node == f.nodes[at]
           longer == [node EXCEPT !.length = @ + Len(data)]
           goes(b, o) == {i \in DOMAIN data :
                            vfsblock_at(node, node.length + i - 1) = <<b, o>>}
           new == [b \in Blocks |-> [o \in Offsets |->
                     IF goes(b, o) = {} THEN f.blocks[b][o]
                     ELSE data[CHOOSE i \in goes(b, o) : TRUE]]]
<1>1. f \in FsType
  BY DEF WellKept
<1>2. g = [f EXCEPT !.blocks = new, !.nodes[at] = longer]
  BY DEF put_bytes
<1>3. \A b, o, i : i \in goes(b, o) <=> PutAt(f, at, data, i, b, o)
  <2>1. DOMAIN data = 1 .. Len(data)
    OBVIOUS
  <2> QED
    BY <2>1 DEF PutAt
<1>4. \A b \in Blocks, o \in Offsets :
        new[b][o] = IF goes(b, o) = {} THEN f.blocks[b][o]
                    ELSE data[CHOOSE i \in goes(b, o) : TRUE]
  OBVIOUS
<1> HIDE DEF g, new, longer, goes
<1>5. g.blocks = new
  BY <1>1, <1>2 DEF FsType
<1>6. ASSUME NEW b \in Blocks, NEW o \in Offsets
      PROVE  /\ (\A i : ~PutAt(f, at, data, i, b, o)) => g.blocks[b][o] = f.blocks[b][o]
             /\ (\E i : PutAt(f, at, data, i, b, o)) =>
                  \E i : PutAt(f, at, data, i, b, o) /\ g.blocks[b][o] = data[i]
  <2>1. CASE goes(b, o) = {}
    <3>1. \A i : ~PutAt(f, at, data, i, b, o)
      BY <1>3, <2>1
    <3>2. g.blocks[b][o] = f.blocks[b][o]
      BY <1>4, <1>5, <2>1
    <3> QED
      BY <3>1, <3>2
  <2>2. CASE goes(b, o) # {}
    <3> DEFINE i == CHOOSE i \in goes(b, o) : TRUE
    <3>1. i \in goes(b, o)
      BY <2>2
    <3>2. g.blocks[b][o] = data[i]
      BY <1>4, <1>5, <2>2
    <3> HIDE DEF i
    <3>3. PutAt(f, at, data, i, b, o)
      BY <1>3, <3>1
    <3> QED
      BY <3>2, <3>3
  <2> QED
    BY <2>1, <2>2
<1>7. PutWrites(f, g, at, data)
  BY <1>6 DEF PutWrites
<1> QED
  BY <1>7 DEF g

\* vfs_append_bytes leaves what was there and puts the new bytes after it.
LEMMA PutAppends ==
  ASSUME NEW f, WellKept(f), NEW at \in InUse(f), NEW data \in Seq(Bytes \cup {0}),
         NEW length \in Nat, length = f.nodes[at].length + Len(data),
         length <= VFS_FILE_MAX,
         \A i \in Slots : i < vfs_blocks_for(length) => f.nodes[at].blocks[i] # VFS_NONE
  PROVE  /\ contents(put_bytes(f, at, data), at) = contents(f, at) \o data
         /\ \A n \in InUse(f) \ {at} : contents(put_bytes(f, at, data), n) = contents(f, n)
<1> DEFINE g == put_bytes(f, at, data)
           old == f.nodes[at].length
<1>1. at \in Nodes /\ f \in FsType /\ InUse(f) \subseteq Nodes
  BY DEF InUse, WellKept
<1>2. old \in Nat /\ Len(data) \in Nat /\ f.nodes[at].blocks \in [Slots -> Blocks \cup {VFS_NONE}]
  BY <1>1, FsParts
<1>3. WellKept(g)
  BY <1>1, PutKeeps
<1>4. g \in FsType
  BY <1>3 DEF WellKept
<1>5. /\ Touches(f, g, at) /\ g.nodes[at].length = old + Len(data)
      /\ g.nodes[at].blocks = f.nodes[at].blocks
  BY <1>1, <1>4, PutTouches
<1>6. PutWrites(f, g, at, data)
  BY <1>1, PutEffect
<1>7. \A k \in Nat : k < length => Holds(f, at, k)
  <2> TAKE k \in Nat
  <2> HAVE k < length
  <2>1. k \div VFS_BLOCK \in Slots /\ (k \div VFS_BLOCK) * VFS_BLOCK < length
        /\ k % VFS_BLOCK \in Offsets
    BY OffsetHasSlot
  <2>2. k \div VFS_BLOCK \in Nat
    BY <2>1 DEF Slots
  <2>3. k \div VFS_BLOCK < vfs_blocks_for(length)
    BY <2>1, <2>2, BlocksForIsEnough
  <2>4. f.nodes[at].blocks[k \div VFS_BLOCK] # VFS_NONE
    BY <2>1, <2>3
  <2> QED
    BY <1>2, <2>1, <2>4 DEF Holds
<1> HIDE DEF g
<1>8. ASSUME NEW n \in InUse(f), NEW k \in Nat, k < f.nodes[n].length
      PROVE  Byte(g, n, k) = Byte(f, n, k)
  <2> DEFINE b == f.nodes[n].blocks[k \div VFS_BLOCK]
             o == k % VFS_BLOCK
  <2>1. Holds(f, n, k)
    BY <1>8, BytesAreHeld
  <2>2. b \in Blocks /\ o \in Offsets /\ vfsblock_at(f.nodes[n], k) = <<b, o>>
    BY <2>1 DEF Holds, vfsblock_at
  <2>3. ASSUME NEW i, PutAt(f, at, data, i, b, o) PROVE FALSE
    <3> DEFINE l == old + i - 1
    <3>1. i \in 1 .. Len(data) /\ vfsblock_at(f.nodes[at], l) = <<b, o>>
      BY <2>3 DEF PutAt
    <3>2. l \in Nat /\ l < length /\ old <= l
      BY <1>2, <3>1
    <3> HIDE DEF l, b, o
    <3>3. Holds(f, at, l)
      BY <1>7, <3>2
    <3>4. n = at /\ k = l
      BY <1>1, <2>1, <2>2, <3>1, <3>3, BytesAreApart
    <3> QED
      BY <1>2, <1>8, <3>2, <3>4
  <2>4. g.blocks[b][o] = f.blocks[b][o]
    <3> HIDE DEF b, o
    <3> QED
      BY <1>6, <2>2, <2>3 DEF PutWrites
  <2>5. g.nodes[n].blocks = f.nodes[n].blocks
    BY <1>1, <1>5 DEF Touches
  <2> QED
    BY <2>4, <2>5 DEF Byte
<1>9. ASSUME NEW n \in InUse(f) \ {at} PROVE contents(g, n) = contents(f, n)
  <2>1. g.nodes[n] = f.nodes[n]
    BY <1>1, <1>5 DEF Touches
  <2>2. KeepsFile(f, g, n)
    BY <1>8, <2>1 DEF KeepsFile
  <2> QED
    BY <1>1, <2>2, ContentsStay
<1>10. ASSUME NEW i \in 1 .. Len(data) PROVE Byte(g, at, old + i - 1) = data[i]
  <2> DEFINE l == old + i - 1
             b == f.nodes[at].blocks[l \div VFS_BLOCK]
             o == l % VFS_BLOCK
  <2>1. l \in Nat /\ l < length
    BY <1>2
  <2>2. Holds(f, at, l)
    BY <1>7, <2>1
  <2>3. b \in Blocks /\ o \in Offsets /\ vfsblock_at(f.nodes[at], l) = <<b, o>>
    BY <2>2 DEF Holds, vfsblock_at
  <2>4. PutAt(f, at, data, i, b, o)
    BY <2>3 DEF PutAt
  <2>5. PICK j : PutAt(f, at, data, j, b, o) /\ g.blocks[b][o] = data[j]
    <3> HIDE DEF b, o
    <3> QED
      BY <1>6, <2>3, <2>4 DEF PutWrites
  <2>6. j = i
    <3> DEFINE m == old + j - 1
    <3>1. j \in 1 .. Len(data) /\ vfsblock_at(f.nodes[at], m) = <<b, o>>
      BY <2>5 DEF PutAt
    <3>2. m \in Nat /\ m < length
      BY <1>2, <3>1
    <3>3. Holds(f, at, m)
      BY <1>7, <3>2
    <3>4. l = m
      <4> HIDE DEF l, m, b, o
      <4> QED
        BY <1>1, <2>2, <2>3, <3>1, <3>3, BytesAreApart
    <3> QED
      BY <1>2, <3>1, <3>4
  <2>7. Byte(g, at, l) = g.blocks[b][o]
    BY <1>5 DEF Byte
  <2> QED
    BY <2>5, <2>6, <2>7
<1>11. contents(g, at) = contents(f, at) \o data
  <2> DEFINE s == contents(f, at)
             u == contents(g, at)
  <2>1. s = [i \in 1 .. old |-> Byte(f, at, i - 1)]
    BY ContentsAre
  <2>2. u = [i \in 1 .. (old + Len(data)) |-> Byte(g, at, i - 1)]
    BY <1>5, ContentsAre
  <2>3. s \in Seq(Bytes \cup {0}) /\ Len(s) = old
    BY <1>1, ContentsType DEF InUse
  <2>0. old \in Nat /\ Len(data) \in Nat
    BY <1>2
  <2> HIDE DEF s, u, old
  <2>4. Len(s \o data) = old + Len(data)
        /\ s \o data = [i \in 1 .. (old + Len(data)) |-> (s \o data)[i]]
    <3>1. s \in Seq(Bytes \cup {0})
      BY <2>3
    <3>2. Len(s \o data) = Len(s) + Len(data)
      BY <3>1, Joined
    <3>3. s \o data = [i \in 1 .. (Len(s) + Len(data)) |-> (s \o data)[i]]
      BY <3>1, Joined
    <3> QED
      BY <2>3, <3>2, <3>3
  <2> DEFINE Same(i) == Byte(g, at, i - 1) = (s \o data)[i]
  <2>5. ASSUME NEW i \in 1 .. (old + Len(data)) PROVE Same(i)
    <3>1. CASE i <= old
      <4>1. (s \o data)[i] = s[i] /\ i \in 1 .. old /\ i - 1 \in Nat /\ i - 1 < old
        BY <2>0, <2>3, <3>1, Joined
      <4>2. Byte(g, at, i - 1) = Byte(f, at, i - 1)
        BY <1>8, <4>1 DEF old
      <4> QED
        BY <2>1, <4>1, <4>2
    <3>2. CASE i > old
      <4> DEFINE j == i - old
      <4>1. j \in 1 .. Len(data) /\ old + j - 1 = i - 1 /\ old + j = i
        BY <2>0, <3>2
      <4>2. (s \o data)[Len(s) + j] = data[j]
        <5>1. \A k \in 1 .. Len(data) : (s \o data)[Len(s) + k] = data[k]
          BY <2>3, Joined
        <5> HIDE DEF j
        <5> QED
          BY <4>1, <5>1
      <4>3. Byte(g, at, old + j - 1) = data[j]
        BY <1>10, <4>1
      <4> QED
        BY <2>3, <4>1, <4>2, <4>3
    <3>3. i \in Int /\ old \in Int
      BY <2>0
    <3> HIDE DEF Same
    <3> QED
      BY <3>1, <3>2, <3>3
  <2> HIDE <1>5
  <2>6. u = s \o data
    BY <2>2, <2>4, <2>5
  <2> QED
    BY <2>6 DEF s, u
<1> QED
  BY <1>9, <1>11 DEF g

----------------------------------------------------------------------------
(* What a change of the table is in the tree of paths *)

SameWays(f, g, S) ==
  \A n \in S : /\ g.nodes[n].name = f.nodes[n].name
               /\ g.nodes[n].parent = f.nodes[n].parent
               /\ g.nodes[n].kind = f.nodes[n].kind
SameTexts(f, g, S) == \A n \in S : contents(g, n) = contents(f, n)

\* A way to say where each node is that has its facts is where each node is.
LEMMA TheseArePlaces ==
  ASSUME NEW g, Tree(g, {}, TRUE), NEW v, Places(g, v)
  PROVE  W(g) = v
<1> DEFINE w == W(g)
           Same(n) == w[n] = v[n]
<1>1. Places(g, w) /\ TRUE \in BOOLEAN
  BY Views
<1>2. v = [n \in InUse(g) |-> v[n]] /\ w = [n \in InUse(g) |-> w[n]]
  BY <1>1 DEF Places
<1> HIDE DEF w
<1> DEFINE clean == TRUE
<1>5. clean \in BOOLEAN /\ Tree(g, {}, clean)
  OBVIOUS
<1> HIDE DEF clean
<1>3. \A n \in InUse(g) : w[n] = v[n]
  BY <1>1, <1>5, PlacesAgree
<1>4. w = v
  BY <1>2, <1>3
<1> QED
  BY <1>4 DEF w

LEMMA HereIs ==
  ASSUME NEW g, Tree(g, {}, TRUE)
  PROVE  vfs_path_of(g, g.cwd) = W(g)[g.cwd] /\ g.cwd \in InUse(g)
BY Views, InUseFacts

LEMMA WaysStay ==
  ASSUME NEW f, Tree(f, {}, TRUE), NEW g, Tree(g, {}, TRUE),
         InUse(g) = InUse(f), SameWays(f, g, InUse(f))
  PROVE  W(g) = W(f)
<1>1. Places(f, W(f))
  BY Views
<1>2. Places(g, W(f))
  BY <1>1 DEF Places, SameWays
<1> QED
  BY <1>2, TheseArePlaces

\* One file has another text.
LEMMA OneTextChanges ==
  ASSUME NEW f, Tree(f, {}, TRUE), NEW g, Tree(g, {}, TRUE),
         InUse(g) = InUse(f), SameWays(f, g, InUse(f)),
         NEW at \in InUse(f), SameTexts(f, g, InUse(f) \ {at})
  PROVE  TreeOf(g) = Promised!With(TreeOf(f), W(f)[at], Shown(g, at))
<1> DEFINE w == W(f)
           t == TreeOf(f)
           u == Promised!With(t, w[at], Shown(g, at))
<1>1. Places(f, w) /\ Shows(f, w, t) /\ Places(g, w)
  <2>1. W(g) = w
    BY WaysStay
  <2> QED
    BY <2>1, Views
<1>2. w[at] \in DOMAIN t /\ DOMAIN t = {w[n] : n \in InUse(f)}
  BY <1>1 DEF Shows
<1>3. u = [q \in DOMAIN t |-> IF q = w[at] THEN Shown(g, at) ELSE t[q]]
  <2>1. DOMAIN t \cup {w[at]} = DOMAIN t
    BY <1>2
  <2> QED
    BY <2>1 DEF Promised!With
<1> HIDE DEF u
<1>4. DOMAIN u = DOMAIN t /\ u = [p \in DOMAIN u |-> u[p]]
  BY <1>3
<1>5. ASSUME NEW n \in InUse(g) PROVE u[w[n]] = Shown(g, n)
  <2>1. w[n] \in DOMAIN t /\ t[w[n]] = Shown(f, n)
    BY <1>1 DEF Shows
  <2>2. CASE n = at
    BY <1>3, <2>1, <2>2
  <2>3. CASE n # at
    <3>1. w[n] # w[at]
      BY <1>1, <2>3, PlacesApart
    <3>2. Shown(g, n) = Shown(f, n)
      BY <2>3 DEF Shown, SameWays, SameTexts
    <3> QED
      BY <1>3, <2>1, <3>1, <3>2
  <2> QED
    BY <2>2, <2>3
<1>6. Shows(g, w, u)
  BY <1>2, <1>4, <1>5 DEF Shows
<1> HIDE DEF w, t
<1>7. TreeOf(g) = u
  BY <1>1, <1>4, <1>6, TreeIs
<1> QED
  BY <1>7 DEF u, w, t

\* Nothing that is shown changes.
LEMMA NothingChanges ==
  ASSUME NEW f, Tree(f, {}, TRUE), NEW g, Tree(g, {}, TRUE),
         InUse(g) = InUse(f), SameWays(f, g, InUse(f)), SameTexts(f, g, InUse(f))
  PROVE  TreeOf(g) = TreeOf(f)
<1> DEFINE w == W(f)
           t == TreeOf(f)
<1>1. Shows(f, w, t) /\ t = [p \in DOMAIN t |-> t[p]] /\ Places(f, w)
  BY Views, TreeShows
<1>2. Places(g, w)
  <2>1. W(g) = w
    BY WaysStay
  <2> QED
    BY <2>1, Views
<1>3. \A n \in InUse(f) : Shown(g, n) = Shown(f, n)
  BY DEF Shown, SameWays, SameTexts
<1>4. Shows(g, w, t)
  BY <1>1, <1>3 DEF Shows
<1> HIDE DEF w, t
<1>5. TreeOf(g) = t
  BY <1>1, <1>2, <1>4, TreeIs
<1> QED
  BY <1>5 DEF t

\* `made' is added at a place, and no other entry moves.
Adds(f, g, made, place, entry) ==
  /\ W(g)[made] = place
  /\ \A n \in InUse(f) : W(g)[n] = W(f)[n]
  /\ TreeOf(g) = Promised!With(TreeOf(f), place, entry)

\* An entry is made.
LEMMA EntryIsNew ==
  ASSUME NEW f, Tree(f, {}, TRUE), NEW g, Tree(g, {}, TRUE), NEW made, made \notin InUse(f),
         InUse(g) = InUse(f) \cup {made}, SameWays(f, g, InUse(f)), SameTexts(f, g, InUse(f)),
         g.nodes[made].parent \in InUse(f)
  PROVE  Adds(f, g, made, Append(W(f)[g.nodes[made].parent], g.nodes[made].name), Shown(g, made))
<1> DEFINE w == W(f)
           t == TreeOf(f)
           place == Append(w[g.nodes[made].parent], g.nodes[made].name)
           v == [n \in InUse(g) |-> IF n = made THEN place ELSE w[n]]
           u == Promised!With(t, place, Shown(g, made))
<1>1. Places(f, w) /\ Shows(f, w, t) /\ made # 0 /\ made \in InUse(g)
  BY Views, InUseFacts
<1>2. place \in Seq(Names)
  <2>1. g.nodes[made].name \in Names
    BY <1>1, InUseFacts
  <2>2. w[g.nodes[made].parent] \in Seq(Names)
    BY <1>1, PlaceParts
  <2> HIDE DEF w
  <2> QED
    BY <2>1, <2>2, AppendsAreNotEmpty
<1> HIDE DEF w, t, place
<1>3. v \in [InUse(g) -> Seq(Names)]
  BY <1>1, <1>2 DEF Places
<1>4. v[0] = << >> /\ v[made] = place /\ \A n \in InUse(f) : v[n] = w[n]
  <2>1. 0 \in InUse(f)
    BY InUseFacts
  <2> QED
    BY <1>1, <2>1 DEF Places
<1> HIDE DEF v
<1>5. ASSUME NEW n \in InUse(g) \ {0} PROVE v[n] = Append(v[g.nodes[n].parent], g.nodes[n].name)
  <2>1. CASE n = made
    <3>1. v[g.nodes[made].parent] = w[g.nodes[made].parent]
      BY <1>4
    <3> QED
      BY <1>4, <2>1, <3>1 DEF place
  <2>2. CASE n # made
    <3>1. n \in InUse(f) \ {0} /\ f.nodes[n].parent \in InUse(f)
      BY <2>2, InUseFacts
    <3>2. w[n] = Append(w[f.nodes[n].parent], f.nodes[n].name)
      BY <1>1, <3>1 DEF Places
    <3>3. v[n] = w[n] /\ v[f.nodes[n].parent] = w[f.nodes[n].parent]
      BY <1>4, <3>1
    <3> QED
      BY <3>1, <3>2, <3>3 DEF SameWays
  <2> QED
    BY <2>1, <2>2
<1>6. Places(g, v)
  BY <1>3, <1>4, <1>5 DEF Places
<1>7. W(g) = v
  BY <1>6, TheseArePlaces
<1>8. u = [q \in DOMAIN t \cup {place} |-> IF q = place THEN Shown(g, made) ELSE t[q]]
  BY DEF Promised!With
<1> HIDE DEF u
<1>9. u = [p \in DOMAIN u |-> u[p]] /\ DOMAIN u = {v[n] : n \in InUse(g)}
  <2>1. DOMAIN t = {w[n] : n \in InUse(f)}
    BY <1>1 DEF Shows
  <2>2. DOMAIN t \cup {place} = {v[n] : n \in InUse(g)}
    BY <1>1, <1>4, <2>1
  <2> QED
    BY <1>8, <2>2
<1>10. ASSUME NEW n \in InUse(g) PROVE u[v[n]] = Shown(g, n)
  <2>1. CASE n = made
    BY <1>4, <1>8, <2>1
  <2>2. CASE n # made
    <3>1. n \in InUse(f)
      BY <2>2
    <3>2. v[n] # v[made]
      BY <1>1, <1>6, <2>2, PlacesApart
    <3>3. Shown(g, n) = Shown(f, n)
      BY <3>1 DEF Shown, SameWays, SameTexts
    <3>4. w[n] \in DOMAIN t /\ t[w[n]] = Shown(f, n)
      BY <1>1, <3>1 DEF Shows
    <3> QED
      BY <1>4, <1>8, <3>1, <3>2, <3>3, <3>4
  <2> QED
    BY <2>1, <2>2
<1>11. Shows(g, v, u)
  BY <1>9, <1>10 DEF Shows
<1>12. TreeOf(g) = u
  BY <1>6, <1>9, <1>11, TreeIs
<1> QED
  BY <1>4, <1>7, <1>12 DEF u, w, t, place, Adds

\* An entry goes.
LEMMA EntryIsGone ==
  ASSUME NEW f, Tree(f, {}, TRUE), NEW g, Tree(g, {}, TRUE), NEW at \in InUse(f) \ {0},
         InUse(g) = InUse(f) \ {at}, SameWays(f, g, InUse(g)), SameTexts(f, g, InUse(g))
  PROVE  /\ \A n \in InUse(g) : W(g)[n] = W(f)[n]
         /\ TreeOf(g) = Promised!Without(TreeOf(f), {W(f)[at]})
<1> DEFINE w == W(f)
           t == TreeOf(f)
           v == [n \in InUse(g) |-> w[n]]
           u == Promised!Without(t, {w[at]})
<1>1. Places(f, w) /\ Shows(f, w, t) /\ DOMAIN t = {w[n] : n \in InUse(f)}
  BY Views DEF Shows
<1> HIDE DEF w, t
<1>2. \A n \in InUse(g) : v[n] = w[n]
  OBVIOUS
<1>3. v \in [InUse(g) -> Seq(Names)]
  BY <1>1 DEF Places
<1> HIDE DEF v
<1>4. v[0] = << >>
  BY <1>1, <1>2, InUseFacts DEF Places
<1>5. ASSUME NEW n \in InUse(g) \ {0} PROVE v[n] = Append(v[g.nodes[n].parent], g.nodes[n].name)
  <2>1. g.nodes[n].parent \in InUse(g) /\ g.nodes[n].parent = f.nodes[n].parent
    BY InUseFacts DEF SameWays
  <2>2. w[n] = Append(w[f.nodes[n].parent], f.nodes[n].name)
    BY <1>1 DEF Places
  <2>3. v[n] = w[n] /\ v[g.nodes[n].parent] = w[g.nodes[n].parent]
    BY <1>2, <2>1
  <2> QED
    BY <2>1, <2>2, <2>3 DEF SameWays
<1>6. Places(g, v)
  BY <1>3, <1>4, <1>5 DEF Places
<1>7. W(g) = v
  BY <1>6, TheseArePlaces
<1>8. u = [q \in DOMAIN t \ {w[at]} |-> t[q]]
  BY DEF Promised!Without
<1> HIDE DEF u
<1>9. \A n \in InUse(f) : w[n] = w[at] => n = at
  BY <1>1, PlacesApart
<1>10. u = [p \in DOMAIN u |-> u[p]] /\ DOMAIN u = {v[n] : n \in InUse(g)}
  <2>1. DOMAIN t \ {w[at]} = {v[n] : n \in InUse(g)}
    BY <1>1, <1>2, <1>9
  <2> QED
    BY <1>8, <2>1
<1>11. ASSUME NEW n \in InUse(g) PROVE u[v[n]] = Shown(g, n)
  <2>1. t[w[n]] = Shown(f, n) /\ w[n] \in DOMAIN t /\ w[n] # w[at] /\ v[n] = w[n]
    BY <1>1, <1>2, <1>9 DEF Shows
  <2>2. Shown(g, n) = Shown(f, n)
    BY DEF Shown, SameWays, SameTexts
  <2> QED
    BY <1>8, <2>1, <2>2
<1>12. Shows(g, v, u)
  BY <1>10, <1>11 DEF Shows
<1>13. TreeOf(g) = u
  BY <1>6, <1>10, <1>12, TreeIs
<1> QED
  BY <1>2, <1>7, <1>13 DEF u, w, t

----------------------------------------------------------------------------
(* Entries are linked and unlinked *)

\* `at' is put in `parent', and nothing else that is shown changes.
Hangs(f, g, parent, at) ==
  /\ SameButLinks(f, g) /\ g.nodes[at].parent = parent
  /\ \A n \in Nodes : n # at => g.nodes[n].parent = f.nodes[n].parent

LEMMA LinkHangs ==
  ASSUME NEW f \in FsType, NEW parent \in Nodes, NEW at \in Nodes
  PROVE  Hangs(f, vfs_link_into(f, parent, at), parent, at)
<1> DEFINE p == Placed(f, parent, at)
           g == Attached(p, parent, at)
<1>1. /\ SameButLinks(f, p) /\ p.nodes[at].parent = parent
      /\ \A n \in Nodes : n # at => p.nodes[n].parent = f.nodes[n].parent
  BY PlacedEffect
<1>2. p \in FsType
  BY <1>1 DEF SameButLinks
<1>3. vfs_link_into(f, parent, at) = g
  BY LinkHalves
<1> HIDE DEF p
<1>4. SameButLinks(p, g) /\ \A n \in Nodes : g.nodes[n].parent = p.nodes[n].parent
  BY <1>2, AttachedEffect
<1> HIDE DEF g
<1> QED
  BY <1>1, <1>3, <1>4 DEF SameButLinks, Hangs

LEMMA LinksKeepTexts ==
  ASSUME NEW f, NEW g, SameButLinks(f, g), NEW n \in Nodes
  PROVE  contents(g, n) = contents(f, n)
<1>1. /\ g.nodes[n].length = f.nodes[n].length /\ g.nodes[n].blocks = f.nodes[n].blocks
      /\ g.blocks = f.blocks
  BY DEF SameButLinks
<1> QED
  BY <1>1 DEF contents, vfsblock_at

----------------------------------------------------------------------------
(* Steps of the tree of paths *)

LEMMA IsRefused ==
  ASSUME NEW answer, fs' = fs, reply' = answer
  PROVE  Promised!Refused(answer)
BY DEF Promised!Refused

LEMMA IsBecome ==
  ASSUME NEW t, NEW answer, TreeOf(fs') = t, reply' = answer,
         vfs_path_of(fs', fs'.cwd) = vfs_path_of(fs, fs.cwd)
  PROVE  Promised!Becomes(t, answer)
BY DEF Promised!Becomes

\* The working directory is where it was.
LEMMA HereStays ==
  ASSUME Tree(fs, {}, TRUE), Tree(fs', {}, TRUE), fs'.cwd = fs.cwd,
         \A n \in InUse(fs') : n \in InUse(fs) => W(fs')[n] = W(fs)[n]
  PROVE  vfs_path_of(fs', fs'.cwd) = vfs_path_of(fs, fs.cwd)
<1> DEFINE f == fs
           g == fs'
<1>1. Tree(f, {}, TRUE) /\ Tree(g, {}, TRUE)
  OBVIOUS
<1> HIDE DEF f, g
<1>2. vfs_path_of(f, f.cwd) = W(f)[f.cwd] /\ f.cwd \in InUse(f)
  BY <1>1, HereIs
<1>3. vfs_path_of(g, g.cwd) = W(g)[g.cwd] /\ g.cwd \in InUse(g)
  BY <1>1, HereIs
<1> QED
  BY <1>2, <1>3 DEF f, g

----------------------------------------------------------------------------
(* Making entries *)

\* `g' is `f' with an entry that is new, and empty.
MadeAs(f, g, made, parent, name, kind) ==
  /\ made \in Nodes /\ made \notin InUse(f) /\ InUse(g) = InUse(f) \cup {made}
  /\ SameWays(f, g, InUse(f)) /\ SameTexts(f, g, InUse(f))
  /\ g.nodes[made].parent = parent /\ g.nodes[made].name = name
  /\ g.nodes[made].kind = kind /\ g.nodes[made].length = 0
  /\ g.cwd = f.cwd

LEMMA MakeMakes ==
  ASSUME NEW f, Orderly(f, TRUE), NEW path \in PathType, NEW kind \in Kinds,
         PlaceRefused(f, path) = "OK", FreeNodes(f) # {}
  PROVE  /\ vfs_make(f, path, kind).reply = "OK"
         /\ MadeAs(f, vfs_make(f, path, kind).fs, free_node(f), ParentOf(f, path),
                   LastName(path), kind)
<1> DEFINE made == free_node(f)
           parent == ParentOf(f, path)
           name == LastName(path)
<1>1. f \in FsType /\ Tree(f, {}, TRUE) /\ TRUE \in BOOLEAN
  BY DEF Orderly, WellKept, Settled
<1>2. made \in FreeNodes(f)
  BY <1>1, MakeFills
<1>3. PICK filled \in FsType :
        /\ filled.cwd = f.cwd /\ filled.blocks = f.blocks
        /\ filled.block_used = f.block_used
        /\ \A n \in Nodes : n # made => filled.nodes[n] = f.nodes[n]
        /\ filled.nodes[made] =
             [name |-> name, kind |-> kind, used |-> TRUE,
              parent |-> parent, first_child |-> VFS_NONE,
              next_sibling |-> VFS_NONE, length |-> 0, blocks |-> NoBlocks]
        /\ vfs_make(f, path, kind) =
             Did(changed(vfs_link_into(filled, parent, made)), "OK")
  BY <1>1, MakeFills
<1>4. parent \in Nodes
  BY <1>1, PlaceIsFree
<1>5. made \in Nodes /\ made \notin InUse(f)
  BY <1>2 DEF FreeNodes, InUse
<1> DEFINE linked == vfs_link_into(filled, parent, made)
           g == changed(linked)
<1>6. vfs_make(f, path, kind).fs = g /\ vfs_make(f, path, kind).reply = "OK"
  BY <1>3 DEF Did
<1>7. /\ filled.nodes[made].name = name /\ filled.nodes[made].kind = kind
      /\ filled.nodes[made].used /\ filled.nodes[made].parent = parent
      /\ filled.nodes[made].length = 0
  BY <1>3
<1>8. /\ filled.cwd = f.cwd /\ filled.blocks = f.blocks
      /\ \A n \in Nodes : n # made => filled.nodes[n] = f.nodes[n]
  BY <1>3
<1> HIDE DEF made, parent, name
<1>9. Hangs(filled, linked, parent, made)
  BY <1>4, <1>5, LinkHangs
<1> HIDE DEF linked
<1>10. linked \in FsType /\ SameButLinks(filled, linked)
  BY <1>9 DEF Hangs, SameButLinks
<1>11. g.nodes = linked.nodes /\ g.cwd = linked.cwd /\ g.blocks = linked.blocks
  BY <1>10, ChangedType
<1> HIDE DEF g
<1>12. \A n \in Nodes : /\ g.nodes[n].name = filled.nodes[n].name
                        /\ g.nodes[n].kind = filled.nodes[n].kind
                        /\ g.nodes[n].used = filled.nodes[n].used
                        /\ g.nodes[n].length = filled.nodes[n].length
                        /\ g.nodes[n].blocks = filled.nodes[n].blocks
                        /\ n # made => g.nodes[n].parent = filled.nodes[n].parent
  BY <1>9, <1>11 DEF Hangs, SameButLinks
<1>13. g.nodes[made].parent = parent /\ g.cwd = f.cwd /\ g.blocks = f.blocks
  BY <1>8, <1>9, <1>11 DEF Hangs, SameButLinks
<1>14. InUse(g) = InUse(f) \cup {made}
  BY <1>5, <1>7, <1>8, <1>12 DEF InUse
<1>15. SameWays(f, g, InUse(f))
  BY <1>5, <1>8, <1>12 DEF SameWays, InUse
<1>16. SameTexts(f, g, InUse(f))
  <2> SUFFICES ASSUME NEW n \in InUse(f) PROVE contents(g, n) = contents(f, n)
    BY DEF SameTexts
  <2>1. n \in Nodes /\ n # made
    BY <1>5 DEF InUse
  <2>2. g.nodes[n].length = f.nodes[n].length /\ g.nodes[n].blocks = f.nodes[n].blocks
    BY <1>8, <1>12, <2>1
  <2> QED
    BY <1>13, <2>2 DEF contents, vfsblock_at
<1>17. MadeAs(f, g, made, parent, name, kind)
  BY <1>5, <1>7, <1>12, <1>13, <1>14, <1>15, <1>16 DEF MadeAs
<1> QED
  BY <1>6, <1>17 DEF made, parent, name

\* What that is in the tree of paths.
LEMMA MadeIsShown ==
  ASSUME NEW f, Tree(f, {}, TRUE), NEW g, Tree(g, {}, TRUE),
         NEW made, NEW parent \in InUse(f), NEW name, NEW kind,
         MadeAs(f, g, made, parent, name, kind)
  PROVE  Adds(f, g, made, Append(W(f)[parent], name), [kind |-> kind, text |-> << >>])
<1>1. /\ made \notin InUse(f) /\ InUse(g) = InUse(f) \cup {made}
      /\ SameWays(f, g, InUse(f)) /\ SameTexts(f, g, InUse(f))
      /\ g.nodes[made].parent = parent /\ g.nodes[made].name = name
      /\ g.nodes[made].kind = kind /\ g.nodes[made].length = 0
  BY DEF MadeAs
<1>2. contents(g, made) = << >>
  BY <1>1 DEF contents
<1>3. Shown(g, made) = [kind |-> kind, text |-> << >>]
  BY <1>1, <1>2 DEF Shown
<1>4. g.nodes[made].parent \in InUse(f)
  BY <1>1
<1>5. Adds(f, g, made, Append(W(f)[g.nodes[made].parent], g.nodes[made].name), Shown(g, made))
  BY <1>1, <1>4, EntryIsNew
<1> QED
  BY <1>1, <1>3, <1>5

----------------------------------------------------------------------------
(* One step for each operation *)

\* What a new entry does to the tree, and whether there is one.
LEMMA MakeEffect ==
  ASSUME Orderly(fs, TRUE), NEW path \in PathType, NEW kind \in Kinds,
         PlaceRefused(fs, path) = "OK", FreeNodes(fs) # {}
  PROVE  LET g == vfs_make(fs, path, kind).fs
         IN  /\ Orderly(g, TRUE) /\ g.cwd = fs.cwd
             /\ MadeAs(fs, g, free_node(fs), ParentOf(fs, path), LastName(path), kind)
             /\ Adds(fs, g, free_node(fs), Promised!New(path), [kind |-> kind, text |-> << >>])
<1> DEFINE g == vfs_make(fs, path, kind).fs
           parent == ParentOf(fs, path)
           name == LastName(path)
           made == free_node(fs)
<1>1. TRUE \in BOOLEAN /\ Tree(fs, {}, TRUE)
  BY DEF Orderly, Settled
<1>2. Orderly(g, TRUE)
  BY <1>1, MakeOrderly
<1>3. Tree(g, {}, TRUE)
  BY <1>2 DEF Orderly, Settled
<1>4. MadeAs(fs, g, made, parent, name, kind)
  BY MakeMakes
<1>5. parent \in InUse(fs)
  BY <1>1, PlaceIsFree
<1>6. Promised!New(path) = Append(W(fs)[parent], name)
  BY <1>1, TakenIs
<1> HIDE DEF g, parent, name, made
<1>7. Adds(fs, g, made, Append(W(fs)[parent], name), [kind |-> kind, text |-> << >>])
  BY <1>1, <1>3, <1>4, <1>5, MadeIsShown
<1>8. Adds(fs, g, made, Promised!New(path), [kind |-> kind, text |-> << >>])
  BY <1>6, <1>7
<1>9. g.cwd = fs.cwd
  BY <1>4 DEF MadeAs
<1> QED
  BY <1>2, <1>4, <1>8, <1>9 DEF g, parent, name, made

LEMMA FullIs ==
  ASSUME Orderly(fs, TRUE)
  PROVE  Promised!Cardinality(DOMAIN TreeOf(fs)) = VFS_MAX_NODES <=> FreeNodes(fs) = {}
<1>1. Promised!Cardinality(DOMAIN TreeOf(fs)) = Cardinality(DOMAIN TreeOf(fs))
  BY CountsAgree
<1>2. Cardinality(DOMAIN TreeOf(fs)) = VFS_MAX_NODES <=> FreeNodes(fs) = {}
  <2> DEFINE f == fs
  <2>1. Tree(f, {}, TRUE)
    BY DEF Orderly, Settled
  <2> HIDE DEF f
  <2>2. Cardinality(DOMAIN TreeOf(f)) = VFS_MAX_NODES <=> FreeNodes(f) = {}
    BY <2>1, RoomIs
  <2> QED
    BY <2>2 DEF f
<1> QED
  BY <1>1, <1>2

LEMMA MakeStep ==
  ASSUME Orderly(fs, TRUE), NEW path \in PathType, NEW kind \in Kinds,
         Do(vfs_make(fs, path, kind))
  PROVE  Promised!Make(path, [kind |-> kind, text |-> << >>])
<1> DEFINE entry == [kind |-> kind, text |-> << >>]
           barred == PlaceRefused(fs, path)
<1>1. Tree(fs, {}, TRUE)
  BY DEF Orderly, Settled
<1>2. Promised!Taken(path) = barred
  BY <1>1, TakenIs
<1>3. Promised!Cardinality(DOMAIN TreeOf(fs)) = VFS_MAX_NODES <=> FreeNodes(fs) = {}
  BY FullIs
<1>4. CASE barred # "OK"
  <2>1. fs' = fs /\ reply' = barred
    BY <1>4 DEF vfs_make, Do, Did
  <2>2. Promised!Refused(barred)
    BY <2>1, IsRefused
  <2> QED
    BY <1>2, <1>4, <2>2 DEF Promised!Make
<1>5. CASE barred = "OK" /\ FreeNodes(fs) = {}
  <2>1. fs' = fs /\ reply' = "NO_SPACE"
    BY <1>5 DEF vfs_make, Do, Did
  <2>2. Promised!Refused("NO_SPACE")
    BY <2>1, IsRefused
  <2> QED
    BY <1>2, <1>3, <1>5, <2>2 DEF Promised!Make
<1>6. CASE barred = "OK" /\ FreeNodes(fs) # {}
  <2>1. /\ Orderly(fs', TRUE) /\ fs'.cwd = fs.cwd
        /\ Adds(fs, fs', free_node(fs), Promised!New(path), entry)
        /\ reply' = "OK"
    BY <1>6, MakeEffect, MakeMakes DEF Do
  <2>2. Tree(fs', {}, TRUE)
    BY <2>1 DEF Orderly, Settled
  <2>3. vfs_path_of(fs', fs'.cwd) = vfs_path_of(fs, fs.cwd)
    BY <1>1, <2>1, <2>2, HereStays DEF Adds
  <2>4. TreeOf(fs') = Promised!With(TreeOf(fs), Promised!New(path), entry)
    BY <2>1 DEF Adds
  <2>5. Promised!Becomes(Promised!With(TreeOf(fs), Promised!New(path), entry), "OK")
    BY <2>1, <2>3, <2>4, IsBecome
  <2> QED
    BY <1>2, <1>3, <1>6, <2>5 DEF Promised!Make
<1> QED
  BY <1>4, <1>5, <1>6

LEMMA ChdirStep ==
  ASSUME Orderly(fs, TRUE), NEW path \in PathType, Do(vfs_chdir(fs, path))
  PROVE  Promised!Chdir(path)
<1> DEFINE at == vfs_resolve(fs, path)
<1>1. Tree(fs, {}, TRUE) /\ TRUE \in BOOLEAN /\ fs \in FsType
  BY DEF Orderly, Settled, WellKept
<1>2. Promised!At(path) = Spot(W(fs), at) /\ at \in InUse(fs) \cup {VFS_NONE}
  BY <1>1, AtIs, PathsLeadToEntries
<1>3. CASE at = VFS_NONE
  <2>1. fs' = fs /\ reply' = "NOT_FOUND"
    BY <1>3 DEF vfs_chdir, Do, Did
  <2>2. Promised!Refused("NOT_FOUND") /\ Promised!At(path) = Promised!Nowhere
    BY <1>2, <1>3, <2>1, IsRefused DEF Spot, NoPlace, Promised!Nowhere
  <2> QED
    BY <2>2 DEF Promised!Chdir
<1>4. CASE at \in InUse(fs)
  <2> HIDE DEF at
  <2>1. Promised!At(path) = W(fs)[at] /\ Promised!At(path) # Promised!Nowhere /\ at # VFS_NONE
    <3>1. Places(fs, W(fs))
      BY <1>1, Views
    <3> DEFINE w == W(fs)
    <3> HIDE DEF w
    <3>2. w[at] # NoPlace /\ at # VFS_NONE
      BY <1>1, <1>4, <3>1, PlacesAreSomewhere DEF w
    <3> QED
      BY <1>2, <3>2 DEF Spot, NoPlace, Promised!Nowhere, w
  <2>2. TreeOf(fs)[W(fs)[at]].kind = fs.nodes[at].kind /\ fs.nodes[at].kind \in {"DIR", "FILE"}
    <3>1. Shows(fs, W(fs), TreeOf(fs))
      BY <1>1, Views
    <3>2. TreeOf(fs)[W(fs)[at]] = Shown(fs, at)
      BY <1>4, <3>1 DEF Shows
    <3>3. fs.nodes[at].kind \in Kinds
      BY <1>1, <1>4, InUseFacts
    <3> QED
      BY <3>2, <3>3 DEF Shown, Kinds
  <2>3. CASE fs.nodes[at].kind # "DIR"
    <3>1. fs' = fs /\ reply' = "NOT_A_DIRECTORY"
      BY <2>1, <2>3 DEF vfs_chdir, Do, Did, at
    <3>2. Promised!Refused("NOT_A_DIRECTORY")
      BY <3>1, IsRefused
    <3> QED
      BY <2>1, <2>2, <2>3, <3>2 DEF Promised!Chdir
  <2>4. CASE fs.nodes[at].kind = "DIR"
    <3>1. fs' = [fs EXCEPT !.cwd = at] /\ reply' = "OK"
      BY <2>1, <2>4 DEF vfs_chdir, Do, Did, at
    <3>2. Orderly(vfs_chdir(fs, path).fs, TRUE)
      BY <1>1, ChdirOrderly
    <3>3. Tree(fs', {}, TRUE) /\ fs'.cwd = at /\ fs'.nodes = fs.nodes /\ fs'.blocks = fs.blocks
      BY <1>1, <3>1, <3>2 DEF Do, Orderly, Settled, FsType
    <3> DEFINE f == fs
               g == fs'
    <3>4. Tree(f, {}, TRUE) /\ Tree(g, {}, TRUE) /\ g.cwd = at /\ g.nodes = f.nodes /\ g.blocks = f.blocks
      BY <1>1, <3>3
    <3> HIDE DEF f, g
    <3>5. InUse(g) = InUse(f) /\ SameWays(f, g, InUse(f)) /\ SameTexts(f, g, InUse(f))
      BY <3>4 DEF InUse, SameWays, SameTexts, contents, vfsblock_at
    <3>6. TreeOf(g) = TreeOf(f) /\ W(g) = W(f)
      <4>1. W(g) = W(f)
        BY <3>4, <3>5, WaysStay
      <4>2. TreeOf(g) = TreeOf(f)
        BY <3>4, <3>5, NothingChanges
      <4> QED
        BY <4>1, <4>2
    <3>7. vfs_path_of(g, g.cwd) = W(f)[at]
      <4>1. vfs_path_of(g, g.cwd) = W(g)[g.cwd]
        BY <3>4, HereIs
      <4> QED
        BY <3>4, <3>6, <4>1
    <3>8. TreeOf(fs') = TreeOf(fs) /\ vfs_path_of(fs', fs'.cwd) = Promised!At(path)
      BY <2>1, <3>6, <3>7 DEF f, g
    <3> HIDE <3>1, <3>2, <3>3
    <3> QED
      BY <2>1, <2>2, <2>4, <3>1, <3>8 DEF Promised!Chdir
  <2> QED
    BY <2>3, <2>4
<1> QED
  BY <1>2, <1>3, <1>4

----------------------------------------------------------------------------
(* Texts are stored *)

LEMMA WithWith ==
  ASSUME NEW t, NEW p, NEW a, NEW b
  PROVE  Promised!With(Promised!With(t, p, a), p, b) = Promised!With(t, p, b)
<1> DEFINE u == Promised!With(t, p, a)
           v == Promised!With(u, p, b)
           x == Promised!With(t, p, b)
<1>1. DOMAIN u = DOMAIN t \cup {p} /\ \A q \in DOMAIN t : q # p => u[q] = t[q]
  BY DEF Promised!With
<1> HIDE DEF u
<1>2. v = [q \in DOMAIN u \cup {p} |-> IF q = p THEN b ELSE u[q]]
  BY DEF Promised!With
<1>3. x = [q \in DOMAIN t \cup {p} |-> IF q = p THEN b ELSE t[q]]
  BY DEF Promised!With
<1>4. DOMAIN u \cup {p} = DOMAIN t \cup {p}
  BY <1>1
<1>5. \A q \in DOMAIN t \cup {p} :
         (IF q = p THEN b ELSE u[q]) = (IF q = p THEN b ELSE t[q])
  BY <1>1
<1> HIDE DEF v, x
<1>6. v = x
  BY <1>2, <1>3, <1>4, <1>5
<1> QED
  BY <1>6 DEF u, v, x

\* A file and where it is, what it holds, and the tree that is `fs' but for it.
Ready(h, at, p, old) ==
  /\ Orderly(h, TRUE) /\ IsFile(h, at) /\ h.cwd = fs.cwd
  /\ W(h)[at] = p /\ W(h)[h.cwd] = W(fs)[fs.cwd] /\ contents(h, at) = old
  /\ TreeOf(h) = Promised!With(TreeOf(fs), p, Promised!File(old))

LEMMA FileIsShown ==
  ASSUME NEW h, NEW at, IsFile(h, at)
  PROVE  Shown(h, at) = Promised!File(contents(h, at))
BY DEF IsFile, Shown, Promised!File

\* A change of one file's text, of one that is ready, leaves it ready.
LEMMA StaysReady ==
  ASSUME NEW h, NEW at, NEW p, NEW old, Ready(h, at, p, old),
         NEW g, Orderly(g, TRUE), SameTree(h, g), SameTexts(h, g, InUse(h) \ {at})
  PROVE  Ready(g, at, p, contents(g, at))
<1>1. Tree(h, {}, TRUE) /\ Tree(g, {}, TRUE)
  BY DEF Ready, Orderly, Settled
<1>2. InUse(g) = InUse(h) /\ SameWays(h, g, InUse(h)) /\ at \in InUse(h) /\ at \in Nodes
  BY DEF SameTree, InUse, SameWays, Ready, IsFile
<1>3. W(g) = W(h)
  BY <1>1, <1>2, WaysStay
<1>4. TreeOf(g) = Promised!With(TreeOf(h), W(h)[at], Shown(g, at))
  BY <1>1, <1>2, OneTextChanges
<1>5. IsFile(g, at)
  BY <1>2 DEF Ready, IsFile, SameTree
<1>6. TreeOf(g) = Promised!With(TreeOf(fs), p, Promised!File(contents(g, at)))
  <2> DEFINE t == TreeOf(fs)
             a == Promised!File(old)
             b == Promised!File(contents(g, at))
             th == TreeOf(h)
             tg == TreeOf(g)
  <2>1. th = Promised!With(t, p, a) /\ tg = Promised!With(th, p, b)
    BY <1>4, <1>5, FileIsShown DEF Ready
  <2> HIDE DEF t, a, b, th, tg
  <2>2. tg = Promised!With(t, p, b)
    BY <2>1, WithWith
  <2> QED
    BY <2>2 DEF t, b, tg
<1> QED
  BY <1>3, <1>5, <1>6 DEF Ready, SameTree

LEMMA TouchesSameTree ==
  ASSUME NEW f \in FsType, NEW g, NEW at, IsFile(f, at), Touches(f, g, at)
  PROVE  SameTree(f, g)
BY DEF Touches, SameTree, SameEntry, IsFile, IsDir

LEMMA ReleaseReady ==
  ASSUME NEW h, NEW at, NEW p, NEW old, Ready(h, at, p, old)
  PROVE  Ready(vfsblock_release(h, at), at, p, << >>)
<1> DEFINE g == vfsblock_release(h, at)
<1>1. /\ WellKept(h) /\ h \in FsType /\ TRUE \in BOOLEAN /\ Filed(h, TRUE) /\ NothingSpare(h)
      /\ Tree(h, {}, TRUE) /\ IsFile(h, at) /\ at \in Nodes /\ at \in InUse(h)
  BY DEF Ready, Orderly, Settled, WellKept, IsFile, InUse
<1>2. Touches(h, g, at)
  BY <1>1, ReleaseTouches
<1>3. WellKept(g) /\ Filed(g, TRUE) /\ NothingSpare(g)
  BY <1>1, ReleaseKeeps, ReleaseFiles
<1>4. contents(g, at) = << >> /\ SameTexts(h, g, InUse(h) \ {at})
  BY <1>1, ReleaseKeepsTexts DEF SameTexts
<1> HIDE DEF g
<1>5. Tree(g, {}, TRUE)
  BY <1>1, <1>2, TouchesFile
<1>6. Orderly(g, TRUE)
  BY <1>3, <1>5 DEF Orderly, Settled
<1>7. SameTree(h, g)
  BY <1>1, <1>2, TouchesSameTree
<1>8. Ready(g, at, p, contents(g, at))
  BY <1>4, <1>6, <1>7, StaysReady
<1> QED
  BY <1>4, <1>8 DEF g

LEMMA ReadyBecomes ==
  ASSUME Tree(fs, {}, TRUE), NEW at, NEW p, NEW text, Ready(fs', at, p, text),
         NEW answer, reply' = answer
  PROVE  Promised!Becomes(Promised!With(TreeOf(fs), p, Promised!File(text)), answer)
<1> DEFINE f == fs
           g == fs'
<1>1. Tree(f, {}, TRUE) /\ Tree(g, {}, TRUE)
      /\ W(g)[g.cwd] = W(f)[f.cwd]
      /\ TreeOf(g) = Promised!With(TreeOf(f), p, Promised!File(text))
  BY DEF Ready, Orderly, Settled
<1> HIDE DEF f, g
<1>2. vfs_path_of(f, f.cwd) = W(f)[f.cwd]
  BY <1>1, HereIs
<1>3. vfs_path_of(g, g.cwd) = W(g)[g.cwd]
  BY <1>1, HereIs
<1>4. vfs_path_of(fs', fs'.cwd) = vfs_path_of(fs, fs.cwd)
  BY <1>1, <1>2, <1>3 DEF f, g
<1>5. TreeOf(fs') = Promised!With(TreeOf(fs), p, Promised!File(text))
  BY <1>1 DEF f, g
<1> QED
  BY <1>4, <1>5, IsBecome

\* A refused reserve, though it clears blocks, changes no text.
LEMMA RefusedReady ==
  ASSUME NEW h, NEW at, NEW p, NEW old, Ready(h, at, p, old), NEW wanted \in Nat,
         ~reserve_succeeds(h, at, wanted)
  PROVE  Ready(vfsblock_reserve(h, at, wanted), at, p, old)
<1> DEFINE g == vfsblock_reserve(h, at, wanted)
<1>1. /\ WellKept(h) /\ h \in FsType /\ TRUE \in BOOLEAN /\ Orderly(h, TRUE)
      /\ IsFile(h, at) /\ at \in Nodes /\ at \in InUse(h) /\ contents(h, at) = old
  BY DEF Ready, Orderly, Settled, WellKept, IsFile, InUse
<1>2. Orderly(g, TRUE)
  BY <1>1, RefusalOrderly
<1>3. Touches(h, g, at)
  BY <1>1, ReserveTouches
<1>4. ASSUME NEW n \in InUse(h) PROVE KeepsFile(h, g, n)
  BY <1>1, ReserveKeepsTexts
<1> HIDE DEF g
<1>5. \A n \in InUse(h) : contents(g, n) = contents(h, n)
  BY <1>1, <1>4, ContentsStay DEF InUse
<1>6. SameTree(h, g) /\ SameTexts(h, g, InUse(h) \ {at})
  BY <1>1, <1>3, <1>5, TouchesSameTree DEF SameTexts
<1>7. Ready(g, at, p, contents(g, at))
  BY <1>2, <1>6, StaysReady
<1> QED
  BY <1>1, <1>5, <1>7 DEF g

LEMMA TouchesTwice ==
  ASSUME NEW f, NEW g, NEW h, NEW at, Touches(f, g, at), Touches(g, h, at)
  PROVE  Touches(f, h, at)
BY DEF Touches, SameEntry

\* What a file holds once the blocks are found and the bytes are put in them.
LEMMA StoredReady ==
  ASSUME NEW h, NEW at, NEW p, NEW old, Ready(h, at, p, old), NEW data \in Seq(Bytes \cup {0}),
         NEW length \in Nat, length = h.nodes[at].length + Len(data), length <= VFS_FILE_MAX,
         reserve_succeeds(h, at, vfs_blocks_for(length))
  PROVE  Ready(put_bytes(vfsblock_reserve(h, at, vfs_blocks_for(length)), at, data), at, p, old \o data)
<1> DEFINE wanted == vfs_blocks_for(length)
           r == vfsblock_reserve(h, at, wanted)
           g == put_bytes(r, at, data)
<1>1. /\ WellKept(h) /\ h \in FsType /\ TRUE \in BOOLEAN /\ Orderly(h, TRUE)
      /\ IsFile(h, at) /\ at \in Nodes /\ at \in InUse(h) /\ contents(h, at) = old
      /\ InUse(h) \subseteq Nodes
  BY DEF Ready, Orderly, Settled, WellKept, IsFile, InUse
<1>2. wanted \in Nat
  BY BlocksForType
<1>3. Orderly(g, TRUE)
  BY <1>1, StoreOrderly
<1> HIDE DEF wanted
<1>4. /\ WellKept(r) /\ r.nodes[at].length = h.nodes[at].length
      /\ \A i \in Slots : i < wanted => r.nodes[at].blocks[i] # VFS_NONE
  BY <1>1, <1>2, ReserveSucceeds DEF wanted
<1>5. Touches(h, r, at)
  BY <1>1, <1>2, ReserveTouches
<1>6. ASSUME NEW n \in InUse(h) PROVE KeepsFile(h, r, n)
  BY <1>1, <1>2, ReserveKeepsTexts
<1> HIDE DEF r
<1>7. \A n \in InUse(h) : contents(r, n) = contents(h, n)
  BY <1>1, <1>6, ContentsStay
<1>8. InUse(r) = InUse(h) /\ at \in InUse(r)
  BY <1>1, <1>5 DEF Touches, SameEntry, InUse
<1>9. length = r.nodes[at].length + Len(data)
  BY <1>4
<1>10. contents(g, at) = contents(r, at) \o data
  BY <1>4, <1>8, <1>9, PutAppends DEF wanted
<1>11. \A n \in InUse(r) \ {at} : contents(g, n) = contents(r, n)
  BY <1>4, <1>8, <1>9, PutAppends DEF wanted
<1>12. Touches(r, g, at)
  <2>1. g \in FsType
    BY <1>3 DEF Orderly, WellKept
  <2> QED
    BY <1>1, <1>4, <2>1, PutTouches
<1> HIDE DEF g
<1>13. SameTree(h, g)
  BY <1>1, <1>5, <1>12, TouchesTwice, TouchesSameTree
<1>14. SameTexts(h, g, InUse(h) \ {at})
  BY <1>7, <1>8, <1>11 DEF SameTexts
<1>15. Ready(g, at, p, contents(g, at))
  BY <1>3, <1>13, <1>14, StaysReady
<1>16. contents(g, at) = old \o data
  BY <1>1, <1>7, <1>10
<1> QED
  BY <1>15, <1>16 DEF g, r, wanted

LEMMA ChangedReady ==
  ASSUME NEW h, NEW at, NEW p, NEW text, Ready(h, at, p, text)
  PROVE  Ready(changed(h), at, p, text)
<1> DEFINE g == changed(h)
<1>1. h \in FsType /\ TRUE \in BOOLEAN /\ Settled(h, TRUE) /\ WellKept(h) /\ contents(h, at) = text
  BY DEF Ready, Orderly, WellKept
<1>2. g \in FsType /\ g.nodes = h.nodes /\ g.cwd = h.cwd /\ g.blocks = h.blocks
  BY <1>1, ChangedType
<1>3. Orderly(g, TRUE)
  BY <1>1, ChangedKeeps, ChangedSettled DEF Orderly
<1> HIDE DEF g
<1>4. SameTree(h, g)
  BY <1>2 DEF SameTree
<1>5. \A n : contents(g, n) = contents(h, n)
  BY <1>2 DEF contents, vfsblock_at
<1>6. SameTexts(h, g, InUse(h) \ {at})
  BY <1>5 DEF SameTexts
<1>7. Ready(g, at, p, contents(g, at))
  BY <1>3, <1>4, <1>6, StaysReady
<1> QED
  BY <1>1, <1>5, <1>7 DEF g

LEMMA StoreStep ==
  ASSUME Tree(fs, {}, TRUE), NEW h, NEW at, NEW p, NEW old, Ready(h, at, p, old),
         NEW data \in Seq(Bytes), Do(AppendTo(h, at, data))
  PROVE  Promised!Store(TreeOf(fs), p, old, data)
<1> DEFINE length == h.nodes[at].length + Len(data)
           wanted == vfs_blocks_for(length)
           reserved == vfsblock_reserve(h, at, wanted)
           put == put_bytes(reserved, at, data)
           t == TreeOf(fs)
           new == old \o data
<1>1. /\ Orderly(h, TRUE) /\ WellKept(h) /\ h \in FsType /\ Tree(h, {}, TRUE)
      /\ IsFile(h, at) /\ at \in Nodes /\ h.nodes[at].used /\ contents(h, at) = old
      /\ W(h)[at] = p /\ TreeOf(h) = Promised!With(t, p, Promised!File(old))
  BY DEF Ready, Orderly, Settled, WellKept, IsFile, InUse
<1>2. old \in Seq(Bytes \cup {0}) /\ Len(old) = h.nodes[at].length
  BY <1>1, ContentsType
<1>3. data \in Seq(Bytes \cup {0}) /\ Len(data) \in Nat
  <2>1. Seq(Bytes) \in SUBSET Seq(Bytes \cup {0})
    BY SeqGrows
  <2> QED
    BY <2>1
<1>4. new \in Seq(Bytes \cup {0}) /\ Len(new) = length /\ length \in Nat
  <2>1. Len(new) = Len(old) + Len(data) /\ new \in Seq(Bytes \cup {0})
    BY <1>2, <1>3, Joined
  <2>2. Len(old) \in Nat
    BY <1>2
  <2> QED
    BY <1>2, <1>3, <2>1, <2>2
<1>5. wanted \in Nat /\ VFS_FILE_MAX \in Nat
  BY <1>4, BlocksForType, SizesAssumption DEF VFS_FILE_MAX
<1>6. Promised!Store(t, p, old, data) <=>
        IF Len(new) > VFS_FILE_MAX
        THEN Promised!Becomes(Promised!With(t, p, Promised!File(old)), "TOO_BIG")
        ELSE IF ~Promised!Fits(Promised!With(t, p, Promised!File(new)))
        THEN Promised!Becomes(Promised!With(t, p, Promised!File(old)), "NO_SPACE")
        ELSE Promised!Becomes(Promised!With(t, p, Promised!File(new)), "OK")
  BY DEF Promised!Store
<1>7. length <= VFS_FILE_MAX =>
        (Promised!Fits(Promised!With(t, p, Promised!File(new)))
           <=> reserve_succeeds(h, at, wanted))
  <2> SUFFICES ASSUME length <= VFS_FILE_MAX
               PROVE  Promised!Fits(Promised!With(t, p, Promised!File(new)))
                        <=> reserve_succeeds(h, at, wanted)
    OBVIOUS
  <2> DEFINE a == Promised!File(old)
             b == Promised!File(new)
  <2>1. Promised!With(TreeOf(h), W(h)[at], b) = Promised!With(t, p, b)
    <3>1. TreeOf(h) = Promised!With(t, p, a) /\ W(h)[at] = p
      BY <1>1
    <3> HIDE DEF a, b, t
    <3> QED
      BY <3>1, WithWith
  <2>2. Promised!Fits(Promised!With(TreeOf(h), W(h)[at], b))
          <=> reserve_succeeds(h, at, vfs_blocks_for(Len(new)))
    <3>1. Len(new) <= VFS_FILE_MAX
      BY <1>4
    <3> HIDE DEF new
    <3> QED
      BY <1>1, <1>4, <3>1, FitsIs
  <2> HIDE DEF a, b, new, t
  <2> QED
    BY <1>4, <2>1, <2>2 DEF b
<1> HIDE DEF t, new, length, wanted
<1>8. CASE length > VFS_FILE_MAX
  <2>1. fs' = h /\ reply' = "TOO_BIG"
    BY <1>8 DEF AppendTo, Do, Did, length
  <2>2. Ready(fs', at, p, old)
    BY <2>1
  <2>3. Promised!Becomes(Promised!With(t, p, Promised!File(old)), "TOO_BIG")
    BY <2>1, <2>2, ReadyBecomes DEF t
  <2> QED
    BY <1>4, <1>5, <1>6, <1>8, <2>3 DEF t
<1>9. CASE length <= VFS_FILE_MAX /\ ~reserve_succeeds(h, at, wanted)
  <2>1. fs' = reserved /\ reply' = "NO_SPACE"
    <3>1. ~(length > VFS_FILE_MAX)
      BY <1>4, <1>5, <1>9
    <3> QED
      BY <1>9, <3>1 DEF AppendTo, Do, Did, length, wanted
  <2>2. Ready(fs', at, p, old)
    BY <1>5, <1>9, <2>1, RefusedReady
  <2>3. Promised!Becomes(Promised!With(t, p, Promised!File(old)), "NO_SPACE")
    BY <2>1, <2>2, ReadyBecomes DEF t
  <2> QED
    BY <1>4, <1>5, <1>6, <1>7, <1>9, <2>3 DEF t
<1>10. CASE length <= VFS_FILE_MAX /\ reserve_succeeds(h, at, wanted)
  <2>1. fs' = changed(put) /\ reply' = "OK"
    <3>1. ~(length > VFS_FILE_MAX)
      BY <1>4, <1>5, <1>10
    <3> QED
      BY <1>10, <3>1 DEF AppendTo, Do, Did, length, wanted
  <2>2. Ready(put, at, p, new)
    <3>1. length = h.nodes[at].length + Len(data)
      BY DEF length
    <3> QED
      BY <1>3, <1>4, <1>10, <3>1, StoredReady DEF new, wanted
  <2> HIDE DEF put
  <2>3. Ready(fs', at, p, new)
    BY <2>1, <2>2, ChangedReady
  <2>4. Promised!Becomes(Promised!With(t, p, Promised!File(new)), "OK")
    BY <2>1, <2>3, ReadyBecomes DEF t
  <2> QED
    BY <1>4, <1>5, <1>6, <1>7, <1>10, <2>4 DEF t
<1>11. length > VFS_FILE_MAX \/ length <= VFS_FILE_MAX
  BY <1>4, <1>5
<1> QED
  BY <1>8, <1>9, <1>10, <1>11

\* What the end of a path is in the tree of paths.
LEMMA AtNode ==
  ASSUME Tree(fs, {}, TRUE), NEW path \in PathType, vfs_resolve(fs, path) # VFS_NONE
  PROVE  LET at == vfs_resolve(fs, path)
         IN  /\ at \in InUse(fs) /\ at \in Nodes
             /\ Promised!At(path) = W(fs)[at] /\ Promised!At(path) # Promised!Nowhere
             /\ TreeOf(fs)[W(fs)[at]] = Shown(fs, at)
             /\ TreeOf(fs)[W(fs)[at]].kind = fs.nodes[at].kind
             /\ fs.nodes[at].kind \in {"DIR", "FILE"}
             /\ Promised!At(path) = Promised!Root <=> at = 0
<1> DEFINE at == vfs_resolve(fs, path)
           w == W(fs)
           t == TreeOf(fs)
<1>1. at \in InUse(fs) /\ TRUE \in BOOLEAN
  BY PathsLeadToEntries
<1>2. Promised!At(path) = Spot(w, at)
  BY AtIs
<1>3. Places(fs, w) /\ Shows(fs, w, t)
  BY Views
<1> HIDE DEF at, w, t
<1>4. w[at] # NoPlace /\ at # VFS_NONE
  BY <1>1, <1>3, PlacesAreSomewhere
<1>5. Promised!At(path) = w[at] /\ Promised!At(path) # Promised!Nowhere
  BY <1>2, <1>4 DEF Spot, NoPlace, Promised!Nowhere
<1>6. t[w[at]] = Shown(fs, at)
  BY <1>1, <1>3 DEF Shows
<1>7. fs.nodes[at].kind \in {"DIR", "FILE"}
  BY <1>1, InUseFacts DEF Kinds
<1>8. t[w[at]].kind = fs.nodes[at].kind
  BY <1>6 DEF Shown
<1>9. w[at] = << >> <=> at = 0
  BY <1>1, <1>3, PlaceParts
<1>10. at \in Nodes
  BY <1>1 DEF InUse
<1> QED
  BY <1>1, <1>5, <1>6, <1>7, <1>8, <1>9, <1>10 DEF at, w, t, Promised!Root

LEMMA AtNothing ==
  ASSUME Tree(fs, {}, TRUE), NEW path \in PathType, vfs_resolve(fs, path) = VFS_NONE
  PROVE  Promised!At(path) = Promised!Nowhere
BY AtIs DEF Spot, NoPlace, Promised!Nowhere

\* A file is as it is.
LEMMA FoundReady ==
  ASSUME Orderly(fs, TRUE), NEW at, IsFile(fs, at)
  PROVE  Ready(fs, at, W(fs)[at], contents(fs, at))
<1> DEFINE f == fs
<1>1. Orderly(f, TRUE) /\ Tree(f, {}, TRUE) /\ IsFile(f, at) /\ at \in InUse(f)
  BY DEF Orderly, Settled, IsFile
<1> HIDE DEF f
<1>2. SameWays(f, f, InUse(f)) /\ SameTexts(f, f, InUse(f) \ {at})
  BY DEF SameWays, SameTexts
<1>3. TreeOf(f) = Promised!With(TreeOf(f), W(f)[at], Shown(f, at))
  BY <1>1, <1>2, OneTextChanges
<1>4. Shown(f, at) = Promised!File(contents(f, at))
  BY <1>1, FileIsShown
<1> QED
  BY <1>1, <1>3, <1>4 DEF Ready, f

\* A file is made.
LEMMA MadeReady ==
  ASSUME Orderly(fs, TRUE), NEW path \in PathType,
         PlaceRefused(fs, path) = "OK", FreeNodes(fs) # {}
  PROVE  LET made == vfs_make(fs, path, "FILE")
         IN  Ready(made.fs, free_node(fs), Promised!New(path), << >>)
<1> DEFINE g == vfs_make(fs, path, "FILE").fs
           made == free_node(fs)
           place == Promised!New(path)
<1>1. "FILE" \in Kinds /\ Tree(fs, {}, TRUE)
  BY DEF Kinds, Orderly, Settled
<1>2. /\ Orderly(g, TRUE) /\ g.cwd = fs.cwd
      /\ MadeAs(fs, g, made, ParentOf(fs, path), LastName(path), "FILE")
      /\ Adds(fs, g, made, place, [kind |-> "FILE", text |-> << >>])
  BY <1>1, MakeEffect
<1> HIDE DEF g, made, place
<1>3. fs.cwd \in InUse(fs) /\ 0 \in InUse(fs)
  BY <1>1, InUseFacts
<1>4. IsFile(g, made)
  BY <1>2, <1>3 DEF MadeAs, IsFile
<1>5. contents(g, made) = << >>
  BY <1>2 DEF MadeAs, contents
<1>6. TreeOf(g) = Promised!With(TreeOf(fs), place, Promised!File(<< >>))
      /\ W(g)[made] = place /\ W(g)[g.cwd] = W(fs)[fs.cwd]
  BY <1>2, <1>3 DEF Adds, Promised!File
<1> QED
  BY <1>2, <1>4, <1>5, <1>6 DEF Ready, g, made, place

\* The file that is written to, and what the tree of paths has for it.
Opened(path, h, at, p, old) ==
  /\ Ready(h, at, p, old)
  /\ \A text, keep : Promised!Put(path, text, keep) <=>
       Promised!Store(TreeOf(fs), p, IF keep THEN old ELSE << >>, text)

LEMMA FileOpens ==
  ASSUME Orderly(fs, TRUE), NEW path \in PathType, file_for_writing(fs, path).reply = "OK"
  PROVE  \E p, old : Opened(path, file_for_writing(fs, path).fs, FileWritten(fs, path), p, old)
<1> DEFINE at == vfs_resolve(fs, path)
<1>1. Tree(fs, {}, TRUE)
  BY DEF Orderly, Settled
<1>2. CASE at # VFS_NONE
  <2>1. /\ at \in InUse(fs) /\ Promised!At(path) = W(fs)[at] /\ Promised!At(path) # Promised!Nowhere
        /\ TreeOf(fs)[W(fs)[at]] = Shown(fs, at)
    BY <1>1, <1>2, AtNode
  <2>2. fs.nodes[at].kind = "FILE" /\ file_for_writing(fs, path).fs = fs
        /\ FileWritten(fs, path) = at
    BY <1>2 DEF file_for_writing, FileWritten, Did
  <2> HIDE DEF at
  <2>3. IsFile(fs, at)
    BY <1>1, <2>1, <2>2, InUseFacts DEF IsFile
  <2>4. Ready(fs, at, W(fs)[at], contents(fs, at))
    BY <2>3, FoundReady
  <2>5. TreeOf(fs)[W(fs)[at]].kind = "FILE" /\ TreeOf(fs)[W(fs)[at]].text = contents(fs, at)
    BY <2>1, <2>2 DEF Shown
  <2>6. \A text, keep : Promised!Put(path, text, keep) <=>
          Promised!Store(TreeOf(fs), W(fs)[at], IF keep THEN contents(fs, at) ELSE << >>, text)
    BY <2>1, <2>5 DEF Promised!Put
  <2>7. Opened(path, fs, at, W(fs)[at], contents(fs, at))
    BY <2>4, <2>6 DEF Opened
  <2> QED
    BY <2>2, <2>7
<1>3. CASE at = VFS_NONE
  <2>1. /\ file_for_writing(fs, path) = vfs_make(fs, path, "FILE")
        /\ FileWritten(fs, path) = free_node(fs)
    BY <1>3 DEF file_for_writing, FileWritten
  <2>2. PlaceRefused(fs, path) = "OK" /\ FreeNodes(fs) # {}
    BY <2>1 DEF vfs_make, Did
  <2>3. Ready(vfs_make(fs, path, "FILE").fs, free_node(fs), Promised!New(path), << >>)
    BY <2>2, MadeReady
  <2>4. Promised!At(path) = Promised!Nowhere /\ Promised!Taken(path) = "OK"
    BY <1>1, <1>3, <2>2, AtNothing, TakenIs
  <2>5. Promised!Cardinality(DOMAIN TreeOf(fs)) # VFS_MAX_NODES
    BY <2>2, FullIs
  <2>6. \A text, keep : Promised!Put(path, text, keep) <=>
          Promised!Store(TreeOf(fs), Promised!New(path), << >>, text)
    BY <2>4, <2>5 DEF Promised!Put
  <2>7. Opened(path, vfs_make(fs, path, "FILE").fs, free_node(fs), Promised!New(path), << >>)
    BY <2>3, <2>6 DEF Opened
  <2> QED
    BY <2>1, <2>7
<1> QED
  BY <1>2, <1>3

LEMMA FileRefused ==
  ASSUME Orderly(fs, TRUE), NEW path \in PathType, NEW text, NEW keep,
         file_for_writing(fs, path).reply # "OK", Do(file_for_writing(fs, path))
  PROVE  Promised!Put(path, text, keep)
<1> DEFINE at == vfs_resolve(fs, path)
<1>1. Tree(fs, {}, TRUE)
  BY DEF Orderly, Settled
<1>2. CASE at # VFS_NONE
  <2>1. /\ Promised!At(path) = W(fs)[at] /\ Promised!At(path) # Promised!Nowhere
        /\ TreeOf(fs)[W(fs)[at]].kind = fs.nodes[at].kind
        /\ fs.nodes[at].kind \in {"DIR", "FILE"}
    BY <1>1, <1>2, AtNode
  <2>2. fs.nodes[at].kind # "FILE" /\ fs' = fs /\ reply' = "IS_A_DIRECTORY"
    BY <1>2 DEF file_for_writing, Did, Do
  <2>3. Promised!Refused("IS_A_DIRECTORY")
    BY <2>2, IsRefused
  <2> HIDE DEF at
  <2> QED
    BY <2>1, <2>2, <2>3 DEF Promised!Put
<1>3. CASE at = VFS_NONE
  <2>1. Promised!At(path) = Promised!Nowhere /\ Promised!Taken(path) = PlaceRefused(fs, path)
    BY <1>1, <1>3, AtNothing, TakenIs
  <2>2. file_for_writing(fs, path) = vfs_make(fs, path, "FILE")
    BY <1>3 DEF file_for_writing
  <2>3. CASE PlaceRefused(fs, path) # "OK"
    <3>1. fs' = fs /\ reply' = PlaceRefused(fs, path)
      BY <2>2, <2>3 DEF vfs_make, Did, Do
    <3>2. Promised!Refused(PlaceRefused(fs, path))
      BY <3>1, IsRefused
    <3> QED
      BY <2>1, <2>3, <3>2 DEF Promised!Put
  <2>4. CASE PlaceRefused(fs, path) = "OK"
    <3>1. FreeNodes(fs) = {} /\ fs' = fs /\ reply' = "NO_SPACE"
      BY <2>2, <2>4 DEF vfs_make, Did, Do
    <3>2. Promised!Refused("NO_SPACE")
      BY <3>1, IsRefused
    <3>3. Promised!Cardinality(DOMAIN TreeOf(fs)) = VFS_MAX_NODES
      BY <3>1, FullIs
    <3> QED
      BY <2>1, <2>4, <3>2, <3>3 DEF Promised!Put
  <2> QED
    BY <2>3, <2>4
<1> QED
  BY <1>2, <1>3

LEMMA AppendStep ==
  ASSUME Orderly(fs, TRUE), NEW path \in PathType, NEW data \in Seq(Bytes),
         Do(vfs_append(fs, path, data))
  PROVE  Promised!Put(path, data, TRUE)
<1> DEFINE found == file_for_writing(fs, path)
           at == FileWritten(fs, path)
<1>1. Tree(fs, {}, TRUE)
  BY DEF Orderly, Settled
<1>2. CASE found.reply # "OK"
  <2>1. Do(found)
    BY <1>2 DEF vfs_append
  <2> QED
    BY <1>2, <2>1, FileRefused
<1>3. CASE found.reply = "OK"
  <2>1. Do(AppendTo(found.fs, at, data))
    BY <1>3 DEF vfs_append
  <2>2. PICK p, old : Opened(path, found.fs, at, p, old)
    BY <1>3, FileOpens
  <2> HIDE DEF found, at
  <2>3. Promised!Store(TreeOf(fs), p, old, data)
    BY <1>1, <2>1, <2>2, StoreStep DEF Opened
  <2> QED
    BY <2>2, <2>3 DEF Opened
<1> QED
  BY <1>2, <1>3

LEMMA WriteStep ==
  ASSUME Orderly(fs, TRUE), NEW path \in PathType, NEW data \in Seq(Bytes),
         Do(vfs_write(fs, path, data))
  PROVE  Promised!Put(path, data, FALSE)
<1> DEFINE found == file_for_writing(fs, path)
           at == FileWritten(fs, path)
<1>1. Tree(fs, {}, TRUE)
  BY DEF Orderly, Settled
<1>2. CASE found.reply # "OK"
  <2>1. Do(found)
    BY <1>2 DEF vfs_write
  <2> QED
    BY <1>2, <2>1, FileRefused
<1>3. CASE found.reply = "OK"
  <2>1. Do(AppendTo(vfsblock_release(found.fs, at), at, data))
    BY <1>3 DEF vfs_write
  <2>2. PICK p, old : Opened(path, found.fs, at, p, old)
    BY <1>3, FileOpens
  <2> HIDE DEF found, at
  <2>3. Ready(vfsblock_release(found.fs, at), at, p, << >>)
    BY <2>2, ReleaseReady DEF Opened
  <2>4. Promised!Store(TreeOf(fs), p, << >>, data)
    BY <1>1, <2>1, <2>3, StoreStep
  <2> QED
    BY <2>2, <2>4 DEF Opened
<1> QED
  BY <1>2, <1>3

----------------------------------------------------------------------------
(* Being within is being below *)

LEMMA PrefixIs ==
  ASSUME NEW S, NEW s \in Seq(S), NEW t \in Seq(S)
  PROVE  Promised!IsPrefix(s, t) <=> Len(s) <= Len(t) /\ \A i \in 1 .. Len(s) : s[i] = t[i]
<1>1. Promised!IsPrefix(s, t) <=>
        Len(s) <= Len(t) /\ SubSeq(s, 1, Len(s)) = SubSeq(t, 1, Len(s))
  BY DEF Promised!IsPrefix
<1>2. SubSeq(s, 1, Len(s)) = [i \in 1 .. Len(s) |-> s[i]]
      /\ SubSeq(t, 1, Len(s)) = [i \in 1 .. Len(s) |-> t[i]]
  OBVIOUS
<1>3. [i \in 1 .. Len(s) |-> s[i]] = [i \in 1 .. Len(s) |-> t[i]]
        <=> \A i \in 1 .. Len(s) : s[i] = t[i]
  <2>1. ASSUME [i \in 1 .. Len(s) |-> s[i]] = [i \in 1 .. Len(s) |-> t[i]],
               NEW i \in 1 .. Len(s)
        PROVE  s[i] = t[i]
    <3>1. [j \in 1 .. Len(s) |-> s[j]][i] = [j \in 1 .. Len(s) |-> t[j]][i]
      BY <2>1
    <3> QED
      BY <3>1
  <2> QED
    BY <2>1
<1> QED
  BY <1>1, <1>2, <1>3

LEMMA PrefixOfNothing ==
  ASSUME NEW S, NEW s \in Seq(S)
  PROVE  Promised!IsPrefix(s, << >>) <=> s = << >>
<1>1. Promised!IsPrefix(s, << >>) <=>
        Len(s) <= Len(<< >>) /\ SubSeq(s, 1, Len(s)) = SubSeq(<< >>, 1, Len(s))
  BY DEF Promised!IsPrefix
<1>2. Len(<< >>) = 0 /\ Len(s) \in Nat /\ (Len(s) = 0 <=> s = << >>)
  OBVIOUS
<1> QED
  BY <1>1, <1>2

LEMMA PrefixOfAppend ==
  ASSUME NEW S, NEW s \in Seq(S), NEW t \in Seq(S), NEW a \in S
  PROVE  Promised!IsPrefix(s, Append(t, a)) <=> s = Append(t, a) \/ Promised!IsPrefix(s, t)
<1> DEFINE u == Append(t, a)
<1>1. u \in Seq(S) /\ Len(u) = Len(t) + 1 /\ Len(t) \in Nat /\ Len(s) \in Nat
  OBVIOUS
<1>2. \A i \in 1 .. Len(t) : u[i] = t[i]
  OBVIOUS
<1>3. s = [i \in 1 .. Len(s) |-> s[i]] /\ u = [i \in 1 .. Len(u) |-> u[i]]
  BY <1>1, SeqIs
<1> HIDE DEF u
<1>4. Promised!IsPrefix(s, u) <=> Len(s) <= Len(u) /\ \A i \in 1 .. Len(s) : s[i] = u[i]
  BY <1>1, PrefixIs
<1>5. Promised!IsPrefix(s, t) <=> Len(s) <= Len(t) /\ \A i \in 1 .. Len(s) : s[i] = t[i]
  BY PrefixIs
<1>6. ASSUME Promised!IsPrefix(s, u) PROVE s = u \/ Promised!IsPrefix(s, t)
  <2>1. CASE Len(s) = Len(u)
    BY <1>3, <1>4, <1>6, <2>1
  <2>2. CASE Len(s) # Len(u)
    <3>1. Len(s) <= Len(t)
      BY <1>1, <1>4, <1>6, <2>2
    <3>2. \A i \in 1 .. Len(s) : i \in 1 .. Len(t)
      BY <1>1, <3>1
    <3> QED
      BY <1>2, <1>4, <1>5, <1>6, <3>1, <3>2
  <2> QED
    BY <2>1, <2>2
<1>7. ASSUME s = u PROVE Promised!IsPrefix(s, u)
  BY <1>1, <1>4, <1>7
<1>8. ASSUME Promised!IsPrefix(s, t) PROVE Promised!IsPrefix(s, u)
  <2>1. Len(s) <= Len(t) /\ \A i \in 1 .. Len(s) : s[i] = t[i]
    BY <1>5, <1>8
  <2>2. Len(s) <= Len(u) /\ \A i \in 1 .. Len(s) : i \in 1 .. Len(t)
    BY <1>1, <2>1
  <2> QED
    BY <1>2, <1>4, <2>1, <2>2
<1>9. Promised!IsPrefix(s, u) <=> s = u \/ Promised!IsPrefix(s, t)
  BY <1>6, <1>7, <1>8
<1> QED
  BY <1>9 DEF u

IsTop(f, at) == is_within(f, 0, at) <=> at = 0

LEMMA WithinRoot ==
  ASSUME NEW f, Tree(f, {}, TRUE), NEW at
  PROVE  IsTop(f, at)
<1> DEFINE v == Climb(f, 0)
           out == {}
           clean == TRUE
<1>0. Tree(f, out, clean) /\ clean \in BOOLEAN
  OBVIOUS
<1>1. 0 \in InUse(f) /\ TRUE \in BOOLEAN /\ 0 \in Nodes
  BY InUseFacts, NodesAreNumbers
<1> HIDE DEF out, clean
<1>2. v[0] = 0 /\ \A k \in Nat : v[k + 1] = IF v[k] = 0 THEN 0 ELSE f.nodes[v[k]].parent
  BY <1>0, <1>1, ClimbEnds
<1> HIDE DEF v
<1>3. \A k \in Nat : v[k] = 0
  <2> DEFINE Bad == {k \in Nat : v[k] # 0}
  <2> SUFFICES ASSUME Bad # {} PROVE FALSE
    OBVIOUS
  <2>1. Bad \in SUBSET Nat
    OBVIOUS
  <2>2. PICK k \in Bad : \A i \in Bad : k <= i
    BY <2>1, LeastNat
  <2>3. k # 0
    BY <1>2
  <2>4. k - 1 \in Nat /\ (k - 1) + 1 = k /\ k - 1 \notin Bad
    BY <2>2, <2>3
  <2>5. v[k - 1] = 0
    BY <2>4
  <2>6. v[(k - 1) + 1] = 0
    BY <1>2, <2>4, <2>5
  <2> QED
    BY <2>2, <2>4, <2>6
<1>4. is_within(f, 0, at) <=> \E k \in Nodes : at = v[k]
  BY WithinIsClimb DEF v
<1> QED
  BY <1>1, <1>3, <1>4, NodesAreNumbers DEF IsTop

LEMMA WithinParent ==
  ASSUME NEW f, Tree(f, {}, TRUE), NEW n \in InUse(f) \ {0}, NEW at
  PROVE  is_within(f, n, at) <=> n = at \/ is_within(f, f.nodes[n].parent, at)
<1> DEFINE p == f.nodes[n].parent
           v == Climb(f, n)
           u == Climb(f, p)
           out == {}
           clean == TRUE
<1>0. Tree(f, out, clean) /\ clean \in BOOLEAN
  OBVIOUS
<1>1. p \in InUse(f) /\ TRUE \in BOOLEAN /\ f \in FsType /\ n \in Nodes /\ n # 0
  BY InUseFacts
<1> HIDE DEF out, clean
<1>11. v[0] = n
  BY <1>0, <1>1, ClimbEnds
<1>12. VFS_MAX_NODES - 1 \in Nodes /\ v[VFS_MAX_NODES - 1] = 0
  BY <1>0, <1>1, ClimbEnds
<1>13. \A k \in Nat : v[k + 1] = IF v[k] = 0 THEN 0 ELSE f.nodes[v[k]].parent
  BY <1>0, <1>1, ClimbEnds
<1>2. v[0] = n /\ VFS_MAX_NODES - 1 \in Nodes /\ v[VFS_MAX_NODES - 1] = 0
      /\ \A k \in Nat : v[k] = 0 => v[k + 1] = 0
  BY <1>11, <1>12, <1>13
<1>3. \A k \in Nat : v[k + 1] = u[k]
  BY <1>1, ClimbFromParent
<1>4. is_within(f, n, at) <=> \E k \in Nodes : at = v[k]
  BY WithinIsClimb
<1>5. is_within(f, p, at) <=> \E k \in Nodes : at = u[k]
  BY WithinIsClimb
<1> HIDE DEF v, u
<1>6. VFS_MAX_NODES \in Nat /\ VFS_MAX_NODES - 1 \in Nat
  BY SizesAssumption
<1>7. ASSUME NEW k \in Nodes, at = v[k] PROVE n = at \/ \E j \in Nodes : at = u[j]
  <2>1. CASE k = 0
    BY <1>2, <1>7, <2>1
  <2>2. CASE k # 0
    <3>1. k - 1 \in Nat /\ (k - 1) + 1 = k /\ k - 1 \in Nodes
      BY <1>6, <2>2 DEF Nodes
    <3>2. v[(k - 1) + 1] = u[k - 1]
      BY <1>3, <3>1
    <3> QED
      BY <1>7, <3>1, <3>2
  <2> QED
    BY <2>1, <2>2
<1>8. ASSUME n = at PROVE \E k \in Nodes : at = v[k]
  BY <1>2, <1>8, NodesAreNumbers
<1>9. ASSUME NEW k \in Nodes, at = u[k] PROVE \E j \in Nodes : at = v[j]
  <2>1. k \in Nat /\ v[k + 1] = at
    BY <1>3, <1>9, NodesAreNumbers
  <2>2. CASE k + 1 \in Nodes
    BY <2>1, <2>2
  <2>3. CASE k + 1 \notin Nodes
    <3>1. k = VFS_MAX_NODES - 1
      BY <1>6, <2>3 DEF Nodes
    <3>2. v[k + 1] = 0
      BY <1>2, <2>1, <3>1
    <3> QED
      BY <1>2, <2>1, <3>2
  <2> QED
    BY <2>2, <2>3
<1>10. is_within(f, n, at) <=> n = at \/ is_within(f, p, at)
  BY <1>4, <1>5, <1>7, <1>8, <1>9
<1> QED
  BY <1>10 DEF p

LEMMA WithinIsBelow ==
  ASSUME NEW f, Tree(f, {}, TRUE), NEW w, Places(f, w), NEW at \in InUse(f), NEW n \in InUse(f)
  PROVE  is_within(f, n, at) <=> Promised!IsPrefix(w[at], w[n])
<1> DEFINE Agree(m) == is_within(f, m, at) <=> Promised!IsPrefix(w[at], w[m])
           S == {m \in InUse(f) : Agree(m)}
<1>0. TRUE \in BOOLEAN
  OBVIOUS
<1>1. w[at] \in Seq(Names) /\ 0 \in InUse(f)
  BY InUseFacts, PlaceParts
<1>2. 0 \in S
  <2>1. w[0] = << >> /\ (w[at] = << >> <=> at = 0)
    BY <1>1, PlaceParts
  <2>2. is_within(f, 0, at) <=> at = 0
    <3>1. IsTop(f, at)
      BY WithinRoot
    <3> QED
      BY <3>1 DEF IsTop
  <2>3. Promised!IsPrefix(w[at], << >>) <=> w[at] = << >>
    BY <1>1, PrefixOfNothing
  <2> QED
    BY <1>1, <2>1, <2>2, <2>3
<1>3. ASSUME NEW m \in InUse(f) \ {0}, f.nodes[m].parent \in S PROVE m \in S
  <2> DEFINE p == f.nodes[m].parent
             a == f.nodes[m].name
             q == w[p]
             s == w[at]
  <2>1. w[m] = Append(q, a) /\ a \in Names /\ q \in Seq(Names) /\ s \in Seq(Names)
    BY <1>1, EntryParts
  <2>2. Agree(p)
    BY <1>3
  <2>3. is_within(f, m, at) <=> m = at \/ is_within(f, p, at)
    BY WithinParent
  <2>4. w[m] = w[at] <=> m = at
    BY PlacesApart
  <2>5. Promised!IsPrefix(s, Append(q, a)) <=> s = Append(q, a) \/ Promised!IsPrefix(s, q)
    <3> HIDE DEF q, a, s
    <3> QED
      BY <2>1, PrefixOfAppend
  <2>6. Agree(m)
    BY <2>1, <2>2, <2>3, <2>4, <2>5
  <2> QED
    BY <2>6
<1> HIDE DEF S
<1>4. \A m \in InUse(f) : m \in S
  BY <1>0, <1>2, <1>3, DownTheTree
<1> QED
  BY <1>4 DEF S

----------------------------------------------------------------------------
(* Entries are removed *)

Removed(f, g, at) ==
  /\ InUse(g) = InUse(f) \ {at} /\ SameWays(f, g, InUse(g)) /\ SameTexts(f, g, InUse(g))
  /\ g.cwd = f.cwd

\* Removing a node takes it out of use, and changes nothing else that is shown.
LEMMA RemoveEffect ==
  ASSUME NEW f, WellKept(f), NEW at \in InUse(f)
  PROVE  Removed(f, RemoveNode(f, at), at)
<1> DEFINE unlinked == vfs_unlink_from_parent(f, at)
           released == vfsblock_release(unlinked, at)
           freed == [released EXCEPT !.nodes[at].used = FALSE]
           g == RemoveNode(f, at)
<1>1. f \in FsType /\ at \in Nodes /\ InUse(f) \in SUBSET Nodes
  BY DEF InUse, WellKept
<1>2. /\ SameButLinks(f, unlinked) /\ WellKept(unlinked)
      /\ \A n \in Nodes : unlinked.nodes[n].parent = f.nodes[n].parent
  BY <1>1, UnlinkEffect, UnlinkKeeps
<1>3. InUse(unlinked) = InUse(f) /\ unlinked \in FsType /\ unlinked.cwd = f.cwd
  BY <1>2, LinksAreFramed DEF SameButLinks
<1>4. g = changed(freed)
  BY DEF RemoveNode
<1> HIDE DEF unlinked, g
<1>5. ASSUME NEW n \in InUse(f) PROVE contents(unlinked, n) = contents(f, n)
  BY <1>1, <1>2, LinksKeepTexts
<1>6. Touches(unlinked, released, at)
  BY <1>1, <1>3, ReleaseTouches
<1>7. ASSUME NEW n \in InUse(f), n # at PROVE contents(released, n) = contents(unlinked, n)
  BY <1>2, <1>3, <1>7, ReleaseKeepsTexts
<1> HIDE DEF released
<1> DEFINE node == [released.nodes[at] EXCEPT !.used = FALSE]
           new == [released.nodes EXCEPT ![at] = node]
<1>8. released \in FsType
  BY <1>6 DEF Touches
<1>9. released.nodes \in [Nodes -> NodeType] /\ released.nodes[at] \in NodeType
  BY <1>1, <1>8, FsParts
<1>10. node \in NodeType /\ node.used = FALSE
  BY <1>9 DEF NodeType
<1>11. freed = [released EXCEPT !.nodes = new]
  BY <1>8, <1>9 DEF FsType
<1> HIDE DEF node
<1>12. /\ new \in [Nodes -> NodeType] /\ new[at] = node
       /\ \A n \in Nodes : n # at => new[n] = released.nodes[n]
  BY <1>1, <1>9, <1>10
<1> HIDE DEF new, freed
<1>13. freed \in FsType /\ freed.nodes = new /\ freed.cwd = released.cwd /\ freed.blocks = released.blocks
  BY <1>8, <1>11, <1>12, NewNodes
<1>14. g.nodes = new /\ g.cwd = released.cwd /\ g.blocks = released.blocks
  BY <1>4, <1>13, ChangedType
<1>15. \A n \in Nodes : SameEntry(released.nodes[n], unlinked.nodes[n])
  BY <1>6 DEF Touches, SameEntry
<1>16. ASSUME NEW n \in Nodes, n # at
       PROVE  /\ g.nodes[n] = released.nodes[n]
              /\ g.nodes[n].used = f.nodes[n].used
              /\ g.nodes[n].name = f.nodes[n].name
              /\ g.nodes[n].kind = f.nodes[n].kind
              /\ g.nodes[n].parent = f.nodes[n].parent
  <2>1. g.nodes[n] = released.nodes[n]
    BY <1>12, <1>14, <1>16
  <2>2. SameEntry(released.nodes[n], unlinked.nodes[n])
    BY <1>15
  <2> QED
    BY <1>2, <2>1, <2>2 DEF SameEntry, SameButLinks
<1>17. InUse(g) = InUse(f) \ {at}
  BY <1>10, <1>12, <1>14, <1>16 DEF InUse
<1>18. SameWays(f, g, InUse(g))
  BY <1>1, <1>16, <1>17 DEF SameWays
<1>19. ASSUME NEW n \in InUse(g) PROVE contents(g, n) = contents(f, n)
  <2>1. n \in InUse(f) /\ n # at /\ n \in Nodes
    BY <1>1, <1>17
  <2>2. g.nodes[n] = released.nodes[n]
    BY <1>16, <2>1
  <2>3. contents(g, n) = contents(released, n)
    BY <1>14, <2>2 DEF contents, vfsblock_at
  <2>4. contents(released, n) = contents(unlinked, n) /\ contents(unlinked, n) = contents(f, n)
    BY <1>5, <1>7, <2>1
  <2> QED
    BY <2>3, <2>4
<1>20. g.cwd = f.cwd
  BY <1>3, <1>6, <1>14 DEF Touches
<1>21. Removed(f, g, at)
  BY <1>17, <1>18, <1>19, <1>20 DEF Removed, SameTexts
<1> QED
  BY <1>21 DEF g

\* Nothing is below an entry that has no children but itself.
LEMMA NothingBelow ==
  ASSUME NEW f, Tree(f, {}, TRUE), NEW w, Places(f, w), NEW at \in InUse(f),
         NEW n \in InUse(f), f.nodes[at].first_child = VFS_NONE
  PROVE  is_within(f, n, at) <=> n = at
<1> DEFINE S == {m \in InUse(f) : is_within(f, m, at) => m = at}
           clean == TRUE
<1>0. Tree(f, {}, clean) /\ clean \in BOOLEAN
  OBVIOUS
<1> HIDE DEF clean
<1>1. \A m \in InUse(f) \ {0} : f.nodes[m].parent # at
  <2>1. \A m \in Members(f, {}) : f.nodes[m].parent # at
    BY <1>0, NoChildren
  <2> QED
    BY <2>1 DEF Members
<1>2. 0 \in S
  <2>1. IsTop(f, at) /\ 0 \in InUse(f)
    BY WithinRoot, InUseFacts
  <2> QED
    BY <2>1 DEF IsTop
<1>3. ASSUME NEW m \in InUse(f) \ {0}, f.nodes[m].parent \in S PROVE m \in S
  <2> DEFINE p == f.nodes[m].parent
  <2>1. is_within(f, m, at) <=> m = at \/ is_within(f, p, at)
    BY WithinParent
  <2>2. p # at /\ (is_within(f, p, at) => p = at)
    BY <1>1, <1>3
  <2> QED
    BY <2>1, <2>2
<1> HIDE DEF S
<1>4. n \in S
  BY <1>0, <1>2, <1>3, DownTheTree
<1>5. is_within(f, at, at)
  <2> DEFINE out == {}
  <2>1. Tree(f, out, clean)
    BY <1>0
  <2> HIDE DEF out
  <2> QED
    BY <1>0, <2>1, WithinItself
<1> QED
  BY <1>4, <1>5 DEF S

\* A directory's first child is below it.
LEMMA SomethingBelow ==
  ASSUME NEW f, Tree(f, {}, TRUE), NEW at \in InUse(f), f.nodes[at].first_child # VFS_NONE
  PROVE  LET n == f.nodes[at].first_child
         IN  n \in InUse(f) /\ n # at /\ is_within(f, n, at)
<1> DEFINE n == f.nodes[at].first_child
           clean == TRUE
           out == {}
<1>0. Tree(f, out, clean) /\ clean \in BOOLEAN
  OBVIOUS
<1>1. PICK pos : Lists(f, Members(f, {}), pos)
  BY DEF Tree
<1>2. n \in Members(f, {}) /\ f.nodes[n].parent = at
  BY <1>1 DEF Lists
<1>3. n \in InUse(f) \ {0}
  BY <1>2 DEF Members
<1>4. PICK depth : Deep(f, depth)
  BY DEF Tree
<1>5. depth[at] < depth[n] /\ depth[n] \in Nat
  BY <1>2, <1>3, <1>4 DEF Deep, InUse
<1>6. n # at
  BY <1>5
<1> HIDE DEF clean, out
<1>7. is_within(f, at, at)
  BY <1>0, WithinItself
<1> HIDE DEF n
<1>8. is_within(f, n, at) <=> n = at \/ is_within(f, f.nodes[n].parent, at)
  BY <1>3, WithinParent
<1>9. is_within(f, n, at)
  BY <1>2, <1>7, <1>8
<1> QED
  BY <1>3, <1>6, <1>9 DEF n

Below(f, at) == {n \in InUse(f) : is_within(f, n, at)}

LEMMA BelowIs ==
  ASSUME Tree(fs, {}, TRUE), NEW at \in InUse(fs)
  PROVE  Promised!Below(W(fs)[at]) = {W(fs)[n] : n \in Below(fs, at)}
<1> DEFINE f == fs
           w == W(fs)
           t == TreeOf(fs)
<1>1. Tree(f, {}, TRUE) /\ Places(f, w) /\ DOMAIN t = {w[n] : n \in InUse(f)} /\ at \in InUse(f)
  BY Views DEF Shows
<1>2. Promised!Below(w[at]) = {q \in DOMAIN t : Promised!IsPrefix(w[at], q)}
  BY DEF Promised!Below
<1> HIDE DEF f, w, t
<1>3. ASSUME NEW n \in InUse(f) PROVE is_within(f, n, at) <=> Promised!IsPrefix(w[at], w[n])
  BY <1>1, WithinIsBelow
<1>4. {q \in DOMAIN t : Promised!IsPrefix(w[at], q)} = {w[n] : n \in Below(f, at)}
  BY <1>1, <1>3 DEF Below
<1> QED
  BY <1>2, <1>4 DEF f, w, t

\* A directory that can be removed is one with nothing below it.
LEMMA AloneIs ==
  ASSUME Tree(fs, {}, TRUE), NEW at \in InUse(fs)
  PROVE  Promised!Below(W(fs)[at]) = {W(fs)[at]} <=> fs.nodes[at].first_child = VFS_NONE
<1> DEFINE f == fs
           w == W(fs)
           first == fs.nodes[at].first_child
           below == Promised!Below(W(fs)[at])
<1>1. Tree(f, {}, TRUE) /\ Places(f, w) /\ at \in InUse(f)
  BY Views
<1>2. below = {w[n] : n \in Below(f, at)}
  BY BelowIs
<1>3. first = f.nodes[at].first_child
  OBVIOUS
<1> HIDE DEF f, w, first, below
<1>4. CASE first = VFS_NONE
  <2>1. ASSUME NEW n \in InUse(f) PROVE is_within(f, n, at) <=> n = at
    BY <1>1, <1>3, <1>4, NothingBelow
  <2>2. Below(f, at) = {at}
    BY <1>1, <2>1 DEF Below
  <2>3. below = {w[at]}
    BY <1>2, <2>2
  <2> QED
    BY <1>4, <2>3 DEF f, w, first, below
<1>5. CASE first # VFS_NONE
  <2>1. first \in InUse(f) /\ first # at /\ is_within(f, first, at)
    BY <1>1, <1>3, <1>5, SomethingBelow
  <2>2. w[first] \in below
    BY <1>2, <2>1 DEF Below
  <2>3. w[first] # w[at]
    BY <1>1, <2>1, PlacesApart
  <2>4. below # {w[at]}
    BY <2>2, <2>3
  <2> QED
    BY <1>5, <2>4 DEF f, w, first, below
<1> QED
  BY <1>4, <1>5

LEMMA HereWithin ==
  ASSUME Tree(fs, {}, TRUE), NEW at \in InUse(fs)
  PROVE  Promised!IsPrefix(W(fs)[at], vfs_path_of(fs, fs.cwd)) <=> is_within(fs, fs.cwd, at)
<1> DEFINE f == fs
           w == W(fs)
           cwd == fs.cwd
<1>1. /\ Tree(f, {}, TRUE) /\ Places(f, w) /\ at \in InUse(f)
      /\ vfs_path_of(fs, fs.cwd) = w[cwd] /\ cwd \in InUse(f)
  <2> DEFINE g == fs
  <2>1. Tree(g, {}, TRUE)
    OBVIOUS
  <2> HIDE DEF g
  <2>2. vfs_path_of(g, g.cwd) = W(g)[g.cwd] /\ g.cwd \in InUse(g)
    BY <2>1, HereIs
  <2>3. Places(g, W(g))
    BY <2>1, Views
  <2> QED
    BY <2>2, <2>3 DEF g
<1> HIDE DEF f, w, cwd
<1>2. is_within(f, cwd, at) <=> Promised!IsPrefix(w[at], w[cwd])
  BY <1>1, WithinIsBelow
<1> QED
  BY <1>1, <1>2 DEF f, w, cwd

\* What a removal is in the tree of paths.
LEMMA RemovedIsShown ==
  ASSUME NEW f, Tree(f, {}, TRUE), NEW g, Tree(g, {}, TRUE), NEW at \in InUse(f) \ {0},
         Removed(f, g, at)
  PROVE  /\ \A n \in InUse(g) : W(g)[n] = W(f)[n]
         /\ TreeOf(g) = Promised!Without(TreeOf(f), {W(f)[at]})
BY EntryIsGone DEF Removed

LEMMA RemoveStep ==
  ASSUME Orderly(fs, TRUE), NEW path \in PathType, Do(vfs_remove(fs, path))
  PROVE  Promised!Delete(path)
<1> DEFINE at == vfs_resolve(fs, path)
           here == vfs_path_of(fs, fs.cwd)
<1>1. Tree(fs, {}, TRUE)
  BY DEF Orderly, Settled
<1>2. CASE at = VFS_NONE
  <2>1. fs' = fs /\ reply' = "NOT_FOUND"
    BY <1>2 DEF vfs_remove, Do, Did
  <2>2. Promised!At(path) = Promised!Nowhere
    BY <1>1, <1>2, AtNothing
  <2>3. Promised!Refused("NOT_FOUND")
    BY <2>1, IsRefused
  <2> QED
    BY <2>2, <2>3 DEF Promised!Delete
<1>3. CASE at # VFS_NONE
  <2> DEFINE p == Promised!At(path)
             alone == fs.nodes[at].first_child = VFS_NONE
             inside == is_within(fs, fs.cwd, at)
  <2>1. /\ at \in InUse(fs) /\ p = W(fs)[at] /\ p # Promised!Nowhere
        /\ fs.nodes[at].kind \in {"DIR", "FILE"} /\ (p = Promised!Root <=> at = 0)
    BY <1>1, <1>3, AtNode
  <2>2. at # VFS_NONE
    BY <1>3
  <2>3. Promised!Delete(path) <=>
          IF at = 0 THEN Promised!Refused("BAD_NAME")
          ELSE IF Promised!Below(p) # {p} \/ Promised!IsPrefix(p, here)
          THEN Promised!Refused("NOT_EMPTY")
          ELSE Promised!Becomes(Promised!Without(TreeOf(fs), {p}), "OK")
    BY <2>1 DEF Promised!Delete
  <2>4. Promised!Below(p) = {p} <=> alone
    BY <1>1, <2>1, AloneIs
  <2>5. Promised!IsPrefix(p, here) <=> inside
    BY <1>1, <2>1, HereWithin
  <2>6. fs.nodes[at].kind = "DIR" \/ alone
    BY <1>1, <2>1 DEF Tree, KindsAgree
  <2> HIDE DEF p, here
  <2>7. CASE at = 0
    <3>1. fs' = fs /\ reply' = "BAD_NAME"
      BY <2>2, <2>7 DEF vfs_remove, Do, Did
    <3>2. Promised!Refused("BAD_NAME")
      BY <3>1, IsRefused
    <3> QED
      BY <2>3, <2>7, <3>2
  <2>8. CASE at # 0 /\ (~alone \/ inside)
    <3>1. fs' = fs /\ reply' = "NOT_EMPTY"
      BY <2>2, <2>6, <2>8 DEF vfs_remove, Do, Did
    <3>2. Promised!Refused("NOT_EMPTY")
      BY <3>1, IsRefused
    <3> QED
      BY <2>3, <2>4, <2>5, <2>8, <3>2
  <2>9. CASE at # 0 /\ alone /\ ~inside
    <3>1. fs' = RemoveNode(fs, at) /\ reply' = "OK"
      BY <2>2, <2>9 DEF vfs_remove, Do, Did
    <3> HIDE DEF at
    <3> DEFINE f == fs
               g == RemoveNode(fs, at)
               clean == TRUE
    <3>2. Orderly(f, clean) /\ clean \in BOOLEAN /\ at \in InUse(f) \ {0} /\ ~is_within(f, f.cwd, at)
          /\ f.nodes[at].first_child = VFS_NONE /\ WellKept(f) /\ g = RemoveNode(f, at)
      BY <2>1, <2>9 DEF Orderly
    <3> HIDE DEF f, clean, g
    <3>3. Orderly(g, clean) /\ Removed(f, g, at)
      BY <3>2, RemoveNodeOrderly, RemoveEffect
    <3>4. Tree(f, {}, TRUE) /\ Tree(g, {}, TRUE)
      BY <1>1, <3>3 DEF Orderly, Settled, clean, f
    <3>5. \A n \in InUse(g) : W(g)[n] = W(f)[n]
      BY <3>2, <3>3, <3>4, RemovedIsShown
    <3>6. TreeOf(g) = Promised!Without(TreeOf(f), {W(f)[at]})
      BY <3>2, <3>3, <3>4, RemovedIsShown
    <3>7. g.cwd = f.cwd
      BY <3>3 DEF Removed
    <3>8. fs' = g
      BY <3>1 DEF g
    <3>9. TreeOf(fs') = Promised!Without(TreeOf(fs), {p})
      BY <2>1, <3>6, <3>8 DEF f
    <3>10. vfs_path_of(fs', fs'.cwd) = vfs_path_of(fs, fs.cwd)
      BY <1>1, <3>4, <3>5, <3>7, <3>8, HereStays DEF f
    <3>11. Promised!Becomes(Promised!Without(TreeOf(fs), {p}), "OK")
      BY <3>1, <3>9, <3>10, IsBecome
    <3> QED
      BY <2>3, <2>4, <2>5, <2>9, <3>11
  <2> QED
    BY <2>7, <2>8, <2>9
<1> QED
  BY <1>2, <1>3

----------------------------------------------------------------------------
(* What is below an entry moves with it *)

LEMMA RestIs ==
  ASSUME NEW S, NEW s \in Seq(S), NEW m \in 0 .. Len(s)
  PROVE  /\ SubSeq(s, m + 1, Len(s)) \in Seq(S)
         /\ Len(SubSeq(s, m + 1, Len(s))) = Len(s) - m
         /\ \A i \in 1 .. (Len(s) - m) : SubSeq(s, m + 1, Len(s))[i] = s[m + i]
<1>1. Len(s) \in Nat /\ m \in Nat /\ m <= Len(s)
  OBVIOUS
<1>2. SubSeq(s, m + 1, Len(s)) = [i \in 1 .. (Len(s) - m) |-> s[m + i]]
  <2>1. SubSeq(s, m + 1, Len(s)) = [i \in 1 .. (1 + Len(s) - (m + 1)) |-> s[i + (m + 1) - 1]]
    BY <1>1
  <2>2. 1 + Len(s) - (m + 1) = Len(s) - m /\ \A i \in 1 .. (Len(s) - m) : i + (m + 1) - 1 = m + i
    BY <1>1
  <2> QED
    BY <2>1, <2>2
<1>3. Len(s) - m \in Nat /\ \A i \in 1 .. (Len(s) - m) : m + i \in 1 .. Len(s)
  BY <1>1
<1>4. \A i \in 1 .. Len(s) : s[i] \in S
  OBVIOUS
<1> DEFINE r == [i \in 1 .. (Len(s) - m) |-> s[m + i]]
<1>5. r \in Seq(S) /\ Len(r) = Len(s) - m
  <2>1. r \in [1 .. (Len(s) - m) -> S]
    BY <1>3, <1>4
  <2> QED
    BY <1>3, <2>1
<1> QED
  BY <1>2, <1>5

LEMMA AppendIs ==
  ASSUME NEW S, NEW s \in Seq(S), NEW a \in S
  PROVE  /\ Append(s, a) \in Seq(S) /\ Len(Append(s, a)) = Len(s) + 1
         /\ Append(s, a)[Len(s) + 1] = a
         /\ \A i \in 1 .. Len(s) : Append(s, a)[i] = s[i]
OBVIOUS

\* The rest of a longer path is the longer rest.
LEMMA RestOfAppend ==
  ASSUME NEW S, NEW q \in Seq(S), NEW a \in S, NEW m \in 0 .. Len(q)
  PROVE  SubSeq(Append(q, a), m + 1, Len(Append(q, a))) = Append(SubSeq(q, m + 1, Len(q)), a)
<1> DEFINE s == Append(q, a)
           r == SubSeq(q, m + 1, Len(q))
           x == SubSeq(s, m + 1, Len(s))
           y == Append(r, a)
           k == Len(q) - m
<1>1. s \in Seq(S) /\ Len(s) = Len(q) + 1 /\ Len(q) \in Nat /\ m \in Nat /\ m <= Len(q)
      /\ s[Len(q) + 1] = a /\ \A i \in 1 .. Len(q) : s[i] = q[i]
  OBVIOUS
<1>2. k \in Nat /\ m \in 0 .. Len(s)
  BY <1>1
<1>3. r \in Seq(S) /\ Len(r) = k /\ \A i \in 1 .. k : r[i] = q[m + i]
  BY RestIs
<1> HIDE DEF s, r
<1>4. x \in Seq(S) /\ Len(x) = k + 1 /\ \A i \in 1 .. (k + 1) : x[i] = s[m + i]
  <2>1. Len(s) - m = k + 1
    BY <1>1
  <2>2. x \in Seq(S) /\ Len(x) = Len(s) - m /\ \A i \in 1 .. (Len(s) - m) : x[i] = s[m + i]
    BY <1>1, <1>2, RestIs
  <2> QED
    BY <2>1, <2>2
<1>5. y \in Seq(S) /\ Len(y) = k + 1 /\ y[k + 1] = a /\ \A i \in 1 .. k : y[i] = r[i]
  <2>1. Len(r) = k
    BY <1>3
  <2>3. r \in Seq(S)
    BY <1>3
  <2> HIDE DEF k
  <2>2. y \in Seq(S) /\ Len(y) = Len(r) + 1 /\ y[Len(r) + 1] = a /\ \A i \in 1 .. Len(r) : y[i] = r[i]
    BY <2>3, AppendIs
  <2> QED
    BY <2>1, <2>2
<1> HIDE DEF x, y
<1>6. ASSUME NEW i \in 1 .. (k + 1) PROVE x[i] = y[i]
  <2>1. CASE i = k + 1
    <3>1. m + i = Len(q) + 1
      BY <1>1, <2>1
    <3> QED
      BY <1>1, <1>4, <1>5, <2>1, <3>1
  <2>2. CASE i # k + 1
    <3>1. i \in 1 .. k /\ m + i \in 1 .. Len(q)
      BY <1>1, <1>2, <2>2
    <3> QED
      BY <1>1, <1>3, <1>4, <1>5, <3>1
  <2> QED
    BY <2>1, <2>2
<1>7. x = [i \in 1 .. Len(x) |-> x[i]] /\ y = [i \in 1 .. Len(y) |-> y[i]]
  BY <1>4, <1>5, SeqIs
<1>8. x = y
  BY <1>4, <1>5, <1>6, <1>7
<1> QED
  BY <1>8 DEF x, y, s, r

LEMMA AppendToJoined ==
  ASSUME NEW S, NEW s \in Seq(S), NEW t \in Seq(S), NEW a \in S
  PROVE  s \o Append(t, a) = Append(s \o t, a)
<1> DEFINE u == Append(t, a)
           x == s \o u
           j == s \o t
           y == Append(j, a)
<1>1. u \in Seq(S) /\ Len(u) = Len(t) + 1 /\ u[Len(t) + 1] = a /\ Len(s) \in Nat /\ Len(t) \in Nat
      /\ \A i \in 1 .. Len(t) : u[i] = t[i]
  OBVIOUS
<1> HIDE DEF u
<1>2. /\ x \in Seq(S) /\ Len(x) = Len(s) + Len(u)
      /\ \A i \in 1 .. Len(s) : x[i] = s[i]
      /\ \A i \in 1 .. Len(u) : x[Len(s) + i] = u[i]
  <2>1. u \in Seq(S)
    BY <1>1
  <2> QED
    BY <2>1, Joined
<1>3. /\ j \in Seq(S) /\ Len(j) = Len(s) + Len(t)
      /\ \A i \in 1 .. Len(s) : j[i] = s[i]
      /\ \A i \in 1 .. Len(t) : j[Len(s) + i] = t[i]
  BY Joined
<1> HIDE DEF x, j
<1>4. y \in Seq(S) /\ Len(y) = Len(j) + 1 /\ y[Len(j) + 1] = a /\ \A i \in 1 .. Len(j) : y[i] = j[i]
  BY <1>3
<1> HIDE DEF y
<1>5. ASSUME NEW i \in 1 .. (Len(s) + Len(t) + 1) PROVE x[i] = y[i]
  <2>1. CASE i \in 1 .. Len(s)
    <3>1. i \in 1 .. Len(j)
      BY <1>1, <1>3, <2>1
    <3> QED
      BY <1>2, <1>3, <1>4, <2>1, <3>1
  <2>2. CASE i \notin 1 .. Len(s)
    <3> DEFINE d == i - Len(s)
    <3>1. d \in 1 .. (Len(t) + 1) /\ Len(s) + d = i
      BY <1>1, <2>2
    <3> HIDE DEF d
    <3>2. x[i] = u[d]
      BY <1>1, <1>2, <3>1
    <3>3. CASE d = Len(t) + 1
      BY <1>1, <1>3, <1>4, <3>1, <3>2, <3>3
    <3>4. CASE d # Len(t) + 1
      <4>1. d \in 1 .. Len(t) /\ i \in 1 .. Len(j)
        BY <1>1, <1>3, <3>1, <3>4
      <4> QED
        BY <1>1, <1>3, <1>4, <3>1, <3>2, <4>1
    <3> QED
      BY <3>3, <3>4
  <2> QED
    BY <2>1, <2>2
<1>6. x = [i \in 1 .. Len(x) |-> x[i]] /\ y = [i \in 1 .. Len(y) |-> y[i]]
  BY <1>2, <1>4, SeqIs
<1>7. Len(x) = Len(s) + Len(t) + 1 /\ Len(y) = Len(s) + Len(t) + 1
  BY <1>1, <1>2, <1>3, <1>4
<1>8. x = y
  BY <1>5, <1>6, <1>7
<1> QED
  BY <1>8 DEF x, y, u, j

LEMMA MovedType ==
  ASSUME NEW S, NEW from \in Seq(S), NEW to \in Seq(S), NEW p \in Seq(S)
  PROVE  Promised!Moved(from, to, p) \in Seq(S)
<1>1. CASE Promised!IsPrefix(from, p)
  <2> DEFINE m == Len(from)
             r == SubSeq(p, m + 1, Len(p))
  <2>1. m \in 0 .. Len(p)
    BY <1>1, PrefixIs
  <2> HIDE DEF m
  <2>2. r \in Seq(S)
    BY <2>1, RestIs
  <2> HIDE DEF r
  <2>3. to \o r \in Seq(S)
    BY <2>2, Joined
  <2>4. Promised!Moved(from, to, p) = to \o r
    BY <1>1 DEF Promised!Moved, r, m
  <2> QED
    BY <2>3, <2>4
<1>2. CASE ~Promised!IsPrefix(from, p)
  BY <1>2 DEF Promised!Moved
<1> QED
  BY <1>1, <1>2

LEMMA MovedItself ==
  ASSUME NEW S, NEW from \in Seq(S), NEW to \in Seq(S)
  PROVE  Promised!Moved(from, to, from) = to
<1> DEFINE m == Len(from)
           r == SubSeq(from, m + 1, Len(from))
<1>1. m \in 0 .. Len(from) /\ Promised!IsPrefix(from, from)
  BY PrefixIs
<1>2. r \in Seq(S) /\ Len(r) = 0
  <2>1. Len(r) = Len(from) - m /\ r \in Seq(S)
    <3> HIDE DEF m
    <3> QED
      BY <1>1, RestIs
  <2> QED
    BY <2>1
<1>3. Promised!Moved(from, to, from) = to \o r
  BY <1>1 DEF Promised!Moved
<1> HIDE DEF r
<1>4. r = << >>
  BY <1>2
<1>5. to \o << >> = to
  OBVIOUS
<1> QED
  BY <1>3, <1>4, <1>5

MovesAlong(from, to, q, a) ==
  Promised!Moved(from, to, Append(q, a)) = Append(Promised!Moved(from, to, q), a)

\* What is not below the moved entry stays, and an entry follows its directory.
LEMMA MovedEntry ==
  ASSUME NEW S, NEW from \in Seq(S), NEW to \in Seq(S), NEW q \in Seq(S), NEW a \in S,
         from # Append(q, a)
  PROVE  MovesAlong(from, to, q, a)
<1> DEFINE s == Append(q, a)
<1>1. Promised!IsPrefix(from, s) <=> Promised!IsPrefix(from, q)
  BY PrefixOfAppend
<1>2. CASE Promised!IsPrefix(from, q)
  <2> DEFINE m == Len(from)
             r == SubSeq(q, m + 1, Len(q))
             x == SubSeq(s, m + 1, Len(s))
  <2>1. m \in 0 .. Len(q)
    BY <1>2, PrefixIs
  <2>2. Promised!Moved(from, to, s) = to \o x
    BY <1>1, <1>2 DEF Promised!Moved
  <2>3. Promised!Moved(from, to, q) = to \o r
    BY <1>2 DEF Promised!Moved
  <2> HIDE DEF m
  <2>4. r \in Seq(S)
    BY <2>1, RestIs
  <2>5. x = Append(r, a)
    BY <2>1, RestOfAppend
  <2> HIDE DEF r, x, s
  <2>6. to \o Append(r, a) = Append(to \o r, a)
    BY <2>4, AppendToJoined
  <2>7. Promised!Moved(from, to, s) = Append(Promised!Moved(from, to, q), a)
    BY <2>2, <2>3, <2>5, <2>6
  <2> QED
    BY <2>7 DEF s, MovesAlong
<1>3. CASE ~Promised!IsPrefix(from, q)
  <2>1. Promised!Moved(from, to, q) = q
    BY <1>3 DEF Promised!Moved
  <2>2. Promised!Moved(from, to, s) = s
    BY <1>1, <1>3 DEF Promised!Moved
  <2> QED
    BY <2>1, <2>2 DEF MovesAlong
<1> QED
  BY <1>2, <1>3

\* `at' is in another directory under another name, and nothing else is.
MovedAs(f, g, at, parent, name) ==
  /\ InUse(g) = InUse(f) /\ SameTexts(f, g, InUse(f)) /\ g.cwd = f.cwd
  /\ \A n \in InUse(f) : g.nodes[n].kind = f.nodes[n].kind
  /\ SameWays(f, g, InUse(f) \ {at})
  /\ g.nodes[at].parent = parent /\ g.nodes[at].name = name

\* Every node is where the move takes it.
GoesAlong(f, g, at, to) ==
  \A n \in InUse(f) : W(g)[n] = Promised!Moved(W(f)[at], to, W(f)[n])

LEMMA MovedWays ==
  ASSUME NEW f, Tree(f, {}, TRUE), NEW g, Tree(g, {}, TRUE), NEW at \in InUse(f) \ {0},
         NEW parent \in InUse(f), NEW name, MovedAs(f, g, at, parent, name),
         ~is_within(f, parent, at), NEW to, to = Append(W(f)[parent], name)
  PROVE  GoesAlong(f, g, at, to)
<1> DEFINE w == W(f)
           from == w[at]
           v == [n \in InUse(g) |-> Promised!Moved(from, to, w[n])]
           clean == TRUE
<1>0. Tree(f, {}, clean) /\ clean \in BOOLEAN
  OBVIOUS
<1>1. Places(f, w) /\ InUse(g) = InUse(f) /\ to = Append(w[parent], name)
  BY Views DEF MovedAs
<1> HIDE DEF w, clean
<1>2. name \in Names
  BY <1>1, InUseFacts DEF MovedAs
<1>3. \A n \in InUse(f) : w[n] \in Seq(Names)
  BY <1>0, <1>1, PlaceParts
<1>4. to \in Seq(Names)
  <2>1. w[parent] \in Seq(Names)
    BY <1>3
  <2> QED
    BY <1>1, <1>2, <2>1, AppendsAreNotEmpty
<1>5. from \in Seq(Names) /\ from # << >> /\ w[0] = << >>
  BY <1>0, <1>1, <1>3, PlaceParts
<1> HIDE DEF from
<1>6. \A n \in InUse(f) : v[n] = Promised!Moved(from, to, w[n])
  BY <1>1
<1>7. v \in [InUse(g) -> Seq(Names)]
  <2>1. \A n \in InUse(f) : Promised!Moved(from, to, w[n]) \in Seq(Names)
    BY <1>3, <1>4, <1>5, MovedType
  <2> QED
    BY <1>1, <2>1
<1> HIDE DEF v
<1>8. v[0] = << >>
  <2>1. ~Promised!IsPrefix(from, << >>)
    BY <1>5, PrefixOfNothing
  <2>2. 0 \in InUse(f)
    BY InUseFacts
  <2>3. Promised!Moved(from, to, << >>) = << >>
    BY <2>1 DEF Promised!Moved
  <2> QED
    BY <1>5, <1>6, <2>2, <2>3
<1>9. ASSUME NEW n \in InUse(g) \ {0}
      PROVE  v[n] = Append(v[g.nodes[n].parent], g.nodes[n].name)
  <2>1. CASE n = at
    <3>1. v[at] = to
      <4>1. Promised!Moved(from, to, from) = to
        BY <1>4, <1>5, MovedItself
      <4> QED
        BY <1>6, <4>1 DEF from
    <3>2. v[parent] = w[parent]
      <4>1. is_within(f, parent, at) <=> Promised!IsPrefix(w[at], w[parent])
        BY <1>1, WithinIsBelow
      <4>2. Promised!Moved(from, to, w[parent]) = w[parent]
        BY <4>1 DEF Promised!Moved, from
      <4> QED
        BY <1>6, <4>2
    <3> QED
      BY <1>1, <2>1, <3>1, <3>2 DEF MovedAs
  <2>2. CASE n # at
    <3> DEFINE p == f.nodes[n].parent
               a == f.nodes[n].name
               q == w[p]
    <3>1. n \in InUse(f) \ {0} /\ g.nodes[n].parent = p /\ g.nodes[n].name = a
      BY <1>1, <2>2 DEF MovedAs, SameWays
    <3>2. p \in InUse(f) /\ a \in Names /\ q \in Seq(Names) /\ w[n] = Append(q, a)
      BY <1>1, <3>1, EntryParts
    <3>3. from # w[n]
      BY <1>1, <2>2, <3>1, PlacesApart DEF from
    <3>4. v[n] = Promised!Moved(from, to, w[n]) /\ v[p] = Promised!Moved(from, to, q)
      BY <1>6, <3>1, <3>2
    <3> HIDE DEF p, a, q
    <3>5. MovesAlong(from, to, q, a)
      <4>1. from \in Seq(Names) /\ to \in Seq(Names) /\ q \in Seq(Names) /\ a \in Names
        BY <1>4, <1>5, <3>2
      <4>2. from # Append(q, a)
        BY <3>2, <3>3
      <4> QED
        BY <4>1, <4>2, MovedEntry
    <3> QED
      BY <3>1, <3>2, <3>4, <3>5 DEF MovesAlong
  <2> QED
    BY <2>1, <2>2
<1>10. Places(g, v)
  BY <1>7, <1>8, <1>9 DEF Places
<1>11. W(g) = v
  BY <1>10, TheseArePlaces
<1> QED
  BY <1>6, <1>11 DEF from, w, GoesAlong

RehungTree(f, g, at, to) == TreeOf(g) = Promised!Rehung(TreeOf(f), W(f)[at], to)

\* What a move is in the tree of paths.
LEMMA MovedIsShown ==
  ASSUME NEW f, Tree(f, {}, TRUE), NEW g, Tree(g, {}, TRUE), NEW at \in InUse(f) \ {0},
         NEW parent \in InUse(f), NEW name, MovedAs(f, g, at, parent, name),
         ~is_within(f, parent, at), NEW to, to = Append(W(f)[parent], name)
  PROVE  RehungTree(f, g, at, to)
<1> DEFINE w == W(f)
           v == W(g)
           t == TreeOf(f)
           from == w[at]
           u == Promised!Rehung(t, from, to)
<1>1. Shows(f, w, t) /\ Places(g, v) /\ InUse(g) = InUse(f)
  BY Views DEF MovedAs
<1>2. \A n \in InUse(f) : v[n] = Promised!Moved(from, to, w[n])
  <2>1. GoesAlong(f, g, at, to)
    BY MovedWays
  <2> QED
    BY <2>1 DEF GoesAlong
<1>3. u = [q \in {Promised!Moved(from, to, p) : p \in DOMAIN t} |-> t[CHOOSE p \in DOMAIN t : Promised!Moved(from, to, p) = q]]
  BY DEF Promised!Rehung
<1> HIDE DEF w, v, t, from, u
<1>4. u = [p \in DOMAIN u |-> u[p]] /\ DOMAIN u = {v[n] : n \in InUse(g)}
  <2>1. DOMAIN t = {w[n] : n \in InUse(f)}
    BY <1>1 DEF Shows
  <2>2. {Promised!Moved(from, to, p) : p \in DOMAIN t} = {v[n] : n \in InUse(g)}
    BY <1>1, <1>2, <2>1
  <2> DEFINE D == {Promised!Moved(from, to, p) : p \in DOMAIN t}
             e(q) == t[CHOOSE p \in DOMAIN t : Promised!Moved(from, to, p) = q]
  <2>3. u = [q \in D |-> e(q)]
    BY <1>3
  <2>4. D = {v[n] : n \in InUse(g)}
    BY <2>2
  <2> HIDE DEF D, e
  <2>5. DOMAIN u = D
    BY <2>3
  <2>6. u = [p \in DOMAIN u |-> u[p]]
    BY <2>3
  <2> QED
    BY <2>4, <2>5, <2>6
<1>5. ASSUME NEW n \in InUse(g) PROVE u[v[n]] = Shown(g, n)
  <2> DEFINE p == CHOOSE p \in DOMAIN t : Promised!Moved(from, to, p) = v[n]
  <2>1. w[n] \in DOMAIN t /\ Promised!Moved(from, to, w[n]) = v[n] /\ t[w[n]] = Shown(f, n)
    BY <1>1, <1>2 DEF Shows
  <2>2. p \in DOMAIN t /\ Promised!Moved(from, to, p) = v[n]
    BY <2>1
  <2>3. u[v[n]] = t[p]
    BY <1>3, <2>1
  <2> HIDE DEF p
  <2>4. PICK m \in InUse(f) : p = w[m]
    BY <1>1, <2>2 DEF Shows
  <2>5. v[m] = v[n]
    BY <1>2, <2>2, <2>4
  <2>6. m = n
    BY <1>1, <2>4, <2>5, PlacesApart
  <2>7. Shown(g, n) = Shown(f, n)
    BY <1>1 DEF Shown, MovedAs, SameTexts
  <2> QED
    BY <2>1, <2>3, <2>4, <2>6, <2>7
<1>6. Shows(g, v, u)
  BY <1>4, <1>5 DEF Shows
<1>7. TreeOf(g) = u
  BY <1>1, <1>4, <1>6, TreeIs
<1> QED
  BY <1>7 DEF u, t, from, w, RehungTree

\* The node that vfs_move hangs elsewhere.
Rehangs(f, at, parent, name) ==
  changed(vfs_link_into([vfs_unlink_from_parent(f, at) EXCEPT !.nodes[at].name = name],
                        parent, at))

LEMMA MoveEffect ==
  ASSUME NEW f \in FsType, NEW at \in InUse(f), NEW parent \in Nodes, NEW name \in Names
  PROVE  MovedAs(f, Rehangs(f, at, parent, name), at, parent, name)
<1> DEFINE unlinked == vfs_unlink_from_parent(f, at)
           renamed == [unlinked EXCEPT !.nodes[at].name = name]
           linked == vfs_link_into(renamed, parent, at)
           g == Rehangs(f, at, parent, name)
<1>1. at \in Nodes /\ InUse(f) \in SUBSET Nodes
  BY DEF InUse
<1>2. /\ SameButLinks(f, unlinked)
      /\ \A n \in Nodes : unlinked.nodes[n].parent = f.nodes[n].parent
  BY <1>1, UnlinkEffect
<1>3. unlinked \in FsType /\ unlinked.cwd = f.cwd /\ unlinked.blocks = f.blocks
  BY <1>2 DEF SameButLinks
<1>4. g = changed(linked)
  BY DEF Rehangs
<1> HIDE DEF unlinked, g
<1> DEFINE node == [unlinked.nodes[at] EXCEPT !.name = name]
           new == [unlinked.nodes EXCEPT ![at] = node]
<1>5. unlinked.nodes \in [Nodes -> NodeType] /\ unlinked.nodes[at] \in NodeType
  BY <1>1, <1>3, FsParts
<1>6. /\ node \in NodeType /\ node.name = name /\ node.kind = unlinked.nodes[at].kind
      /\ node.used = unlinked.nodes[at].used /\ node.length = unlinked.nodes[at].length
      /\ node.blocks = unlinked.nodes[at].blocks
  BY <1>5 DEF NodeType
<1>7. renamed = [unlinked EXCEPT !.nodes = new]
  BY <1>3, <1>5 DEF FsType
<1> HIDE DEF node
<1>8. /\ new \in [Nodes -> NodeType] /\ new[at] = node
      /\ \A n \in Nodes : n # at => new[n] = unlinked.nodes[n]
  BY <1>1, <1>5, <1>6
<1> HIDE DEF new, renamed
<1>9. /\ renamed \in FsType /\ renamed.nodes = new /\ renamed.cwd = unlinked.cwd
      /\ renamed.blocks = unlinked.blocks
  BY <1>3, <1>7, <1>8, NewNodes
<1>10. Hangs(renamed, linked, parent, at)
  BY <1>1, <1>9, LinkHangs
<1> HIDE DEF linked
<1>11. linked \in FsType /\ SameButLinks(renamed, linked)
  BY <1>10 DEF Hangs, SameButLinks
<1>12. g.nodes = linked.nodes /\ g.cwd = linked.cwd /\ g.blocks = linked.blocks
  BY <1>4, <1>11, ChangedType
<1>13. g.nodes[at].parent = parent /\ g.nodes[at].name = name
       /\ g.cwd = f.cwd /\ g.blocks = f.blocks
  BY <1>1, <1>3, <1>6, <1>8, <1>9, <1>10, <1>12 DEF Hangs, SameButLinks
<1>14. ASSUME NEW n \in Nodes
       PROVE  /\ g.nodes[n].used = f.nodes[n].used
              /\ g.nodes[n].kind = f.nodes[n].kind
              /\ g.nodes[n].length = f.nodes[n].length
              /\ g.nodes[n].blocks = f.nodes[n].blocks
  <2>1. /\ g.nodes[n].used = new[n].used /\ g.nodes[n].kind = new[n].kind
        /\ g.nodes[n].length = new[n].length /\ g.nodes[n].blocks = new[n].blocks
    BY <1>9, <1>11, <1>12 DEF SameButLinks
  <2>2. /\ new[n].used = unlinked.nodes[n].used /\ new[n].kind = unlinked.nodes[n].kind
        /\ new[n].length = unlinked.nodes[n].length /\ new[n].blocks = unlinked.nodes[n].blocks
    BY <1>6, <1>8
  <2> QED
    BY <1>2, <2>1, <2>2 DEF SameButLinks
<1>15. ASSUME NEW n \in Nodes, n # at
       PROVE  g.nodes[n].name = f.nodes[n].name /\ g.nodes[n].parent = f.nodes[n].parent
  <2>1. g.nodes[n].name = new[n].name /\ g.nodes[n].parent = new[n].parent
    BY <1>9, <1>10, <1>12, <1>15 DEF SameButLinks, Hangs
  <2>2. new[n] = unlinked.nodes[n]
    BY <1>8, <1>15
  <2> QED
    BY <1>2, <2>1, <2>2 DEF SameButLinks
<1>16. InUse(g) = InUse(f)
  BY <1>14 DEF InUse
<1>17. SameTexts(f, g, InUse(f))
  <2> SUFFICES ASSUME NEW n \in InUse(f) PROVE contents(g, n) = contents(f, n)
    BY DEF SameTexts
  <2>1. n \in Nodes
    BY <1>1
  <2>2. g.nodes[n].length = f.nodes[n].length /\ g.nodes[n].blocks = f.nodes[n].blocks
    BY <1>14, <2>1
  <2> QED
    BY <1>13, <2>2 DEF contents, vfsblock_at
<1>18. SameWays(f, g, InUse(f) \ {at})
  BY <1>1, <1>14, <1>15 DEF SameWays
<1>19. \A n \in InUse(f) : g.nodes[n].kind = f.nodes[n].kind
  BY <1>1, <1>14
<1>20. MovedAs(f, g, at, parent, name)
  BY <1>13, <1>16, <1>17, <1>18, <1>19 DEF MovedAs
<1> QED
  BY <1>20 DEF g

IsMoved(from, to) ==
  /\ TreeOf(fs') = Promised!Rehung(TreeOf(fs), from, to)
  /\ vfs_path_of(fs', fs'.cwd) = Promised!Moved(from, to, vfs_path_of(fs, fs.cwd))
  /\ reply' = "OK"

LEMMA MoveShown ==
  ASSUME Tree(fs, {}, TRUE), Tree(fs', {}, TRUE), NEW at \in InUse(fs) \ {0},
         NEW parent \in InUse(fs), NEW name, MovedAs(fs, fs', at, parent, name),
         ~is_within(fs, parent, at), reply' = "OK",
         NEW to, to = Append(W(fs)[parent], name)
  PROVE  IsMoved(W(fs)[at], to)
<1> DEFINE f == fs
           g == fs'
           from == W(f)[at]
<1>1. /\ Tree(f, {}, TRUE) /\ Tree(g, {}, TRUE) /\ at \in InUse(f) \ {0} /\ parent \in InUse(f)
      /\ MovedAs(f, g, at, parent, name) /\ ~is_within(f, parent, at)
      /\ to = Append(W(f)[parent], name)
  OBVIOUS
<1> HIDE DEF f, g
<1>2. RehungTree(f, g, at, to)
  BY <1>1, MovedIsShown
<1>3. GoesAlong(f, g, at, to)
  BY <1>1, MovedWays
<1>4. vfs_path_of(f, f.cwd) = W(f)[f.cwd] /\ f.cwd \in InUse(f)
  BY <1>1, HereIs
<1>5. vfs_path_of(g, g.cwd) = W(g)[g.cwd]
  BY <1>1, HereIs
<1>6. g.cwd = f.cwd
  BY <1>1 DEF MovedAs
<1>7. W(g)[f.cwd] = Promised!Moved(W(f)[at], to, W(f)[f.cwd])
  BY <1>3, <1>4 DEF GoesAlong
<1>8. vfs_path_of(g, g.cwd) = Promised!Moved(W(f)[at], to, vfs_path_of(f, f.cwd))
  BY <1>4, <1>5, <1>6, <1>7
<1> QED
  BY <1>2, <1>8 DEF IsMoved, RehungTree, f, g

LEMMA MoveStep ==
  ASSUME Orderly(fs, TRUE), NEW src \in PathType, NEW dst \in PathType,
         Do(vfs_move(fs, src, dst))
  PROVE  Promised!Move(src, dst)
<1> DEFINE at == vfs_resolve(fs, src)
           parent == ParentOf(fs, dst)
           name == LastName(dst)
           from == Promised!At(src)
           to == Promised!New(dst)
           barred == PlaceRefused(fs, dst)
<1>1. Tree(fs, {}, TRUE) /\ TRUE \in BOOLEAN /\ fs \in FsType
  BY DEF Orderly, Settled, WellKept
<1>2. CASE at = VFS_NONE
  <2>1. fs' = fs /\ reply' = "NOT_FOUND"
    BY <1>2 DEF vfs_move, Do, Did
  <2>2. from = Promised!Nowhere
    BY <1>1, <1>2, AtNothing
  <2>3. Promised!Refused("NOT_FOUND")
    BY <2>1, IsRefused
  <2> QED
    BY <2>2, <2>3 DEF Promised!Move
<1>3. CASE at # VFS_NONE
  <2>1. /\ at \in InUse(fs) /\ from = W(fs)[at] /\ from # Promised!Nowhere
        /\ (from = Promised!Root <=> at = 0)
    BY <1>1, <1>3, AtNode
  <2>2. Promised!Taken(dst) = barred
    BY <1>1, TakenIs
  <2>3. Promised!Move(src, dst) <=>
          IF at = 0 THEN Promised!Refused("BAD_NAME")
          ELSE IF barred # "OK" THEN Promised!Refused(barred)
          ELSE IF Promised!IsPrefix(from, Promised!In(dst)) THEN Promised!Refused("BAD_NAME")
          ELSE IsMoved(from, to)
    BY <2>1, <2>2 DEF Promised!Move, IsMoved
  <2>4. CASE at = 0
    <3>1. fs' = fs /\ reply' = "BAD_NAME"
      BY <1>3, <2>4 DEF vfs_move, Do, Did
    <3>2. Promised!Refused("BAD_NAME")
      BY <3>1, IsRefused
    <3> QED
      BY <2>3, <2>4, <3>2
  <2>5. CASE at # 0 /\ barred # "OK"
    <3>1. fs' = fs /\ reply' = barred
      BY <1>3, <2>5 DEF vfs_move, Do, Did
    <3>2. Promised!Refused(barred)
      BY <3>1, IsRefused
    <3> QED
      BY <2>3, <2>5, <3>2
  <2>6. CASE at # 0 /\ barred = "OK"
    <3>1. /\ parent \in InUse(fs) /\ parent \in Nodes /\ name \in Names
          /\ to = Append(W(fs)[parent], name)
      <4>1. parent \in InUse(fs) /\ parent \in Nodes /\ name \in Names
        BY <1>1, <2>6, PlaceIsFree
      <4>2. to = Append(W(fs)[parent], name)
        BY <1>1, <2>6, TakenIs
      <4> QED
        BY <4>1, <4>2
    <3>2. Promised!In(dst) = W(fs)[parent]
      <4>1. Promised!In(dst) = Spot(W(fs), parent)
        BY <1>1, InIs
      <4>2. parent # VFS_NONE
        BY <3>1, NodesAreNumbers
      <4> QED
        BY <4>1, <4>2 DEF Spot
    <3>3. Promised!IsPrefix(from, Promised!In(dst)) <=> is_within(fs, parent, at)
      <4> DEFINE f == fs
                 w == W(fs)
      <4>1. Tree(f, {}, TRUE) /\ Places(f, w) /\ at \in InUse(f) /\ parent \in InUse(f)
        BY <1>1, <2>1, <3>1, Views
      <4> HIDE DEF f, w, at, parent
      <4>2. is_within(f, parent, at) <=> Promised!IsPrefix(w[at], w[parent])
        BY <4>1, WithinIsBelow
      <4> QED
        BY <2>1, <3>2, <4>2 DEF f, w
    <3>4. CASE is_within(fs, parent, at)
      <4>1. fs' = fs /\ reply' = "BAD_NAME"
        BY <1>3, <2>6, <3>4 DEF vfs_move, Do, Did
      <4>2. Promised!Refused("BAD_NAME")
        BY <4>1, IsRefused
      <4> QED
        BY <2>3, <2>6, <3>3, <3>4, <4>2
    <3>5. CASE ~is_within(fs, parent, at)
      <4>1. fs' = Rehangs(fs, at, parent, name) /\ reply' = "OK"
        BY <1>3, <2>6, <3>5 DEF vfs_move, Do, Did, Rehangs
      <4>2. Orderly(fs', TRUE)
        <5>1. Orderly(vfs_move(fs, src, dst).fs, TRUE)
          BY <1>1, MoveOrderly
        <5> QED
          BY <5>1 DEF Do
      <4>3. Tree(fs', {}, TRUE)
        BY <4>2 DEF Orderly, Settled
      <4> HIDE DEF at, parent, name, from, to, barred
      <4>4. MovedAs(fs, fs', at, parent, name)
        <5>1. MovedAs(fs, Rehangs(fs, at, parent, name), at, parent, name)
          BY <1>1, <2>1, <3>1, MoveEffect
        <5> QED
          BY <4>1, <5>1
      <4>5. IsMoved(W(fs)[at], to)
        BY <1>1, <2>1, <2>6, <3>1, <3>5, <4>1, <4>3, <4>4, MoveShown
      <4> QED
        BY <2>1, <2>3, <2>6, <3>3, <3>5, <4>5
    <3> QED
      BY <3>4, <3>5
  <2> QED
    BY <2>4, <2>5, <2>6
<1> QED
  BY <1>2, <1>3

----------------------------------------------------------------------------
(* A path whose end was made leads to what was made *)

ChildCalledIs(r, a, called, b) == vfs_child_named(r, a, called) = b

\* In a tree, the entry that has a name is the entry that is found under it.
LEMMA NamedIsFound ==
  ASSUME NEW r, Tree(r, {}, TRUE), NEW b \in InUse(r) \ {0}, NEW a \in InUse(r), NEW called,
         r.nodes[b].parent = a, r.nodes[b].name = called
  PROVE  ChildCalledIs(r, a, called, b)
<1> DEFINE clean == TRUE
           found == vfs_child_named(r, a, called)
           M == Members(r, {})
<1>0. Tree(r, {}, clean) /\ clean \in BOOLEAN
  OBVIOUS
<1>1. b \in M
  BY DEF Members
<1>2. NamesApart(r, M)
  BY DEF Tree
<1> HIDE DEF clean
<1>3. found # VFS_NONE => /\ found \in M /\ r.nodes[found].parent = a
                          /\ r.nodes[found].name = called
  BY <1>0, NameIsFound
<1>4. found = VFS_NONE => \A n \in M : r.nodes[n].parent = a => r.nodes[n].name # called
  BY <1>0, NameIsFound
<1> HIDE DEF found, M
<1>5. found # VFS_NONE
  BY <1>1, <1>4
<1>6. found = b
  BY <1>1, <1>2, <1>3, <1>5 DEF NamesApart
<1> QED
  BY <1>6 DEF found, ChildCalledIs

WalksAlike(f, r, a, comp) ==
  WalkInto(f, a, comp) # VFS_NONE => WalkInto(r, a, comp) = WalkInto(f, a, comp)

\* A step that led somewhere leads there still.
LEMMA StepStays ==
  ASSUME NEW f, Tree(f, {}, TRUE), NEW r, Tree(r, {}, TRUE), NEW made, NEW parent, NEW name,
         NEW kind, MadeAs(f, r, made, parent, name, kind),
         NEW a \in InUse(f), NEW comp
  PROVE  WalksAlike(f, r, a, comp)
<1> SUFFICES ASSUME WalkInto(f, a, comp) # VFS_NONE
             PROVE  WalkInto(r, a, comp) = WalkInto(f, a, comp)
  BY DEF WalksAlike
<1> DEFINE clean == TRUE
           dots == comp = "." \/ comp = ".."
           b == vfs_child_named(f, a, comp)
<1>0. Tree(f, {}, clean) /\ clean \in BOOLEAN
  OBVIOUS
<1> HIDE DEF clean
<1>1. /\ r.nodes[a].parent = f.nodes[a].parent /\ r.nodes[a].kind = f.nodes[a].kind
      /\ InUse(r) = InUse(f) \cup {made} /\ SameWays(f, r, InUse(f)) /\ a \in InUse(r)
  BY DEF MadeAs, SameWays
<1>2. CASE dots
  <2>1. a # VFS_NONE
    BY NodesAreNumbers DEF InUse
  <2>2. WalkInto(f, a, comp) = IF comp = "." THEN a ELSE f.nodes[a].parent
    BY <1>2, <2>1 DEF WalkInto
  <2>3. WalkInto(r, a, comp) = IF comp = "." THEN a ELSE r.nodes[a].parent
    BY <1>2, <2>1 DEF WalkInto
  <2> QED
    BY <1>1, <2>2, <2>3
<1>3. CASE ~dots
  <2>1. a # VFS_NONE
    BY NodesAreNumbers DEF InUse
  <2>2. f.nodes[a].kind = "DIR" /\ WalkInto(f, a, comp) = b /\ b # VFS_NONE
    BY <1>3, <2>1 DEF WalkInto
  <2>3. WalkInto(r, a, comp) = vfs_child_named(r, a, comp)
    BY <1>1, <1>3, <2>1, <2>2 DEF WalkInto
  <2>4. b \in Members(f, {}) /\ f.nodes[b].parent = a /\ f.nodes[b].name = comp
    BY <1>0, <2>2, NameIsFound
  <2> HIDE DEF b
  <2>5. b \in InUse(r) \ {0} /\ r.nodes[b].parent = a /\ r.nodes[b].name = comp
    BY <1>1, <2>4 DEF Members, SameWays
  <2>6. ChildCalledIs(r, a, comp, b)
    BY <1>1, <2>5, NamedIsFound
  <2> QED
    BY <2>2, <2>3, <2>6 DEF ChildCalledIs
<1> QED
  BY <1>2, <1>3

LEMMA StepStaysIn ==
  ASSUME NEW f, Tree(f, {}, TRUE), NEW a \in InUse(f) \cup {VFS_NONE}, NEW comp
  PROVE  WalkInto(f, a, comp) \in InUse(f) \cup {VFS_NONE}
<1> DEFINE w == W(f)
           t == TreeOf(f)
<1>1. Places(f, w) /\ Shows(f, w, t)
  BY Views
<1> HIDE DEF w, t
<1> QED
  BY <1>1, OnwardIsWalk

LEMMA MadeIsReached ==
  ASSUME NEW f, Tree(f, {}, TRUE), NEW r, Tree(r, {}, TRUE), NEW made, NEW kind,
         NEW path \in PathType, PlaceRefused(f, path) = "OK",
         MadeAs(f, r, made, ParentOf(f, path), LastName(path), kind)
  PROVE  vfs_resolve(r, path) = made
<1> DEFINE clean == TRUE
           parent == ParentOf(f, path)
           name == LastName(path)
           len == Len(path.comps)
           x(k) == WalkTo(f, path, k)
           y(k) == WalkTo(r, path, k)
<1>0. Tree(f, {}, clean) /\ Tree(r, {}, clean) /\ clean \in BOOLEAN
  OBVIOUS
<1>1. MadeAs(f, r, made, parent, name, kind)
  OBVIOUS
<1> HIDE DEF clean
<1>2. parent \in InUse(f) /\ IsDir(f, parent) /\ name \in Names /\ name # ""
  BY <1>0, PlaceIsFree
<1>3. /\ made \in InUse(r) \ {0} /\ parent \in InUse(r) /\ r.cwd = f.cwd
      /\ r.nodes[made].parent = parent /\ r.nodes[made].name = name
      /\ r.nodes[parent].kind = "DIR"
  <2>1. 0 \in InUse(f)
    BY InUseFacts
  <2> QED
    BY <1>1, <1>2, <2>1 DEF MadeAs, SameWays, IsDir
<1>4. path.comps # << >> /\ path.comps \in Seq(Components)
  BY <1>2 DEF LastName, PathType
<1>5. len \in Nat /\ len >= 1 /\ DOMAIN path.comps = 1 .. len /\ len - 1 \in Nat
      /\ (len - 1) + 1 = len /\ path.comps[len] = name
  BY <1>4 DEF LastName
<1>6. x(len - 1) = parent /\ x(0) = IF path.root THEN 0 ELSE f.cwd
  BY <1>0, <1>4, WalkSteps DEF ParentOf
<1>7. y(0) = IF path.root THEN 0 ELSE r.cwd
  BY <1>0, WalkSteps
<1>8. \A k \in Nat : k + 1 \in 1 .. len => x(k + 1) = WalkInto(f, x(k), path.comps[k + 1])
  BY <1>0, <1>5, WalkSteps
<1>9. \A k \in Nat : k + 1 \in 1 .. len => y(k + 1) = WalkInto(r, y(k), path.comps[k + 1])
  BY <1>0, <1>5, WalkSteps
<1>10. x(0) \in InUse(f) /\ y(0) = x(0)
  BY <1>3, <1>6, <1>7, InUseFacts
<1> HIDE DEF x, y, parent, name
<1>11. ASSUME NEW a \in InUse(f) \cup {VFS_NONE}, NEW comp
       PROVE  WalkInto(f, a, comp) \in InUse(f) \cup {VFS_NONE}
  BY <1>11, StepStaysIn
<1>12. ASSUME NEW a \in InUse(f), NEW comp, WalkInto(f, a, comp) # VFS_NONE
       PROVE  WalkInto(r, a, comp) = WalkInto(f, a, comp)
  <2>1. WalksAlike(f, r, a, comp)
    BY <1>1, StepStays
  <2> QED
    BY <1>12, <2>1 DEF WalksAlike
<1>13. ASSUME NEW comp PROVE WalkInto(f, VFS_NONE, comp) = VFS_NONE
  BY DEF WalkInto
<1> DEFINE Bad == {k \in 0 .. len : ~ /\ x(k) \in InUse(f) \cup {VFS_NONE}
                                      /\ x(k) # VFS_NONE => y(k) = x(k)}
<1>14. Bad = {}
  <2> SUFFICES ASSUME Bad # {} PROVE FALSE
    OBVIOUS
  <2>1. Bad \in SUBSET Nat
    BY <1>5
  <2>2. PICK k \in Bad : \A i \in Bad : k <= i
    BY <2>1, LeastNat
  <2>3. k # 0
    BY <1>10
  <2>4. k - 1 \in Nat /\ k - 1 \in 0 .. len /\ (k - 1) + 1 = k /\ k \in 1 .. len /\ k - 1 \notin Bad
    BY <1>5, <2>2, <2>3
  <2> DEFINE a == x(k - 1)
  <2>5. a \in InUse(f) \cup {VFS_NONE} /\ (a # VFS_NONE => y(k - 1) = a)
    BY <2>4
  <2>6. x(k) = WalkInto(f, a, path.comps[k]) /\ y(k) = WalkInto(r, y(k - 1), path.comps[k])
    BY <1>8, <1>9, <2>4
  <2> HIDE DEF a
  <2>7. x(k) \in InUse(f) \cup {VFS_NONE}
    BY <1>11, <2>5, <2>6
  <2>8. ASSUME x(k) # VFS_NONE PROVE y(k) = x(k)
    <3>1. a # VFS_NONE
      BY <1>13, <2>6, <2>8
    <3> QED
      BY <1>12, <2>5, <2>6, <2>8, <3>1
  <2>9. k \notin Bad
    BY <2>7, <2>8
  <2> QED
    BY <2>2, <2>9
<1>15. y(len - 1) = parent
  <2>1. len - 1 \in 0 .. len /\ len - 1 \notin Bad
    BY <1>5, <1>14
  <2>2. parent # VFS_NONE
    BY <1>2, NodesAreNumbers DEF InUse
  <2> QED
    BY <1>6, <2>1, <2>2
<1>16. y(len) = WalkInto(r, parent, name)
  <2>1. len \in 1 .. len
    BY <1>5
  <2> QED
    BY <1>5, <1>9, <1>15, <2>1
<1>17. WalkInto(r, parent, name) = vfs_child_named(r, parent, name)
  <2>1. name # "." /\ name # ".."
    BY <1>2, NamesAssumption
  <2>2. parent # VFS_NONE
    BY <1>2, NodesAreNumbers DEF InUse
  <2> QED
    BY <1>3, <2>1, <2>2 DEF WalkInto
<1>18. ChildCalledIs(r, parent, name, made)
  BY <1>3, NamedIsFound
<1>19. y(len) = made
  BY <1>16, <1>17, <1>18 DEF ChildCalledIs
<1> QED
  BY <1>19 DEF y, vfs_resolve

----------------------------------------------------------------------------
(* Files are copied *)

Unmade(f, g) ==
  /\ Orderly(g, TRUE) /\ InUse(g) = InUse(f) /\ g.cwd = f.cwd
  /\ SameWays(f, g, InUse(f)) /\ SameTexts(f, g, InUse(f))

\* Removing a file that was just made leaves everything as it was before.
LEMMA RollsBack ==
  ASSUME NEW f, Orderly(f, TRUE), NEW r, Orderly(r, TRUE), NEW made, NEW path \in PathType,
         PlaceRefused(f, path) = "OK",
         MadeAs(f, r, made, ParentOf(f, path), LastName(path), "FILE")
  PROVE  Unmade(f, vfs_remove(r, path).fs)
<1> DEFINE clean == TRUE
           w == W(r)
           g == RemoveNode(r, made)
           undone == vfs_remove(r, path).fs
           kind == "FILE"
           parent == ParentOf(f, path)
           name == LastName(path)
<1>0. /\ Orderly(r, clean) /\ Tree(f, {}, clean) /\ Tree(r, {}, clean) /\ clean \in BOOLEAN
      /\ Tree(f, {}, TRUE) /\ Tree(r, {}, TRUE) /\ WellKept(r)
  BY DEF Orderly, Settled
<1>1. MadeAs(f, r, made, parent, name, kind)
  OBVIOUS
<1>2. vfs_resolve(r, path) = made
  <2>1. MadeAs(f, r, made, ParentOf(f, path), LastName(path), kind)
    OBVIOUS
  <2> HIDE DEF kind
  <2> QED
    BY <1>0, <2>1, MadeIsReached
<1>3. f.cwd \in InUse(f) /\ 0 \in InUse(f)
  BY <1>0, InUseFacts
<1>4. /\ made \in InUse(r) \ {0} /\ made \in Nodes /\ r.nodes[made].kind = "FILE"
      /\ r.cwd = f.cwd /\ r.cwd \in InUse(r) /\ r.cwd # made /\ made \notin InUse(f)
      /\ InUse(r) = InUse(f) \cup {made}
  BY <1>1, <1>3 DEF MadeAs, kind
<1> HIDE DEF clean
<1>5. r.nodes[made].first_child = VFS_NONE
  BY <1>0, <1>4 DEF Tree, KindsAgree
<1>6. Places(r, w)
  BY <1>0, Views
<1> HIDE DEF w
<1>7. ~is_within(r, r.cwd, made)
  BY <1>0, <1>4, <1>5, <1>6, NothingBelow
<1>8. undone = g
  BY <1>2, <1>4, <1>5, <1>7, NodesAreNumbers DEF vfs_remove, Did
<1>9. Orderly(g, clean)
  BY <1>0, <1>4, <1>5, <1>7, RemoveNodeOrderly
<1>10. Removed(r, g, made)
  BY <1>0, <1>4, RemoveEffect
<1> HIDE DEF g, undone, parent, name, kind
<1>11. InUse(g) = InUse(f) /\ g.cwd = f.cwd
  BY <1>4, <1>10 DEF Removed
<1>12. SameWays(f, g, InUse(f)) /\ SameTexts(f, g, InUse(f))
  BY <1>1, <1>10, <1>11 DEF Removed, MadeAs, SameWays, SameTexts
<1>13. Unmade(f, g)
  BY <1>9, <1>11, <1>12 DEF Unmade, clean
<1> QED
  BY <1>8, <1>13 DEF undone

\* What a copy that is refused for want of blocks is in the tree of paths.
LEMMA UnmadeIsRefused ==
  ASSUME Orderly(fs, TRUE), Unmade(fs, fs'), NEW answer, reply' = answer
  PROVE  Promised!Refused(answer)
<1> DEFINE f == fs
           g == fs'
<1>1. /\ Tree(f, {}, TRUE) /\ Tree(g, {}, TRUE)
      /\ InUse(g) = InUse(f) /\ g.cwd = f.cwd
      /\ SameWays(f, g, InUse(f)) /\ SameTexts(f, g, InUse(f))
  BY DEF Unmade, Orderly, Settled
<1> HIDE DEF f, g
<1>2. TreeOf(g) = TreeOf(f)
  BY <1>1, NothingChanges
<1>3. W(g) = W(f)
  BY <1>1, WaysStay
<1>4. TreeOf(fs') = TreeOf(fs)
  BY <1>2 DEF f, g
<1>5. vfs_path_of(fs', fs'.cwd) = vfs_path_of(fs, fs.cwd)
  BY <1>1, <1>3, HereStays DEF f, g
<1> QED
  BY <1>4, <1>5 DEF Promised!Refused

\* A refused reserve for a file that was just made leaves it just made.
LEMMA RefusedIsMade ==
  ASSUME NEW f, NEW h, Orderly(h, TRUE), NEW made, IsFile(h, made), NEW parent, NEW name, NEW kind,
         MadeAs(f, h, made, parent, name, kind), NEW wanted \in Nat
  PROVE  MadeAs(f, vfsblock_reserve(h, made, wanted), made, parent, name, kind)
<1> DEFINE r == vfsblock_reserve(h, made, wanted)
<1>1. WellKept(h) /\ h \in FsType /\ made \in Nodes /\ made \in InUse(h)
  BY DEF Orderly, WellKept, IsFile, InUse
<1>2. Touches(h, r, made) /\ r.nodes[made].length = h.nodes[made].length
  BY <1>1, ReserveTouches
<1>3. ASSUME NEW n \in InUse(h) PROVE KeepsFile(h, r, n)
  BY <1>1, ReserveKeepsTexts
<1> HIDE DEF r
<1>4. \A n \in InUse(h) : contents(r, n) = contents(h, n)
  BY <1>1, <1>3, ContentsStay DEF InUse
<1>5. SameTree(h, r)
  BY <1>1, <1>2, TouchesSameTree
<1>6. InUse(r) = InUse(h) /\ r.cwd = h.cwd /\ InUse(f) \in SUBSET Nodes /\ InUse(f) \in SUBSET InUse(h)
  BY <1>5 DEF SameTree, InUse, MadeAs
<1>7. SameWays(f, r, InUse(f)) /\ SameTexts(f, r, InUse(f))
  BY <1>4, <1>5, <1>6 DEF MadeAs, SameTree, SameWays, SameTexts
<1>8. MadeAs(f, r, made, parent, name, kind)
  BY <1>1, <1>2, <1>5, <1>6, <1>7 DEF MadeAs, SameTree
<1> QED
  BY <1>8 DEF r

LEMMA CopyMade ==
  ASSUME Orderly(fs, TRUE), NEW dst \in PathType, PlaceRefused(fs, dst) = "OK", FreeNodes(fs) # {},
         NEW text \in Seq(Bytes \cup {0}), Len(text) <= VFS_FILE_MAX,
         NEW h, h = vfs_make(fs, dst, "FILE").fs,
         NEW made, made = free_node(fs), NEW wanted, wanted = vfs_blocks_for(Len(text)),
         fs' = IF reserve_succeeds(h, made, wanted)
               THEN put_bytes(vfsblock_reserve(h, made, wanted), made, text)
               ELSE vfs_remove(vfsblock_reserve(h, made, wanted), dst).fs,
         reply' = IF reserve_succeeds(h, made, wanted) THEN "OK" ELSE "NO_SPACE"
  PROVE  LET new == Promised!With(TreeOf(fs), Promised!New(dst), Promised!File(text))
         IN  IF ~Promised!Fits(new) THEN Promised!Refused("NO_SPACE")
             ELSE Promised!Becomes(new, "OK")
<1> DEFINE p == Promised!New(dst)
           t == TreeOf(fs)
           none == << >>
           a == Promised!File(none)
           b == Promised!File(text)
           new == Promised!With(t, p, b)
           reserved == vfsblock_reserve(h, made, wanted)
<1>1. Ready(h, made, p, none)
  BY MadeReady
<1>2. "FILE" \in Kinds /\ Tree(fs, {}, TRUE)
  BY DEF Kinds, Orderly, Settled
<1>3. MadeAs(fs, h, made, ParentOf(fs, dst), LastName(dst), "FILE")
  BY <1>2, MakeEffect
<1>4. /\ Orderly(h, TRUE) /\ IsFile(h, made) /\ W(h)[made] = p
      /\ TreeOf(h) = Promised!With(t, p, a)
  BY <1>1 DEF Ready
<1>5. h.nodes[made].length = 0 /\ Len(text) \in Nat
  BY <1>3 DEF MadeAs
<1>6. wanted \in Nat
  BY <1>5, BlocksForType
<1>7. Promised!Fits(new) <=> reserve_succeeds(h, made, wanted)
  <2>1. Promised!With(TreeOf(h), W(h)[made], b) = new
    <3>1. TreeOf(h) = Promised!With(t, p, a) /\ W(h)[made] = p
      BY <1>4
    <3> HIDE DEF a, b, t, p
    <3> QED
      BY <3>1, WithWith
  <2>2. Promised!Fits(Promised!With(TreeOf(h), W(h)[made], b))
          <=> reserve_succeeds(h, made, vfs_blocks_for(Len(text)))
    BY <1>4, FitsIs
  <2> HIDE DEF a, b, t, p, new
  <2> QED
    BY <2>1, <2>2
<1> HIDE DEF p, t, none, new
<1>8. CASE reserve_succeeds(h, made, wanted)
  <2> DEFINE length == Len(text)
             put == put_bytes(reserved, made, text)
  <2>1. length \in Nat /\ length = h.nodes[made].length + Len(text) /\ length <= VFS_FILE_MAX
        /\ wanted = vfs_blocks_for(length)
    BY <1>5
  <2> HIDE DEF length
  <2>2. Ready(put, made, p, none \o text)
    BY <1>1, <1>8, <2>1, StoredReady
  <2>3. none \o text = text
    BY DEF none
  <2> HIDE DEF put
  <2>4. fs' = put /\ reply' = "OK"
    BY <1>8 DEF put
  <2>5. Ready(fs', made, p, text)
    BY <2>2, <2>3, <2>4
  <2>6. Promised!Becomes(Promised!With(TreeOf(fs), p, Promised!File(text)), "OK")
    BY <1>2, <2>4, <2>5, ReadyBecomes
  <2> QED
    BY <1>7, <1>8, <2>6 DEF new, p, t
<1>9. CASE ~reserve_succeeds(h, made, wanted)
  <2>1. fs' = vfs_remove(reserved, dst).fs /\ reply' = "NO_SPACE"
    BY <1>9
  <2>2. Ready(reserved, made, p, none)
    BY <1>1, <1>6, <1>9, RefusedReady
  <2>3. Orderly(reserved, TRUE)
    BY <2>2 DEF Ready
  <2> DEFINE parent == ParentOf(fs, dst)
             name == LastName(dst)
             kind == "FILE"
  <2>4. MadeAs(fs, h, made, parent, name, kind)
    BY <1>3
  <2> HIDE DEF parent, name, kind
  <2>5. MadeAs(fs, reserved, made, parent, name, kind)
    BY <1>4, <1>6, <2>4, RefusedIsMade
  <2>6. MadeAs(fs, reserved, made, ParentOf(fs, dst), LastName(dst), "FILE")
    BY <2>5 DEF parent, name, kind
  <2> DEFINE f == fs
             r == reserved
  <2>7. /\ Orderly(f, TRUE) /\ PlaceRefused(f, dst) = "OK" /\ Orderly(r, TRUE)
        /\ MadeAs(f, r, made, ParentOf(f, dst), LastName(dst), "FILE")
    BY <2>3, <2>6
  <2> HIDE DEF f, r, reserved
  <2>8. Unmade(f, vfs_remove(r, dst).fs)
    BY <2>7, RollsBack
  <2>9. Unmade(fs, fs')
    BY <2>1, <2>8 DEF f, r
  <2>10. Promised!Refused("NO_SPACE")
    BY <2>1, <2>9, UnmadeIsRefused
  <2> QED
    BY <1>7, <1>9, <2>10 DEF new, p, t
<1> QED
  BY <1>8, <1>9

\* A copy is made whole or not at all.
LEMMA CopyStep ==
  ASSUME Orderly(fs, TRUE), NEW src \in PathType, NEW dst \in PathType,
         Do(vfs_copy(fs, src, dst))
  PROVE  Promised!Copy(src, dst)
<1> DEFINE at == vfs_resolve(fs, src)
           end == vfs_resolve(fs, dst)
           created == vfs_make(fs, dst, "FILE")
           barred == PlaceRefused(fs, dst)
<1>1. Tree(fs, {}, TRUE) /\ WellKept(fs) /\ fs \in FsType
  BY DEF Orderly, Settled, WellKept
<1>2. CASE at = VFS_NONE
  <2>1. fs' = fs /\ reply' = "NOT_FOUND"
    BY <1>2 DEF vfs_copy, Do, Did
  <2>2. Promised!At(src) = Promised!Nowhere
    BY <1>1, <1>2, AtNothing
  <2>3. Promised!Refused("NOT_FOUND")
    BY <2>1, IsRefused
  <2> QED
    BY <2>2, <2>3 DEF Promised!Copy
<1>3. CASE at # VFS_NONE
  <2> DEFINE text == contents(fs, at)
             p == Promised!At(src)
             new == Promised!With(TreeOf(fs), Promised!New(dst), Promised!File(text))
  <2>1. /\ at \in InUse(fs) /\ at \in Nodes /\ p = W(fs)[at] /\ p # Promised!Nowhere
        /\ TreeOf(fs)[p] = Shown(fs, at)
        /\ TreeOf(fs)[p].kind = fs.nodes[at].kind
        /\ fs.nodes[at].kind \in {"DIR", "FILE"}
    BY <1>1, <1>3, AtNode
  <2>2. CASE fs.nodes[at].kind # "FILE"
    <3>1. fs' = fs /\ reply' = "IS_A_DIRECTORY"
      BY <1>3, <2>2 DEF vfs_copy, Do, Did
    <3>2. Promised!Refused("IS_A_DIRECTORY")
      BY <3>1, IsRefused
    <3> QED
      BY <2>1, <2>2, <3>2 DEF Promised!Copy
  <2>3. CASE fs.nodes[at].kind = "FILE" /\ end # VFS_NONE
    <3>1. fs' = fs /\ reply' = "EXISTS"
      BY <1>3, <2>3 DEF vfs_copy, Do, Did
    <3>2. Promised!Refused("EXISTS")
      BY <3>1, IsRefused
    <3>3. Promised!At(dst) # Promised!Nowhere
      BY <1>1, <2>3, AtNode
    <3> QED
      BY <2>1, <2>3, <3>2, <3>3 DEF Promised!Copy
  <2>4. CASE fs.nodes[at].kind = "FILE" /\ end = VFS_NONE
    <3>1. Promised!At(dst) = Promised!Nowhere /\ Promised!Taken(dst) = barred
      BY <1>1, <2>4, AtNothing, TakenIs
    <3>2. TreeOf(fs)[p] = Promised!File(text)
      BY <2>1, <2>4 DEF Shown, Promised!File
    <3>3. Promised!Copy(src, dst) <=>
            IF barred # "OK" THEN Promised!Refused(barred)
            ELSE IF \/ Promised!Cardinality(DOMAIN TreeOf(fs)) = VFS_MAX_NODES
                    \/ ~Promised!Fits(new)
            THEN Promised!Refused("NO_SPACE")
            ELSE Promised!Becomes(new, "OK")
      BY <2>1, <2>4, <3>1, <3>2 DEF Promised!Copy
    <3>4. CASE barred # "OK"
      <4>1. created.reply # "OK" /\ created = Did(fs, barred)
        BY <3>4 DEF vfs_make, Did
      <4>2. fs' = fs /\ reply' = barred
        BY <1>3, <2>4, <4>1 DEF vfs_copy, Do, Did
      <4>3. Promised!Refused(barred)
        BY <4>2, IsRefused
      <4> QED
        BY <3>3, <3>4, <4>3
    <3>5. CASE barred = "OK" /\ FreeNodes(fs) = {}
      <4>1. created = Did(fs, "NO_SPACE")
        BY <3>5 DEF vfs_make
      <4>2. fs' = fs /\ reply' = "NO_SPACE"
        BY <1>3, <2>4, <4>1 DEF vfs_copy, Do, Did
      <4>3. Promised!Refused("NO_SPACE")
        BY <4>2, IsRefused
      <4>4. Promised!Cardinality(DOMAIN TreeOf(fs)) = VFS_MAX_NODES
        BY <3>5, FullIs
      <4> QED
        BY <3>3, <3>5, <4>3, <4>4
    <3>6. CASE barred = "OK" /\ FreeNodes(fs) # {}
      <4> DEFINE h == created.fs
                 made == free_node(fs)
                 wanted == vfs_blocks_for(Len(text))
      <4>1. /\ fs.nodes[at].used /\ text \in Seq(Bytes \cup {0})
            /\ Len(text) = fs.nodes[at].length
        <5>1. fs.nodes[at].used
          BY <2>1 DEF InUse
        <5> QED
          BY <1>1, <2>1, <5>1, ContentsType
      <4>2. Len(text) <= VFS_FILE_MAX
        BY <1>1, <2>1, <4>1 DEF WellKept, BytesHaveBlocks
      <4>3. created.reply = "OK"
        BY <3>6, MakeMakes, <1>1 DEF Kinds
      <4>4. /\ fs' = IF reserve_succeeds(h, made, wanted)
                     THEN put_bytes(vfsblock_reserve(h, made, wanted), made, text)
                     ELSE vfs_remove(vfsblock_reserve(h, made, wanted), dst).fs
            /\ reply' = IF reserve_succeeds(h, made, wanted) THEN "OK" ELSE "NO_SPACE"
        BY <1>3, <2>4, <4>1, <4>3 DEF vfs_copy, Do, Did
      <4>5. h = vfs_make(fs, dst, "FILE").fs /\ made = free_node(fs)
            /\ wanted = vfs_blocks_for(Len(text)) /\ PlaceRefused(fs, dst) = "OK"
        BY <3>6
      <4> HIDE DEF h, made, wanted, text, at, end
      <4>6. IF ~Promised!Fits(new) THEN Promised!Refused("NO_SPACE")
            ELSE Promised!Becomes(new, "OK")
        BY <3>6, <4>1, <4>2, <4>4, <4>5, CopyMade
      <4>7. Promised!Cardinality(DOMAIN TreeOf(fs)) # VFS_MAX_NODES
        BY <3>6, FullIs
      <4> QED
        BY <3>3, <3>6, <4>6, <4>7
    <3> QED
      BY <3>4, <3>5, <3>6
  <2> QED
    BY <2>2, <2>3, <2>4
<1> QED
  BY <1>2, <1>3

----------------------------------------------------------------------------
(* Every call is one of the promised ones *)

LEMMA EmptyIsShown ==
  ASSUME NEW f, Empty(f)
  PROVE  /\ TreeOf(f) = [p \in {Promised!Root} |-> Promised!Directory]
         /\ vfs_path_of(f, f.cwd) = Promised!Root
<1> DEFINE w == W(f)
           t == TreeOf(f)
           start == [p \in {Promised!Root} |-> Promised!Directory]
<1>1. Tree(f, {}, TRUE)
  BY EmptyIsOrderly DEF Orderly, Settled
<1>2. InUse(f) = {0} /\ 0 \in Nodes
  BY NodesAreNumbers DEF InUse, Empty
<1>3. Places(f, w) /\ Shows(f, w, t)
  BY <1>1, Views
<1>4. t = [p \in DOMAIN t |-> t[p]]
  BY <1>1, <1>3, TreeShows
<1>5. vfs_path_of(f, f.cwd) = w[f.cwd]
  BY <1>1, HereIs
<1> HIDE DEF w, t
<1>6. w[0] = << >>
  BY <1>3 DEF Places
<1>7. contents(f, 0) = << >> /\ f.nodes[0].kind = "DIR"
  <2>1. f.nodes[0].length = 0 /\ f.nodes[0].kind = "DIR"
    BY DEF Empty
  <2> QED
    BY <2>1 DEF contents
<1>8. Shown(f, 0) = Promised!Directory
  BY <1>7 DEF Shown, Promised!Directory
<1>9. DOMAIN t = {Promised!Root} /\ t[Promised!Root] = Promised!Directory
  BY <1>2, <1>3, <1>6, <1>8 DEF Shows, Promised!Root
<1>10. t = start
  BY <1>4, <1>9
<1>11. w[f.cwd] = Promised!Root
  BY <1>6 DEF Empty, Promised!Root
<1> QED
  BY <1>5, <1>10, <1>11 DEF t

LEMMA StartIsPromised ==
  ASSUME Empty(fs), reply = "OK"
  PROVE  Promised!Init
BY EmptyIsShown DEF Promised!Init

LEMMA NothingIsPromised ==
  ASSUME UNCHANGED vars
  PROVE  UNCHANGED Promised!vars
BY DEF vars, Promised!vars

\* Whatever is called, and however it ends, it does what is promised of it.
LEMMA EachCallIsPromised ==
  ASSUME Orderly(fs, TRUE)
  PROVE  CallsKeepTheirPromise
<1>1. Paths \in SUBSET PathType /\ Texts \in SUBSET Seq(Bytes)
  BY InputsAssumption, StringPaths
<1>2. "DIR" \in Kinds /\ "FILE" \in Kinds
  BY DEF Kinds
<1>3. Promised!Directory = [kind |-> "DIR", text |-> << >>]
      /\ Promised!File(<< >>) = [kind |-> "FILE", text |-> << >>]
  BY DEF Promised!Directory, Promised!File
<1>4. ASSUME NEW path \in Paths, Mkdir(path) PROVE Promised!Make(path, Promised!Directory)
  <2>1. Promised!Make(path, [kind |-> "DIR", text |-> << >>])
    BY <1>1, <1>2, <1>4, MakeStep DEF Mkdir, vfs_mkdir
  <2> QED
    BY <1>3, <2>1
<1>5. ASSUME NEW path \in Paths, Create(path) PROVE Promised!Make(path, Promised!File(<< >>))
  <2>1. Promised!Make(path, [kind |-> "FILE", text |-> << >>])
    BY <1>1, <1>2, <1>5, MakeStep DEF Create, vfs_create
  <2> QED
    BY <1>3, <2>1
<1>6. ASSUME NEW path \in Paths, Chdir(path) PROVE Promised!Chdir(path)
  BY <1>1, <1>6, ChdirStep DEF Chdir
<1>7. ASSUME NEW path \in Paths, Remove(path) PROVE Promised!Delete(path)
  BY <1>1, <1>7, RemoveStep DEF Remove
<1>8. ASSUME NEW path \in Paths, NEW text \in Texts, Write(path, text)
      PROVE  Promised!Put(path, text, FALSE)
  BY <1>1, <1>8, WriteStep DEF Write
<1>9. ASSUME NEW path \in Paths, NEW text \in Texts, AppendText(path, text)
      PROVE  Promised!Put(path, text, TRUE)
  BY <1>1, <1>9, AppendStep DEF AppendText
<1>10. ASSUME NEW path \in Paths, NEW to \in Paths, Move(path, to) PROVE Promised!Move(path, to)
  BY <1>1, <1>10, MoveStep DEF Move
<1>11. ASSUME NEW path \in Paths, NEW to \in Paths, Copy(path, to) PROVE Promised!Copy(path, to)
  BY <1>1, <1>11, CopyStep DEF Copy
<1> QED
  BY <1>4, <1>5, <1>6, <1>7, <1>8, <1>9, <1>10, <1>11 DEF CallsKeepTheirPromise

LEMMA CallsArePromised ==
  ASSUME Next, CallsKeepTheirPromise
  PROVE  Promised!Next
<1>1. CASE \E path \in Paths : Mkdir(path)
  BY <1>1 DEF CallsKeepTheirPromise, Promised!Next
<1>2. CASE \E path \in Paths : Create(path)
  BY <1>2 DEF CallsKeepTheirPromise, Promised!Next
<1>3. CASE \E path \in Paths : Chdir(path)
  BY <1>3 DEF CallsKeepTheirPromise, Promised!Next
<1>4. CASE \E path \in Paths : Remove(path)
  BY <1>4 DEF CallsKeepTheirPromise, Promised!Next
<1>5. CASE \E path \in Paths, text \in Texts : Write(path, text)
  BY <1>5 DEF CallsKeepTheirPromise, Promised!Next
<1>6. CASE \E path \in Paths, text \in Texts : AppendText(path, text)
  BY <1>6 DEF CallsKeepTheirPromise, Promised!Next
<1>7. CASE \E from, to \in Paths : Move(from, to)
  BY <1>7 DEF CallsKeepTheirPromise, Promised!Next
<1>8. CASE \E from, to \in Paths : Copy(from, to)
  BY <1>8 DEF CallsKeepTheirPromise, Promised!Next
<1> QED
  BY <1>1, <1>2, <1>3, <1>4, <1>5, <1>6, <1>7, <1>8 DEF Next

\* No list operation drops or duplicates an entry, a move takes its whole
\* subtree along, and nothing is refused for want of room while there is room:
\* with any number of nodes and blocks, every call does to the tree of paths
\* what VfsPaths promises of it and returns what VfsPaths says it returns.
THEOREM PathsAreImplemented == Spec => ImplementsPaths
<1>1. Init => Promised!Init
  BY InitIsEmpty, StartIsPromised DEF Init
<1>2. IInv => CallsKeepTheirPromise
  BY EachCallIsPromised DEF IInv
<1>3. IInv /\ [Next]_vars => [Promised!Next]_(Promised!vars)
  <2>1. CASE UNCHANGED vars
    BY <2>1, NothingIsPromised
  <2>2. CASE IInv /\ Next
    BY <1>2, <2>2, CallsArePromised
  <2> QED
    BY <2>1, <2>2
<1>4. IInv /\ [Next]_vars => [CallsKeepTheirPromise]_vars
  BY <1>2
<1> QED
  BY <1>1, <1>3, <1>4, AlwaysOrderly, PTL DEF ImplementsPaths, Promised!Spec, Spec
=============================================================================
