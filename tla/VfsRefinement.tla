--------------------------- MODULE VfsRefinement ---------------------------
(***************************************************************************)
(* The node table, its lists and its blocks implement a tree of paths.     *)
(***************************************************************************)
EXTENDS Vfs

UsedNodes(f) == {n \in Nodes : f.nodes[n].used}

\* Where a node is: vfs_path_of, climbing the parents and writing the names
\* down from the back.
vfs_path_of(f, at) ==
  LET up == [n \in Nodes |-> IF n = 0 THEN 0 ELSE f.nodes[n].parent]
      here == Iterate([k \in Nat |-> up], at)
      steps == CHOOSE k \in Nodes : here[k] = 0 /\ \A j \in 0 .. k - 1 : here[j] # 0
  IN  [i \in 1 .. steps |-> f.nodes[here[steps - i]].name]

Shown(f, n) == [kind |-> f.nodes[n].kind, text |-> contents(f, n)]

TreeOf(f) ==
  LET where == [n \in UsedNodes(f) |-> vfs_path_of(f, n)]
  IN  [p \in {where[n] : n \in UsedNodes(f)} |->
         Shown(f, CHOOSE n \in UsedNodes(f) : where[n] = p)]

Promised == INSTANCE VfsPaths WITH
  tree <- TreeOf(fs), here <- vfs_path_of(fs, fs.cwd), reply <- reply,
  MaxEntries <- VFS_MAX_NODES, MaxBlocks <- VFS_MAX_BLOCKS,
  BlockSize <- VFS_BLOCK, MaxText <- VFS_FILE_MAX

\* Each call does its own part: which of the promised steps a call is cannot be
\* told from the step alone, as a copy that leaves an empty file behind looks
\* like a write that was refused.
CallsKeepTheirPromise ==
  \A path \in Paths :
    /\ Mkdir(path)  => Promised!Make(path, Promised!Directory)
    /\ Create(path) => Promised!Make(path, Promised!File(<< >>))
    /\ Chdir(path)  => Promised!Chdir(path)
    /\ Remove(path) => Promised!Delete(path)
    /\ \A text \in Texts : /\ Write(path, text)      => Promised!Put(path, text, FALSE)
                           /\ AppendText(path, text) => Promised!Put(path, text, TRUE)
    /\ \A to \in Paths : /\ Move(path, to) => Promised!Move(path, to)
                         /\ Copy(path, to) => Promised!Copy(path, to)

\* Every call does to the tree of paths exactly what VfsPaths promises of it,
\* and returns what it promises: no list operation drops or duplicates an entry,
\* a move takes its whole subtree along, and no refusal is for want of room while
\* there is room (vfs.h; vfsblock.c, "a free block always fits").
ImplementsPaths == Promised!Spec /\ [][CallsKeepTheirPromise]_vars
============================================================================
