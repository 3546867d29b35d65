----------------------------- MODULE VfsCheck ------------------------------
(***************************************************************************)
(* Whether a filesystem is one the rest of the kernel can safely walk:     *)
(* vfsdisk_check.c, run on what was read off a disk before anything else   *)
(* touches it.                                                             *)
(***************************************************************************)
EXTENDS VfsOps

\* A link is either nothing, or a node that is in use.
link_ok(fs, at) == at = VFS_NONE \/ (at \in Nodes /\ fs.nodes[at].used)

fields_ok(fs, at) ==
  LET node == fs.nodes[at]
  IN  /\ link_ok(fs, node.first_child)
      /\ link_ok(fs, node.next_sibling)
      /\ fs.nodes[node.parent].used
      /\ fs.nodes[node.parent].kind = "DIR"
      /\ node.length <= VFS_FILE_MAX
      /\ node.kind = "DIR" => node.length = 0
      /\ vfsblock_held(node) = vfs_blocks_for(node.length)
      /\ \A i \in Slots : node.blocks[i] # VFS_NONE => fs.block_used[node.blocks[i]]
      /\ node.kind = "FILE" => node.first_child = VFS_NONE
      /\ (at = 0) <=> (node.name = "")

climbs_to_the_root(fs, at) == is_within(fs, at, 0)

\* What is met along the list of a directory, and in which order.
RawChild(fs, dir) ==
  Iterate([k \in Nat |-> [at \in Link |->
             IF at = VFS_NONE THEN VFS_NONE ELSE fs.nodes[at].next_sibling]],
          fs.nodes[dir].first_child)

UsedDirs(fs) == {n \in Nodes : fs.nodes[n].used /\ fs.nodes[n].kind = "DIR"}

\* Every used node except the root is listed exactly once, by its own parent.
children_agree_with_parents(fs) ==
  /\ \A dir \in UsedDirs(fs) :
       /\ RawChild(fs, dir)[VFS_MAX_NODES] = VFS_NONE
       /\ \A k \in Nodes : LET child == RawChild(fs, dir)[k]
                           IN  child # VFS_NONE => /\ child # 0
                                                   /\ fs.nodes[child].parent = dir
  /\ \A at \in Nodes \ {0} :
       fs.nodes[at].used =>
         \E dir \in UsedDirs(fs), k \in Nodes : RawChild(fs, dir)[k] = at

vfsdisk_sound(fs) ==
  LET root == fs.nodes[0]
  IN  /\ root.used /\ root.kind = "DIR"
      /\ root.parent = 0 /\ root.next_sibling = VFS_NONE
      /\ \A at \in Nodes : fs.nodes[at].used =>
            fields_ok(fs, at) /\ climbs_to_the_root(fs, at)
      /\ children_agree_with_parents(fs)
      /\ fs.nodes[fs.cwd].used /\ fs.nodes[fs.cwd].kind = "DIR"
============================================================================
