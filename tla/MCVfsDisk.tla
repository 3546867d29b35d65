----------------------------- MODULE MCVfsDisk -----------------------------
(***************************************************************************)
(* A disk of a few sectors, a few commands, a few failures.                *)
(***************************************************************************)
EXTENDS VfsDisk

FromRoot(comps) == [root |-> TRUE, comps |-> comps]

MCPaths == {FromRoot(<<"a">>), FromRoot(<<"BIN", "P">>)}
MCTexts == {<<1, 1>>}
MCStartTree == <<[dir |-> TRUE, path |-> FromRoot(<<"HOME">>), text |-> << >>]>>
MCPrograms == <<[path |-> FromRoot(<<"BIN", "P">>), text |-> <<2>>]>>

\* For the liveness run: a disk of one block, one file, nothing to install.
MCRetryPaths == {FromRoot(<<"a">>)}
MCRetryTexts == {<<1>>}
MCNoPrograms == << >>
============================================================================
