------------------------------ MODULE VfsDisk ------------------------------
(***************************************************************************)
(* The filesystem and the disk under it: vfsdisk.c, vfsdisk_format.c and   *)
(* the part of main.c that decides when to load and when to save.          *)
(*                                                                         *)
(* A save writes the header, the nodes and the blocks one sector at a      *)
(* time.  The power can go off, and the disk can refuse, between any two   *)
(* sectors; a sector itself is written whole or not at all.                *)
(***************************************************************************)
EXTENDS VfsCheck

CONSTANTS Paths, Texts,  \* what is typed at the shell
          StartTree,     \* the calls that lay out a new filesystem
          Programs,      \* what the bootloader supplies: paths and contents
          FoundDisks,    \* what the disk may be before this kernel ever saw it
          MaxChanges,    \* bound: calls are made until `changes' reaches it
          MaxFailures,   \* bound: how often the disk refuses
          MaxPowerCuts   \* bound: how often the power goes off

Headers == {"OURS", "NOT_FORMATTED", "WRONG_VERSION", "WRONG_SHAPE"}

ASSUME InputsAssumption ==
  /\ Paths \subseteq [root : BOOLEAN, comps : Seq(STRING)]
  /\ Texts \subseteq Seq(Bytes)
  /\ StartTree \in Seq([dir : BOOLEAN, path : [root : BOOLEAN, comps : Seq(STRING)],
                         text : Seq(Bytes)])
  /\ Programs \in Seq([path : [root : BOOLEAN, comps : Seq(STRING)],
                        text : Seq(Bytes)])
  /\ FoundDisks \subseteq Headers \ {"OURS"}
  /\ VFS_MAX_BLOCKS # 0  \* so the block a zero names is one
  /\ MaxChanges \in Nat /\ MaxFailures \in Nat /\ MaxPowerCuts \in Nat

VARIABLES fs,        \* the kernel's memory
          disk,      \* what the sectors hold
          phase,     \* where kmain is
          sector,    \* the next one vfsdisk_save will write
          resume,    \* the phase that called save_the_filesystem
          opened,    \* what vfsdisk_load returned at this boot
          saved_at,  \* the value of `changes' that is on the disk
          failures, power_cuts,
          durable    \* history: what the last save wrote, << >> if it is not whole
vars == <<fs, disk, phase, sector, resume, opened, saved_at, failures, power_cuts,
          durable>>

Sectors == 0 .. VFS_MAX_NODES + VFS_MAX_BLOCKS
BlocksAt == 1 + VFS_MAX_NODES

----------------------------------------------------------------------------
(* The format *)

\* Nothing but zero bytes; a zero read as a block number is block zero.
ZeroRecord == ZeroedFs.nodes[0]
ZeroBlock == [o \in Offsets |-> 0]

\* A free node is written as nothing at all, ...
vfsdisk_write_node(node) == IF node.used THEN node ELSE ZeroRecord

\* Mutant: a free record is asked for its blocks, and says block zero.
ReadAnyNode(record) == record

\* ... so on the way back in, only a used one is asked for its blocks.
vfsdisk_read_node(record) ==
  IF record.used THEN record ELSE [record EXCEPT !.blocks = NoBlocks]

\* Mutant: a free block is written as it was left.
WrittenAsLeft(d, f, s) ==
  IF s = 0 THEN [d EXCEPT !.header = "OURS"]
  ELSE IF s < BlocksAt
  THEN [d EXCEPT !.nodes[s - 1] = vfsdisk_write_node(f.nodes[s - 1])]
  ELSE [d EXCEPT !.blocks[s - BlocksAt] = f.blocks[s - BlocksAt]]

\* One sector of vfsdisk_save: the header, a node or a block.
Written(d, f, s) ==
  IF s = 0 THEN [d EXCEPT !.header = "OURS"]
  ELSE IF s < BlocksAt
  THEN [d EXCEPT !.nodes[s - 1] = vfsdisk_write_node(f.nodes[s - 1])]
  ELSE [d EXCEPT !.blocks[s - BlocksAt] =
          IF f.block_used[s - BlocksAt] THEN f.blocks[s - BlocksAt] ELSE ZeroBlock]

\* The memory once the first `count' sectors after the header are read into it.
ReadIn(f, d, count) ==
  [f EXCEPT
    !.nodes = [n \in Nodes |-> IF n < count THEN vfsdisk_read_node(d.nodes[n])
                               ELSE f.nodes[n]],
    !.blocks = [b \in Blocks |-> IF VFS_MAX_NODES + b < count THEN d.blocks[b]
                                 ELSE f.blocks[b]]]

\* Everything read, the bitmap built and the working directory the root.
ReadWhole(f, d) ==
  vfsblock_rebuild([ReadIn(f, d, VFS_MAX_NODES + VFS_MAX_BLOCKS) EXCEPT !.cwd = 0])

\* Mutant: the blocks are checked and the shape of the tree is not.
LoadableByBlocks(f, d) ==
  rebuild_succeeds(ReadIn(f, d, VFS_MAX_NODES + VFS_MAX_BLOCKS))

\* Whether vfsdisk_load takes a disk whose header is in order.
Loadable(f, d) ==
  /\ rebuild_succeeds(ReadIn(f, d, VFS_MAX_NODES + VFS_MAX_BLOCKS))
  /\ vfsdisk_sound(ReadWhole(f, d))

----------------------------------------------------------------------------
(* Starting up *)

\* A disk that is blank, somebody else's or another build's, and a machine
\* that is off.
Init ==
  /\ fs = ZeroedFs
  /\ \E header \in FoundDisks :
       disk = [header |-> header,
               nodes |-> [n \in Nodes |-> ZeroRecord],
               blocks |-> [b \in Blocks |-> ZeroBlock]]
  /\ phase = "off" /\ sector = 0 /\ resume = "off"
  /\ opened = "NO_DISK" /\ saved_at = 0
  /\ failures = 0 /\ power_cuts = 0 /\ durable = << >>

PowerOn ==
  /\ phase = "off"
  /\ phase' = "loading"
  /\ fs' = vfs_init(ZeroedFs)
  /\ UNCHANGED <<disk, sector, resume, opened, saved_at, failures, power_cuts, durable>>

chdir_home(f) ==
  LET home == [root |-> TRUE, comps |-> <<"HOME">>]
      root == [root |-> TRUE, comps |-> << >>]
  IN  IF vfs_chdir(f, home).reply = "OK" THEN vfs_chdir(f, home).fs
      ELSE vfs_chdir(f, root).fs

\* vfsdisk_load when every read answers.
Load ==
  /\ phase = "loading"
  /\ IF disk.header # "OURS" THEN opened' = disk.header /\ UNCHANGED fs
     ELSE IF Loadable(fs, disk)
     THEN opened' = "OK" /\ fs' = chdir_home([ReadWhole(fs, disk) EXCEPT !.changes = 0])
     ELSE opened' = "CORRUPT" /\ fs' = vfs_init(ReadWhole(fs, disk))
  /\ phase' = IF opened' = "OK" THEN "install" ELSE "layout"
  /\ UNCHANGED <<disk, sector, resume, saved_at, failures, power_cuts, durable>>

\* A read that does not answer: the header's leaves the memory as it was, a
\* later one leaves it empty.
LoadFails ==
  /\ phase = "loading" /\ failures < MaxFailures
  /\ \/ UNCHANGED fs
     \/ /\ disk.header = "OURS"
        /\ \E count \in 0 .. VFS_MAX_NODES + VFS_MAX_BLOCKS - 1 :
             fs' = vfs_init(ReadIn(fs, disk, count))
  /\ opened' = "IO_FAILED"
  /\ phase' = "layout"
  /\ failures' = failures + 1
  /\ UNCHANGED <<disk, sector, resume, saved_at, power_cuts, durable>>

\* save_the_filesystem, called from phase `next': only when the counter moved.
SaveThenGoTo(next, f) ==
  IF f.changes = saved_at
  THEN phase' = next /\ UNCHANGED <<sector, resume>>
  ELSE phase' = "saving" /\ sector' = 0 /\ resume' = next

Outcomes == [fs : FsType, reply : Results]

\* The starting tree, call by call until one is refused.
Laid(f) ==
  Iterate([k \in Nat |-> [done \in Outcomes |->
             IF k \notin DOMAIN StartTree \/ done.reply # "OK" THEN done
             ELSE IF StartTree[k].dir THEN vfs_mkdir(done.fs, StartTree[k].path)
             ELSE vfs_write(done.fs, StartTree[k].path, StartTree[k].text)]],
          Did(f, "OK"))[Len(StartTree)]

\* kmain makes the starting tree when nothing was loaded, and stops when it
\* cannot.
Layout ==
  LET home == vfs_chdir(Laid(fs).fs, [root |-> TRUE, comps |-> <<"HOME">>])
  IN  /\ phase = "layout"
      /\ Laid(fs).reply = "OK" /\ home.reply = "OK"
      /\ fs' = home.fs
      /\ SaveThenGoTo("install", fs')
      /\ UNCHANGED <<disk, opened, saved_at, failures, power_cuts, durable>>

\* install_modules: each program that is not there already.
Installed(f) ==
  Iterate([k \in Nat |-> [put \in FsType |->
             IF k \notin DOMAIN Programs \/ vfs_resolve(put, Programs[k].path) # VFS_NONE
             THEN put
             ELSE vfs_write(put, Programs[k].path, Programs[k].text).fs]],
          f)[Len(Programs)]

Install ==
  LET bin == [root |-> TRUE, comps |-> <<"BIN">>]
      begun == IF vfs_resolve(fs, bin) # VFS_NONE THEN Did(fs, "OK")
               ELSE vfs_mkdir(fs, bin)
  IN  /\ phase = "install"
      /\ fs' = IF Programs = << >> \/ begun.reply # "OK" THEN fs
               ELSE Installed(begun.fs)
      /\ SaveThenGoTo("shell", fs')
      /\ UNCHANGED <<disk, opened, saved_at, failures, power_cuts, durable>>

----------------------------------------------------------------------------
(* Running *)

\* One call a command line makes.  A line may make several before it ends: a
\* file of commands is one line.
Call ==
  /\ phase = "shell"
  /\ fs.changes < MaxChanges
  /\ \/ \E path \in Paths :
          fs' \in {vfs_mkdir(fs, path).fs, vfs_create(fs, path).fs,
                   vfs_chdir(fs, path).fs, vfs_remove(fs, path).fs}
     \/ \E path \in Paths, text \in Texts :
          fs' \in {vfs_write(fs, path, text).fs, vfs_append(fs, path, text).fs}
     \/ \E from, to \in Paths :
          fs' \in {vfs_move(fs, from, to).fs, vfs_copy(fs, from, to).fs}
  /\ UNCHANGED <<disk, phase, sector, resume, opened, saved_at, failures, power_cuts, durable>>

\* The end of a command line, or the editor once its write was taken.
EndOfLine ==
  /\ phase = "shell"
  /\ SaveThenGoTo("shell", fs)
  /\ UNCHANGED <<fs, disk, opened, saved_at, failures, power_cuts, durable>>

\* From vfsdisk_save to whatever called save_the_filesystem.
Return == phase' = resume /\ sector' = 0 /\ resume' = "off"

WriteSector ==
  /\ phase = "saving"
  /\ disk' = Written(disk, fs, sector)
  /\ IF sector = VFS_MAX_NODES + VFS_MAX_BLOCKS
     THEN Return /\ saved_at' = fs.changes /\ durable' = Kept(fs)
     ELSE /\ sector' = sector + 1 /\ durable' = << >>
          /\ UNCHANGED <<phase, resume, saved_at>>
  /\ UNCHANGED <<fs, opened, failures, power_cuts>>

\* Mutant: work the disk refused is taken for saved.
RefusalTakenForSaved ==
  /\ phase = "saving" /\ failures < MaxFailures
  /\ Return
  /\ failures' = failures + 1
  /\ saved_at' = fs.changes
  /\ \/ UNCHANGED <<disk, durable>>
     \/ disk' = Written(disk, fs, sector) /\ durable' = << >>
  /\ UNCHANGED <<fs, opened, power_cuts>>

\* The disk refuses a sector: the save stops where it is, and what it was to
\* save stays unsaved.  The sector is as it was when the drive never took it,
\* and written when only the flush after it failed (ata_write_sectors).
WriteFails ==
  /\ phase = "saving" /\ failures < MaxFailures
  /\ Return
  /\ failures' = failures + 1
  /\ \/ UNCHANGED <<disk, durable>>
     \/ disk' = Written(disk, fs, sector) /\ durable' = << >>
  /\ UNCHANGED <<fs, opened, saved_at, power_cuts>>

PowerCut ==
  /\ phase # "off" /\ power_cuts < MaxPowerCuts
  /\ phase' = "off"
  /\ fs' = ZeroedFs
  /\ sector' = 0 /\ resume' = "off" /\ opened' = "NO_DISK" /\ saved_at' = 0
  /\ power_cuts' = power_cuts + 1
  /\ UNCHANGED <<disk, failures, durable>>

Next == \/ PowerOn \/ Load \/ LoadFails \/ Layout \/ Install
        \/ Call \/ EndOfLine \/ WriteSector \/ WriteFails \/ PowerCut

\* The kernel's own steps go on for as long as there is power, and command
\* lines come to an end.  Nothing is assumed of the power or of the disk but
\* the bounds.
Fairness == /\ WF_vars(PowerOn) /\ WF_vars(Load) /\ WF_vars(Layout)
            /\ WF_vars(Install) /\ WF_vars(WriteSector)
            /\ WF_vars(EndOfLine)

Spec == Init /\ [][Next]_vars /\ Fairness

----------------------------------------------------------------------------
(* Properties *)

Phases == {"off", "loading", "layout", "install", "shell", "saving"}

\* The memory and every sector of the disk keep their shape.
TypeOK ==
  /\ fs \in FsType
  /\ disk \in [header : Headers, nodes : [Nodes -> NodeType],
               blocks : [Blocks -> [Offsets -> Bytes \cup {0}]]]
  /\ phase \in Phases /\ resume \in Phases /\ sector \in Sectors
  /\ opened \in (Headers \ {"OURS"}) \cup {"OK", "NO_DISK", "IO_FAILED", "CORRUPT"}
  /\ saved_at \in 0 .. CHANGES_MOD - 1
  /\ failures \in 0 .. MaxFailures /\ power_cuts \in 0 .. MaxPowerCuts

\* Memory and disk keep their shape, and
\* whatever a power cut or a refusing disk left on the disk, what the kernel
\* goes on to use is sound, and its bitmap is what its files claim: nothing
\* from a disk is believed until the whole shape is checked
\* (vfsdisk_check.c).
MemoryIsSound ==
  /\ TypeOK
  /\ phase # "off" => /\ vfsdisk_sound(fs)
                      /\ rebuild_succeeds(fs)
                      /\ vfsblock_rebuild(fs) = fs

\* What a load of the disk, with every read answering, would bring back.
OnDisk == Kept(ReadWhole(fs, disk))

\* When a save comes to its end the disk holds this filesystem and will load,
\* whatever was on it before and however often a save was broken off.
SaveIsWhole ==
  [][phase = "saving" /\ saved_at' # saved_at /\ phase' # "off" =>
       /\ disk'.header = "OURS"
       /\ Loadable(vfs_init(ZeroedFs), disk')
       /\ Kept(ReadWhole(vfs_init(ZeroedFs), disk')) = Kept(fs)]_vars

\* What was deleted is not left lying on the disk: after a whole save every
\* sector of a free node or block is zeros (vfsdisk_save,
\* vfsdisk_write_node).
NothingDeletedIsKept ==
  [][phase = "saving" /\ saved_at' # saved_at /\ phase' # "off" =>
       /\ \A n \in Nodes : ~fs.nodes[n].used => disk'.nodes[n] = ZeroRecord
       /\ \A b \in Blocks : ~fs.block_used[b] => disk'.blocks[b] = ZeroBlock]_vars

\* What a whole save wrote is what the next start brings back, however the
\* power went in between: the memory is filled in again from the sectors alone
\* (vfsdisk_load).
SavedComesBack ==
  [][phase = "loading" /\ durable # << >> /\ opened' # opened /\ phase' # "off" =>
       \/ opened' = "IO_FAILED"
       \/ opened' = "OK" /\ Kept(fs') = durable /\ fs'.changes = saved_at]_vars

\* Work the disk refused to take is not forgotten: it is saved at the end of a
\* later command line, unless the power goes off first (main.c sets what is
\* saved only when vfsdisk_save returns OK).
RefusedWorkIsSaved ==
  (phase = "shell" /\ fs.changes # saved_at)
    ~> \/ phase = "off"
       \/ phase = "shell" /\ fs.changes = saved_at /\ durable # << >>

\* vfs.h:107 and "SAVED AFTER EVERY CHANGE" (cmdfs.c, df): when nothing is left
\* to save, the disk holds what the memory holds.
NothingUnsavedIsMissed ==
  phase = "shell" /\ fs.changes = saved_at => OnDisk = Kept(fs)

\* main.c:2121: starting up does not write over a disk this build cannot read,
\* "because a disk this build cannot read may still be one somebody wants".
UnreadableDiskIsLeftAlone ==
  [][(opened \in {"IO_FAILED", "WRONG_VERSION", "WRONG_SHAPE", "CORRUPT"})
       => UNCHANGED disk]_vars
============================================================================
