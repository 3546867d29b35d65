# A verification of ME OS in TLA+

ME OS is an x86-64 kernel with a tiling desktop, a shell, a filesystem that is
saved to an ATA disk, and user programs in address spaces of their own. It has
no scheduler: one thing runs at a time, interrupts are off, and the main loop
polls the keyboard, the mouse and the timer. What is hard about it is therefore
not threads. It is long sequences of legal calls on hand-made data structures
(lists in tables, bitmaps, rings, fixed arrays with limits), operations that
fail half way, power cuts and disks that refuse, and state that is stale when
one part of the kernel looks at what another part has changed.

An operator with the name of a C function is that function. `PROJECT.json` maps
every definition to the lines it models.

## Inventory

| Component | State | Operations | What is hard, what makes it correct |
| --- | --- | --- | --- |
| Filesystem in memory (`vfs.c`, `vfspath.c`, `vfstree.c`, `vfsfile.c`, `vfsmove.c`) | a table of nodes linked by parent, first child and next sibling; working directory; change counter | mkdir, create, chdir, write, append, remove, move, copy | sequences of calls, refusals half way; the lists stay a tree, names stay unique, a refusal changes nothing it should not |
| Block pool (`vfsblock.c`) | blocks, bitmap | take, give, reserve, release, rebuild | running out half way; no block has two owners, none leaks, no old bytes show |
| Filesystem on disk (`vfsdisk*.c`) | sectors | save, load, check | power cuts between sectors, refused sectors; only sound filesystems are believed, a whole save comes back |
| Boot and autosave (`main.c`) | phase, what is saved | layout, install, save | when to save; nothing is overwritten or forgotten |
| ATA driver (`ata.c`, `ata_probe.c`, `disk.c`) | registers | read, write, identify | timeouts; it either answers or refuses |
| Physical memory (`pmm.c`, `pmmboot.c`) | bitmap, count, hint | add, reserve, alloc, free | double frees, exhaustion; a page has one owner, the count is right |
| Address spaces (`vmm*.c`, `paging.c`) | page tables | create, map, unmap, translate, share, destroy | a map that fails half way; tables are freed once, pages never |
| Processes, loading, system calls (`process.c`, `elf*.c`, `syscall.c`, `uaccess.c`, `cmdexec.c`, `procboot.c`) | eight slots, their pages, window, clock | create, add page, run, the calls, fault, stop, destroy | five ways to end; each gives everything back |
| Traps, descriptors (`trap.c`, `gdt.c`, `desc.c`) | tables set at boot | dispatch | a user fault must cost only the program |
| Windows and events (`window.c`, `event.c`) | slots, stacking order, focus, capture, queues of 32 | create, destroy, raise, focus, route | full queues, wrapped ids, capture by a window that is gone; a window and its entry on the desktop name each other |
| Desktop (`desktop.c`, `tile.c`, `shell.c`, `winsys.c`, `geometry.c`) | six apps, workspaces, a shared arena of pixels | add, remove, hide, switch, relayout, the calls of programs | focus on a window nobody sees; two windows on one slice of the arena; a layout the screen cannot hold stops the machine |
| Drawing (`surface.c`, `compositor.c`, `region.c`, `rect.c`, `fb.c`, `font.c`, `cursor.c`) | pixels | fill, blit, compose | clipping at every edge |
| Terminal (`term.c`, `termback.c`, `cmdtab.c`) | grid, line, history, scrollback ring and view | print, key, resize, scroll, complete | the ring full while somebody reads it; what is read stays where it is |
| Shell (`cmd*.c`) | buffers and counters per depth | run, pipe, redirect, files of commands | lines inside lines; a buffer belongs to one of them, output reaches its reader |
| Editor (`editor.c`) | lines, cursor, view | load, insert, delete, save | a file that does not fit; lines that part and join are one text |
| Input (`kbd.c`, `mouse.c`) | decoder state | poll | lost bytes, two modifiers held; what is read is what was sent |
| Calculator (`calc.c`, `vars.c`) | the line, the result, sixteen names | keys, evaluate | arithmetic at the ends of 64 bits, a line half understood; an answer is exact or refused |
| Clock, timer, processor, log | little | | port reads |
| User programs (`user/`) | their own | system calls | to the kernel: any sequence of calls; the games keep two descriptions of one board in step |

Interaction is by direct call. The shell and the editor call the filesystem;
`main.c` calls `save_the_filesystem` after each command line; `winsys.c` reaches
the desktop through hooks on behalf of a running program; the desktop calls the
window manager; a program's end releases its window, then its pages, then its
tables.

## Modules

    Iteration         walks along links, as functions of the number of steps
    VfsBlock          struct vfs and the block pool
    VfsOps            paths, lists and the operations (EXTENDS VfsBlock, Iteration)
    VfsCheck          vfsdisk_check.c: what a sound filesystem is
    Vfs               the filesystem as a state machine: any calls, any order
    VfsPaths          what it promises, abstractly: a tree of paths and some room
    VfsRefinement     Vfs implements VfsPaths
    VfsDisk           boot, save, load, power cuts, refusing disks
    Pmm               the page allocator and the bootloader's memory map
    Vmm               page tables (EXTENDS Pmm, Iteration)
    Programs          loading, running, ending and destroying programs (EXTENDS Vmm)
    ProgramsCheck     what that must never break
    Windows           the table of windows, focus, capture, the queues of events
    Tile              where tiles, buttons and menus are (EXTENDS Windows)
    Desktop           entries, workspaces, the arena, relayout (EXTENDS Tile)
    MainLoop          the loop of kmain around all that, and a program's window
    Terminal          grid, scrollback, the line, history, completion
    Commands          lines, pipes, buffers, files of commands, filters
    Editor            the document, its keys, opening and saving
    Ps2               the decoders of keyboard and mouse, over a polled controller
    Calculator        keys, the parser, checked arithmetic, the named values
    Snake, Mines, Tetris
                      three of the user programs
    Parts             the last eight side by side (they share no state)
    MCVfs, MCVfsDisk, MCPrograms, MCDesktop, MCParts
                      small instances for TLC
    Iteration_proofs  walks and iterations: what stays in a set, rises, ends
    VfsOps_proofs     the pool, lists, paths and depth; what vfsdisk_check.c
                      establishes; every operation of vfs.h, call by call
    Vfs_proofs        theorems about Vfs
    VfsDisk_proofs    theorems about VfsDisk
    Memory_proofs, Programs_proofs
                      lemmas about Pmm and Vmm, theorems about Programs
    Desktop_proofs    theorems about MainLoop
    Parts_proofs      theorems about Ps2, Snake, Commands, Terminal, Mines,
                      Tetris and Editor, each by itself

### How state and actions correspond to the code

`fs` is `struct vfs`, field by field. A name is one value of `Names` (what
`vfs_usable_name` accepts); a path is whether it starts with a slash, and its
components. Fields a function does not assign keep their value: a freed node
keeps its name and its links, as in the code, and the model starts from the
zeroed static storage. A call of the filesystem is atomic because nothing can
interrupt it. `reply` is the value returned.

Loops become functions: a sibling list is `Child(fs, dir)[k]`, the node after k
steps; a path is walked by `WalkTo`; `vfsblock_take` called k times in a row is
`taken(fs, k)`, the k-th free block from below. `vfsblock_reserve` is all or
nothing, and when it fails it has still cleared the blocks it took, as the code
does. `vfs_write` is release then append, the refusals of the append included.

In `VfsDisk` the phases are the places where `kmain` and
`save_the_filesystem` can be when the power goes: off, loading, layout,
install, shell, saving. `WriteSector` is one turn of the loops of
`vfsdisk_save`; `sector` is the next one. A refused sector (`WriteFails`) ends
the save; the sector may have been written when only the flush failed
(`ata.c`). A refused read (`LoadFails`) leaves what `vfsdisk_load` leaves. A
power cut zeroes the memory and keeps the sectors. `durable` is a history
variable: what the last whole save wrote.

In `Programs` the phases (`job.at`) are the places where `cmdexec_program` can
be: at the prompt, created, loading (a segment and a page of it), the stack,
loaded, in the program, back from it, returned. Each step is one of the
function's calls, `LoadPage` one turn of elfload's two loops, and any of them
may find no memory: `GiveUp` is the way out the code takes. In the program the
next step is the processor's or the program's: a store where the page tables
allow one, a fault, or a system call with an amount of time gone by. There is
no other interleaving, because interrupts are off and the shell waits. A refused
system call, and one that only reads, is `SysOther`: it is charged for and
changes nothing.

The bitmap of `Pmm` is the set of frames whose bit is set, `pmm_alloc` and
`pmm_free` are functions from one allocator to the next; a walk of `Vmm` is
`arrive`, level by level, which makes tables as it goes when it is told to, so a
map that fails half way leaves the tables it made, as the code does. Memory is
seen twice, as entries and as bytes, since a page is used in one way at a time.
Clearing a page is part of handing it out, and the properties look for what is
left when it is not. Frame zero is the address that means none, as in the code.
The processor, and what the bootloader leaves, are external: `allowed` asks for
the user bit and the write bit at every level, and `KernelTables` is any set of
tables outside the memory the map calls usable.

`ProgramsCheck` works out the tables and pages of a space from the entries
alone, by sets of links level by level, not with the kernel's own walk.

`desk` in `MainLoop` is `struct desktop` with its window manager. A queue is the
sequence of the events in it; `Listens` says which ones an app does anything
with, and the others are kept only as the room they take. A surface is the slice
of the arena it points into, a pointer to one is the number of the entry it
belongs to. All the arithmetic of tiles, title bars, the taskbar and the menu is
the code's, with its constants, on a screen of real size: whether a press meets a
button is worked out and not chosen. `phase` is where a pass of the loop is:
before the keyboard is asked, while the Terminal reads its queue, while the mouse
is asked for packets, and halted after `fail()`. A packet is one step from the
press to the release, whatever the desktop makes of it first. A program runs
inside the step in which the Terminal read ENTER, so `program.running` stops
everything else; what it may do is open its window, close it, and end.

`term.cells` is the grid. `paper` and `ran` are ghosts: the rows that left the
top and the lines that were run, in plain sequences, to compare the two rings
with. Newlines wait in `pending` as in the code. `Commands` has one stack of
calls of `cmd_run`: a line goes through its stages, a stage's output goes to
`out`, the screen or the line that captures it, and RUN reads its script from a
copy and calls `cmd_run` again for every line of it; `carried`, `kept`, `said`
and `read` are ghosts that remember what the buffers ought to hold. A text is a
sequence of words and newlines. Files are by name: the tree is `Vfs`'s.

The controller of `Ps2` is external: bytes of both devices in a queue of limited
room, which drops what does not fit. `held` and `sends` are what the user and the
mouse really do. A line of `Calculator` is a sequence of keys; the parser's
position is threaded through the operators as `struct parser` is through the
functions, with what was refused deep inside carried out. `AnswersAreExact`
compares it with a meaning that shares nothing with the parser: it cuts the line
at the last operator of the lowest precedence and computes in integers of any
size.

The games are their boards: in `Snake` the ring of cells beside the table of
those taken, in `Mines` what is mined, shown and counted, in `Tetris` the rows,
with the rotation masks of the source.

`VfsPaths` is short and shares nothing with the detailed modules: a function
from paths to files and directories, a working directory, and two numbers for
the room there is. The mapping (`VfsRefinement`) computes the path of every
node by climbing its parents and the text of every file from its blocks.

## Runs

| Run | What it asks | Distinct states |
| --- | --- | --- |
| tree | shape of the tree, unique names | 192,193 |
| file | ownership of blocks, tails, the counter | 92,342 |
| refine | Vfs implements VfsPaths | 6,334 |
| disk | soundness after restarts, whole saves come back, deleted data is gone | 1,182,843 |
| retry | refused work is saved in the end (liveness) | 30,719 |
| programs | pages, isolation, loading, windows and ending of programs | 12,058 |
| desktop | windows, tiles, pixels, focus and a drag stay in step | 304,836 |
| parts | terminal, commands, editor, input, calculator and games, each by itself | 916,629 |
| shared | a statement about segments the code does not keep | violated |
| unreadable, unsaved | two statements about disk and memory the code does not keep | violated |
| cutoff | a statement about the editor the code does not keep | violated |

Bounds, and why they are enough.

* tree: four nodes (the root and three others), no blocks. Three entries make
  every case of the list surgery: first, middle, last, only child; a directory
  with a file and a directory below; a move into oneself, into one's child, to
  one's parent. Paths: absolute, relative, through `..`, and `..` alone, which
  leads out of files as well. `changes` is taken modulo 1.
* file: two files, three blocks of two bytes, two blocks a file: texts of one
  and three bytes end in the middle of a block and past it; together the files
  want four blocks, so the pool runs out in reserve's loop with none, one or two
  taken. `changes` is taken modulo 3 so that it wraps.
* refine: three nodes and two one-byte blocks, as every step searches for the
  promised one.
* disk: five nodes, two blocks, eight sectors a save; one power cut, one
  refusal, calls until `changes` is 5 (`MaxChanges`): a save over a save, a cut
  or a refusal in each of its sectors, a restart and another save. The pool is
  small enough for writes to be refused.
* retry: three nodes and one block, two refusals, one power cut.
* programs: twelve pages of two bytes and tables of two entries on three levels,
  so that one space has a table at every level and the kernel's half of the root
  leads to tables and to a huge page that must be left alone. Six memory maps:
  room for a whole program, for all but its last page, for its root only, for
  nothing but the bitmap, a bitmap that shares a page with what is free, no
  memory at all. Seven executables: one for every way the checks and the loops of
  loading can go, one with two segments in a page and one in the stack's page.
  Two slots and two pages a program, so the limits are met. The timer wraps at 3
  (`PIT_PERIOD`), the time limit is 3 counts (`COUNTS_MAX`), one hold at most 2:
  a program is stopped after one, two or three charged calls, and never when it
  makes none. `Addresses` has addresses in a read-only page, across the end of
  one, in the stack and outside everything. Memory starts full of junk that looks
  like entries. There is no bound on how many programs are run one after another.
* desktop: three windows of the kernel and one of a program, so that the table
  is full and the layout has one column, two, and two with a stack in one;
  two workspaces; 640 by 480, the real constants, where the divider's
  narrowest column (122 pixels) just holds a tile (120). The pointer visits four places: inside a
  tile (which the menu covers when it is open), a close button, a button of the
  taskbar, the mark of the launcher. Queues hold one event, so every second one
  is dropped; identifiers end at four, the fewest that give four windows names, so
  they wrap at once. The divider moves by 30 to the left
  instead of by 5 either way, from the middle to the limit of 20; every position
  it can have has a layout with one to four tiles (`EveryDividerFits`, which TLC
  evaluates). No bound on the number of steps.
* parts: the terminal has grids of two columns by three rows and of one by two, a
  ring of three lines, a history of two: wrapping, scrolling a full ring with the view at
  every height, resizing in the middle. Completion has names that are prefixes
  of one another. `MaxPending` bounds the newlines that wait. Commands: three
  levels, so a line inside a script inside a pipeline meets the limit; files of
  commands that write over themselves, remove and rename others, run
  themselves, and a program; files and buffers of 18 words, and a file that fills one,
  so that what CAT adds to it is cut. Editor: three lines of two columns, windows of one and two
  lines; the documents fit, have a line too many, or one too long. Ps2: a
  controller of two bytes. Calculator: integers from -4 to 3, so that nearly
  every operation can overflow; all lines of four of six keys and thirteen longer
  ones with names, assignments, comparisons and conditionals, in any order, as
  the names outlive the line. Snake on four by two, where it can fill the board;
  mines on three by two with one; tetris on seven by four with the piece that
  takes four rows and the one that never turns (rows that are full together touch
  one another there: a gap between them takes a higher board).

Each property has a mutant, a plausible slip in one definition under which TLC
finds it violated (`PROJECT.json`).

Fairness: weak fairness of the kernel's own steps (`PowerOn`, `Load`, `Layout`,
`Install`, `WriteSector`) because the kernel is one sequential program whose
next step nothing else can prevent, and of `EndOfLine` because a command line is
finite. Nothing is assumed of the disk or the power except that the bounded
instance has finitely many refusals and cuts.

For programs: the kernel's own steps run on (`KernelProceeds`), as above; and
`CallsGoOn`, that a program in charge keeps making calls between which the
timer moves. The second is an assumption about the program, and the code needs
it: interrupts are off while a program runs and the limit is looked at only in
a system call, so one that makes no calls is never stopped, which
`process.h:102-111` says itself. Both are written as formulas about the steps
rather than with WF, because what enables them is plain (a kernel step outside
the prompt and the program, a call inside it).

Deadlock is checked in every run: in `Vfs` a call is always possible, in
`VfsDisk` a command line can always end, in `Programs` one can always be typed,
in `MainLoop` and in every part there is always a key, a packet or a byte, or
none. The desktop run shows that the loop never reaches `fail()`
(`ScreenHoldsItsTiles`), the one state without a way on.

### What disagrees with the documentation

* **unsaved** (`vfsfile.c:45`). `vfs_write` gives up the old contents before it
  knows that the new ones fit. A refused write empties the file and leaves the
  counter alone, so memory and disk differ with "nothing to save".
  `vfs.h:104` and the tests say a refused operation changed nothing to save.
* **unreadable** (`main.c:2182`). Starting up writes a new filesystem over a disk
  it could not read, against the comment at `main.c:2121`.
* **shared** (`process.c:184`). Two segments that meet inside a page pass the check
  of `elf.c:169`, which compares bytes, and the second one's permissions are
  dropped; the comment there says that such segments cannot be honoured.
* **cutoff** (`editor.c:85`). A file with a line too many or one too long is
  opened cut short, which the status line says, and may then be saved over the
  whole one, against `editor.c:95` and `main.c:1250-1251`.

Seen on the way, without a run of their own:

* A save is in place; in the middle of one the disk holds a filesystem no load
  will take, which reads differently from the first line of `vfsdisk.h`.
  `MemoryIsSound` shows that such a disk is never believed.
* The reason given to `process_stop` is kept and never read (`cmdexec.c:71`): a
  program stopped with control and C is reported as having run too long, against
  `process.h:154`.
* EDIT typed in the Terminal while the Editor is on the other workspace loads
  the file and changes nothing on the screen: a window that is not on it is not
  focused. `main.c:1270` says it "puts the editor in front of somebody".
* A terminal made lower keeps the top rows of its grid and loses the bottom
  ones, the newest, with the cursor pulled onto the last row that is left
  (`term.c:66-82`); `term.h:84-86` says what is on the screen is kept "where it can".
* Down at the newest line of the history gives an empty line and not the one that
  was being typed (`term.h:54-56`).
* With two control keys held and one of them released, a key no longer counts as
  pressed with control (`kbd.c`; `kbd.h:24` says "Control was held").
  `ModifiersWereHeld` is the direction the decoder does keep.
* Blank lines at the bottom of a full screen are swallowed when the input needs
  room (`term.c:131-137`).
* CAT of a text that comes through a pipe ends with one blank line more.
* A file of the greatest size sent through CAT and an arrow is reported as cut,
  though nothing is lost.
* A name may have a blank in it (`TOUCH A B` makes one, as `vfspath.c:166` refuses
  none). Tab completes what follows the last blank (`cmdtab.c:42-48`): once it has
  added a blank of such a name, the names that were meant are no longer what the
  line is completed from.
* On a full board the snake's apple is put in cell 0.
* The guard on `running` in `cmdrun.c:36-43` is never reached: the depth of
  `cmd_run` runs out first.
* A result on a line of the greatest length refuses the next key, as the length
  is looked at before the finished line is cleared (`calc.c`, `calc_key`).
* `vfs.h`, `vfsdisk.h` and the text of GUIDE.TXT still speak of twelve blocks a
  file; `VFS_DIRECT_BLOCKS` is 64.

## What is proved

### The filesystem in memory

For all sizes of the tables (`SizesAssumption`: at least one node, any number of
blocks and slots, blocks of at least one byte, a counter of at least one value),
all names apart from "", "." and ".." (`NamesAssumption`), all bytes apart from
the zero byte (`BytesAssumption`), all paths and texts (`InputsAssumption`):

* `TypeCorrect`: `Spec => []TypeOK`
* `BlocksAreNeverShared`: `Spec => []NoSharedBlocks`
* `ClaimsAreAlwaysMarked`: `Spec => []ClaimsAreMarked`
* `TailsAreAlwaysClear`: `Spec => []TailsAreClear`
* `NamesAreAlwaysUnique`: `Spec => []NamesAreUnique`
* `AlwaysLoadable`: `Spec => []AlwaysSound`
* `BitmapIsAlwaysWhatFilesClaim`: `Spec => []BitmapIsWhatFilesClaim`
* `SuccessIsAlwaysCounted`: `Spec => SuccessIsCounted`, when the counter has at
  least three values. The code's has 2^32; with two it would be false, because
  writing to a file that is not there counts twice, once for making it.
* `PathsAreImplemented`: `Spec => ImplementsPaths`, the refinement: the node
  table, its lists, blocks and bitmap implement the tree of paths of `VfsPaths`.

These are all the properties of the runs tree, file and refine. They follow from
`AlwaysOrderly`: the inductive invariant is `Orderly(fs, TRUE)`, which says

* of the blocks (`WellKept`, `Filed`, `NothingSpare`): a file's blocks fill its
  slots from the first, every byte has a block and no block is without a byte, no
  block has two owners, the marked blocks are the owned ones, only files own
  blocks, the tail of the last block is zero;
* of the entries (`Tree`): every used node but the root is in the list of the
  directory that is its parent, and nothing else is; names in a directory differ;
  `cwd` is a directory.

The two existential parts of `Tree` are what makes it inductive. There is a
position for every entry that grows along each list (`Lists`), so a list
has no cycle and no entry is in two of them, and there is a depth for every entry
that is greater than its parent's (`Deep`), so climbing comes to the root: a move
gives new depths to what it takes along, and `is_within` is what keeps it from
making a cycle. The kernel's own check is about walks of bounded length instead
(`climbs_to_the_root`, `children_agree_with_parents`), which no single step
preserves by itself; `TreesAreSound` and `SoundIsTree` relate the two.

The argument for the blocks: `vfsblock_reserve` hands out distinct blocks because
the k-th free block is a different one for each k (`NthMember` and its
neighbours, counting members of finite sets of naturals), it hands out none that
has an owner because owned blocks are marked, and release unmarks only blocks
that then have no owner because none had two. Each operation has a lemma for
its type and one for order (`MakeKeeps`, `MakeOrderly` ... `CopyOrderly`), and the
step lemma has one case for each action. Walks along links are treated by
`IterateSteps` and `IterateWalks`: a recursive function over the naturals is what
its equation says, and what every step preserves it preserves. Both are derived
from the least-element principle, because the library's induction theorems
take operators.

The refinement needs the same invariant and a second way of seeing a table. `W(f)`
gives every node in use its place, the path `vfs_path_of` works out by climbing;
`Places` says that a node's place is its parent's with its name added, which the
depth of `Tree` makes a definition that ends, and that sibling names differ makes
the places differ (`PlacesApart`). `Shows` says that the tree of paths has at the
place of each node what the node is. From these:

* a path leads to the same place in both (`AtIs`, `InIs`, `TakenIs`), so every
  refusal for a path is the promised one;
* the table is full when the tree has the most entries there can be (`FullIs`),
  and a reserve succeeds exactly when the blocks all texts need are no more than
  there are (`FitsIs`, by a bijection between blocks in use and the blocks the
  texts need), so every refusal for want of room is the promised one;
* being within a node is having its place as a prefix (`WithinIsBelow`), which is
  what removal and moving ask for;
* a node made, rewritten, taken out or hung elsewhere changes the places and
  what is shown just so (`MakeEffect`, `Ready`, `RemovedIsShown`, `MoveShown`):
  under a moved node every place gets its new beginning and no other moves.

One lemma for each call (`MakeStep` ... `CopyStep`) puts these together. That a
copy which does not fit leaves nothing behind rests on `MadeIsReached`: the path
that was free before leads to the new file afterwards, so the `vfs_remove` in
`vfs_copy` finds it and removes nothing else.

### The filesystem and the disk

For all of the above and every starting tree, set of programs, number of refusals
and of power cuts (`InputsAssumption` of `VfsDisk`; in addition there is at least
one block, since a zeroed record names block zero), whatever the disk is at first:

* `MemoryIsAlwaysSound`: `Spec => []MemoryIsSound`
* `SavesAreWhole`: `Spec => SaveIsWhole`
* `DeletedIsNeverKept`: `Spec => NothingDeletedIsKept`
* `SavedAlwaysComesBack`: `Spec => SavedComesBack`

from the inductive invariant `Inv` (`AlwaysInv`), which TLC checked on the disk
instance first: types; memory is `Orderly(fs, FALSE)` while there is power; before
loading it is freshly made and nothing counts as saved; during a save every sector
before `sector` is what this save writes there (`Upto`); and a disk that `durable`
speaks of would be loaded and give it back (`Brings`).

Two lemmas carry it. `CheckedIsOrderly`: what `vfsdisk_sound` and the rebuild
accept is orderly, so after a restart every operation starts from what it needs,
whatever was on the disk. This is the converse of `AlwaysLoadable`, and together
they say that the kernel's check is neither too weak nor too strong.
`WrittenLoads`: a disk on which all sectors are what a save of an orderly
filesystem writes passes that check and reads back as that filesystem, into any
memory.

The second argument of `Orderly` is for what a restart does not establish. The
check looks neither at names (two entries of one name would pass, as
`vfsdisk_check.c` has no such test) nor at the tails of last blocks, so after a
load only `Orderly(fs, FALSE)` is known, which leaves these out, and every
operation is proved to keep both forms.

### Programs and memory

For every machine (any page size, any number of levels and of
entries a table, any memory maps inside the machine: `PageAssumption`,
`PagingAssumption`, `MapsAssumption`), every set of executables, addresses and
stores (`ProgramsAssumption`):

* `ProgramsTypeCorrect`: `Spec => []TypeOK`
* `AllocatorStaysSound`: `Spec => []AllocatorSound`
* `WindowsGoWithPrograms`: `Spec => []WindowsFollowPrograms`
* `EveryPageHasOneOwner`: `Spec => []EveryFrameHasOneOwner`
* `ProgramsAreIsolated`: `Spec => []Isolation`
* `ReadOnlyIsNeverWritten`: `Spec => ReadOnlyStaysAsLoaded`
* `MemoryIsAsTheFileSays`: `Spec => []LoadedAsTheFileSays`

What they assume of the constants, and why the code justifies it:

* `PowersAssumption`: `Span` is what powers are, arithmetic the provers have no
  theory of; TLC evaluates it.
* The root the bootloader left is one of `KernelTables`, and none of these is at
  frame zero, which `vmm.c` takes for no space at all.
* `USER_HIGHEST` and `USER_STACK_TOP` are in the lower half of what the page
  tables reach: 0x10000000 (`elfload.c`) and 0x800000 (`process.h`), of 2^47.
* `KernelAssumption`: the kernel's half of that root leads to `KernelTables` and no
  other table, a table is at one level, and no page there has the user bit. The
  bootloader made it so, nothing here changes it (`Isolation`), and `user_byte`
  relies on it: "The user bit is what says this page belongs to the program
  rather than to the kernel" (`uaccess.c`). Only `ReadOnlyIsNeverWritten` uses
  it.

The first two theorems follow from `WellTyped`, which adds to the types what the
later steps take for granted: the memory as a whole is of its type, the soundness
of the allocator included, since `pmm_alloc` returns a frame of the machine only
if its bitmap stays within it and a map that grows tables allocates in the
middle of a walk; and what earlier steps left in `job` (a slot, an image of the
given ones, a segment it has). `Memory_proofs` has the lemmas by function:
marking, allocating and giving back keep count, hint and bitmap in step
(cardinalities of finite sets); a level of a walk leads from a walk to a walk
(`FollowTyped`), and so do all of them (`ArriveTyped`, through `IterateWalks`).
`WindowsGoWithPrograms` needs `OneProgram`: the only live process is the one in
the slot `cmdexec_program` took, and outside user mode and the tail of
`process_run` there is no window. It has a lemma for each action; the end of a
program is the only place where window and process are separated, and
`LeaveAlone` is where `winsys_release` is needed.

Ownership and isolation follow from one more inductive invariant, `Owned`
(`AlwaysOwned`): at the prompt every page the boot gave the allocator is free
again (`Gone`); from `process_create` to `process_destroy` the pages that are not
are exactly those of a tree (`Owner`, `Grown`, `Built`), whose inner pages are the
space's tables, as many as it counts, and whose leaves are the pages the process
remembers, each once. The boot lemma (`BootGivesPages`) is that `pmm_boot`
gives neither the bitmap's pages nor page zero.

The tree is what makes it inductive. That each table is linked once cannot be
seen from one table, so every page of the tree is given a height (its level) and
a number (which range of addresses of that level it covers): entry i of the page
with number n leads to the page with number n * `PAGING_ENTRIES` + i one lower
(`AllLead`), every page but the root is led to (`Reached`), and no two pages have
the same height and number (`Placed`). Two links to one page would then be one
link, because a number has one quotient and one remainder (`Digits`). A new
table or page goes where there was none (`GraftKeeps`), so what a walk has made
when memory runs out half way is such a tree too (`ArriveGrows`, `MapGrows`). The
walks by which `vmm_destroy` finds what to free reach every inner page exactly
once (`PlaceAbove`, `ArriveLooks`, `FreedAreTables`): so `SpaceGone`, all come
back and none twice. Heights and numbers are bound by an existential quantifier
and are nowhere in the model. The properties themselves speak of links, which
`ProgramsCheck` works out level by level with `Iterate`; `LinksAre` says that
these are the links of the tree, and `OwnerShows` counts them.

`ReadOnlyIsNeverWritten` is about any address a program stores to or hands to the
kernel. Outside the numbers there are, the walk is refused. In the kernel's half it
stays in the kernel's tables (`ArriveReads`) and ends at a page that is not the
user's (`KernelPagesAreItsOwn`). In the program's half it ends at a page of the tree,
by one of its links (`HalfLeads`), which `user_byte` lets through only with the
user bit and the write bit (`WrittenIsWritable`). An event is written over every
page it touches, and each of these has been looked at, because the quotients by
the page size of the addresses in a range are between those of its ends
(`EventKeepsTheRest`).

`MemoryIsAsTheFileSays` needs to know how far `elfload` has come (`LaidOut`): of
each segment the pages below some number are there (`Upto`), the mapped pages are
those the segments asked for so far, and every byte of them is the one of the
file that has been read into it, or zero (`LaidAt`). `elf_check` keeps segments
apart, so at most one file has a byte for an address (`FilesApart`), and an
address in a segment's file is in one of the pages `elfload` goes through
(`FileInPages`). Then a page that two segments share can be filled twice: the second
filling writes only where the first had nothing (`PageRead`), and a page is zeroed
before the first (`NothingRead`). That `vmm_translate` finds exactly the page
the tree has for an address, and nothing where it has none, is `TranslateFinds`;
that mapping a page disturbs no byte of another, although tables are made on the
way, is in `MapGrows` and `AddPageHolds`.

### The desktop

For every screen, arena, number of windows, identifiers, apps and workspaces,
every divider step and place of the pointer (`WindowsAssumption`: at least as many
identifiers as windows; `ScreenAssumption`; `DesktopAssumption`: no more apps than
windows, an arena with at least the screen's pixels; `LoopAssumption`: the first
app is the demonstration window, and the Terminal and the Editor are there;
`ListenersAssumption`: which events these act on):

* `WindowsAccounted`: `Spec => []WindowsAreAccountedFor`
* `ScreenShared`: `Spec => []ScreenIsShared`
* `KeyboardOnScreen`: `Spec => []KeyboardIsOnScreen`
* `DragEnds`: `Spec => []OnlyALostReleaseKeepsTheDrag`
* `TaskbarBringsBack`: `Spec => TaskbarBringsItBack`
* `MachineNeverStops`: `Spec => []ScreenHoldsItsTiles`, on a screen with room for
  the most apps there can be (`HasRoom`: 628 pixels wide, and high enough for half
  of them one above the other, 338 for the code's six apps). A smaller screen may
  halt the machine at its start or later, as `fail()` does; the other theorems
  cover it too.

All come from `IInvHolds`. The inductive invariant `IInv` has three parts: the
types; the accounts of windows and entries (`Accounts`: each built-in app and the
program has its window, no identifier is used twice, focus and capture name
windows there are), which hold through every step; and, unless the machine has
halted, what a relayout establishes (`Settled`: tiles inside the screen and
apart, slices of the arena apart, the focus on a window that is shown), that a
drag goes with the button and the capture (`HeldByTheButton`), and that no
release waits in a queue once its packet is over (`NoReleaseWaits`). The last two
are what `DragEnds` needs: capture sends the release to the window that was
pressed, so only a full queue can lose it.

The geometry is the code's integer arithmetic: lemmas about `tile_layout` give
where the tiles of a column start and end from the quotients (`Quotients`,
`TimesUp`), so two tiles are apart because multiples of a height are. The slices
of the arena are apart because each starts where the one before ended (`taken`
rises), and a relayout never refuses for want of room there because the areas of
the tiles add up to no more than the screen's, which `MachineNeverStops` needs. Each operation of `Windows` and of `Desktop` has a lemma
for the accounts it keeps (create, destroy, focus, route; add, remove, hide,
switch, relayout), and the step lemma has one case for each action.

### The parts

Each theorem is about its part's own specification (`Ps2Spec`, `SnakeSpec` and so
on: its Init, and always its Next or a stutter), as the parts share no state.

* `InputAsSent`: `Ps2Spec => []InputIsAsSent`, for a controller of any room. The
  invariant follows both readers along the bytes that wait (`Trail`): what each
  will believe after them is never a modifier that is up, whatever was lost
  on the way, and after one whole packet the mouse's reader is in step.
* `SnakeStaysOne`: `SnakeSpec => []SnakeIsOneBody`, for boards of at least four
  columns, the three the snake starts on and one to move to. The ring holds
  different cells, so it has no more of them than the board, so its head never
  overtakes its tail (`RoomLeft`).
* `LinesKeepTheirBuffers`, `OutputReachesItsReader`: `CommandsSpec =>
  []BuffersAreTheirOwn` and `[]OutputGoesToItsReader`, for any depth, room, files
  and lines. The invariant (`CommandsInv`) speaks of every call on the stack: what it
  carries to its next stage, what it holds of the output, the script it
  runs, and where output goes. Calls at different levels use different buffers, so
  what the innermost does is nothing to the others; when it returns, sink, input,
  depth and flag are those it found.
* `TerminalReadsBack`, `TerminalViewStays`, `TerminalTabAdds`: `TerminalSpec`
  keeps `TerminalRemembers`, `ViewStaysOnItsText` and `TabOnlyAdds`, for any grid
  and windows, a ring at least as long as the grid is high, any history and
  directories. The invariant `TermInv` says that the ring
  holds the last rows that left the grid, by position modulo its size, and the
  history the last lines run. The last theorem assumes that no name has a blank
  or a slash in it (`NamesAreWords`); with a blank the second half of the
  property is false, as said above.
* `MinesFair`, `FillOpensAll`: `MinesSpec => []MinesAreFair`, with fewer mines than
  squares, and what the flood fill does: it opens no mine, counts what it opens,
  its stack is empty after as many steps as there are squares, and no covered
  square is left beside one that touches no mine. The invariant of its loop
  (`Fills`, `Reached`) says that such a square is either done or on the stack.
* `LandingTakesRows`, `ClearTakesFullRows`: `TetrisSpec => LandingTakesFullRows`.
  The loop that takes rows out looks twice at a row that has come down; its
  invariant (`Cleared`) is that below the row it looks at are the rows that are
  not full, in order, and above it those of the board before, moved down by the
  number taken.
* `EditorStaysInBounds`, `EditorEditsOneText`: `EditorSpec => []EditorTypeOK` and
  `EditsOneText`, for any limits, heights and files. The invariant `DocOK` has the
  cursor on the text, the text in its arrays, and the cursor's line in the
  window. The document is taken apart at the cursor (`Parted`) into the text
  before and after it, and every key changes only the end of what is before
  it, by one character, whether lines part, join or stay.

Their assumptions (`Ps2Assumption` to `EditorAssumption`) are that sizes are
positive and inputs of their types, and what is named above. The loops of the
games, of the sorting of lines and of `editor_load` are recursive functions over
the naturals, and each is treated by an invariant of its own, step by step from
the least-element principle, as walks are.

### Checked by TLC only

* Liveness (`RefusedWorkIsSaved`, `ProgramsEnd`): out of the prover's reach.
* `AnswersAreExact`: the parser of the calculator is recursive, as the grammar is,
  and what a recursive definition computes is out of the prover's reach.
* `PartsTypeOK` joins the types of all parts, the calculator's among them, in a
  module the provers cannot read because of that parser. The other conjuncts
  are parts of the invariants above; the editor's is a theorem.

## What is not modelled, and why

Characters of names and paths, and the limits of `VFS_NAME_MAX` and
`VFS_PATH_MAX`; the bytes of a disk record (its fields are kept); disks of this
format with contents this code never wrote; a machine without a disk, where
save and load return at once; several drives. `vfs_write_bytes` differs from
`vfs_write` only in how the length is found. Reading commands change nothing.
Of programs: the fields of an executable's header and the entries of its table
that are skipped; names, titles and everything printed; `vmm_unmap`, which only
a check at boot calls, and the processor's registers and caches (`vmmcpu.c`);
the demonstration programs started at boot (`procboot.c`), which make the same
calls with fixed bytes.

Of the desktop: the stacking order (`window_raise`), because tiles never overlap,
which `ScreenIsShared` checks; titles, icons and themes; how bars, frames and
the cursor are painted; two of the five windows kmain opens, which
only paint. Drawing and composition (`surface.c`,
`compositor.c`, `region.c`, `rect.c`, `fb.c`, `font.c`) put pixels on a screen
that the kernel never reads back to decide anything.

Of the terminal: the selection with the mouse, colours, the case of letters. Of
the commands: those that only print what another part knows (LS, TREE, DF, PS,
the clock, HELP) and those on directories, whose effect is an operation of
`Vfs`; blanks and quoting inside a line. Of the calculator: how a number is
written out (`calc_format`, `calc_line`), and words as letters: a keyword is one
key. Of the decoders: the commands that set the mouse up.

Of the user programs: colours, scores and speed; breakout, pong and invaders,
which are positions that move on a timer; paint and draw, which only put pixels.

Not at all: traps and descriptor tables, which are set once at boot; the clock,
the timer's registers, the processor's features and the log; boot, build,
scripts and the repository's tests.

Every component is listed in `PROJECT.json` with its status.

## Plan

Done: the filesystem, the block pool and the disk (`Vfs`, `VfsDisk`); memory and
programs (`Pmm`, `Vmm`, `Programs`); windows, desktop and main loop
(`MainLoop`); terminal, shell, editor, input, calculator and three games
(`Parts`); the proofs of their safety properties, except as said above, and of the
refinement of `VfsPaths`.

1. An abstract specification of page ownership (a page is free or has an owner)
   that `Programs` implements.
2. The regions of the compositor as sets of points: what is composed from the
   damaged parts is what a whole repaint would show.
3. Breakout, pong and invaders.
