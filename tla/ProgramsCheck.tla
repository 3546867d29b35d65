--------------------------- MODULE ProgramsCheck ---------------------------
(***************************************************************************)
(* What running programs must never break.  The frames a space consists of *)
(* and the pages it reaches are worked out here from the tables themselves, *)
(* level by level, and not with the walks the kernel makes.                *)
(***************************************************************************)
EXTENDS Programs

\* The types, for every state the kernel stops in.
TypeOK ==
  /\ boot.ready \in BOOLEAN /\ boot.bitmap \subseteq Nat /\ boot.pmm \in PmmType
  /\ mem.pmm \in PmmType
  /\ mem.entries \in [Frames -> [Indices -> Entry]]
  /\ mem.bytes \in [Frames -> [Offsets -> Bytes \cup {0}]]
  /\ table \in [Slots -> Process]
  /\ current \in Slots \cup {0}
  /\ job \in JobType
  /\ windows \subseteq WindowIds
  /\ report \in Reports

\* The allocator's count, its hint and its bitmap agree (pmm.c), however
\* programs were loaded, failed and taken apart.
AllocatorSound == mem.pmm \in KernelPmm

----------------------------------------------------------------------------
(* Who owns a page of memory *)

Live == {s \in Slots : table[s].state # "FREE"}

\* Links are the entries of a space that lead on, as <<table, index>>: of its
\* root only the program's half.
leading(tables, indices) ==
  {t \in tables \X indices :
     mem.entries[t[1]][t[2]].present /\ ~mem.entries[t[1]][t[2]].huge}

target(link) == mem.entries[link[1]][link[2]].addr

\* From the links of one level to those of the next below it.
descend ==
  [k \in Nat |-> [above \in SUBSET (Frames \X Indices) |->
     leading({target(t) : t \in above}, Indices)]]

links(root, level) ==
  Iterate(descend, leading({root}, Indices \ Upper))[PAGING_LEVELS - 1 - level]

\* The links from one table to another.
table_links(root) == UNION {links(root, l) : l \in 1 .. PAGING_LEVELS - 1}

tables_of(s) ==
  {table[s].space.root} \cup {target(t) : t \in table_links(table[s].space.root)}
pages_of(s) == {table[s].pages[i] : i \in DOMAIN table[s].pages}
owned(s) == tables_of(s) \cup pages_of(s)

\* Every page of memory that has left the allocator since boot has one owner:
\* it is a table of one live program, in one place, or a page of one live
\* program, and not the bitmap's.  A failed load, a fault or an exit gives all
\* of it back, nothing is ever given back twice, and frame zero, whose address
\* says that there is no page, is never there to hand out (process_destroy,
\* vmm_destroy, process_add_page_at, pmm_add_free).
EveryFrameHasOneOwner ==
  /\ \A s \in Live :
       /\ Cardinality(tables_of(s)) = 1 + Cardinality(table_links(table[s].space.root))
       /\ Cardinality(tables_of(s)) = table[s].space.tables
       /\ Cardinality(pages_of(s)) = Len(table[s].pages)
       /\ tables_of(s) \cap pages_of(s) = {}
       /\ owned(s) \cap boot.bitmap = {}
       /\ \A t \in Live \ {s} : owned(s) \cap owned(t) = {}
  /\ FreePages(boot.pmm) \ FreePages(mem.pmm) = UNION {owned(s) : s \in Live}
  /\ 0 \notin FreePages(mem.pmm)
  /\ mem.pmm.bad_frees = 0

\* A program's half of its space leads to its own pages, each of them once,
\* and to nothing else; the kernel's half is the kernel's, entry for entry, and
\* no program has changed the tables below it (vmm_new_user_space, vmm_map).
Isolation ==
  /\ \A s \in Live :
       LET root == table[s].space.root
           leaves == links(root, 0)
       IN  /\ {target(l) : l \in leaves} = pages_of(s)
           /\ Cardinality(leaves) = Cardinality(pages_of(s))
           /\ \A i \in Upper : mem.entries[root][i] = KernelTables[KERNEL_ROOT][i]
  /\ \A f \in DOMAIN KernelTables : mem.entries[f] = KernelTables[f]

----------------------------------------------------------------------------
(* What a program finds in its memory *)

\* The pages an executable asks for, the stack's with them.
requested(image) ==
  {StackPage} \cup
  UNION {first_page(image.segments[i]) .. last_page(image.segments[i]) :
           i \in DOMAIN image.segments}

\* The byte an address must hold: the file's, or zero.
file_byte(image, at) ==
  LET in == {i \in DOMAIN image.segments :
               at - image.segments[i].vaddr + 1 \in DOMAIN image.segments[i].file}
  IN  IF in = {} THEN 0
      ELSE LET s == image.segments[CHOOSE i \in in : TRUE]
           IN  s.file[at - s.vaddr + 1]

\* A program that is about to start finds every byte of its file where the
\* file said, zeros in the rest of every page it asked for and in its stack,
\* and no other page: nothing is left of what the memory held before, and two
\* segments in one page keep each other's bytes (elfload, process_add_page_at).
LoadedAsTheFileSays ==
  job.at = "LOADED" =>
    \A page \in Page :
      LET there == vmm_translate(mem, table[job.slot].space, page)
      IN  2 * page < VIRT_PAGES =>
            /\ (there.result = "OK") <=> (page \in requested(job.image))
            /\ there.result = "OK" =>
                 \A o \in Offsets :
                   mem.bytes[there.entry.addr][o]
                     = file_byte(job.image, page * PAGE_SIZE + o)

\* While a program runs, no byte changes but in a page of its own that is
\* writable: not by what it stores, and not by what the kernel copies to an
\* address it was handed (uaccess_copy_out).
writable_frames ==
  {target(l) : l \in {k \in links(proc.space.root, 0) :
                        mem.entries[k[1]][k[2]].user /\ mem.entries[k[1]][k[2]].write}}

ReadOnlyStaysAsLoaded ==
  [][InProgram => \A f \in Frames \ writable_frames : mem.bytes'[f] = mem.bytes[f]]_vars

\* A page that a segment, or the stack, was to write is writable, and one that
\* a segment was to run can be run.
SegmentsGetTheirPermissions ==
  job.at = "LOADED" =>
    LET entry(page) == vmm_translate(mem, table[job.slot].space, page).entry
    IN  /\ entry(StackPage).write
        /\ \A i \in DOMAIN job.image.segments :
             LET s == job.image.segments[i]
             IN  \A page \in first_page(s) .. last_page(s) :
                   /\ s.write => entry(page).write
                   /\ s.exec => ~entry(page).nx

----------------------------------------------------------------------------
(* How programs end *)

\* The windows programs have on the desktop are those the live processes know
\* of: none outlives its program, whatever ended it (winsys_release).
WindowsFollowPrograms ==
  windows = {table[s].window_id : s \in Live} \ {NoWindow}

\* A program that keeps making system calls while the clock moves gives the
\* machine back, because each of them is charged (syscall_dispatch); so does
\* one that cannot be loaded.
ProgramsEnd == (job.at # "PROMPT") ~> (job.at = "PROMPT")
============================================================================
