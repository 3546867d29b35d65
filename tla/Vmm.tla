-------------------------------- MODULE Vmm --------------------------------
(***************************************************************************)
(* Address spaces (vmm.c, vmmfree.c, vmmboot.c): trees of page tables in   *)
(* pages the allocator handed out.                                         *)
(*                                                                         *)
(* Physical memory is seen in two ways, as page table entries and as       *)
(* bytes: a page is used in one way at a time, which is one of the things  *)
(* the invariants check.  A virtual address is kept as its page's number,  *)
(* without the sign bits: the numbers that paging_canonical accepts run    *)
(* from 0 to VIRT_PAGES - 1, the upper half of them the kernel's.          *)
(***************************************************************************)
EXTENDS Pmm, Iteration

CONSTANTS PAGING_LEVELS,   \* 4 in the code
          PAGING_ENTRIES,  \* 512
          VIRT_PAGES,      \* 512^4
          MAX_FRAME,       \* the last frame of the machine
          Bytes,           \* what a byte can hold, apart from zero
          KERNEL_ROOT,     \* the root table the bootloader left
          KernelTables     \* its tables: a function from frames to tables

Frames  == 0 .. MAX_FRAME
Indices == 0 .. PAGING_ENTRIES - 1
Offsets == 0 .. PAGE_SIZE - 1
Upper   == {i \in Indices : 2 * i >= PAGING_ENTRIES}
Page    == 0 .. VIRT_PAGES - 1
Span    == [level \in 0 .. PAGING_LEVELS |-> PAGING_ENTRIES ^ level]

\* A page table entry: the flags this kernel reads or writes, and the frame.
Entry == [present : BOOLEAN, addr : Frames, write : BOOLEAN, user : BOOLEAN,
          nx : BOOLEAN, huge : BOOLEAN]
ZeroEntry == [present |-> FALSE, addr |-> 0, write |-> FALSE, user |-> FALSE,
              nx |-> FALSE, huge |-> FALSE]
ZeroTable == [i \in Indices |-> ZeroEntry]
ZeroPage  == [o \in Offsets |-> 0]

ASSUME PagingAssumption ==
  /\ PAGING_LEVELS \in Nat \ {0}
  /\ PAGING_ENTRIES \in Nat \ {0}
  /\ MAX_FRAME \in Nat
  /\ VIRT_PAGES = PAGING_ENTRIES ^ PAGING_LEVELS
  /\ DOMAIN KernelTables \subseteq Frames \ {0}
  /\ KERNEL_ROOT \in DOMAIN KernelTables
  /\ \A f \in DOMAIN KernelTables : KernelTables[f] \in [Indices -> Entry]

\* Arithmetic the provers have no theory of: what a power is.
ASSUME PowersAssumption ==
  /\ Span \in [0 .. PAGING_LEVELS -> Nat \ {0}]
  /\ Span[0] = 1
  /\ \A level \in 0 .. PAGING_LEVELS - 1 : Span[level + 1] = PAGING_ENTRIES * Span[level]

\* The kernel's half is what the bootloader made it: a tree of KernelTables, in
\* which no page is the user's.  A table is at one level only.
ASSUME KernelAssumption ==
  \E level \in [DOMAIN KernelTables -> 0 .. PAGING_LEVELS - 1] :
    /\ level[KERNEL_ROOT] = PAGING_LEVELS - 1
    /\ \A f \in DOMAIN KernelTables :
         \A i \in IF f = KERNEL_ROOT THEN Upper ELSE Indices :
           LET entry == KernelTables[f][i]
           IN  entry.present /\ ~(level[f] > 0 /\ entry.huge) =>
                 IF level[f] = 0 THEN ~entry.user
                 ELSE entry.addr \in DOMAIN KernelTables
                      /\ level[entry.addr] = level[f] - 1

\* The allocator is never out of step with itself: its count is the number of
\* pages whose bit is clear, and its hint is not past the end.  pmm_alloc then
\* fails only when there is nothing left, and never misses a page.
PmmSound(pmm) ==
  /\ pmm.used \subseteq slots(pmm)
  /\ pmm.free_pages = Cardinality(FreePages(pmm))
  /\ pmm.hint <= pmm.pages

KernelPmm == {pmm \in PmmType : PmmSound(pmm) /\ slots(pmm) \subseteq Frames}

Memory == [pmm : KernelPmm,
           entries : [Frames -> [Indices -> Entry]],
           bytes : [Frames -> [Offsets -> Bytes \cup {0}]]]

\* struct addrspace; `tables' counts the tables it allocated.
Space == [root : Frames, tables : Nat]
NoSpace == [root |-> 0, tables |-> 0]

Results == {"OK", "BAD_ADDRESS", "NO_MEMORY", "NOT_MAPPED", "ALREADY_MAPPED",
            "HUGE_PAGE", "NO_SPACE"}

----------------------------------------------------------------------------
(* Walking *)

paging_index(page, level) == (page \div Span[level]) % PAGING_ENTRIES
paging_canonical(page) == page \in Page

\* Where a walk has come to: the table it stands in, or why it stopped.
Walks == [result : Results, mem : Memory, space : Space, table : Frames]

\* What comes of asking for a table: `got' is the allocator's
\* answer, and the rest what the table holds then.
table_in(mem, space, got, entries, bytes) ==
  IF got.phys = PMM_NONE
  THEN [phys |-> PMM_NONE, mem |-> mem, space |-> space]
  ELSE [phys |-> got.phys,
        mem |-> [mem EXCEPT !.pmm = got.pmm,
                            !.entries[got.phys] = entries,
                            !.bytes[got.phys] = bytes],
        space |-> [space EXCEPT !.tables = @ + 1]]

\* Mutant: a page that becomes a table keeps what was in it.
FreshUncleared(mem, space) ==
  table_in(mem, space, pmm_alloc(mem.pmm),
           mem.entries[pmm_alloc(mem.pmm).phys], ZeroPage)

fresh_table(mem, space) ==
  table_in(mem, space, pmm_alloc(mem.pmm), ZeroTable, ZeroPage)

\* An entry for a table: writable, and the user's when the leaf is.
table_entry(phys, user) ==
  [ZeroEntry EXCEPT !.present = TRUE, !.addr = phys, !.write = TRUE, !.user = user]

\* A table on the way to a user's page must be the user's too.
widened(entry, user) ==
  [entry EXCEPT !.write = TRUE, !.user = @ \/ user]

\* Where there is no table yet: into the one made for it, if one could be.
grow(w, index, fresh, user) ==
  IF fresh.phys = PMM_NONE THEN [w EXCEPT !.result = "NO_MEMORY"]
  ELSE [w EXCEPT
          !.mem = [fresh.mem EXCEPT !.entries[w.table][index] =
                     table_entry(fresh.phys, user)],
          !.space = fresh.space,
          !.table = fresh.phys]

follow(w, index, create, user) ==
  LET entry == w.mem.entries[w.table][index]
  IN  IF ~entry.present
      THEN IF create THEN grow(w, index, fresh_table(w.mem, w.space), user)
           ELSE [w EXCEPT !.result = "NOT_MAPPED"]
      ELSE IF entry.huge THEN [w EXCEPT !.result = "HUGE_PAGE"]
      ELSE [w EXCEPT
              !.mem.entries[w.table][index] =
                 IF create THEN widened(entry, user) ELSE entry,
              !.table = entry.addr]

\* One level down.  Step k leaves the table of level PAGING_LEVELS - k.
walk_step(page, create, user) ==
  [k \in Nat |-> [w \in Walks |->
     IF w.result # "OK" \/ k \notin 1 .. PAGING_LEVELS - 1 THEN w
     ELSE follow(w, paging_index(page, PAGING_LEVELS - k), create, user)]]

\* The walk down to the table of a level.
arrive(mem, space, page, level, create, user) ==
  Iterate(walk_step(page, create, user),
          [result |-> "OK", mem |-> mem, space |-> space, table |-> space.root])
    [PAGING_LEVELS - 1 - level]

walk(mem, space, page, create, user) ==
  IF space.root # 0 /\ paging_canonical(page)
  THEN arrive(mem, space, page, 0, create, user)
  ELSE [result |-> IF space.root = 0 THEN "NO_SPACE" ELSE "BAD_ADDRESS",
        mem |-> mem, space |-> space, table |-> 0]

----------------------------------------------------------------------------
(* Mapping *)

\* The leaf entry, written once the walk has come to its table.
map_at(w, index, phys, flags) ==
  IF w.result # "OK" THEN w
  ELSE IF w.mem.entries[w.table][index].present
  THEN [w EXCEPT !.result = "ALREADY_MAPPED"]
  ELSE [w EXCEPT !.mem.entries[w.table][index] =
          [present |-> TRUE, addr |-> phys, write |-> flags.write,
           user |-> TRUE, nx |-> flags.nx, huge |-> FALSE]]

\* flags is [write, nx]; the user bit is added by everyone who maps.
vmm_map(mem, space, page, phys, flags) ==
  map_at(walk(mem, space, page, TRUE, TRUE), paging_index(page, 0), phys, flags)

leaf_of(w, entry) ==
  [result |-> IF w.result # "OK" THEN w.result
              ELSE IF entry.present THEN "OK" ELSE "NOT_MAPPED",
   entry |-> entry]

\* The entry a page is mapped by, when the result is "OK".
leaf_at(w, index) == leaf_of(w, w.mem.entries[w.table][index])
vmm_translate(mem, space, page) ==
  leaf_at(walk(mem, space, page, FALSE, FALSE), paging_index(page, 0))

----------------------------------------------------------------------------
(* Making and destroying spaces *)

\* The upper half of one root copied into another.
vmm_share_kernel(mem, root, from) ==
  [mem EXCEPT !.entries[root] =
     [i \in Indices |-> IF i \in Upper THEN mem.entries[from][i] ELSE @[i]]]

\* A root of its own, if one could be had, with the kernel's half in it.
rooted(mem, new) ==
  IF new.phys = PMM_NONE
  THEN [result |-> "NO_MEMORY", mem |-> mem, space |-> NoSpace]
  ELSE [result |-> "OK", space |-> [new.space EXCEPT !.root = new.phys],
        mem |-> vmm_share_kernel(new.mem, new.phys, KERNEL_ROOT)]

vmm_new_user_space(mem, ready) ==
  IF ready THEN rooted(mem, fresh_table(mem, NoSpace))
  ELSE [result |-> "NO_SPACE", mem |-> mem, space |-> NoSpace]

\* The tables of a space below its root, each known by its level and the first
\* page it covers, as the table found there; `half' says which root entries.
tables_below(mem, space, half) ==
  LET found(t) == arrive(mem, space, t[2], t[1], FALSE, FALSE)
      there == {t \in (0 .. PAGING_LEVELS - 2) \X Page :
                  /\ t[2] % Span[t[1] + 1] = 0
                  /\ paging_index(t[2], PAGING_LEVELS - 1) \in half
                  /\ found(t).result = "OK"}
  IN  [t \in there |-> found(t).table]

\* Mutant: every root entry is followed, the kernel's half with them.
BelowEverything(mem, space) == tables_below(mem, space, Indices)

\* What free_below frees: the lower half only.
freed_tables(mem, space) == tables_below(mem, space, Indices \ Upper)

\* An adopted space, with no table of its own, frees nothing.
vmm_destroy(mem, space) ==
  LET below == freed_tables(mem, space)
  IN  IF space.root = 0 \/ space.tables = 0 THEN mem
      ELSE [mem EXCEPT !.pmm = pmm_free(pmm_free(@, below), <<space.root>>),
                       !.entries[space.root] = ZeroTable]
============================================================================
