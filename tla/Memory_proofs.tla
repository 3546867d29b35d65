--------------------------- MODULE Memory_proofs ---------------------------
(***************************************************************************)
(* What the operations on physical memory and on address spaces keep,      *)
(* whatever the size of the machine and the shape of its page tables: the  *)
(* allocator's account of itself is right, and every table and every walk  *)
(* stays of its type.                                                      *)
(***************************************************************************)
EXTENDS Sequences, Vmm, Iteration_proofs

----------------------------------------------------------------------------
(* The allocator *)

\* The allocator's slots are finitely many, and so are the free ones.
LEMMA SlotsFinite ==
  ASSUME NEW pmm \in PmmType
  PROVE  /\ IsFiniteSet(slots(pmm)) /\ slots(pmm) \subseteq Nat
         /\ \A pages : /\ IsFiniteSet(pages \cap slots(pmm))
                       /\ IsFiniteSet(pages \cap FreePages(pmm))
                       /\ IsFiniteSet(pages \cap pmm.used \cap slots(pmm))
         /\ IsFiniteSet(FreePages(pmm))
<1>1. IsFiniteSet(slots(pmm)) /\ slots(pmm) \subseteq Nat
  <2>1. pmm.pages - 1 \in Int
    BY DEF PmmType
  <2> QED
    BY <2>1, FS_Interval DEF slots
<1>2. FreePages(pmm) \in SUBSET slots(pmm)
  BY DEF FreePages
<1>3. \A T \in SUBSET slots(pmm) : IsFiniteSet(T)
  BY <1>1, FS_Subset
<1> QED
  BY <1>1, <1>2, <1>3

\* Marking pages as used keeps the allocator right.
LEMMA MarkUsedKeeps ==
  ASSUME NEW pmm \in KernelPmm, NEW pages
  PROVE  mark_used(pmm, pages) \in KernelPmm
<1> DEFINE P == pages \cap slots(pmm)
           F == FreePages(pmm)
           after == mark_used(pmm, pages)
<1>0. pmm \in PmmType /\ PmmSound(pmm) /\ slots(pmm) \subseteq Frames
  BY DEF KernelPmm
<1>1. IsFiniteSet(F) /\ IsFiniteSet(pages \cap F) /\ slots(pmm) \subseteq Nat
  BY <1>0, SlotsFinite
<1>2. Cardinality(F \ (pages \cap F)) = Cardinality(F) - Cardinality(F \cap (pages \cap F))
  BY <1>1, FS_Difference
<1>3. /\ Cardinality(F) \in Nat /\ Cardinality(pages \cap F) \in Nat
      /\ Cardinality(F \ (pages \cap F)) \in Nat
  <2>1. IsFiniteSet(F \ (pages \cap F))
    BY <1>1, FS_Difference
  <2> QED
    BY <1>1, <2>1, FS_CardinalityType
<1>4. F \cap (pages \cap F) = pages \cap F
  OBVIOUS
<1>5. /\ after.pages = pmm.pages /\ after.hint = pmm.hint
      /\ after.used = pmm.used \cup P
      /\ after.free_pages = pmm.free_pages - Cardinality(pages \cap F)
  BY <1>0 DEF mark_used, PmmType
<1>6. slots(after) = slots(pmm)
  BY <1>5 DEF slots
<1>7. FreePages(after) = F \ (pages \cap F)
  BY <1>5, <1>6 DEF FreePages
<1>8. after.free_pages = Cardinality(FreePages(after))
  <2>1. pmm.free_pages = Cardinality(F)
    BY <1>0 DEF PmmSound
  <2> QED
    BY <2>1, <1>2, <1>4, <1>5, <1>7
<1>9. after \in PmmType
  <2>1. after.free_pages \in Nat
    BY <1>3, <1>7, <1>8
  <2> QED
    BY <2>1, <1>0, <1>1, <1>5 DEF PmmType, mark_used
<1>10. PmmSound(after)
  BY <1>0, <1>5, <1>6, <1>8 DEF PmmSound
<1> QED
  BY <1>0, <1>6, <1>9, <1>10 DEF KernelPmm

\* So does freeing pages that were used.
LEMMA MarkFreeKeeps ==
  ASSUME NEW pmm \in KernelPmm, NEW pages
  PROVE  mark_free(pmm, pages) \in KernelPmm
<1> DEFINE B == pages \cap pmm.used \cap slots(pmm)
           F == FreePages(pmm)
           after == mark_free(pmm, pages)
<1>0. pmm \in PmmType /\ PmmSound(pmm) /\ slots(pmm) \subseteq Frames
  BY DEF KernelPmm
<1>1. IsFiniteSet(F) /\ IsFiniteSet(B) /\ slots(pmm) \subseteq Nat
  BY <1>0, SlotsFinite
<1>2. Cardinality(F \cup B) = Cardinality(F) + Cardinality(B) - Cardinality(F \cap B)
  BY <1>1, FS_Union
<1>3. Cardinality(F \cap B) = 0
  <2>1. F \cap B = {}
    BY DEF FreePages
  <2> QED
    BY <2>1, FS_EmptySet
<1>4. Cardinality(F) \in Nat /\ Cardinality(B) \in Nat
  BY <1>1, FS_CardinalityType
<1>5. /\ after.pages = pmm.pages /\ after.hint = pmm.hint
      /\ after.used = pmm.used \ pages
      /\ after.free_pages = pmm.free_pages + Cardinality(B)
  BY <1>0 DEF mark_free, PmmType
<1>6. slots(after) = slots(pmm)
  BY <1>5 DEF slots
<1>7. FreePages(after) = F \cup B
  <2>1. pmm.used \subseteq slots(pmm)
    BY <1>0 DEF PmmSound
  <2> QED
    BY <2>1, <1>5, <1>6 DEF FreePages
<1>8. after.free_pages = Cardinality(FreePages(after))
  <2>1. pmm.free_pages = Cardinality(F)
    BY <1>0 DEF PmmSound
  <2>2. Cardinality(F \cup B) = Cardinality(F) + Cardinality(B)
    BY <1>2, <1>3, <1>4
  <2>3. after.free_pages = Cardinality(F \cup B)
    BY <2>1, <2>2, <1>5
  <2> QED
    BY <2>3, <1>7
<1>9. after \in PmmType
  <2>1. pmm.free_pages \in Nat /\ pmm.free_pages + Cardinality(B) \in Nat
    BY <1>0, <1>4 DEF PmmType
  <2> QED
    BY <2>1, <1>0, <1>5 DEF PmmType, mark_free
<1>10. PmmSound(after)
  BY <1>0, <1>5, <1>6, <1>8 DEF PmmSound
<1> QED
  BY <1>0, <1>6, <1>9, <1>10 DEF KernelPmm

\* Moving the hint, within the pages there are, keeps it right too.
LEMMA HintKeeps ==
  ASSUME NEW pmm \in KernelPmm, NEW hint \in Nat, hint <= pmm.pages,
         NEW bad \in Nat
  PROVE  [pmm EXCEPT !.hint = hint, !.bad_frees = bad] \in KernelPmm
<1> DEFINE after == [pmm EXCEPT !.hint = hint, !.bad_frees = bad]
<1>0. pmm \in PmmType /\ PmmSound(pmm) /\ slots(pmm) \subseteq Frames
  BY DEF KernelPmm
<1>1. /\ after.pages = pmm.pages /\ after.used = pmm.used
      /\ after.free_pages = pmm.free_pages /\ after.hint = hint
  BY <1>0 DEF PmmType
<1>2. slots(after) = slots(pmm) /\ FreePages(after) = FreePages(pmm)
  BY <1>1 DEF slots, FreePages
<1>3. after \in PmmType
  BY <1>0, <1>1 DEF PmmType
<1>4. PmmSound(after)
  BY <1>0, <1>1, <1>2 DEF PmmSound
<1> QED
  BY <1>0, <1>2, <1>3, <1>4 DEF KernelPmm

\* The page the allocator hands out is one of the machine's, and handing it out
\* keeps the allocator right.
LEMMA AllocKeeps ==
  ASSUME NEW pmm \in KernelPmm
  PROVE  pmm_alloc(pmm).phys \in Frames /\ pmm_alloc(pmm).pmm \in KernelPmm
<1>0. pmm \in PmmType /\ PmmSound(pmm) /\ slots(pmm) \subseteq Frames
  BY DEF KernelPmm
<1>1. CASE pmm.free_pages = 0 \/ FreePages(pmm) = {}
  <2>1. pmm_alloc(pmm) = [phys |-> PMM_NONE, pmm |-> pmm]
    BY <1>1 DEF pmm_alloc
  <2> QED
    BY <2>1, PagingAssumption DEF Frames, PMM_NONE
<1>2. CASE ~(pmm.free_pages = 0 \/ FreePages(pmm) = {})
  <2> DEFINE slot == next_free(pmm)
             marked == mark_used(pmm, {slot})
             onwards == {s \in FreePages(pmm) : s >= pmm.hint}
             sought == IF onwards # {} THEN onwards ELSE FreePages(pmm)
  <2>1. sought \in SUBSET Nat /\ sought # {} /\ sought \subseteq FreePages(pmm)
    BY <1>0, <1>2, SlotsFinite DEF FreePages
  <2>2. \E n \in sought : \A m \in sought : n <= m
    <3> HIDE DEF sought
    <3> QED
      BY <2>1, LeastNat
  <2>3. slot \in sought
    BY <2>2 DEF next_free, least
  <2>4. slot \in slots(pmm) /\ slot + 1 \in Nat /\ slot + 1 <= pmm.pages
    BY <2>1, <2>3, <1>0 DEF FreePages, slots, PmmType
  <2>5. marked \in KernelPmm
    BY MarkUsedKeeps
  <2>6. marked.pages = pmm.pages /\ marked.bad_frees \in Nat /\ marked \in PmmType
    BY <2>5, <1>0 DEF mark_used, PmmType, KernelPmm
  <2>7. [marked EXCEPT !.hint = slot + 1, !.bad_frees = marked.bad_frees] \in KernelPmm
    <3> HIDE DEF marked, slot
    <3> QED
      BY <2>4, <2>5, <2>6, HintKeeps
  <2>8. [marked EXCEPT !.hint = slot + 1]
          = [marked EXCEPT !.hint = slot + 1, !.bad_frees = marked.bad_frees]
    <3> HIDE DEF marked, slot
    <3> QED
      BY <2>6 DEF PmmType
  <2>9. pmm_alloc(pmm) = [phys |-> slot, pmm |-> [marked EXCEPT !.hint = slot + 1]]
    BY <1>2 DEF pmm_alloc
  <2> QED
    BY <2>4, <2>7, <2>8, <2>9, <1>0
<1> QED
  BY <1>1, <1>2

\* Giving back any finite collection of pages, owned or not, keeps it right.
LEMMA FreeKeeps ==
  ASSUME NEW pmm \in KernelPmm, NEW given, given = [i \in DOMAIN given |-> given[i]],
         IsFiniteSet(DOMAIN given)
  PROVE  pmm_free(pmm, given) \in KernelPmm
<1> DEFINE all == {given[i] : i \in DOMAIN given}
           back == all \cap pmm.used \cap slots(pmm)
           freed == mark_free(pmm, back)
           hint == IF \E s \in back : s < pmm.hint THEN least(back) ELSE pmm.hint
           bad == pmm.bad_frees + (Cardinality(DOMAIN given) - Cardinality(back))
<1>0. pmm \in PmmType /\ PmmSound(pmm) /\ slots(pmm) \subseteq Frames
  BY DEF KernelPmm
<1>1. freed \in KernelPmm
  BY MarkFreeKeeps
<1>2. /\ freed.pages = pmm.pages /\ freed.hint = pmm.hint
      /\ freed.bad_frees = pmm.bad_frees
  BY <1>0 DEF mark_free, PmmType
<1>3. IsFiniteSet(back) /\ back \in SUBSET Nat
  BY <1>0, SlotsFinite
<1>4. Cardinality(back) <= Cardinality(DOMAIN given)
  <2>1. given \in Surjection(DOMAIN given, all)
    BY DEF Surjection
  <2>2. IsFiniteSet(all) /\ Cardinality(all) <= Cardinality(DOMAIN given)
    BY <2>1, FS_Surjection
  <2>3. Cardinality(back) <= Cardinality(all)
    BY <2>2, FS_Subset
  <2>4. /\ Cardinality(back) \in Nat /\ Cardinality(all) \in Nat
        /\ Cardinality(DOMAIN given) \in Nat
    BY <2>2, <1>3, FS_CardinalityType
  <2> QED
    BY <2>2, <2>3, <2>4
<1>5. bad \in Nat
  <2>1. /\ Cardinality(back) \in Nat /\ Cardinality(DOMAIN given) \in Nat
        /\ pmm.bad_frees \in Nat
    BY <1>0, <1>3, FS_CardinalityType DEF PmmType
  <2> QED
    BY <2>1, <1>4
<1>6. hint \in Nat /\ hint <= freed.pages
  <2>1. CASE \E s \in back : s < pmm.hint
    <3>1. \E n \in back : \A m \in back : n <= m
      BY <2>1, <1>3, LeastNat
    <3>2. least(back) \in back
      BY <3>1 DEF least
    <3> QED
      BY <2>1, <3>2, <1>0, <1>2 DEF slots, PmmType
  <2>2. CASE ~\E s \in back : s < pmm.hint
    BY <2>2, <1>0, <1>2 DEF PmmSound, PmmType
  <2> QED
    BY <2>1, <2>2
<1>7. pmm_free(pmm, given) = [freed EXCEPT !.hint = hint, !.bad_frees = bad]
  <2> SUFFICES pmm_free(pmm, given)
                 = [freed EXCEPT
                      !.hint = IF \E s \in back : s < freed.hint THEN least(back)
                               ELSE freed.hint,
                      !.bad_frees = freed.bad_frees
                        + (Cardinality(DOMAIN given) - Cardinality(back))]
    BY <1>2
  <2> QED
    BY DEF pmm_free
<1> QED
  <2> HIDE DEF freed, hint, bad
  <2> QED
    BY <1>1, <1>5, <1>6, <1>7, HintKeeps

----------------------------------------------------------------------------
(* Tables and walks *)

LEMMA ZeroTyped ==
  /\ 0 \in Frames /\ KERNEL_ROOT \in Frames
  /\ ZeroEntry \in Entry
  /\ ZeroTable \in [Indices -> Entry]
  /\ ZeroPage \in [Offsets -> Bytes \cup {0}]
  /\ NoSpace \in Space
<1>1. 0 \in Frames /\ KERNEL_ROOT \in Frames
  BY PagingAssumption DEF Frames
<1>2. ZeroEntry \in Entry
  BY <1>1 DEF ZeroEntry, Entry
<1> QED
  BY <1>1, <1>2 DEF ZeroTable, ZeroPage, NoSpace, Space

\* A page of memory taken over, whatever it is to hold.
LEMMA TakenTyped ==
  ASSUME NEW mem \in Memory, NEW pmm \in KernelPmm, NEW f,
         NEW entries \in [Indices -> Entry], NEW bytes \in [Offsets -> Bytes \cup {0}]
  PROVE  [mem EXCEPT !.pmm = pmm, !.entries[f] = entries, !.bytes[f] = bytes] \in Memory
BY DEF Memory

LEMMA EntryTyped ==
  ASSUME NEW mem \in Memory, NEW f, NEW i, NEW entry \in Entry
  PROVE  [mem EXCEPT !.entries[f][i] = entry] \in Memory
<1>1. mem.entries \in [Frames -> [Indices -> Entry]]
  BY DEF Memory
<1>2. [mem.entries EXCEPT ![f] = [mem.entries[f] EXCEPT ![i] = entry]]
        \in [Frames -> [Indices -> Entry]]
  BY <1>1
<1>3. [mem EXCEPT !.entries = [mem.entries EXCEPT ![f] = [mem.entries[f] EXCEPT ![i] = entry]]]
        \in Memory
  BY <1>2 DEF Memory
<1> QED
  BY <1>3

LEMMA FreshTyped ==
  ASSUME NEW mem \in Memory, NEW space \in Space
  PROVE  fresh_table(mem, space) \in [phys : Frames, mem : Memory, space : Space]
<1> DEFINE got == pmm_alloc(mem.pmm)
<1>1. got.phys \in Frames /\ got.pmm \in KernelPmm
  BY AllocKeeps DEF Memory
<1>2. [mem EXCEPT !.pmm = got.pmm, !.entries[got.phys] = ZeroTable,
                  !.bytes[got.phys] = ZeroPage] \in Memory
  BY <1>1, ZeroTyped, TakenTyped
<1>3. [space EXCEPT !.tables = space.tables + 1] \in Space
  BY DEF Space
<1>4. PMM_NONE \in Frames
  BY ZeroTyped DEF PMM_NONE
<1> QED
  BY <1>1, <1>2, <1>3, <1>4 DEF fresh_table, table_in

\* An index is one of a table's, at every level.
LEMMA IndexTyped ==
  ASSUME NEW page \in Nat, NEW level \in 0 .. PAGING_LEVELS
  PROVE  paging_index(page, level) \in Indices
<1>1. Span[level] \in Nat \ {0} /\ PAGING_ENTRIES \in Nat \ {0}
  BY PowersAssumption, PagingAssumption
<1>2. page \div Span[level] \in Nat
  BY <1>1, SMT
<1>3. (page \div Span[level]) % PAGING_ENTRIES \in 0 .. PAGING_ENTRIES - 1
  BY <1>1, <1>2, SMT
<1> QED
  BY <1>3 DEF paging_index, Indices

\* One level of a walk leads from a walk to a walk.
LEMMA FollowTyped ==
  ASSUME NEW w \in Walks, NEW index \in Indices, NEW create \in BOOLEAN,
         NEW user \in BOOLEAN
  PROVE  follow(w, index, create, user) \in Walks
<1> DEFINE entry == w.mem.entries[w.table][index]
           fresh == fresh_table(w.mem, w.space)
<1>0. /\ w.mem \in Memory /\ w.space \in Space /\ w.table \in Frames
      /\ w.result \in Results
  BY DEF Walks
<1>1. entry \in Entry
  BY <1>0 DEF Memory
<1>2. fresh \in [phys : Frames, mem : Memory, space : Space]
  BY <1>0, FreshTyped
<1>3. \A r \in Results : [w EXCEPT !.result = r] \in Walks
  BY DEF Walks
<1>4. {"NO_MEMORY", "NOT_MAPPED", "HUGE_PAGE"} \subseteq Results
  BY DEF Results
<1>5. grow(w, index, fresh, user) \in Walks
  <2>1. table_entry(fresh.phys, user) \in Entry
    BY <1>2 DEF table_entry, Entry, ZeroEntry
  <2>2. [fresh.mem EXCEPT !.entries[w.table][index] = table_entry(fresh.phys, user)]
          \in Memory
    BY <1>2, <2>1, EntryTyped
  <2> HIDE DEF fresh
  <2>3. \A m \in Memory :
          [w EXCEPT !.mem = m, !.space = fresh.space, !.table = fresh.phys] \in Walks
    BY <1>2 DEF Walks
  <2> QED
    BY <2>2, <2>3, <1>3, <1>4 DEF grow
<1>6. \A e \in Entry :
        [w EXCEPT !.mem.entries[w.table][index] = e, !.table = entry.addr] \in Walks
  <2> SUFFICES ASSUME NEW e \in Entry
               PROVE  [w EXCEPT !.mem.entries[w.table][index] = e, !.table = entry.addr]
                        \in Walks
    OBVIOUS
  <2>1. [w.mem EXCEPT !.entries[w.table][index] = e] \in Memory
    BY <1>0, EntryTyped
  <2>2. entry.addr \in Frames
    BY <1>1 DEF Entry
  <2> HIDE DEF entry
  <2>3. \A m \in Memory : [w EXCEPT !.mem = m, !.table = entry.addr] \in Walks
    BY <2>2 DEF Walks
  <2>4. [w EXCEPT !.mem.entries[w.table][index] = e, !.table = entry.addr]
          = [w EXCEPT !.mem = [w.mem EXCEPT !.entries[w.table][index] = e],
                      !.table = entry.addr]
    OBVIOUS
  <2> QED
    BY <2>1, <2>3, <2>4
<1>7. (IF create THEN widened(entry, user) ELSE entry) \in Entry
  BY <1>1 DEF widened, Entry
<1> QED
  BY <1>3, <1>4, <1>5, <1>6, <1>7 DEF follow

\* Every walk ends where a walk can: its memory, its space and its table are of
\* their types, however far it came.
LEMMA ArriveTyped ==
  ASSUME NEW mem \in Memory, NEW space \in Space, NEW page \in Nat,
         NEW level \in 0 .. PAGING_LEVELS - 1, NEW create \in BOOLEAN,
         NEW user \in BOOLEAN
  PROVE  arrive(mem, space, page, level, create, user) \in Walks
<1> DEFINE step == walk_step(page, create, user)
           start == [result |-> "OK", mem |-> mem, space |-> space, table |-> space.root]
<1>1. start \in Walks
  BY DEF Walks, Space, Results
<1>2. step \in [Nat -> [Walks -> Walks]]
  <2> SUFFICES ASSUME NEW k \in Nat, NEW w \in Walks, k \in 1 .. PAGING_LEVELS - 1
               PROVE  follow(w, paging_index(page, PAGING_LEVELS - k), create, user) \in Walks
    BY DEF walk_step
  <2>1. PAGING_LEVELS - k \in 0 .. PAGING_LEVELS
    BY PagingAssumption
  <2> QED
    BY <2>1, IndexTyped, FollowTyped
<1>3. Iterate(step, start) \in [Nat -> Walks]
  <2> HIDE DEF step, start
  <2> QED
    BY <1>1, <1>2, IterateWalks
<1>4. PAGING_LEVELS - 1 - level \in Nat
  BY PagingAssumption
<1> QED
  BY <1>3, <1>4 DEF arrive

LEMMA WalkTyped ==
  ASSUME NEW mem \in Memory, NEW space \in Space, NEW page \in Nat,
         NEW create \in BOOLEAN, NEW user \in BOOLEAN
  PROVE  walk(mem, space, page, create, user) \in Walks
<1>1. 0 \in 0 .. PAGING_LEVELS - 1
  BY PagingAssumption
<1>2. arrive(mem, space, page, 0, create, user) \in Walks
  BY <1>1, ArriveTyped
<1>3. \A r \in {"NO_SPACE", "BAD_ADDRESS"} :
        [result |-> r, mem |-> mem, space |-> space, table |-> 0] \in Walks
  BY ZeroTyped DEF Walks, Results
<1> QED
  BY <1>2, <1>3 DEF walk

----------------------------------------------------------------------------
(* The operations *)

LEMMA MapTyped ==
  ASSUME NEW mem \in Memory, NEW space \in Space, NEW page \in Nat,
         NEW phys \in Frames, NEW flags \in [write : BOOLEAN, nx : BOOLEAN]
  PROVE  vmm_map(mem, space, page, phys, flags) \in Walks
<1> DEFINE w == walk(mem, space, page, TRUE, TRUE)
           index == paging_index(page, 0)
           leaf == [present |-> TRUE, addr |-> phys, write |-> flags.write,
                    user |-> TRUE, nx |-> flags.nx, huge |-> FALSE]
<1>1. w \in Walks
  BY WalkTyped
<1>2. leaf \in Entry
  BY DEF Entry
<1>3. [w EXCEPT !.result = "ALREADY_MAPPED"] \in Walks
  <2> HIDE DEF w
  <2> QED
    BY <1>1 DEF Walks, Results
<1>4. [w EXCEPT !.mem.entries[w.table][index] = leaf] \in Walks
  <2> HIDE DEF w, index, leaf
  <2>1. [w.mem EXCEPT !.entries[w.table][index] = leaf] \in Memory
    BY <1>1, <1>2, EntryTyped DEF Walks
  <2>2. [w EXCEPT !.mem = [w.mem EXCEPT !.entries[w.table][index] = leaf]] \in Walks
    BY <1>1, <2>1 DEF Walks
  <2> QED
    BY <2>2
<1> QED
  BY <1>1, <1>3, <1>4 DEF vmm_map, map_at

LEMMA TranslateTyped ==
  ASSUME NEW mem \in Memory, NEW space \in Space, NEW page \in Nat
  PROVE  vmm_translate(mem, space, page) \in [result : Results, entry : Entry]
<1> DEFINE w == walk(mem, space, page, FALSE, FALSE)
           index == paging_index(page, 0)
<1>1. w \in Walks
  BY WalkTyped
<1>2. index \in Indices
  <2>1. 0 \in 0 .. PAGING_LEVELS
    BY PagingAssumption
  <2> QED
    BY <2>1, IndexTyped
<1>3. w.mem.entries[w.table][index] \in Entry /\ w.result \in Results
  <2> HIDE DEF w, index
  <2> QED
    BY <1>1, <1>2 DEF Walks, Memory
<1> QED
  BY <1>3 DEF vmm_translate, leaf_at, leaf_of, Results

LEMMA NewSpaceTyped ==
  ASSUME NEW mem \in Memory, NEW ready \in BOOLEAN
  PROVE  vmm_new_user_space(mem, ready) \in [result : Results, mem : Memory, space : Space]
<1> DEFINE new == fresh_table(mem, NoSpace)
<1>1. new \in [phys : Frames, mem : Memory, space : Space]
  BY ZeroTyped, FreshTyped
<1>2. \A m \in Memory : vmm_share_kernel(m, new.phys, KERNEL_ROOT) \in Memory
  <2> SUFFICES ASSUME NEW m \in Memory
               PROVE  vmm_share_kernel(m, new.phys, KERNEL_ROOT) \in Memory
    OBVIOUS
  <2> HIDE DEF new
  <2>1. m.entries[KERNEL_ROOT] \in [Indices -> Entry] /\ m.entries[new.phys] \in [Indices -> Entry]
    BY <1>1, ZeroTyped DEF Memory
  <2> DEFINE shared == [i \in Indices |-> IF i \in Upper THEN m.entries[KERNEL_ROOT][i]
                                          ELSE m.entries[new.phys][i]]
  <2>2. shared \in [Indices -> Entry]
    BY <2>1
  <2>3. [m EXCEPT !.entries[new.phys] = shared] \in Memory
    <3> HIDE DEF shared
    <3> QED
      BY <2>2 DEF Memory
  <2> QED
    BY <2>3 DEF vmm_share_kernel
<1>3. rooted(mem, new) \in [result : Results, mem : Memory, space : Space]
  <2> HIDE DEF new
  <2>1. [new.space EXCEPT !.root = new.phys] \in Space
    BY <1>1 DEF Space
  <2> QED
    BY <2>1, <1>1, <1>2, ZeroTyped DEF rooted, Results
<1> QED
  BY <1>3, ZeroTyped DEF vmm_new_user_space, Results

\* Destroying a space gives back what was found below it, and keeps the types.
LEMMA DestroyTyped ==
  ASSUME NEW mem \in Memory, NEW space \in Space
  PROVE  vmm_destroy(mem, space) \in Memory
<1> DEFINE below == freed_tables(mem, space)
           once == pmm_free(mem.pmm, below)
           twice == pmm_free(once, <<space.root>>)
<1>1. IsFiniteSet(DOMAIN below)
  <2>1. IsFiniteSet((0 .. PAGING_LEVELS - 2) \X Page)
    <3>1. IsFiniteSet(0 .. PAGING_LEVELS - 2)
      BY PagingAssumption, FS_Interval
    <3>2. VIRT_PAGES \in Int
      <4>1. Span[PAGING_LEVELS] \in Nat
        BY PowersAssumption, PagingAssumption
      <4>2. Span[PAGING_LEVELS] = VIRT_PAGES
        BY PagingAssumption DEF Span
      <4> QED
        BY <4>1, <4>2
    <3>3. IsFiniteSet(Page)
      BY <3>2, FS_Interval DEF Page
    <3> QED
      BY <3>1, <3>3, FS_Product
  <2>2. DOMAIN below \in SUBSET ((0 .. PAGING_LEVELS - 2) \X Page)
    BY DEF freed_tables, tables_below
  <2> QED
    BY <2>1, <2>2, FS_Subset
<1>2. below = [t \in DOMAIN below |-> below[t]]
  BY DEF freed_tables, tables_below
<1>3. once \in KernelPmm
  <2> HIDE DEF below
  <2> QED
    BY <1>1, <1>2, FreeKeeps DEF Memory
<1>4. twice \in KernelPmm
  <2>1. DOMAIN <<space.root>> = {1}
    OBVIOUS
  <2>2. IsFiniteSet(DOMAIN <<space.root>>)
    <3>1. IsFiniteSet({1})
      BY FS_Singleton
    <3> QED
      BY <2>1, <3>1
  <2>3. <<space.root>> = [i \in DOMAIN <<space.root>> |-> <<space.root>>[i]]
    OBVIOUS
  <2> HIDE DEF once
  <2> QED
    BY <1>3, <2>2, <2>3, FreeKeeps
<1>5. [mem EXCEPT !.pmm = twice, !.entries[space.root] = ZeroTable] \in Memory
  <2> HIDE DEF twice
  <2> QED
    BY <1>4, ZeroTyped DEF Memory
<1> QED
  BY <1>5 DEF vmm_destroy

----------------------------------------------------------------------------
(* Whose a page is *)

\* Of the pages the allocator started with, those in `held' are out, the others
\* are free, and none was ever given back twice.  Page zero is not among them.
Accounts(pmm, base, held) ==
  /\ pmm \in KernelPmm
  /\ base \subseteq slots(pmm) /\ 0 \notin base
  /\ FreePages(pmm) \cap held = {} /\ FreePages(pmm) \cup held = base
  /\ pmm.bad_frees = 0

\* The allocator hands out one of the free pages, or there is none.
LEMMA AllocTakes ==
  ASSUME NEW pmm, NEW base, NEW held, Accounts(pmm, base, held)
  PROVE  LET got == pmm_alloc(pmm)
         IN  \/ got.phys = PMM_NONE /\ got.pmm = pmm
             \/ /\ got.phys # PMM_NONE /\ got.phys \in Frames /\ got.phys \in base \ held
                /\ Accounts(got.pmm, base, held \cup {got.phys})
<1> DEFINE got == pmm_alloc(pmm)
<1>0. /\ pmm \in KernelPmm /\ pmm \in PmmType /\ slots(pmm) \subseteq Frames
      /\ FreePages(pmm) \subseteq base /\ 0 \notin base
      /\ FreePages(pmm) \subseteq slots(pmm)
  BY DEF Accounts, KernelPmm, FreePages
<1>1. CASE pmm.free_pages = 0 \/ FreePages(pmm) = {}
  BY <1>1 DEF pmm_alloc
<1>2. CASE ~(pmm.free_pages = 0 \/ FreePages(pmm) = {})
  <2> DEFINE slot == next_free(pmm)
             onwards == {s \in FreePages(pmm) : s >= pmm.hint}
             sought == IF onwards # {} THEN onwards ELSE FreePages(pmm)
  <2>1. sought \in SUBSET Nat /\ sought # {} /\ sought \subseteq FreePages(pmm)
    BY <1>0, <1>2, SlotsFinite DEF FreePages
  <2>2. \E n \in sought : \A m \in sought : n <= m
    <3> HIDE DEF sought
    <3> QED
      BY <2>1, LeastNat
  <2>3. slot \in sought
    BY <2>2 DEF next_free, least
  <2>4. slot \in FreePages(pmm) /\ slot # 0 /\ slot \in Frames
    BY <2>1, <2>3, <1>0
  <2>5. got = [phys |-> slot, pmm |-> [mark_used(pmm, {slot}) EXCEPT !.hint = slot + 1]]
    BY <1>2 DEF pmm_alloc
  <2> HIDE DEF slot
  <2>6. got.pmm \in KernelPmm /\ got.phys = slot
    BY <1>0, <2>5, AllocKeeps
  <2>7. /\ got.pmm.pages = pmm.pages /\ got.pmm.bad_frees = pmm.bad_frees
        /\ got.pmm.used = pmm.used \cup ({slot} \cap slots(pmm))
    <3> DEFINE marked == mark_used(pmm, {slot})
    <3>1. /\ marked.pages = pmm.pages /\ marked.bad_frees = pmm.bad_frees
          /\ marked.used = pmm.used \cup ({slot} \cap slots(pmm)) /\ marked \in PmmType
      <4>1. marked \in KernelPmm
        BY <1>0, MarkUsedKeeps
      <4> QED
        BY <1>0, <4>1 DEF mark_used, PmmType, KernelPmm
    <3>2. got.pmm = [marked EXCEPT !.hint = slot + 1]
      BY <2>5
    <3> HIDE DEF marked, got
    <3> QED
      BY <3>1, <3>2 DEF PmmType
  <2>8. slots(got.pmm) = slots(pmm) /\ FreePages(got.pmm) = FreePages(pmm) \ {slot}
    BY <2>4, <2>7 DEF slots, FreePages
  <2> HIDE DEF got
  <2> QED
    BY <1>0, <2>4, <2>6, <2>7, <2>8 DEF Accounts, PMM_NONE, got
<1> QED
  BY <1>1, <1>2

\* What is given back, each page once, is free again.
LEMMA FreeGives ==
  ASSUME NEW pmm, NEW base, NEW held, Accounts(pmm, base, held),
         NEW D, IsFiniteSet(D), NEW back, back \subseteq held,
         NEW given \in Bijection(D, back)
  PROVE  Accounts(pmm_free(pmm, given), base, held \ back)
<1> DEFINE after == pmm_free(pmm, given)
<1>0. /\ pmm \in KernelPmm /\ pmm \in PmmType /\ pmm.bad_frees = 0
      /\ held \subseteq pmm.used \cap slots(pmm)
  BY DEF Accounts, KernelPmm, FreePages
<1>1. /\ DOMAIN given = D /\ given = [i \in D |-> given[i]]
      /\ {given[i] : i \in D} = back
  BY DEF Bijection, Injection, Surjection, IsInjective
<1>2. after \in KernelPmm
  BY <1>0, <1>1, FreeKeeps
<1>3. {given[i] : i \in DOMAIN given} \cap pmm.used \cap slots(pmm) = back
  BY <1>0, <1>1
<1>4. Cardinality(back) = Cardinality(D) /\ Cardinality(D) \in Nat
  <2>1. ExistsBijection(D, back)
    BY DEF ExistsBijection
  <2> QED
    BY <2>1, FS_Bijection, FS_CardinalityType
<1>5. /\ after.pages = pmm.pages /\ after.used = pmm.used \ back
      /\ after.bad_frees = pmm.bad_frees + (Cardinality(D) - Cardinality(back))
  <2> DEFINE marked == mark_free(pmm, back)
  <2>1. /\ marked.pages = pmm.pages /\ marked.used = pmm.used \ back
        /\ marked.bad_frees = pmm.bad_frees /\ marked \in PmmType
    <3>1. marked \in KernelPmm
      BY <1>0, MarkFreeKeeps
    <3> QED
      BY <3>1, <1>0 DEF mark_free, PmmType, KernelPmm
  <2>2. after = [marked EXCEPT
                   !.hint = IF \E s \in back : s < marked.hint THEN least(back)
                            ELSE marked.hint,
                   !.bad_frees = marked.bad_frees + (Cardinality(D) - Cardinality(back))]
    <3>1. DOMAIN given = D
      BY <1>1
    <3> DEFINE came == {given[i] : i \in DOMAIN given} \cap pmm.used \cap slots(pmm)
    <3>2. after = [mark_free(pmm, came) EXCEPT
                     !.hint = IF \E s \in came : s < mark_free(pmm, came).hint
                              THEN least(came) ELSE mark_free(pmm, came).hint,
                     !.bad_frees = mark_free(pmm, came).bad_frees
                                     + (Cardinality(DOMAIN given) - Cardinality(came))]
      BY DEF pmm_free
    <3>3. came = back
      BY <1>3
    <3> HIDE DEF came, after
    <3> QED
      BY <3>1, <3>2, <3>3
  <2> HIDE DEF marked, after
  <2> QED
    BY <2>1, <2>2 DEF PmmType
<1>6. after.bad_frees = 0
  BY <1>0, <1>4, <1>5
<1>7. slots(after) = slots(pmm) /\ FreePages(after) = FreePages(pmm) \cup back
  BY <1>0, <1>5 DEF slots, FreePages
<1>8. /\ base \subseteq slots(pmm) /\ 0 \notin base
      /\ FreePages(pmm) \cap held = {} /\ FreePages(pmm) \cup held = base
  BY DEF Accounts
<1>9. /\ FreePages(after) \cap (held \ back) = {}
      /\ FreePages(after) \cup (held \ back) = base
  BY <1>7, <1>8
<1> HIDE DEF after
<1> QED
  BY <1>2, <1>6, <1>7, <1>8, <1>9 DEF Accounts, after

\* One page given back.
LEMMA FreeGivesOne ==
  ASSUME NEW pmm, NEW base, NEW held, Accounts(pmm, base, held),
         NEW f \in held
  PROVE  Accounts(pmm_free(pmm, <<f>>), base, held \ {f})
<1>1. IsFiniteSet({1})
  BY FS_Singleton
<1>2. <<f>> \in Bijection({1}, {f})
  <2>1. <<f>> \in [{1} -> {f}] /\ <<f>>[1] = f
    OBVIOUS
  <2> QED
    BY <2>1 DEF Bijection, Injection, Surjection, IsInjective
<1> QED
  BY <1>1, <1>2, FreeGives

----------------------------------------------------------------------------
(* Numbers of pages, digit by digit *)

LEMMA TimesGrows ==
  ASSUME NEW a \in Nat, NEW b \in Nat, NEW d \in Nat, a <= b
  PROVE  a * d <= b * d /\ a * d \in Nat /\ b * d \in Nat
BY SMT

\* A quotient and a remainder are known by the number they make.
LEMMA Digits ==
  ASSUME NEW a \in Nat, NEW b \in Nat, NEW d \in Nat \ {0},
         NEW r \in 0 .. d - 1, NEW s \in 0 .. d - 1, a * d + r = b * d + s
  PROVE  a = b /\ r = s
<1>1. ~(a + 1 <= b)
  <2> SUFFICES ASSUME a + 1 <= b PROVE FALSE
    OBVIOUS
  <2>1. (a + 1) * d <= b * d
    BY TimesGrows
  <2>2. (a + 1) * d = a * d + d /\ a * d \in Nat /\ b * d \in Nat
    BY SMT
  <2> QED
    BY <2>1, <2>2
<1>2. ~(b + 1 <= a)
  <2> SUFFICES ASSUME b + 1 <= a PROVE FALSE
    OBVIOUS
  <2>1. (b + 1) * d <= a * d
    BY TimesGrows
  <2>2. (b + 1) * d = b * d + d /\ a * d \in Nat /\ b * d \in Nat
    BY SMT
  <2> QED
    BY <2>1, <2>2
<1>3. a = b
  BY <1>1, <1>2
<1>4. a * d \in Nat
  BY SMT
<1> QED
  BY <1>3, <1>4

LEMMA Division ==
  ASSUME NEW x \in Nat, NEW d \in Nat \ {0}
  PROVE  /\ x \div d \in Nat /\ x % d \in 0 .. d - 1
         /\ x = (x \div d) * d + (x % d)
<1>1. x \div d \in Nat
  BY SMT
<1>2. x % d \in 0 .. d - 1
  BY SMT
<1>3. x = (x \div d) * d + (x % d)
  OBVIOUS
<1> QED
  BY <1>1, <1>2, <1>3

LEMMA QuotientIs ==
  ASSUME NEW d \in Nat \ {0}, NEW a \in Nat, NEW r \in 0 .. d - 1
  PROVE  (a * d + r) \div d = a /\ (a * d + r) % d = r
<1> DEFINE x == a * d + r
<1>1. x \in Nat
  BY SMT
<1>2. /\ x \div d \in Nat /\ x % d \in 0 .. d - 1
      /\ (x \div d) * d + (x % d) = a * d + r
  BY <1>1, Division
<1> HIDE DEF x
<1> QED
  BY <1>2, Digits DEF x

\* A quotient by one more factor, with the digit that is divided away.
LEMMA NextDigit ==
  ASSUME NEW x \in Nat, NEW e \in Nat \ {0}, NEW d \in Nat \ {0}
  PROVE  x \div d = (x \div (e * d)) * e + ((x \div d) % e)
<1> DEFINE q == x \div d
           r == x % d
           a == q \div e
           b == q % e
<1>1. q \in Nat /\ r \in 0 .. d - 1 /\ x = q * d + r
  BY Division
<1> HIDE DEF q, r
<1>2. a \in Nat /\ b \in 0 .. e - 1 /\ q = a * e + b
  BY <1>1, Division
<1> HIDE DEF a, b
<1>3. e * d \in Nat \ {0}
  BY SMT
<1>4. b * d + r \in 0 .. e * d - 1
  <2>1. (b + 1) * d <= e * d
    BY <1>2, TimesGrows
  <2>2. (b + 1) * d = b * d + d /\ b * d \in Nat
    BY <1>2, SMT
  <2>3. r \in Nat /\ r < d /\ e * d \in Nat
    BY <1>1, <1>3
  <2> QED
    BY <2>1, <2>2, <2>3
<1>5. x = a * (e * d) + (b * d + r)
  <2>1. q * d = a * (e * d) + b * d
    <3>1. (a * e + b) * d = a * (e * d) + b * d
      BY <1>2, SMT
    <3> QED
      BY <1>2, <3>1
  <2>2. a * (e * d) \in Nat /\ b * d \in Nat /\ r \in Nat
    BY <1>1, <1>2, <1>3, SMT
  <2> QED
    BY <1>1, <2>1, <2>2
<1>6. x \div (e * d) = a
  BY <1>2, <1>3, <1>4, <1>5, QuotientIs
<1>7. q = (x \div (e * d)) * e + (q % e)
  BY <1>2, <1>6 DEF b
<1> QED
  BY <1>7 DEF q

----------------------------------------------------------------------------
(* A space as a tree.  Every page it consists of has a height: its root's  *)
(* is PAGING_LEVELS, a mapped page's is zero.  It covers the numbers of    *)
(* pages that give `num' when divided by Span of its height.               *)

\* Which entries of a table lead on: of the root only the program's half.
Below(root, f) == IF f = root THEN Indices \ Upper ELSE Indices

Ways(entries, root, height, f) ==
  {i \in Below(root, f) : height[f] > 0 /\ entries[f][i].present}

\* The first page above the program's half.
LowerEnd == ((PAGING_ENTRIES + 1) \div 2) * Span[PAGING_LEVELS - 1]

\* No two are in one place, and all but the root are in the program's half.
Placed(root, height, num) ==
  /\ DOMAIN height \subseteq Frames
  /\ height \in [DOMAIN height -> 0 .. PAGING_LEVELS]
  /\ num \in [DOMAIN height -> Nat]
  /\ root \in DOMAIN height /\ height[root] = PAGING_LEVELS /\ num[root] = 0
  /\ \A f \in DOMAIN height \ {root} :
       height[f] < PAGING_LEVELS /\ (num[f] + 1) * Span[height[f]] <= LowerEnd
  /\ \A f, g \in DOMAIN height : height[f] = height[g] /\ num[f] = num[g] => f = g

\* Entry i of f, when there is one, leads to a page in its place.
LeadsOn(height, num, entry, f, i) ==
  /\ ~entry.huge
  /\ entry.addr \in DOMAIN height
  /\ height[entry.addr] = height[f] - 1
  /\ num[entry.addr] = num[f] * PAGING_ENTRIES + i

AllLead(entries, root, height, num) ==
  \A f \in DOMAIN height : \A i \in Ways(entries, root, height, f) :
    LeadsOn(height, num, entries[f][i], f, i)

\* Some entry leads there.
Reached(entries, root, height, g) ==
  \E f \in DOMAIN height : \E i \in Ways(entries, root, height, f) :
    entries[f][i].addr = g

Tree(entries, root, height, num) ==
  /\ Placed(root, height, num)
  /\ AllLead(entries, root, height, num)
  /\ \A g \in DOMAIN height \ {root} : Reached(entries, root, height, g)

\* What a tree is made of says where it leads, and no more.
SameWays(height, entries, after) ==
  \A f \in DOMAIN height : \A i \in Indices :
    height[f] > 0 =>
      /\ after[f][i].present = entries[f][i].present
      /\ after[f][i].huge = entries[f][i].huge
      /\ after[f][i].addr = entries[f][i].addr

LEMMA TreeStays ==
  ASSUME NEW entries, NEW root, NEW height, NEW num, Tree(entries, root, height, num),
         NEW after, SameWays(height, entries, after)
  PROVE  Tree(after, root, height, num)
<1>1. \A f \in DOMAIN height :
        /\ Ways(after, root, height, f) = Ways(entries, root, height, f)
        /\ \A i \in Ways(after, root, height, f) :
             /\ after[f][i].huge = entries[f][i].huge
             /\ after[f][i].addr = entries[f][i].addr
  BY DEF Ways, SameWays, Below
<1>2. AllLead(after, root, height, num)
  BY <1>1 DEF Tree, AllLead, LeadsOn
<1>3. ASSUME NEW g \in DOMAIN height \ {root} PROVE Reached(after, root, height, g)
  <2>1. Reached(entries, root, height, g)
    BY DEF Tree
  <2> QED
    BY <1>1, <2>1 DEF Reached
<1> QED
  BY <1>2, <1>3 DEF Tree

\* A page put where entry i of f led nowhere.
HeightWith(height, f, g) ==
  [x \in DOMAIN height \cup {g} |-> IF x = g THEN height[f] - 1 ELSE height[x]]
NumWith(num, f, i, g) ==
  [x \in DOMAIN num \cup {g} |-> IF x = g THEN num[f] * PAGING_ENTRIES + i ELSE num[x]]

\* The entry leads to it, no other has changed, and nothing leads on from it.
Grafted(entries, after, height, f, i, g) ==
  /\ after[f][i].present /\ ~after[f][i].huge /\ after[f][i].addr = g
  /\ \A j \in Indices \ {i} : after[f][j] = entries[f][j]
  /\ \A x \in DOMAIN height \ {f} : after[x] = entries[x]
  /\ height[f] > 1 => \A j \in Indices : ~after[g][j].present

\* It is in the program's half, too.
LEMMA GraftLow ==
  ASSUME NEW root, NEW height, NEW num, Placed(root, height, num),
         NEW f \in DOMAIN height, height[f] > 0, NEW i \in Below(root, f)
  PROVE  (num[f] * PAGING_ENTRIES + i + 1) * Span[height[f] - 1] <= LowerEnd
<1> DEFINE s == Span[height[f] - 1]
           e == PAGING_ENTRIES
           h == height[f]
<1>1. /\ e \in Nat \ {0} /\ i \in 0 .. e - 1 /\ num[f] \in Nat /\ h \in 1 .. PAGING_LEVELS
      /\ PAGING_LEVELS \in Nat
  BY PagingAssumption DEF Placed, Below, Indices
<1>2. h - 1 \in 0 .. PAGING_LEVELS - 1 /\ (h - 1) + 1 = h
  BY <1>1
<1>3. s \in Nat \ {0} /\ Span[h] = e * s
  <2>1. Span[(h - 1) + 1] = PAGING_ENTRIES * Span[h - 1]
    <3> HIDE DEF h
    <3> QED
      BY <1>2, PowersAssumption
  <2>2. h - 1 \in 0 .. PAGING_LEVELS
    BY <1>1
  <2>3. Span[h - 1] \in Nat \ {0}
    <3> HIDE DEF h
    <3> QED
      BY <2>2, PowersAssumption
  <2> QED
    BY <1>2, <2>1, <2>3
<1>4. CASE f = root
  <2>1. 2 * i < e /\ num[f] = 0 /\ h = PAGING_LEVELS
    BY <1>1, <1>4 DEF Below, Upper, Placed
  <2>2. i + 1 <= (e + 1) \div 2 /\ (e + 1) \div 2 \in Nat
    BY <1>1, <2>1
  <2>3. num[f] * e + i + 1 = i + 1
    BY <1>1, <2>1
  <2>4. (i + 1) * s <= ((e + 1) \div 2) * s
    <3> HIDE DEF s, e
    <3> QED
      BY <1>1, <1>3, <2>2, TimesGrows
  <2> QED
    BY <2>1, <2>3, <2>4 DEF LowerEnd
<1>5. CASE f # root
  <2>1. (num[f] + 1) * Span[h] <= LowerEnd
    BY <1>5 DEF Placed
  <2> DEFINE n == num[f]
  <2>2. LowerEnd \in Nat
    <3>1. PAGING_LEVELS - 1 \in 0 .. PAGING_LEVELS
      BY PagingAssumption
    <3>2. Span[PAGING_LEVELS - 1] \in Nat
      BY <3>1, PowersAssumption
    <3>3. (e + 1) \div 2 \in Nat
      BY <1>1
    <3> HIDE DEF e
    <3> QED
      BY <3>2, <3>3, TimesGrows DEF LowerEnd, e
  <2> HIDE DEF n, s, e, h
  <2>3. (n + 1) * e = n * e + e /\ n * e \in Nat
    BY <1>1, SMT DEF n
  <2>4. n * e + i + 1 <= (n + 1) * e
    BY <1>1, <2>3
  <2>5. (n * e + i + 1) * s <= ((n + 1) * e) * s
    <3>1. n * e + i + 1 \in Nat /\ (n + 1) * e \in Nat
      BY <1>1, <2>3
    <3> QED
      BY <1>3, <2>4, <3>1, TimesGrows
  <2>6. ((n + 1) * e) * s = (n + 1) * (e * s)
    <3>1. n \in Nat
      BY <1>1 DEF n
    <3> QED
      BY <1>1, <1>3, <3>1, SMT
  <2>7. (n * e + i + 1) * s <= LowerEnd
    <3>1. (n * e + i + 1) * s \in Nat /\ (n + 1) * (e * s) \in Nat
      <4>1. n \in Nat /\ n * e + i + 1 \in Nat /\ (n + 1) * e \in Nat
        BY <1>1, <2>3 DEF n
      <4> QED
        BY <1>1, <1>3, <4>1, <2>6, TimesGrows
    <3>2. (n + 1) * (e * s) <= LowerEnd
      BY <2>1, <1>3 DEF n
    <3> QED
      BY <2>2, <2>5, <2>6, <3>1, <3>2
  <2> QED
    BY <2>7 DEF n, s, e, h
<1> QED
  BY <1>4, <1>5

\* Nothing was in the place that an empty entry leads to.
LEMMA GraftFree ==
  ASSUME NEW entries, NEW root, NEW height, NEW num, Tree(entries, root, height, num),
         NEW f \in DOMAIN height, height[f] > 0, NEW i \in Below(root, f),
         ~entries[f][i].present,
         NEW x \in DOMAIN height, height[x] = height[f] - 1,
         num[x] = num[f] * PAGING_ENTRIES + i
  PROVE  FALSE
<1>1. /\ \A y \in DOMAIN height : height[y] \in 0 .. PAGING_LEVELS /\ num[y] \in Nat
      /\ height[root] = PAGING_LEVELS
      /\ PAGING_ENTRIES \in Nat \ {0} /\ PAGING_LEVELS \in Nat
  BY PagingAssumption DEF Tree, Placed
<1>2. x # root
  BY <1>1
<1>3. PICK g \in DOMAIN height : \E j \in Ways(entries, root, height, g) :
        entries[g][j].addr = x
  BY <1>2 DEF Tree, Reached
<1>4. PICK j \in Ways(entries, root, height, g) : entries[g][j].addr = x
  BY <1>3
<1>5. height[x] = height[g] - 1 /\ num[x] = num[g] * PAGING_ENTRIES + j
  BY <1>4 DEF Tree, AllLead, LeadsOn
<1>6. height[g] = height[f]
  BY <1>1, <1>5
<1>7. num[g] = num[f] /\ j = i
  <2>1. i \in 0 .. PAGING_ENTRIES - 1 /\ j \in 0 .. PAGING_ENTRIES - 1
    BY <1>4 DEF Ways, Below, Indices
  <2>2. num[g] * PAGING_ENTRIES + j = num[f] * PAGING_ENTRIES + i
    BY <1>5
  <2>3. num[g] \in Nat /\ num[f] \in Nat /\ PAGING_ENTRIES \in Nat \ {0}
    BY <1>1
  <2> DEFINE p == num[g]
             q == num[f]
             e == PAGING_ENTRIES
  <2> HIDE DEF p, q, e
  <2>4. /\ p \in Nat /\ q \in Nat /\ e \in Nat \ {0} /\ p * e + j = q * e + i
        /\ i \in 0 .. e - 1 /\ j \in 0 .. e - 1
    BY <2>1, <2>2, <2>3 DEF p, q, e
  <2>5. p = q /\ j = i
    BY <2>4, Digits
  <2> QED
    BY <2>5 DEF p, q
<1>8. g = f
  BY <1>6, <1>7 DEF Tree, Placed
<1> QED
  BY <1>4, <1>7, <1>8 DEF Ways

LEMMA GraftKeeps ==
  ASSUME NEW entries, NEW root, NEW height, NEW num, Tree(entries, root, height, num),
         NEW f \in DOMAIN height, height[f] > 0, NEW i \in Below(root, f),
         ~entries[f][i].present,
         NEW g \in Frames \ DOMAIN height,
         NEW after, Grafted(entries, after, height, f, i, g)
  PROVE  Tree(after, root, HeightWith(height, f, g), NumWith(num, f, i, g))
<1> DEFINE H == HeightWith(height, f, g)
           N == NumWith(num, f, i, g)
           D == DOMAIN height
<1>0. /\ \A y \in D : height[y] \in 0 .. PAGING_LEVELS /\ num[y] \in Nat
      /\ DOMAIN num = D /\ D \subseteq Frames /\ root \in D
      /\ height[root] = PAGING_LEVELS /\ num[root] = 0
      /\ PAGING_ENTRIES \in Nat \ {0} /\ PAGING_LEVELS \in Nat \ {0}
      /\ i \in 0 .. PAGING_ENTRIES - 1 /\ i \in Indices
  BY PagingAssumption DEF Tree, Placed, Below, Indices
<1>1. /\ DOMAIN H = D \cup {g} /\ DOMAIN N = D \cup {g}
      /\ \A y \in D : H[y] = height[y] /\ N[y] = num[y]
      /\ H[g] = height[f] - 1 /\ N[g] = num[f] * PAGING_ENTRIES + i
  BY <1>0 DEF HeightWith, NumWith
<1>2. H \in [D \cup {g} -> 0 .. PAGING_LEVELS] /\ N \in [D \cup {g} -> Nat]
  <2>1. height[f] - 1 \in 0 .. PAGING_LEVELS
    BY <1>0
  <2>2. num[f] * PAGING_ENTRIES + i \in Nat
    BY <1>0
  <2> QED
    BY <1>0, <2>1, <2>2 DEF HeightWith, NumWith
<1> HIDE DEF H, N
<1>3. Placed(root, H, N)
  <2>1. \A y \in (D \cup {g}) \ {root} :
          H[y] < PAGING_LEVELS /\ (N[y] + 1) * Span[H[y]] <= LowerEnd
    <3>1. H[g] < PAGING_LEVELS /\ (N[g] + 1) * Span[H[g]] <= LowerEnd
      <4>1. Placed(root, height, num)
        BY DEF Tree
      <4> QED
        BY <4>1, <1>0, <1>1, GraftLow
    <3>2. \A y \in D \ {root} :
            height[y] < PAGING_LEVELS /\ (num[y] + 1) * Span[height[y]] <= LowerEnd
      BY DEF Tree, Placed
    <3> QED
      BY <1>1, <3>1, <3>2
  <2>2. \A x, y \in D \cup {g} : H[x] = H[y] /\ N[x] = N[y] => x = y
    <3>1. \A y \in D : ~(H[y] = H[g] /\ N[y] = N[g])
      BY <1>1, GraftFree
    <3>2. \A x, y \in D : height[x] = height[y] /\ num[x] = num[y] => x = y
      BY DEF Tree, Placed
    <3> QED
      BY <1>1, <3>1, <3>2
  <2> QED
    BY <1>0, <1>1, <1>2, <2>1, <2>2 DEF Placed
<1>4. /\ after[f][i].present /\ ~after[f][i].huge /\ after[f][i].addr = g
      /\ \A y \in D : \A j \in Indices : (y # f \/ j # i) => after[y][j] = entries[y][j]
      /\ \A j \in Ways(after, root, H, g) : FALSE
  <2>1. \A j \in Ways(after, root, H, g) : FALSE
    BY <1>0, <1>1 DEF Ways, Below, Grafted
  <2> QED
    BY <2>1 DEF Grafted
<1>5. \A y \in D : \A j \in Ways(after, root, H, y) :
        \/ y = f /\ j = i
        \/ j \in Ways(entries, root, height, y) /\ after[y][j] = entries[y][j]
  BY <1>1, <1>4 DEF Ways, Below
<1>6. AllLead(after, root, H, N)
  <2> SUFFICES ASSUME NEW y \in D \cup {g}, NEW j \in Ways(after, root, H, y)
               PROVE  LeadsOn(H, N, after[y][j], y, j)
    BY <1>1 DEF AllLead
  <2>1. y \in D
    BY <1>4
  <2>2. CASE y = f /\ j = i
    BY <2>2, <1>1, <1>4 DEF LeadsOn
  <2>3. CASE j \in Ways(entries, root, height, y) /\ after[y][j] = entries[y][j]
    <3>1. LeadsOn(height, num, entries[y][j], y, j)
      BY <2>1, <2>3 DEF Tree, AllLead
    <3> QED
      BY <2>1, <2>3, <3>1, <1>1 DEF LeadsOn
  <2> QED
    BY <2>1, <2>2, <2>3, <1>5
<1>7. ASSUME NEW x \in (D \cup {g}) \ {root} PROVE Reached(after, root, H, x)
  <2>1. CASE x = g
    <3>1. i \in Ways(after, root, H, f)
      BY <1>1, <1>4 DEF Ways
    <3> QED
      BY <2>1, <3>1, <1>1, <1>4 DEF Reached
  <2>2. CASE x \in D
    <3>1. PICK y \in D : \E j \in Ways(entries, root, height, y) : entries[y][j].addr = x
      BY <2>2 DEF Tree, Reached
    <3>2. PICK j \in Ways(entries, root, height, y) : entries[y][j].addr = x
      BY <3>1
    <3>3. y # f \/ j # i
      BY <3>2 DEF Ways
    <3>4. j \in Indices
      BY DEF Ways, Below
    <3>5. j \in Ways(after, root, H, y) /\ after[y][j].addr = x
      BY <3>2, <3>3, <3>4, <1>1, <1>4 DEF Ways
    <3> QED
      BY <3>5, <1>1 DEF Reached
  <2> QED
    BY <2>1, <2>2
<1> QED
  BY <1>1, <1>3, <1>6, <1>7 DEF Tree, H, N

----------------------------------------------------------------------------
(* Building a space *)

\* What a program must never reach: the kernel's tables, and the kernel's half
\* of its own root.
KernelKept(entries, root) ==
  /\ \A f \in DOMAIN KernelTables : entries[f] = KernelTables[f]
  /\ \A i \in Upper : entries[root][i] = KernelTables[KERNEL_ROOT][i]

\* A space that consists of `height' and `num', where the pages of `at' are
\* mapped, and of the allocator's pages has these and `extra'.
Built(mem, space, height, num, base, at, extra) ==
  /\ mem \in Memory /\ space \in Space
  /\ base \cap DOMAIN KernelTables = {}
  /\ Tree(mem.entries, space.root, height, num)
  /\ Accounts(mem.pmm, base, DOMAIN height \cup extra)
  /\ DOMAIN height \cap extra = {}
  /\ DOMAIN at = {f \in DOMAIN height : height[f] = 0}
  /\ \A f \in DOMAIN at : num[f] = at[f]
  /\ space.tables = Cardinality(DOMAIN height \ DOMAIN at)
  /\ KernelKept(mem.entries, space.root)

\* Entry i of f leads to g, where it led nowhere, and g leads nowhere.
Added(mem, after, f, i, g) ==
  LET entry == after.entries[f][i]
  IN  /\ entry.present /\ ~entry.huge /\ entry.addr = g
      /\ \A j \in Indices \ {i} : after.entries[f][j] = mem.entries[f][j]
      /\ \A x \in Frames \ {f, g} : after.entries[x] = mem.entries[x]

LEMMA BuiltIn ==
  ASSUME NEW mem, NEW space, NEW height, NEW num, NEW base, NEW at, NEW extra,
         Built(mem, space, height, num, base, at, extra)
  PROVE  /\ DOMAIN height \subseteq base /\ base \subseteq Frames /\ extra \subseteq base
         /\ IsFiniteSet(DOMAIN height) /\ 0 \notin base
         /\ space.root \in DOMAIN height /\ height[space.root] = PAGING_LEVELS
         /\ \A f \in DOMAIN height : height[f] = PAGING_LEVELS => f = space.root
<1>1. Accounts(mem.pmm, base, DOMAIN height \cup extra) /\ Placed(space.root, height, num)
  BY DEF Built, Tree
<1>2. DOMAIN height \subseteq base /\ base \subseteq Frames /\ 0 \notin base /\ extra \subseteq base
  BY <1>1 DEF Accounts, KernelPmm
<1>3. IsFiniteSet(Frames)
  BY PagingAssumption, FS_Interval DEF Frames
<1>4. IsFiniteSet(DOMAIN height)
  BY <1>2, <1>3, FS_Subset
<1>5. PAGING_LEVELS \in Nat
  BY PagingAssumption
<1> QED
  BY <1>1, <1>2, <1>4, <1>5 DEF Placed

LEMMA AddedKeepsKernel ==
  ASSUME NEW mem, NEW space, NEW height, NEW num, NEW base, NEW at, NEW extra,
         Built(mem, space, height, num, base, at, extra),
         NEW f \in DOMAIN height, NEW i \in Below(space.root, f),
         NEW g \in base \ DOMAIN height,
         NEW after, Added(mem, after, f, i, g)
  PROVE  KernelKept(after.entries, space.root)
<1>1. /\ DOMAIN height \subseteq base /\ base \subseteq Frames /\ space.root \in DOMAIN height
      /\ base \cap DOMAIN KernelTables = {} /\ KernelKept(mem.entries, space.root)
  <2>1. DOMAIN height \subseteq base /\ base \subseteq Frames /\ space.root \in DOMAIN height
    BY BuiltIn
  <2> QED
    BY <2>1 DEF Built
<1>2. DOMAIN KernelTables \subseteq Frames
  BY PagingAssumption
<1>3. ASSUME NEW x \in DOMAIN KernelTables PROVE after.entries[x] = KernelTables[x]
  <2>1. x \in Frames \ {f, g}
    BY <1>1, <1>2
  <2> QED
    BY <2>1, <1>1 DEF Added, KernelKept
<1>4. ASSUME NEW j \in Upper
      PROVE  after.entries[space.root][j] = KernelTables[KERNEL_ROOT][j]
  <2>1. after.entries[space.root][j] = mem.entries[space.root][j]
    <3>1. CASE f = space.root
      <4>1. j \in Indices \ {i}
        BY <3>1 DEF Below, Upper
      <4> QED
        BY <3>1, <4>1 DEF Added
    <3>2. CASE f # space.root
      <4>1. space.root \in Frames \ {f, g}
        BY <3>2, <1>1
      <4> QED
        BY <4>1 DEF Added
    <3> QED
      BY <3>1, <3>2
  <2> QED
    BY <2>1, <1>1 DEF KernelKept
<1> QED
  BY <1>3, <1>4 DEF KernelKept

\* What Added says, for the tree.
LEMMA AddedGrafts ==
  ASSUME NEW mem, NEW space, NEW height, NEW num, NEW base, NEW at, NEW extra,
         Built(mem, space, height, num, base, at, extra),
         NEW f \in DOMAIN height, height[f] > 0, NEW i \in Below(space.root, f),
         ~mem.entries[f][i].present,
         NEW g \in base \ DOMAIN height,
         NEW after, Added(mem, after, f, i, g),
         height[f] > 1 => \A j \in Indices : ~after.entries[g][j].present
  PROVE  Tree(after.entries, space.root, HeightWith(height, f, g), NumWith(num, f, i, g))
<1>1. DOMAIN height \subseteq base /\ base \subseteq Frames
  BY BuiltIn
<1>2. \A x \in DOMAIN height \ {f} : x \in Frames \ {f, g}
  BY <1>1
<1>3. Grafted(mem.entries, after.entries, height, f, i, g)
  BY <1>2 DEF Added, Grafted
<1>4. Tree(mem.entries, space.root, height, num) /\ g \in Frames \ DOMAIN height
  BY <1>1 DEF Built
<1> DEFINE before == mem.entries
           now == after.entries
           root == space.root
<1> HIDE DEF before, now, root
<1>5. Tree(now, root, HeightWith(height, f, g), NumWith(num, f, i, g))
  <2>1. /\ Tree(before, root, height, num) /\ Grafted(before, now, height, f, i, g)
        /\ i \in Below(root, f) /\ ~before[f][i].present
    BY <1>3, <1>4 DEF before, now, root
  <2> QED
    BY <2>1, <1>4, GraftKeeps
<1> QED
  BY <1>5 DEF now, root

\* A table more, in a page the allocator handed out.
LEMMA TableAdded ==
  ASSUME NEW mem, NEW space, NEW height, NEW num, NEW base, NEW at, NEW extra,
         Built(mem, space, height, num, base, at, extra),
         NEW f \in DOMAIN height, height[f] > 1, NEW i \in Below(space.root, f),
         ~mem.entries[f][i].present,
         NEW g, g = pmm_alloc(mem.pmm).phys, g # PMM_NONE,
         NEW after \in Memory, after.pmm = pmm_alloc(mem.pmm).pmm,
         Added(mem, after, f, i, g), \A j \in Indices : ~after.entries[g][j].present,
         NEW longer \in Space, longer.root = space.root, longer.tables = space.tables + 1
  PROVE  /\ Built(after, longer, HeightWith(height, f, g), NumWith(num, f, i, g),
                  base, at, extra)
         /\ g \notin DOMAIN height \cup extra
<1> DEFINE D == DOMAIN height
           H == HeightWith(height, f, g)
           N == NumWith(num, f, i, g)
<1>0. /\ D \subseteq base /\ base \subseteq Frames /\ extra \subseteq base /\ IsFiniteSet(D)
      /\ DOMAIN num = D /\ height[f] \in Nat
  <2>1. Placed(space.root, height, num)
    BY DEF Built, Tree
  <2>2. height[f] \in Nat /\ DOMAIN num = D
    BY <2>1, PagingAssumption DEF Placed
  <2> QED
    BY <2>2, BuiltIn
<1>1. /\ g \in base \ (D \cup extra)
      /\ Accounts(after.pmm, base, (D \cup extra) \cup {g})
  BY AllocTakes DEF Built
<1>2. Tree(after.entries, longer.root, H, N)
  BY <1>0, <1>1, AddedGrafts
<1>3. /\ DOMAIN H = D \cup {g} /\ H[g] = height[f] - 1 /\ H[g] # 0
      /\ \A x \in D : H[x] = height[x] /\ N[x] = num[x]
  BY <1>0, <1>1 DEF HeightWith, NumWith
<1>4. DOMAIN at = {x \in DOMAIN H : H[x] = 0}
  BY <1>3 DEF Built
<1>5. Cardinality(DOMAIN H \ DOMAIN at) = Cardinality(D \ DOMAIN at) + 1
  <2>1. DOMAIN at \subseteq D
    BY DEF Built
  <2>2. DOMAIN H \ DOMAIN at = (D \ DOMAIN at) \cup {g}
    BY <1>1, <1>3, <2>1
  <2>3. IsFiniteSet(D \ DOMAIN at)
    BY <1>0, FS_Subset
  <2> QED
    BY <1>1, <2>2, <2>3, FS_AddElement
<1>6. \A x \in DOMAIN at : N[x] = at[x]
  <2>1. DOMAIN at \subseteq D
    BY DEF Built
  <2> QED
    BY <1>3, <2>1 DEF Built
<1>7. KernelKept(after.entries, longer.root)
  BY <1>0, <1>1, AddedKeepsKernel
<1>8. Accounts(after.pmm, base, DOMAIN H \cup extra) /\ DOMAIN H \cap extra = {}
  <2>1. (D \cup extra) \cup {g} = DOMAIN H \cup extra
    BY <1>3
  <2> QED
    BY <1>1, <1>3, <2>1 DEF Built
<1>9. longer.tables = Cardinality(DOMAIN H \ DOMAIN at) /\ base \cap DOMAIN KernelTables = {}
  BY <1>5 DEF Built
<1> HIDE DEF H, N
<1>10. Built(after, longer, H, N, base, at, extra)
  BY <1>2, <1>4, <1>6, <1>7, <1>8, <1>9 DEF Built
<1> QED
  BY <1>1, <1>10 DEF H, N

\* What is mapped, and one page more.
With(at, g, page) == [x \in DOMAIN at \cup {g} |-> IF x = g THEN page ELSE at[x]]

\* A page mapped, which the allocator had handed out before.
LEMMA PageAdded ==
  ASSUME NEW mem, NEW space, NEW height, NEW num, NEW base, NEW at, NEW extra,
         Built(mem, space, height, num, base, at, extra),
         NEW f \in DOMAIN height, height[f] = 1, NEW i \in Below(space.root, f),
         ~mem.entries[f][i].present,
         NEW g \in extra,
         NEW after \in Memory, after.pmm = mem.pmm, Added(mem, after, f, i, g)
  PROVE  Built(after, space, HeightWith(height, f, g), NumWith(num, f, i, g), base,
               With(at, g, num[f] * PAGING_ENTRIES + i), extra \ {g})
<1> DEFINE D == DOMAIN height
           H == HeightWith(height, f, g)
           N == NumWith(num, f, i, g)
           now == With(at, g, num[f] * PAGING_ENTRIES + i)
<1>0. /\ D \subseteq base /\ base \subseteq Frames /\ extra \subseteq base /\ IsFiniteSet(D)
      /\ DOMAIN num = D /\ DOMAIN at \subseteq D /\ g \in base \ D
  <2>1. Placed(space.root, height, num)
    BY DEF Built, Tree
  <2>2. DOMAIN num = D
    BY <2>1 DEF Placed
  <2>3. /\ D \subseteq base /\ base \subseteq Frames /\ extra \subseteq base
        /\ IsFiniteSet(D)
    BY BuiltIn
  <2> QED
    BY <2>2, <2>3 DEF Built
<1>1. Accounts(after.pmm, base, D \cup extra)
  BY DEF Built
<1>2. Tree(after.entries, space.root, H, N)
  BY <1>0, AddedGrafts
<1>3. /\ DOMAIN H = D \cup {g} /\ H[g] = 0 /\ N[g] = num[f] * PAGING_ENTRIES + i
      /\ \A x \in D : H[x] = height[x] /\ N[x] = num[x]
  BY <1>0 DEF HeightWith, NumWith
<1>4. DOMAIN now = {x \in DOMAIN H : H[x] = 0}
  BY <1>3 DEF Built, With
<1>5. DOMAIN H \ DOMAIN now = D \ DOMAIN at
  BY <1>0, <1>3 DEF With
<1>6. \A x \in DOMAIN now : N[x] = now[x]
  BY <1>0, <1>3 DEF Built, With
<1>7. KernelKept(after.entries, space.root)
  BY <1>0, AddedKeepsKernel
<1>8. /\ Accounts(after.pmm, base, DOMAIN H \cup (extra \ {g}))
      /\ DOMAIN H \cap (extra \ {g}) = {}
  <2>1. D \cup extra = DOMAIN H \cup (extra \ {g})
    BY <1>3
  <2> QED
    BY <1>1, <1>3, <2>1 DEF Built
<1>9. /\ space.tables = Cardinality(DOMAIN H \ DOMAIN now) /\ space \in Space
      /\ base \cap DOMAIN KernelTables = {}
  BY <1>5 DEF Built
<1> HIDE DEF H, N, now
<1>10. Built(after, space, H, N, base, now, extra \ {g})
  BY <1>2, <1>4, <1>6, <1>7, <1>8, <1>9 DEF Built
<1> QED
  BY <1>10 DEF H, N, now

----------------------------------------------------------------------------
(* Walking down a space, and making it reach further *)

\* A page of the program's half.
InHalf(page) == page \in Page /\ paging_index(page, PAGING_LEVELS - 1) \in Indices \ Upper

\* Each level divides one digit less away.
LEMMA PlaceBelow ==
  ASSUME NEW page, InHalf(page), NEW h \in 1 .. PAGING_LEVELS
  PROVE  /\ paging_index(page, h - 1) \in Indices
         /\ page \div Span[h - 1]
              = (page \div Span[h]) * PAGING_ENTRIES + paging_index(page, h - 1)
         /\ \A root, f : (f = root => h = PAGING_LEVELS)
                           => paging_index(page, h - 1) \in Below(root, f)
<1>1. /\ page \in Nat /\ h - 1 \in 0 .. PAGING_LEVELS /\ h - 1 \in 0 .. PAGING_LEVELS - 1
      /\ (h - 1) + 1 = h /\ PAGING_ENTRIES \in Nat \ {0}
  BY PagingAssumption DEF InHalf, Page
<1>2. paging_index(page, h - 1) \in Indices
  BY <1>1, IndexTyped
<1>3. Span[h - 1] \in Nat \ {0} /\ Span[h] = PAGING_ENTRIES * Span[h - 1]
  BY <1>1, PowersAssumption
<1>4. page \div Span[h - 1]
        = (page \div (PAGING_ENTRIES * Span[h - 1])) * PAGING_ENTRIES
            + ((page \div Span[h - 1]) % PAGING_ENTRIES)
  BY <1>1, <1>3, NextDigit
<1>5. page \div Span[h - 1]
        = (page \div Span[h]) * PAGING_ENTRIES + paging_index(page, h - 1)
  BY <1>3, <1>4 DEF paging_index
<1> QED
  BY <1>2, <1>5 DEF Below, InHalf

\* At the top nothing is left.
LEMMA PlaceOfRoot ==
  ASSUME NEW page \in Page
  PROVE  page \div Span[PAGING_LEVELS] = 0
<1>1. /\ PAGING_LEVELS \in 0 .. PAGING_LEVELS /\ Span[PAGING_LEVELS] = VIRT_PAGES
  BY PagingAssumption DEF Span
<1>2. Span[PAGING_LEVELS] \in Nat \ {0}
  BY <1>1, PowersAssumption
<1>3. page \in 0 .. Span[PAGING_LEVELS] - 1
  BY <1>1 DEF Page
<1> DEFINE s == Span[PAGING_LEVELS]
<1>4. (0 * s + page) \div s = 0
  <2> HIDE DEF s
  <2> QED
    BY <1>2, <1>3, QuotientIs DEF s
<1>5. 0 * s + page = page
  BY <1>2, <1>3
<1> QED
  BY <1>4, <1>5

\* A walk has come to the table of the page's place at height h.
Stands(w, height, num, page, h) ==
  w.result = "OK" =>
    w.table \in DOMAIN height /\ height[w.table] = h /\ num[w.table] = page \div Span[h]

SameBytes(mem, after, frames) == \A f \in frames : after.bytes[f] = mem.bytes[f]

\* A walk that makes what tables it needs, `before' being the memory it began in.
Growing(w, root, page, h, base, at, extra, before) ==
  /\ w \in Walks /\ w.space.root = root
  /\ SameBytes(before, w.mem, DOMAIN at \cup extra)
  /\ \E height, num : /\ Built(w.mem, w.space, height, num, base, at, extra)
                      /\ Stands(w, height, num, page, h)

\* It is about to go through entry i of the table it stands in.
Going(w, i, height, num, base, at, extra) ==
  /\ w \in Walks /\ Built(w.mem, w.space, height, num, base, at, extra)
  /\ w.table \in DOMAIN height /\ height[w.table] > 1
  /\ i \in Below(w.space.root, w.table)

\* It has gone into a table that was not there before.
GoneOn(w, next, i, height, num, base, at, extra) ==
  /\ next.table \notin DOMAIN height
  /\ Built(next.mem, next.space, HeightWith(height, w.table, next.table),
           NumWith(num, w.table, i, next.table), base, at, extra)
  /\ next.space.root = w.space.root
  /\ SameBytes(w.mem, next.mem, DOMAIN at \cup extra)

\* It makes one.
LEMMA GrowStep ==
  ASSUME NEW w, NEW i, NEW height, NEW num, NEW base, NEW at, NEW extra,
         Going(w, i, height, num, base, at, extra), ~w.mem.entries[w.table][i].present,
         fresh_table(w.mem, w.space).phys # PMM_NONE
  PROVE  GoneOn(w, grow(w, i, fresh_table(w.mem, w.space), TRUE), i,
                height, num, base, at, extra)
<1> DEFINE fresh == fresh_table(w.mem, w.space)
<1>a. /\ w \in Walks /\ Built(w.mem, w.space, height, num, base, at, extra)
      /\ w.table \in DOMAIN height /\ height[w.table] > 1
      /\ i \in Below(w.space.root, w.table)
  BY DEF Going
<1> DEFINE got == pmm_alloc(w.mem.pmm)
           f == w.table
           g == fresh.phys
           next == grow(w, i, fresh, TRUE)
           made == [w.mem EXCEPT !.pmm = got.pmm, !.entries[g] = ZeroTable,
                                 !.bytes[g] = ZeroPage]
<1>0. /\ w.mem \in Memory /\ w.space \in Space /\ f \in Frames
      /\ DOMAIN height \subseteq base /\ base \subseteq Frames
      /\ i \in Indices
  <2>1. w.mem \in Memory /\ w.space \in Space /\ f \in Frames
    BY <1>a DEF Walks
  <2>2. DOMAIN height \subseteq base /\ base \subseteq Frames
    BY <1>a, BuiltIn
  <2> QED
    BY <1>a, <2>1, <2>2 DEF Below
<1>1. got.phys # PMM_NONE /\ g = got.phys
  BY DEF fresh_table, table_in
<1>2. /\ fresh.mem = made
      /\ fresh.space = [w.space EXCEPT !.tables = w.space.tables + 1]
  BY <1>1 DEF fresh_table, table_in
<1>3. g \in base \ (DOMAIN height \cup extra) /\ g \in Frames
  <2>1. Accounts(w.mem.pmm, base, DOMAIN height \cup extra)
    BY <1>a DEF Built
  <2> QED
    BY <1>1, <2>1, AllocTakes
<1>4. fresh.mem \in Memory /\ fresh.space \in Space
  BY <1>0, FreshTyped
<1> DEFINE entry == table_entry(g, TRUE)
           after == [fresh.mem EXCEPT !.entries[f][i] = entry]
<1>5. next = [w EXCEPT !.mem = after, !.space = fresh.space, !.table = g]
  BY DEF grow
<1>6. next.mem = after /\ next.space = fresh.space /\ next.table = g
  <2> HIDE DEF after, g, next
  <2> QED
    BY <1>5, <1>a DEF Walks
<1>7. entry \in Entry /\ entry.present /\ ~entry.huge /\ entry.addr = g
  BY <1>3, ZeroTyped DEF table_entry, Entry, ZeroEntry
<1>8. after \in Memory
  <2> HIDE DEF entry
  <2> QED
    BY <1>4, <1>7, EntryTyped
<1>9. /\ made.pmm = got.pmm /\ made.entries[g] = ZeroTable
      /\ \A x \in Frames \ {g} : /\ made.entries[x] = w.mem.entries[x]
                                 /\ made.bytes[x] = w.mem.bytes[x]
      /\ made.entries \in [Frames -> [Indices -> Entry]]
  <2>1. made \in Memory
    BY <1>2, <1>4
  <2> QED
    BY <1>0, <1>3, <2>1 DEF Memory
<1>10. /\ after.pmm = made.pmm /\ after.bytes = made.bytes
       /\ after.entries = [made.entries EXCEPT ![f] = [made.entries[f] EXCEPT ![i] = entry]]
  <2>1. made \in Memory
    BY <1>2, <1>4
  <2> HIDE DEF made, entry
  <2> QED
    BY <1>2, <2>1 DEF Memory
<1>11. f # g
  BY <1>3, <1>a
<1> HIDE DEF made, got, entry, after
<1>12. after.entries[f][i] = entry
  BY <1>0, <1>9, <1>10
<1>13. \A j \in Indices \ {i} : after.entries[f][j] = w.mem.entries[f][j]
  BY <1>0, <1>9, <1>10, <1>11
<1>14. \A x \in Frames \ {f, g} : after.entries[x] = w.mem.entries[x]
  BY <1>0, <1>9, <1>10
<1>15. \A j \in Indices : ~after.entries[g][j].present
  <2>1. after.entries[g] = ZeroTable
    BY <1>3, <1>9, <1>10, <1>11
  <2> QED
    BY <2>1 DEF ZeroTable, ZeroEntry
<1>16. Added(w.mem, after, f, i, g)
  BY <1>7, <1>12, <1>13, <1>14 DEF Added
<1>17. fresh.space.root = w.space.root /\ fresh.space.tables = w.space.tables + 1
  BY <1>0, <1>2 DEF Space
<1>18. Built(after, fresh.space, HeightWith(height, f, g), NumWith(num, f, i, g),
             base, at, extra)
  <2> DEFINE m == w.mem
             space == w.space
             longer == fresh.space
  <2>1. /\ Built(m, space, height, num, base, at, extra)
        /\ f \in DOMAIN height /\ height[f] > 1 /\ i \in Below(space.root, f)
        /\ ~m.entries[f][i].present
        /\ g = pmm_alloc(m.pmm).phys /\ g # PMM_NONE /\ after \in Memory
        /\ after.pmm = pmm_alloc(m.pmm).pmm /\ Added(m, after, f, i, g)
        /\ longer \in Space /\ longer.root = space.root
        /\ longer.tables = space.tables + 1
    BY <1>a, <1>1, <1>4, <1>8, <1>9, <1>10, <1>16, <1>17 DEF got
  <2> HIDE DEF m, space, longer, f, g
  <2>2. Built(after, longer, HeightWith(height, f, g), NumWith(num, f, i, g), base, at, extra)
    BY <2>1, <1>15, TableAdded
  <2> QED
    BY <2>2 DEF longer
<1>19. SameBytes(w.mem, after, DOMAIN at \cup extra)
  <2>1. DOMAIN at \cup extra \subseteq Frames \ {g}
    <3>1. DOMAIN at \subseteq DOMAIN height /\ extra \subseteq base
      <4>1. extra \subseteq base
        BY <1>a, BuiltIn
      <4> QED
        BY <4>1, <1>a DEF Built
    <3> QED
      BY <1>0, <1>3, <3>1
  <2> QED
    BY <2>1, <1>9, <1>10 DEF SameBytes
<1> HIDE DEF next, g
<1> QED
  BY <1>3, <1>6, <1>17, <1>18, <1>19 DEF GoneOn, next, fresh, f

\* It follows one that is there, which is made writable, and the user's.
Widening(w, i) ==
  [w EXCEPT !.mem.entries[w.table][i] = widened(w.mem.entries[w.table][i], TRUE),
            !.table = w.mem.entries[w.table][i].addr]

FollowedOn(w, next, i, height, num, base, at, extra) ==
  /\ Built(next.mem, next.space, height, num, base, at, extra)
  /\ next.space = w.space /\ next.result = w.result
  /\ next.mem.bytes = w.mem.bytes
  /\ LeadsOn(height, num, w.mem.entries[w.table][i], w.table, i)
  /\ next.table = w.mem.entries[w.table][i].addr

LEMMA WidenStep ==
  ASSUME NEW w, NEW i, NEW height, NEW num, NEW base, NEW at, NEW extra,
         Going(w, i, height, num, base, at, extra), w.mem.entries[w.table][i].present
  PROVE  FollowedOn(w, Widening(w, i), i, height, num, base, at, extra)
<1>a. /\ w \in Walks /\ Built(w.mem, w.space, height, num, base, at, extra)
      /\ w.table \in DOMAIN height /\ height[w.table] > 1
      /\ i \in Below(w.space.root, w.table)
  BY DEF Going
<1> DEFINE f == w.table
           entry == w.mem.entries[f][i]
           wide == widened(entry, TRUE)
           after == [w.mem EXCEPT !.entries[f][i] = wide]
           root == w.space.root
           next == Widening(w, i)
<1>0. /\ w.mem \in Memory /\ w.space \in Space /\ f \in Frames /\ i \in Indices
      /\ entry \in Entry
  BY <1>a DEF Walks, Memory, Below
<1>1. /\ wide \in Entry /\ wide.present = entry.present /\ wide.huge = entry.huge
      /\ wide.addr = entry.addr
  <2> HIDE DEF entry
  <2> QED
    BY <1>0 DEF widened, Entry
<1>2. next = [w EXCEPT !.mem = after, !.table = entry.addr]
  BY DEF Widening
<1>3. /\ next.mem = after /\ next.table = entry.addr /\ next.space = w.space
      /\ next.result = w.result
  <2> HIDE DEF after, entry, next
  <2> QED
    BY <1>2, <1>a DEF Walks
<1>4. after \in Memory
  <2> HIDE DEF wide
  <2> QED
    BY <1>0, <1>1, EntryTyped
<1>5. /\ after.pmm = w.mem.pmm /\ after.bytes = w.mem.bytes
      /\ after.entries = [w.mem.entries EXCEPT ![f] = [w.mem.entries[f] EXCEPT ![i] = wide]]
  <2> HIDE DEF wide
  <2> QED
    BY <1>0 DEF Memory
<1> HIDE DEF after, wide
<1>6. /\ \A x \in Frames \ {f} : after.entries[x] = w.mem.entries[x]
      /\ \A j \in Indices \ {i} : after.entries[f][j] = w.mem.entries[f][j]
      /\ after.entries[f][i] = wide
  <2>1. w.mem.entries \in [Frames -> [Indices -> Entry]]
    BY <1>0 DEF Memory
  <2> QED
    BY <2>1, <1>0, <1>5
<1>7. /\ DOMAIN height \subseteq base /\ base \subseteq Frames /\ root \in DOMAIN height
      /\ height[root] = PAGING_LEVELS
  BY <1>a, BuiltIn
<1>8. SameWays(height, w.mem.entries, after.entries)
  <2> SUFFICES ASSUME NEW x \in DOMAIN height, NEW j \in Indices
               PROVE  /\ after.entries[x][j].present = w.mem.entries[x][j].present
                      /\ after.entries[x][j].huge = w.mem.entries[x][j].huge
                      /\ after.entries[x][j].addr = w.mem.entries[x][j].addr
    BY DEF SameWays
  <2>1. x \in Frames
    BY <1>7
  <2>2. CASE x = f /\ j = i
    BY <2>2, <1>1, <1>6
  <2>3. CASE x = f /\ j # i
    BY <2>3, <1>6
  <2>4. CASE x # f
    BY <2>1, <2>4, <1>6
  <2> QED
    BY <2>2, <2>3, <2>4
<1>9. Tree(after.entries, root, height, num)
  <2>1. Tree(w.mem.entries, root, height, num)
    BY <1>a DEF Built
  <2> QED
    BY <2>1, <1>8, TreeStays
<1>10. KernelKept(after.entries, root)
  <2>1. KernelKept(w.mem.entries, root) /\ base \cap DOMAIN KernelTables = {}
    BY <1>a DEF Built
  <2>2. DOMAIN KernelTables \subseteq Frames
    BY PagingAssumption
  <2>3. \A x \in DOMAIN KernelTables : x \in Frames \ {f}
    BY <2>1, <2>2, <1>7, <1>a
  <2>4. \A j \in Upper : after.entries[root][j] = w.mem.entries[root][j]
    <3>1. CASE f = root
      <4>1. i \notin Upper
        BY <3>1, <1>a DEF Below
      <4>2. \A j \in Upper : j \in Indices \ {i}
        BY <4>1 DEF Upper
      <4> QED
        BY <3>1, <4>2, <1>6
    <3>2. CASE f # root
      BY <3>2, <1>6, <1>7
    <3> QED
      BY <3>1, <3>2
  <2> QED
    BY <2>1, <2>3, <2>4, <1>6 DEF KernelKept
<1>11. Built(after, w.space, height, num, base, at, extra)
  BY <1>a, <1>4, <1>5, <1>9, <1>10 DEF Built
<1>12. LeadsOn(height, num, entry, f, i)
  <2>1. height[f] > 0
    <3>1. height[f] \in 0 .. PAGING_LEVELS /\ PAGING_LEVELS \in Nat
      BY <1>a, PagingAssumption DEF Built, Tree, Placed
    <3> QED
      BY <1>a, <3>1
  <2>2. i \in Ways(w.mem.entries, root, height, f)
    BY <2>1, <1>a DEF Ways
  <2> QED
    BY <2>2, <1>a DEF Built, Tree, AllLead
<1> HIDE DEF next
<1> QED
  BY <1>3, <1>5, <1>11, <1>12 DEF FollowedOn, next, f, entry

\* One level of a walk that makes tables.
LEMMA FollowGrows ==
  ASSUME NEW page, InHalf(page), NEW h \in 2 .. PAGING_LEVELS, NEW root,
         NEW base, NEW at, NEW extra, NEW before,
         NEW w, Growing(w, root, page, h, base, at, extra, before), w.result = "OK"
  PROVE  Growing(follow(w, paging_index(page, h - 1), TRUE, TRUE), root, page, h - 1,
                 base, at, extra, before)
<1> DEFINE i == paging_index(page, h - 1)
           next == follow(w, i, TRUE, TRUE)
           entry == w.mem.entries[w.table][i]
           fresh == fresh_table(w.mem, w.space)
<1>0. /\ w \in Walks /\ w.space.root = root /\ SameBytes(before, w.mem, DOMAIN at \cup extra)
  BY DEF Growing
<1>1. PICK height, num : /\ Built(w.mem, w.space, height, num, base, at, extra)
                         /\ Stands(w, height, num, page, h)
  BY DEF Growing
<1>2. /\ h \in 1 .. PAGING_LEVELS /\ h > 1 /\ h - 1 \in Nat
      /\ PAGING_LEVELS \in Nat
  BY PagingAssumption
<1>3. /\ i \in Indices
      /\ page \div Span[h - 1] = (page \div Span[h]) * PAGING_ENTRIES + i
      /\ \A f : (f = root => h = PAGING_LEVELS) => i \in Below(root, f)
  BY <1>2, PlaceBelow
<1>4. /\ w.table \in DOMAIN height /\ height[w.table] = h
      /\ num[w.table] = page \div Span[h] /\ height[w.table] > 1
  BY <1>1, <1>2 DEF Stands
<1>5. i \in Below(w.space.root, w.table)
  <2>1. height[w.space.root] = PAGING_LEVELS
    BY <1>1, BuiltIn
  <2> QED
    BY <2>1, <1>0, <1>3, <1>4
<1>6. next \in Walks
  BY <1>0, <1>3, FollowTyped
<1> SUFFICES Growing(next, root, page, h - 1, base, at, extra, before)
  OBVIOUS
<1> HIDE DEF i, next, entry, fresh
<1>6a. Going(w, i, height, num, base, at, extra)
  BY <1>0, <1>1, <1>4, <1>5 DEF Going
<1>7. ASSUME NEW result, next = [w EXCEPT !.result = result], result # "OK"
      PROVE  Growing(next, root, page, h - 1, base, at, extra, before)
  <2>1. /\ next.mem = w.mem /\ next.space = w.space /\ next.result # "OK"
    BY <1>0, <1>7 DEF Walks
  <2> QED
    BY <2>1, <1>0, <1>1, <1>6 DEF Growing, Stands
<1>8. CASE ~entry.present /\ fresh.phys = PMM_NONE
  <2>1. next = [w EXCEPT !.result = "NO_MEMORY"]
    BY <1>8 DEF follow, grow, next, entry, fresh
  <2> QED
    BY <2>1, <1>7
<1>9. CASE ~entry.present /\ fresh.phys # PMM_NONE
  <2>1. next = grow(w, i, fresh, TRUE)
    BY <1>9 DEF follow, next, entry, fresh
  <2> DEFINE g == next.table
             H == HeightWith(height, w.table, g)
             N == NumWith(num, w.table, i, g)
  <2>2. GoneOn(w, next, i, height, num, base, at, extra)
    <3>1. ~w.mem.entries[w.table][i].present /\ fresh_table(w.mem, w.space).phys # PMM_NONE
      BY <1>9 DEF entry, fresh
    <3>2. GoneOn(w, grow(w, i, fresh_table(w.mem, w.space), TRUE), i,
                 height, num, base, at, extra)
      BY <3>1, <1>6a, GrowStep
    <3> QED
      BY <2>1, <3>2 DEF fresh
  <2>3. /\ g \in DOMAIN H /\ H[g] = h - 1 /\ N[g] = page \div Span[h - 1]
    <3>1. DOMAIN num = DOMAIN height
      BY <1>1 DEF Built, Tree, Placed
    <3> HIDE DEF g
    <3> QED
      BY <3>1, <1>3, <1>4 DEF HeightWith, NumWith
  <2>4. SameBytes(before, next.mem, DOMAIN at \cup extra)
    BY <2>2, <1>0 DEF SameBytes, GoneOn
  <2>5. Stands(next, H, N, page, h - 1)
    BY <2>3 DEF Stands
  <2>6. Built(next.mem, next.space, H, N, base, at, extra) /\ next.space.root = w.space.root
    BY <2>2 DEF GoneOn
  <2> HIDE DEF H, N
  <2> QED
    BY <2>4, <2>5, <2>6, <1>0, <1>6 DEF Growing
<1>10. CASE entry.present /\ entry.huge
  <2>1. next = [w EXCEPT !.result = "HUGE_PAGE"]
    BY <1>10 DEF follow, next, entry, fresh
  <2> QED
    BY <2>1, <1>7
<1>11. CASE entry.present /\ ~entry.huge
  <2>1. next = Widening(w, i)
    BY <1>11 DEF follow, next, entry, Widening
  <2>2. FollowedOn(w, next, i, height, num, base, at, extra)
    BY <2>1, <1>6a, <1>11, WidenStep DEF entry
  <2>3. Stands(next, height, num, page, h - 1)
    BY <2>2, <1>3, <1>4 DEF Stands, LeadsOn, FollowedOn
  <2>4. SameBytes(before, next.mem, DOMAIN at \cup extra)
    BY <2>2, <1>0 DEF SameBytes, FollowedOn
  <2>5. Built(next.mem, next.space, height, num, base, at, extra) /\ next.space = w.space
    BY <2>2 DEF FollowedOn
  <2> QED
    BY <2>3, <2>4, <2>5, <1>0, <1>6 DEF Growing
<1> QED
  BY <1>8, <1>9, <1>10, <1>11

\* All the way down: to the table of the last level, if there was memory.
LEMMA ArriveGrows ==
  ASSUME NEW page, InHalf(page), NEW base, NEW at, NEW extra, NEW height, NEW num,
         NEW mem, NEW space, Built(mem, space, height, num, base, at, extra)
  PROVE  Growing(arrive(mem, space, page, 0, TRUE, TRUE), space.root, page, 1,
                 base, at, extra, mem)
<1> DEFINE step == walk_step(page, TRUE, TRUE)
           start == [result |-> "OK", mem |-> mem, space |-> space, table |-> space.root]
           L == PAGING_LEVELS
           T == [k \in Nat |-> {w \in Walks : k <= L - 1 =>
                   Growing(w, space.root, page, L - k, base, at, extra, mem)}]
           g == Iterate(step, start)
<1>0. mem \in Memory /\ space \in Space /\ L \in Nat \ {0} /\ page \in Page /\ page \in Nat
  BY PagingAssumption DEF Built, InHalf, Page
<1>1. start \in Walks
  BY <1>0 DEF Walks, Space, Results
<1>2. step \in [Nat -> [Walks -> Walks]]
  <2> SUFFICES ASSUME NEW k \in Nat, NEW w \in Walks, k \in 1 .. L - 1
               PROVE  follow(w, paging_index(page, L - k), TRUE, TRUE) \in Walks
    BY DEF walk_step
  <2>1. L - k \in 0 .. L
    BY <1>0
  <2> QED
    BY <2>1, <1>0, IndexTyped, FollowTyped
<1>3. /\ g \in [Nat -> Walks] /\ g[0] = start
      /\ \A k \in Nat : g[k + 1] = step[k + 1][g[k]]
  <2> HIDE DEF step, start
  <2> QED
    BY <1>1, <1>2, IterateWalks
<1>4. start \in T[0]
  <2>1. Stands(start, height, num, page, L)
    <3>1. page \div Span[L] = 0
      BY <1>0, PlaceOfRoot
    <3>2. space.root \in DOMAIN height /\ height[space.root] = L /\ num[space.root] = 0
      BY DEF Built, Tree, Placed
    <3> QED
      BY <3>1, <3>2 DEF Stands
  <2>2. /\ start.mem = mem /\ start.space = space
        /\ SameBytes(mem, start.mem, DOMAIN at \cup extra)
    BY DEF SameBytes
  <2>3. L - 0 = L
    BY <1>0
  <2> HIDE DEF start
  <2>4. Growing(start, space.root, page, L, base, at, extra, mem)
    BY <1>1, <2>1, <2>2 DEF Growing
  <2> QED
    BY <1>1, <2>3, <2>4
<1> HIDE DEF g, T
<1>5. ASSUME NEW k \in Nat, g[k] \in T[k] PROVE g[k + 1] \in T[k + 1]
  <2>1. g[k + 1] = step[k + 1][g[k]] /\ g[k] \in Walks /\ g[k + 1] \in Walks
    <3> HIDE DEF step
    <3> QED
      BY <1>3
  <2>2. k + 1 \in Nat
    OBVIOUS
  <2> SUFFICES ASSUME k + 1 <= L - 1
               PROVE  Growing(g[k + 1], space.root, page, L - (k + 1), base, at, extra, mem)
    <3> HIDE DEF step
    <3> QED
      BY <2>1, <2>2 DEF T
  <2> DEFINE w == g[k]
  <2>3. Growing(w, space.root, page, L - k, base, at, extra, mem)
    <3>1. k <= L - 1
      BY <1>0
    <3> QED
      BY <3>1, <1>5 DEF T
  <2>4. CASE w.result = "OK"
    <3>1. g[k + 1] = follow(w, paging_index(page, L - (k + 1)), TRUE, TRUE)
      <4>1. k + 1 \in 1 .. L - 1
        BY <1>0
      <4>2. step[k + 1][w] = follow(w, paging_index(page, L - (k + 1)), TRUE, TRUE)
        <5> HIDE DEF w
        <5> QED
          BY <4>1, <2>1, <2>2, <2>4 DEF walk_step, w
      <4> QED
        BY <4>2, <2>1
    <3>2. L - k \in 2 .. L /\ L - (k + 1) = (L - k) - 1
      BY <1>0
    <3> DEFINE h == L - k
    <3> HIDE DEF h, w
    <3>3. /\ h \in 2 .. L /\ Growing(w, space.root, page, h, base, at, extra, mem)
          /\ L - (k + 1) = h - 1
      BY <2>3, <3>2 DEF h
    <3>4. Growing(follow(w, paging_index(page, h - 1), TRUE, TRUE), space.root, page, h - 1,
                  base, at, extra, mem)
      BY <2>4, <3>3, FollowGrows
    <3> QED
      BY <3>1, <3>3, <3>4
  <2>5. CASE w.result # "OK"
    <3>1. g[k + 1] = w
      BY <2>1, <2>2, <2>5, <1>0 DEF walk_step
    <3> QED
      BY <2>3, <2>5, <3>1 DEF Growing, Stands
  <2> QED
    BY <2>4, <2>5
<1>6. \A k \in Nat : g[k] \in T[k]
  <2>1. g[0] \in T[0]
    BY <1>3, <1>4
  <2> QED
    BY <2>1, <1>5, WalkPasses
<1>7. L - 1 \in Nat /\ g[L - 1] \in T[L - 1] /\ L - (L - 1) = 1 /\ L - 1 - 0 = L - 1
  BY <1>0, <1>6
<1>8. Growing(g[L - 1], space.root, page, 1, base, at, extra, mem)
  BY <1>7, <1>0 DEF T
<1> QED
  BY <1>7, <1>8 DEF arrive, g

\* A space that has the pages of `at' mapped, whatever tables that takes.
Grown(mem, space, base, at, extra) ==
  \E height, num : Built(mem, space, height, num, base, at, extra)

\* Mapped, or not, and the tables made meanwhile stay.
MapOutcome(mem, space, after, base, at, extra, g, page) ==
  /\ after \in Walks /\ after.space.root = space.root
  /\ SameBytes(mem, after.mem, DOMAIN at \cup extra)
  /\ IF after.result = "OK"
     THEN Grown(after.mem, after.space, base, With(at, g, page), extra \ {g})
     ELSE Grown(after.mem, after.space, base, at, extra)

\* The walk has come to the table of the last level, and entry i of it is
\* written.
Leaf(phys, flags) ==
  [present |-> TRUE, addr |-> phys, write |-> flags.write, user |-> TRUE,
   nx |-> flags.nx, huge |-> FALSE]

WithLeaf(m, f, i, leaf) == [m EXCEPT !.entries[f][i] = leaf]

\* The page is mapped, and no byte has changed.
Mapped(m, after, space, base, at, extra, g, page) ==
  /\ Grown(after, space, base, With(at, g, page), extra \ {g})
  /\ after \in Memory /\ after.bytes = m.bytes

LEMMA LeafWritten ==
  ASSUME NEW m, NEW space, NEW height, NEW num, NEW base, NEW at, NEW extra,
         Built(m, space, height, num, base, at, extra),
         NEW f \in DOMAIN height, height[f] = 1, NEW i \in Below(space.root, f),
         ~m.entries[f][i].present, NEW g \in extra,
         NEW flags \in [write : BOOLEAN, nx : BOOLEAN],
         NEW page, page = num[f] * PAGING_ENTRIES + i
  PROVE  Mapped(m, WithLeaf(m, f, i, Leaf(g, flags)), space, base, at, extra, g, page)
<1> DEFINE leaf == Leaf(g, flags)
           after == [m EXCEPT !.entries[f][i] = leaf]
<1>0. /\ m \in Memory /\ DOMAIN height \subseteq base /\ base \subseteq Frames
      /\ extra \subseteq base /\ i \in Indices /\ DOMAIN height \cap extra = {}
  <2>1. DOMAIN height \subseteq base /\ base \subseteq Frames /\ extra \subseteq base
    BY BuiltIn
  <2> QED
    BY <2>1 DEF Built, Below
<1>1. leaf \in Entry /\ leaf.present /\ ~leaf.huge /\ leaf.addr = g
  BY <1>0 DEF Leaf, Entry
<1> HIDE DEF leaf
<1>2. after \in Memory
  BY <1>0, <1>1, EntryTyped
<1>3. /\ after.pmm = m.pmm /\ after.bytes = m.bytes
      /\ after.entries = [m.entries EXCEPT ![f] = [m.entries[f] EXCEPT ![i] = leaf]]
  BY <1>0 DEF Memory
<1> HIDE DEF after
<1>4. Added(m, after, f, i, g)
  <2>1. m.entries \in [Frames -> [Indices -> Entry]] /\ f \in Frames
    BY <1>0 DEF Memory
  <2>2. /\ \A x \in Frames \ {f} : after.entries[x] = m.entries[x]
        /\ \A j \in Indices \ {i} : after.entries[f][j] = m.entries[f][j]
        /\ after.entries[f][i] = leaf
    BY <2>1, <1>0, <1>3
  <2> QED
    BY <2>2, <1>1 DEF Added
<1>5. Built(after, space, HeightWith(height, f, g), NumWith(num, f, i, g), base,
            With(at, g, page), extra \ {g})
  BY <1>2, <1>3, <1>4, PageAdded
<1>6. Grown(after, space, base, With(at, g, page), extra \ {g})
  BY <1>5 DEF Grown
<1> QED
  BY <1>2, <1>3, <1>6 DEF after, leaf, Mapped, WithLeaf

\* vmm_map maps a page the allocator had handed out, or leaves it out of the
\* space, and what else the space consists of is accounted for either way.
LEMMA MapGrows ==
  ASSUME NEW mem, NEW space, NEW base, NEW at, NEW extra,
         Grown(mem, space, base, at, extra),
         NEW page, InHalf(page), NEW g \in extra,
         NEW flags \in [write : BOOLEAN, nx : BOOLEAN]
  PROVE  MapOutcome(mem, space, vmm_map(mem, space, page, g, flags), base, at, extra, g, page)
<1> DEFINE w == walk(mem, space, page, TRUE, TRUE)
           i == paging_index(page, 0)
           after == vmm_map(mem, space, page, g, flags)
<1>1. PICK height, num : Built(mem, space, height, num, base, at, extra)
  BY DEF Grown
<1>2. mem \in Memory /\ space \in Space /\ page \in Nat /\ g \in Frames /\ space.root # 0
  <2>1. /\ space.root \in DOMAIN height /\ DOMAIN height \subseteq base
        /\ 0 \notin base /\ extra \subseteq base /\ base \subseteq Frames
    BY <1>1, BuiltIn
  <2> QED
    BY <2>1, <1>1 DEF Built, InHalf, Page
<1>3. Growing(w, space.root, page, 1, base, at, extra, mem)
  <2>1. w = arrive(mem, space, page, 0, TRUE, TRUE)
    BY <1>2 DEF walk, paging_canonical, InHalf
  <2> QED
    BY <2>1, <1>1, ArriveGrows
<1>4. /\ w \in Walks /\ w.space.root = space.root
      /\ SameBytes(mem, w.mem, DOMAIN at \cup extra)
      /\ Grown(w.mem, w.space, base, at, extra)
  BY <1>3 DEF Growing, Grown
<1>5. after \in Walks
  BY <1>2, MapTyped
<1>6. after = map_at(w, i, g, flags)
  BY DEF vmm_map
<1> SUFFICES MapOutcome(mem, space, after, base, at, extra, g, page)
  OBVIOUS
<1> HIDE DEF w, i, after
<1>7. CASE w.result # "OK"
  BY <1>4, <1>6, <1>7 DEF map_at, MapOutcome
<1>8. CASE w.result = "OK" /\ w.mem.entries[w.table][i].present
  <2>1. after = [w EXCEPT !.result = "ALREADY_MAPPED"]
    BY <1>6, <1>8 DEF map_at
  <2>2. after.mem = w.mem /\ after.space = w.space /\ after.result # "OK"
    BY <2>1, <1>4 DEF Walks
  <2> QED
    BY <2>2, <1>4, <1>5 DEF MapOutcome
<1>9. CASE w.result = "OK" /\ ~w.mem.entries[w.table][i].present
  <2>1. PICK H, N : Built(w.mem, w.space, H, N, base, at, extra) /\ Stands(w, H, N, page, 1)
    BY <1>3 DEF Growing
  <2> DEFINE f == w.table
             m == WithLeaf(w.mem, f, i, Leaf(g, flags))
  <2>2. f \in DOMAIN H /\ H[f] = 1 /\ N[f] = page \div Span[1]
    BY <2>1, <1>9 DEF Stands
  <2>3. page = N[f] * PAGING_ENTRIES + i /\ i \in Below(w.space.root, f)
    <3>1. 1 \in 1 .. PAGING_LEVELS /\ 1 - 1 = 0 /\ Span[0] = 1 /\ page \div 1 = page
      BY <1>2, PagingAssumption, PowersAssumption
    <3>2. /\ page \div Span[1 - 1] = (page \div Span[1]) * PAGING_ENTRIES + paging_index(page, 1 - 1)
          /\ \A root, x : (x = root => 1 = PAGING_LEVELS)
                            => paging_index(page, 1 - 1) \in Below(root, x)
      BY <3>1, PlaceBelow
    <3>3. page = (page \div Span[1]) * PAGING_ENTRIES + i
      BY <3>1, <3>2 DEF i
    <3>4. i \in Below(w.space.root, f)
      <4>1. H[w.space.root] = PAGING_LEVELS
        BY <2>1, BuiltIn
      <4>2. f = w.space.root => 1 = PAGING_LEVELS
        BY <2>2, <4>1
      <4> QED
        BY <3>1, <3>2, <4>2 DEF i
    <3> QED
      BY <2>2, <3>3, <3>4
  <2>4. /\ Grown(m, w.space, base, With(at, g, page), extra \ {g})
        /\ m \in Memory /\ m.bytes = w.mem.bytes
    <3> DEFINE M == w.mem
               S == w.space
    <3>1. Built(M, S, H, N, base, at, extra) /\ i \in Below(S.root, f) /\ ~M.entries[f][i].present
      BY <2>1, <2>3, <1>9
    <3> HIDE DEF M, S, f
    <3>2. Mapped(M, WithLeaf(M, f, i, Leaf(g, flags)), S, base, at, extra, g, page)
      BY <3>1, <2>2, <2>3, LeafWritten
    <3> QED
      BY <3>2 DEF M, S, Mapped
  <2>5. after = [w EXCEPT !.mem = m]
    BY <1>6, <1>9 DEF map_at, Leaf, WithLeaf
  <2> HIDE DEF m
  <2>6. after.mem = m /\ after.space = w.space /\ after.result = "OK"
    BY <2>5, <1>4, <1>9 DEF Walks
  <2>7. SameBytes(mem, after.mem, DOMAIN at \cup extra)
    BY <2>4, <2>6, <1>4 DEF SameBytes
  <2> QED
    BY <2>4, <2>6, <2>7, <1>4, <1>5 DEF MapOutcome
<1> QED
  BY <1>7, <1>8, <1>9

----------------------------------------------------------------------------
(* Walking down a space that stays as it is *)

\* What covers a page at a height.
Place(height, num, page, h) ==
  {f \in DOMAIN height : height[f] = h /\ num[f] = page \div Span[h]}

\* A walk that makes no tables has come to the one of the page's place at height
\* h, if there is one.
Looking(w, mem, space, height, num, page, h) ==
  /\ w \in Walks /\ w.mem = mem /\ w.space = space
  /\ Stands(w, height, num, page, h)
  /\ w.result # "OK" => Place(height, num, page, h) = {}

\* What covers a page is led to by what covers it one level higher.
LEMMA PlaceAbove ==
  ASSUME NEW entries, NEW root, NEW height, NEW num, Tree(entries, root, height, num),
         NEW page, InHalf(page), NEW h \in 1 .. PAGING_LEVELS,
         NEW x \in Place(height, num, page, h - 1)
  PROVE  \E f \in Place(height, num, page, h) :
           /\ paging_index(page, h - 1) \in Ways(entries, root, height, f)
           /\ entries[f][paging_index(page, h - 1)].addr = x
<1> DEFINE i == paging_index(page, h - 1)
           q == page \div Span[h]
           E == PAGING_ENTRIES
<1>0. /\ \A y \in DOMAIN height : height[y] \in 0 .. PAGING_LEVELS /\ num[y] \in Nat
      /\ height[root] = PAGING_LEVELS /\ E \in Nat \ {0} /\ PAGING_LEVELS \in Nat
      /\ h \in Nat /\ h - 1 < PAGING_LEVELS
  BY PagingAssumption DEF Tree, Placed
<1>1. i \in 0 .. E - 1 /\ page \div Span[h - 1] = q * E + i /\ q \in Nat
  <2>1. i \in Indices /\ page \div Span[h - 1] = q * E + i
    BY PlaceBelow
  <2>2. Span[h] \in Nat \ {0} /\ page \in Nat
    BY PowersAssumption DEF InHalf, Page
  <2>3. q \in Nat
    BY <2>2, Division
  <2> QED
    BY <2>1, <2>3 DEF Indices
<1>2. x \in DOMAIN height /\ height[x] = h - 1 /\ num[x] = q * E + i
  BY <1>1 DEF Place
<1>3. x # root
  BY <1>0, <1>2
<1>4. PICK f \in DOMAIN height : \E j \in Ways(entries, root, height, f) :
        entries[f][j].addr = x
  BY <1>2, <1>3 DEF Tree, Reached
<1>5. PICK j \in Ways(entries, root, height, f) : entries[f][j].addr = x
  BY <1>4
<1>6. height[x] = height[f] - 1 /\ num[x] = num[f] * E + j
  BY <1>5 DEF Tree, AllLead, LeadsOn
<1>7. height[f] = h
  BY <1>0, <1>2, <1>6
<1> HIDE DEF q, i, E
<1>8. num[f] = q /\ j = i
  <2>1. j \in 0 .. E - 1
    BY <1>5 DEF Ways, Below, Indices, E
  <2>2. \A a, b \in Nat : a * E + j = b * E + i => a = b /\ j = i
    <3>1. E \in Nat \ {0} /\ i \in 0 .. E - 1
      BY <1>0, <1>1
    <3> QED
      BY <2>1, <3>1, Digits
  <2>3. num[f] \in Nat /\ num[f] * E + j = q * E + i
    BY <1>0, <1>2, <1>6
  <2> QED
    BY <2>2, <2>3, <1>1
<1>9. f \in Place(height, num, page, h)
  BY <1>7, <1>8 DEF Place, q
<1> QED
  BY <1>5, <1>8, <1>9 DEF i

\* One level of a walk that makes no tables.
LEMMA FollowLooks ==
  ASSUME NEW page, InHalf(page), NEW h \in 1 .. PAGING_LEVELS,
         NEW mem, NEW space, NEW height, NEW num,
         Tree(mem.entries, space.root, height, num),
         NEW w, Looking(w, mem, space, height, num, page, h), w.result = "OK"
  PROVE  Looking(follow(w, paging_index(page, h - 1), FALSE, FALSE),
                 mem, space, height, num, page, h - 1)
<1> DEFINE i == paging_index(page, h - 1)
           f == w.table
           next == follow(w, i, FALSE, FALSE)
           entry == mem.entries[f][i]
<1>0. /\ w \in Walks /\ w.mem = mem /\ w.space = space /\ mem \in Memory
      /\ f \in DOMAIN height /\ height[f] = h /\ num[f] = page \div Span[h] /\ h > 0
  BY DEF Looking, Stands, Walks
<1>1. /\ i \in Indices /\ i \in Below(space.root, f)
      /\ page \div Span[h - 1] = num[f] * PAGING_ENTRIES + i
  <2>1. f = space.root => h = PAGING_LEVELS
    BY <1>0 DEF Tree, Placed
  <2>2. /\ i \in Indices
        /\ page \div Span[h - 1] = (page \div Span[h]) * PAGING_ENTRIES + i
        /\ \A root, x : (x = root => h = PAGING_LEVELS) => i \in Below(root, x)
    BY PlaceBelow
  <2> QED
    BY <2>1, <2>2, <1>0
<1>2. next \in Walks
  BY <1>0, <1>1, FollowTyped
<1>3. \A x \in Place(height, num, page, h) : x = f
  BY <1>0 DEF Place, Tree, Placed
<1> SUFFICES Looking(next, mem, space, height, num, page, h - 1)
  OBVIOUS
<1>4. CASE ~entry.present
  <2>1. next = [w EXCEPT !.result = "NOT_MAPPED"]
    BY <1>0, <1>4 DEF follow
  <2> HIDE DEF next
  <2>2. next.mem = mem /\ next.space = space /\ next.result # "OK"
    BY <2>1, <1>0 DEF Walks
  <2>3. Place(height, num, page, h - 1) = {}
    <3> SUFFICES ASSUME NEW x \in Place(height, num, page, h - 1) PROVE FALSE
      OBVIOUS
    <3>1. i \in Ways(mem.entries, space.root, height, f)
      BY <1>3, PlaceAbove
    <3> QED
      BY <3>1, <1>4 DEF Ways
  <2> QED
    BY <2>2, <2>3, <1>2 DEF Looking, Stands
<1>5. CASE entry.present
  <2>1. i \in Ways(mem.entries, space.root, height, f)
    BY <1>0, <1>1, <1>5 DEF Ways
  <2>2. LeadsOn(height, num, entry, f, i)
    BY <2>1, <1>0 DEF Tree, AllLead
  <2>3. next = [w EXCEPT !.mem.entries[f][i] = entry, !.table = entry.addr]
    BY <2>2, <1>0, <1>5 DEF follow, LeadsOn
  <2>4. [w EXCEPT !.mem.entries[f][i] = entry] = w
    <3>1. mem.entries \in [Frames -> [Indices -> Entry]] /\ f \in Frames
      BY <1>0 DEF Memory, Walks
    <3>2. [mem.entries EXCEPT ![f] = [mem.entries[f] EXCEPT ![i] = entry]] = mem.entries
      BY <3>1, <1>1
    <3>3. [mem EXCEPT !.entries = mem.entries] = mem
      BY <1>0 DEF Memory
    <3>4. [mem EXCEPT !.entries[f][i] = entry] = mem
      BY <3>2, <3>3
    <3>5. [w EXCEPT !.mem = mem] = w
      BY <1>0 DEF Walks
    <3> QED
      BY <3>4, <3>5, <1>0
  <2>5. next = [w EXCEPT !.table = entry.addr]
    <3>1. next = [[w EXCEPT !.mem.entries[f][i] = entry] EXCEPT !.table = entry.addr]
      BY <2>3
    <3> QED
      BY <2>4, <3>1
  <2> HIDE DEF next
  <2>6. next.mem = mem /\ next.space = space /\ next.result = "OK" /\ next.table = entry.addr
    BY <2>5, <1>0 DEF Walks
  <2> QED
    BY <2>2, <2>6, <1>0, <1>1, <1>2 DEF Looking, Stands, LeadsOn
<1> QED
  BY <1>4, <1>5

\* Where there is nothing at one height there is nothing below it.
LEMMA NothingBelow ==
  ASSUME NEW page, InHalf(page), NEW h \in 1 .. PAGING_LEVELS,
         NEW mem, NEW space, NEW height, NEW num,
         Tree(mem.entries, space.root, height, num),
         NEW w, Looking(w, mem, space, height, num, page, h), w.result # "OK"
  PROVE  Looking(w, mem, space, height, num, page, h - 1)
<1>1. Place(height, num, page, h - 1) = {}
  <2> SUFFICES ASSUME NEW x \in Place(height, num, page, h - 1) PROVE FALSE
    OBVIOUS
  <2>1. Place(height, num, page, h) # {}
    BY PlaceAbove
  <2> QED
    BY <2>1 DEF Looking
<1> QED
  BY <1>1 DEF Looking, Stands

\* The walk to the table of a level finds the one there is.
LEMMA ArriveLooks ==
  ASSUME NEW page, InHalf(page), NEW level \in 0 .. PAGING_LEVELS - 1,
         NEW mem \in Memory, NEW space \in Space, NEW height, NEW num,
         Tree(mem.entries, space.root, height, num)
  PROVE  Looking(arrive(mem, space, page, level, FALSE, FALSE),
                 mem, space, height, num, page, level + 1)
<1> DEFINE step == walk_step(page, FALSE, FALSE)
           start == [result |-> "OK", mem |-> mem, space |-> space, table |-> space.root]
           L == PAGING_LEVELS
           T == [k \in Nat |-> {w \in Walks : k <= L - 1 =>
                   Looking(w, mem, space, height, num, page, L - k)}]
           g == Iterate(step, start)
<1>0. L \in Nat \ {0} /\ page \in Page /\ page \in Nat
  BY PagingAssumption DEF InHalf, Page
<1>1. start \in Walks
  BY <1>0 DEF Walks, Space, Results
<1>2. step \in [Nat -> [Walks -> Walks]]
  <2> SUFFICES ASSUME NEW k \in Nat, NEW w \in Walks, k \in 1 .. L - 1
               PROVE  follow(w, paging_index(page, L - k), FALSE, FALSE) \in Walks
    BY DEF walk_step
  <2>1. L - k \in 0 .. L
    BY <1>0
  <2> QED
    BY <2>1, <1>0, IndexTyped, FollowTyped
<1>3. /\ g \in [Nat -> Walks] /\ g[0] = start
      /\ \A k \in Nat : g[k + 1] = step[k + 1][g[k]]
  <2> HIDE DEF step, start
  <2> QED
    BY <1>1, <1>2, IterateWalks
<1>4. start \in T[0]
  <2>1. Stands(start, height, num, page, L)
    <3>1. page \div Span[L] = 0
      BY <1>0, PlaceOfRoot
    <3>2. space.root \in DOMAIN height /\ height[space.root] = L /\ num[space.root] = 0
      BY DEF Tree, Placed
    <3> QED
      BY <3>1, <3>2 DEF Stands
  <2>2. start.mem = mem /\ start.space = space /\ start.result = "OK"
    OBVIOUS
  <2>3. L - 0 = L
    BY <1>0
  <2> HIDE DEF start
  <2>4. Looking(start, mem, space, height, num, page, L)
    BY <1>1, <2>1, <2>2 DEF Looking
  <2> QED
    BY <1>1, <2>3, <2>4
<1> HIDE DEF g, T
<1>5. ASSUME NEW k \in Nat, g[k] \in T[k] PROVE g[k + 1] \in T[k + 1]
  <2>1. g[k + 1] = step[k + 1][g[k]] /\ g[k] \in Walks /\ g[k + 1] \in Walks
    <3> HIDE DEF step
    <3> QED
      BY <1>3
  <2>2. k + 1 \in Nat
    OBVIOUS
  <2> SUFFICES ASSUME k + 1 <= L - 1
               PROVE  Looking(g[k + 1], mem, space, height, num, page, L - (k + 1))
    <3> HIDE DEF step
    <3> QED
      BY <2>1, <2>2 DEF T
  <2> DEFINE w == g[k]
             h == L - k
  <2>3. Looking(w, mem, space, height, num, page, h)
    <3>1. k <= L - 1
      BY <1>0
    <3> QED
      BY <3>1, <1>5 DEF T
  <2>4. h \in 1 .. L /\ L - (k + 1) = h - 1 /\ k + 1 \in 1 .. L - 1
    BY <1>0
  <2> HIDE DEF w, h
  <2>5. CASE w.result = "OK"
    <3>1. step[k + 1][w] = follow(w, paging_index(page, L - (k + 1)), FALSE, FALSE)
      BY <2>1, <2>2, <2>4, <2>5 DEF walk_step, w
    <3>2. Looking(follow(w, paging_index(page, h - 1), FALSE, FALSE),
                  mem, space, height, num, page, h - 1)
      BY <2>3, <2>4, <2>5, FollowLooks
    <3> QED
      BY <2>1, <2>4, <3>1, <3>2 DEF w
  <2>6. CASE w.result # "OK"
    <3>1. step[k + 1][w] = w
      BY <2>1, <2>2, <2>6 DEF walk_step, w
    <3>2. Looking(w, mem, space, height, num, page, h - 1)
      BY <2>3, <2>4, <2>6, NothingBelow
    <3> QED
      BY <2>1, <2>4, <3>1, <3>2 DEF w
  <2> QED
    BY <2>5, <2>6
<1>6. \A k \in Nat : g[k] \in T[k]
  <2>1. g[0] \in T[0]
    BY <1>3, <1>4
  <2> QED
    BY <2>1, <1>5, WalkPasses
<1> DEFINE n == L - 1 - level
<1>7. n \in Nat /\ n <= L - 1 /\ L - n = level + 1
  BY <1>0
<1> HIDE DEF n
<1>8. Looking(g[n], mem, space, height, num, page, level + 1)
  BY <1>6, <1>7 DEF T
<1> QED
  BY <1>8 DEF arrive, g, n

\* A place in the program's half, at a height, is that of a page of it.
LEMMA PlaceInHalf ==
  ASSUME NEW n \in Nat, NEW h \in 0 .. PAGING_LEVELS - 1, (n + 1) * Span[h] <= LowerEnd
  PROVE  /\ InHalf(n * Span[h])
         /\ (n * Span[h]) \div Span[h] = n /\ (n * Span[h]) % Span[h] = 0
<1> DEFINE s == Span[h]
           E == PAGING_ENTRIES
           top == Span[PAGING_LEVELS - 1]
           page == n * s
           q == page \div top
<1>0. /\ s \in Nat \ {0} /\ top \in Nat \ {0} /\ E \in Nat \ {0}
      /\ VIRT_PAGES = E * top
  <2>1. /\ PAGING_LEVELS \in Nat \ {0} /\ PAGING_LEVELS - 1 \in 0 .. PAGING_LEVELS - 1
        /\ h \in 0 .. PAGING_LEVELS /\ PAGING_LEVELS - 1 \in 0 .. PAGING_LEVELS
        /\ (PAGING_LEVELS - 1) + 1 = PAGING_LEVELS /\ E \in Nat \ {0}
    BY PagingAssumption
  <2>2. Span[PAGING_LEVELS] = VIRT_PAGES
    BY <2>1, PagingAssumption DEF Span
  <2> QED
    BY <2>1, <2>2, PowersAssumption
<1>1. LowerEnd = ((E + 1) \div 2) * top /\ (E + 1) \div 2 \in Nat /\ (E + 1) \div 2 <= E
  BY <1>0 DEF LowerEnd
<1> HIDE DEF s, E, top
<1>2. page \in Nat /\ page < ((E + 1) \div 2) * top
  <2>1. page \in Nat /\ (n + 1) * s = page + s
    BY <1>0, SMT
  <2>2. (n + 1) * s <= ((E + 1) \div 2) * top
    BY <1>1 DEF s
  <2>3. ((E + 1) \div 2) * top \in Nat
    BY <1>0, <1>1, TimesGrows
  <2> HIDE DEF page
  <2> QED
    BY <1>0, <2>1, <2>2, <2>3
<1>3. page \div s = n /\ page % s = 0
  <2>1. n * s + 0 = page /\ 0 \in 0 .. s - 1
    BY <1>0, <1>2
  <2> HIDE DEF page
  <2> QED
    BY <1>0, <2>1, QuotientIs
<1> HIDE DEF page
<1>4. q \in Nat /\ q * top + (page % top) = page /\ page % top \in 0 .. top - 1
  BY <1>0, <1>2, Division
<1> HIDE DEF q
<1>5. q < (E + 1) \div 2
  <2> SUFFICES ASSUME (E + 1) \div 2 <= q PROVE FALSE
    BY <1>1, <1>4
  <2>1. ((E + 1) \div 2) * top <= q * top /\ ((E + 1) \div 2) * top \in Nat /\ q * top \in Nat
    BY <1>0, <1>1, <1>4, TimesGrows
  <2> HIDE DEF E
  <2> QED
    BY <1>2, <1>4, <2>1
<1>6. 2 * q < E /\ q \in 0 .. E - 1 /\ q % E = q
  BY <1>0, <1>4, <1>5
<1>7. page < VIRT_PAGES
  <2>1. ((E + 1) \div 2) * top <= E * top /\ ((E + 1) \div 2) * top \in Nat /\ E * top \in Nat
    BY <1>0, <1>1, TimesGrows
  <2> QED
    BY <1>0, <1>2, <2>1
<1>8. paging_index(page, PAGING_LEVELS - 1) = q
  BY <1>6 DEF paging_index, q, top, E
<1>9. InHalf(page)
  <2>1. page \in Page
    <3>1. VIRT_PAGES \in Nat
      BY <1>0, TimesGrows
    <3> QED
      BY <1>2, <1>7, <3>1 DEF Page
  <2>2. q \in Indices \ Upper
    BY <1>0, <1>4, <1>6 DEF Indices, Upper, E
  <2> QED
    BY <1>8, <2>1, <2>2 DEF InHalf
<1> QED
  BY <1>3, <1>9 DEF page, s

\* What free_below finds is every table of the program's half, each once.
LEMMA FreedAreTables ==
  ASSUME NEW mem \in Memory, NEW space \in Space, NEW height, NEW num,
         Tree(mem.entries, space.root, height, num)
  PROVE  LET F == freed_tables(mem, space)
         IN  F \in Bijection(DOMAIN F,
                             {f \in DOMAIN height : height[f] \in 1 .. PAGING_LEVELS - 1})
<1> DEFINE F == freed_tables(mem, space)
           D == DOMAIN F
           L == PAGING_LEVELS
           found(t) == arrive(mem, space, t[2], t[1], FALSE, FALSE)
           inner == {f \in DOMAIN height : height[f] \in 1 .. L - 1}
<1>1. /\ D = {t \in (0 .. L - 2) \X Page :
                /\ t[2] % Span[t[1] + 1] = 0
                /\ paging_index(t[2], L - 1) \in Indices \ Upper
                /\ found(t).result = "OK"}
      /\ F = [t \in D |-> found(t).table]
  BY DEF freed_tables, tables_below
<1> HIDE DEF F
<1>2. L \in Nat \ {0} /\ 0 .. L - 2 \subseteq 0 .. L - 1
  BY PagingAssumption
<1>3. ASSUME NEW t \in D
      PROVE  /\ t[1] \in 0 .. L - 2 /\ t[2] \in Nat /\ t[2] % Span[t[1] + 1] = 0
             /\ t = <<t[1], t[2]>>
             /\ F[t] \in DOMAIN height /\ height[F[t]] = t[1] + 1
             /\ num[F[t]] = t[2] \div Span[t[1] + 1]
  <2>1. /\ t[1] \in 0 .. L - 2 /\ t[2] \in Page /\ t[2] % Span[t[1] + 1] = 0
        /\ paging_index(t[2], L - 1) \in Indices \ Upper /\ found(t).result = "OK"
        /\ t = <<t[1], t[2]>> /\ F[t] = found(t).table
    <3> HIDE DEF found
    <3> QED
      BY <1>1
  <2>2. InHalf(t[2]) /\ t[2] \in Nat
    BY <2>1 DEF InHalf, Page
  <2>3. Looking(found(t), mem, space, height, num, t[2], t[1] + 1)
    BY <1>2, <2>1, <2>2, ArriveLooks
  <2> HIDE DEF found
  <2> QED
    BY <2>1, <2>2, <2>3 DEF Looking, Stands
<1>4. F \in [D -> inner]
  <2>1. \A t \in D : F[t] \in inner
    BY <1>2, <1>3
  <2> QED
    BY <1>1, <2>1
<1>5. ASSUME NEW t \in D, NEW u \in D, F[t] = F[u] PROVE t = u
  <2> DEFINE s == Span[t[1] + 1]
  <2>1. t[1] = u[1]
    BY <1>2, <1>3, <1>5
  <2>2. s \in Nat \ {0}
    <3>1. t[1] + 1 \in 0 .. L
      BY <1>2, <1>3
    <3> QED
      BY <3>1, PowersAssumption
  <2>3. t[2] \div s = u[2] \div s /\ t[2] % s = 0 /\ u[2] % s = 0
    BY <2>1, <1>3, <1>5
  <2> HIDE DEF s
  <2>4. t[2] = (t[2] \div s) * s + (t[2] % s) /\ u[2] = (u[2] \div s) * s + (u[2] % s)
    BY <1>3, <2>2, Division
  <2>5. t[2] = u[2]
    BY <2>3, <2>4
  <2> QED
    BY <2>1, <2>5, <1>3
<1>6. ASSUME NEW f \in inner PROVE \E t \in D : F[t] = f
  <2> DEFINE h == height[f]
             page == num[f] * Span[h]
             t == <<h - 1, page>>
  <2>1. /\ h \in 1 .. L - 1 /\ num[f] \in Nat /\ f # space.root
        /\ h \in 0 .. L - 1 /\ h - 1 \in 0 .. L - 2 /\ h - 1 \in 0 .. L - 1 /\ (h - 1) + 1 = h
    BY <1>2 DEF Tree, Placed
  <2>2. (num[f] + 1) * Span[h] <= LowerEnd
    BY <2>1 DEF Tree, Placed
  <2>3. InHalf(page) /\ page \div Span[h] = num[f] /\ page % Span[h] = 0
    BY <2>1, <2>2, PlaceInHalf
  <2>4. t[1] = h - 1 /\ t[2] = page
    OBVIOUS
  <2> HIDE DEF page, h, t
  <2>5. Looking(found(t), mem, space, height, num, page, h)
    <3>1. Looking(arrive(mem, space, page, h - 1, FALSE, FALSE),
                  mem, space, height, num, page, (h - 1) + 1)
      BY <2>1, <2>3, ArriveLooks
    <3> QED
      BY <3>1, <2>1, <2>4
  <2> HIDE DEF found
  <2>6. f \in Place(height, num, page, h)
    BY <2>3 DEF Place, h
  <2>7. found(t).result = "OK" /\ found(t).table = f
    BY <2>5, <2>6 DEF Looking, Stands, Place, Tree, Placed
  <2>8. t \in D
    <3>1. t \in (0 .. L - 2) \X Page
      BY <2>1, <2>3 DEF InHalf, t
    <3> QED
      BY <3>1, <2>1, <2>3, <2>4, <2>7, <1>1 DEF InHalf
  <2> QED
    BY <2>7, <2>8, <1>1
<1>7. F \in Bijection(D, inner)
  <2> HIDE DEF D, inner
  <2> QED
    BY <1>4, <1>5, <1>6 DEF Bijection, Injection, Surjection, IsInjective
<1> QED
  BY <1>7 DEF F

\* What vmm_destroy leaves of a space whose pages have been given back: nothing.
Emptied(mem, after, base, root) ==
  /\ after \in Memory /\ Accounts(after.pmm, base, {})
  /\ after.bytes = mem.bytes
  /\ \A f \in Frames \ {root} : after.entries[f] = mem.entries[f]

LEMMA DestroyGives ==
  ASSUME NEW mem \in Memory, NEW space \in Space, space.tables # 0, NEW height, NEW num,
         Tree(mem.entries, space.root, height, num),
         NEW base, Accounts(mem.pmm, base, {f \in DOMAIN height : height[f] > 0})
  PROVE  Emptied(mem, vmm_destroy(mem, space), base, space.root)
<1> DEFINE below == freed_tables(mem, space)
           root == space.root
           tables == {f \in DOMAIN height : height[f] > 0}
           inner == {f \in DOMAIN height : height[f] \in 1 .. PAGING_LEVELS - 1}
           once == pmm_free(mem.pmm, below)
           twice == pmm_free(once, <<root>>)
           after == [mem EXCEPT !.pmm = twice, !.entries[root] = ZeroTable]
<1>1. below \in Bijection(DOMAIN below, inner) /\ IsFiniteSet(DOMAIN below)
  <2>1. below \in Bijection(DOMAIN below, inner)
    BY FreedAreTables
  <2>2. IsFiniteSet(inner)
    <3>1. IsFiniteSet(Frames)
      BY PagingAssumption, FS_Interval DEF Frames
    <3>2. inner \subseteq Frames
      BY DEF Tree, Placed
    <3> QED
      BY <3>1, <3>2, FS_Subset
  <2> HIDE DEF below, inner
  <2>3. below \in Injection(DOMAIN below, inner)
    BY <2>1 DEF Bijection
  <2> QED
    BY <2>1, <2>2, <2>3, FS_Injection
<1>2. root \in tables /\ inner \subseteq tables /\ tables \ inner = {root} /\ root # 0
  <2>1. /\ PAGING_LEVELS \in Nat \ {0} /\ root \in DOMAIN height /\ height[root] = PAGING_LEVELS
        /\ \A f \in DOMAIN height : height[f] \in 0 .. PAGING_LEVELS
        /\ \A f \in DOMAIN height \ {root} : height[f] < PAGING_LEVELS
    BY PagingAssumption DEF Tree, Placed
  <2>2. root \in tables /\ inner \subseteq tables /\ tables \ inner = {root}
    BY <2>1
  <2>3. root \in base /\ 0 \notin base
    BY <2>2 DEF Accounts
  <2> QED
    BY <2>2, <2>3
<1> HIDE DEF inner, tables
<1>3. Accounts(once, base, {root})
  <2>1. Accounts(mem.pmm, base, tables)
    BY DEF tables
  <2> HIDE DEF below
  <2>2. Accounts(once, base, tables \ inner)
    BY <1>1, <1>2, <2>1, FreeGives
  <2> QED
    BY <1>2, <2>2
<1>4. Accounts(twice, base, {})
  <2> HIDE DEF once, root
  <2>1. Accounts(twice, base, {root} \ {root})
    BY <1>3, FreeGivesOne
  <2>2. {root} \ {root} = {}
    OBVIOUS
  <2> QED
    BY <2>1, <2>2
<1>5. vmm_destroy(mem, space) = after
  <2> SUFFICES after = [mem EXCEPT !.pmm = pmm_free(pmm_free(mem.pmm, below), <<space.root>>),
                                   !.entries[space.root] = ZeroTable]
    BY <1>2 DEF vmm_destroy
  <2> QED
    OBVIOUS
<1>6. after \in Memory
  BY <1>5, DestroyTyped
<1> HIDE DEF twice, once
<1>7. /\ after.pmm = twice /\ after.bytes = mem.bytes
      /\ \A f \in Frames \ {root} : after.entries[f] = mem.entries[f]
  BY DEF Memory
<1> QED
  BY <1>4, <1>5, <1>6, <1>7 DEF Emptied

----------------------------------------------------------------------------
(* A new space *)

NoPages == [f \in {} |-> 0]

\* The kernel's tables are as the bootloader left them.
KernelTablesKept(mem) == \A f \in DOMAIN KernelTables : mem.entries[f] = KernelTables[f]

\* A root and nothing below it; or no space, and the memory as it was.
SpaceOutcome(mem, new, base) ==
  IF new.result = "OK" THEN Grown(new.mem, new.space, base, NoPages, {})
  ELSE new.mem = mem

LEMMA RootedGrows ==
  ASSUME NEW mem \in Memory, NEW base, Accounts(mem.pmm, base, {}),
         base \cap DOMAIN KernelTables = {}, KernelTablesKept(mem)
  PROVE  SpaceOutcome(mem, rooted(mem, fresh_table(mem, NoSpace)), base)
<1> DEFINE got == pmm_alloc(mem.pmm)
           g == got.phys
           new == fresh_table(mem, NoSpace)
           made == [mem EXCEPT !.pmm = got.pmm, !.entries[g] = ZeroTable,
                               !.bytes[g] = ZeroPage]
           root == rooted(mem, new)
<1> SUFFICES SpaceOutcome(mem, root, base)
  OBVIOUS
<1>1. CASE g = PMM_NONE
  <2>1. new.phys = PMM_NONE
    BY <1>1 DEF fresh_table, table_in
  <2> QED
    BY <2>1 DEF rooted, SpaceOutcome
<1>2. CASE g # PMM_NONE
  <2>1. /\ g \in base /\ g \in Frames /\ g \notin DOMAIN KernelTables
        /\ Accounts(got.pmm, base, {g})
    <3>1. g \in base \ {} /\ g \in Frames /\ Accounts(got.pmm, base, {} \cup {g})
      BY <1>2, AllocTakes
    <3>2. {} \cup {g} = {g}
      OBVIOUS
    <3> QED
      BY <3>1, <3>2
  <2>2. new.phys = g /\ new.mem = made /\ new.space = [root |-> 0, tables |-> 1]
    <3>1. [NoSpace EXCEPT !.tables = NoSpace.tables + 1] = [root |-> 0, tables |-> 1]
      BY DEF NoSpace
    <3> QED
      BY <1>2, <3>1 DEF fresh_table, table_in
  <2>3. made \in Memory
    BY <2>2, FreshTyped, ZeroTyped
  <2>4. /\ made.pmm = got.pmm /\ made.entries[g] = ZeroTable
        /\ \A x \in Frames \ {g} : made.entries[x] = mem.entries[x]
        /\ made.entries \in [Frames -> [Indices -> Entry]]
    BY <2>1, <2>3 DEF Memory
  <2> DEFINE half == [i \in Indices |-> IF i \in Upper THEN made.entries[KERNEL_ROOT][i]
                                        ELSE made.entries[g][i]]
             after == [made EXCEPT !.entries[g] = half]
             space == [root |-> g, tables |-> 1]
  <2>5. root.result = "OK" /\ root.mem = after /\ root.space = space
    <3>1. vmm_share_kernel(made, g, KERNEL_ROOT) = after
      BY DEF vmm_share_kernel
    <3>2. [new.space EXCEPT !.root = g] = space
      BY <2>2
    <3> HIDE DEF made, after, g, space, new
    <3> QED
      BY <1>2, <2>2, <3>1, <3>2 DEF rooted
  <2> HIDE DEF made
  <2>6. half \in [Indices -> Entry]
    BY <2>1, <2>4, ZeroTyped
  <2> HIDE DEF half
  <2>7. /\ after \in Memory /\ after.pmm = got.pmm /\ after.entries[g] = half
        /\ \A x \in Frames \ {g} : after.entries[x] = mem.entries[x]
    BY <2>1, <2>3, <2>4, <2>6 DEF Memory
  <2> HIDE DEF after, got, root
  <2> DEFINE height == [x \in {g} |-> PAGING_LEVELS]
             num == [x \in {g} |-> 0]
  <2>8. DOMAIN height = {g} /\ height[g] = PAGING_LEVELS /\ DOMAIN num = {g} /\ num[g] = 0
    OBVIOUS
  <2>9. PAGING_LEVELS \in Nat \ {0}
    BY PagingAssumption
  <2>10. space \in Space /\ space.root = g /\ space.tables = 1
    BY <2>1 DEF Space
  <2> HIDE DEF height, num, space
  <2>11. Tree(after.entries, g, height, num)
    <3>1. Placed(g, height, num)
      <4>1. height \in [DOMAIN height -> 0 .. PAGING_LEVELS] /\ num \in [DOMAIN height -> Nat]
        BY <2>8, <2>9 DEF height, num
      <4> QED
        BY <4>1, <2>1, <2>8 DEF Placed
    <3>2. \A i \in Indices \ Upper : ~after.entries[g][i].present
      BY <2>4, <2>7 DEF half, ZeroTable, ZeroEntry
    <3>3. \A i \in Ways(after.entries, g, height, g) : FALSE
      BY <3>2 DEF Ways, Below
    <3> QED
      BY <3>1, <3>3, <2>8 DEF Tree, AllLead
  <2>12. KernelKept(after.entries, g)
    <3>1. DOMAIN KernelTables \subseteq Frames \ {g} /\ KERNEL_ROOT \in DOMAIN KernelTables
      BY <2>1, PagingAssumption
    <3>2. \A f \in DOMAIN KernelTables : after.entries[f] = KernelTables[f]
      BY <3>1, <2>7 DEF KernelTablesKept
    <3>3. made.entries[KERNEL_ROOT] = KernelTables[KERNEL_ROOT]
      BY <3>1, <2>4 DEF KernelTablesKept
    <3>4. \A i \in Upper : after.entries[g][i] = KernelTables[KERNEL_ROOT][i]
      BY <3>3, <2>7 DEF half, Upper
    <3> QED
      BY <3>2, <3>4 DEF KernelKept
  <2>13. Accounts(after.pmm, base, DOMAIN height \cup {})
    <3>1. DOMAIN height \cup {} = {g}
      BY <2>8
    <3> QED
      BY <3>1, <2>1, <2>7
  <2>14. DOMAIN NoPages = {f \in DOMAIN height : height[f] = 0} /\ DOMAIN NoPages = {}
    BY <2>8, <2>9 DEF NoPages
  <2>15. space.tables = Cardinality(DOMAIN height \ DOMAIN NoPages)
    <3>1. DOMAIN height \ DOMAIN NoPages = {g}
      BY <2>8, <2>14
    <3> QED
      BY <3>1, <2>10, FS_Singleton
  <2>16. Built(after, space, height, num, base, NoPages, {})
    BY <2>7, <2>10, <2>11, <2>12, <2>13, <2>14, <2>15 DEF Built
  <2>17. Grown(after, space, base, NoPages, {})
    BY <2>16 DEF Grown
  <2>18. Grown(root.mem, root.space, base, NoPages, {})
    BY <2>5, <2>17
  <2> QED
    BY <2>5, <2>18 DEF SpaceOutcome
<1> QED
  BY <1>1, <1>2

LEMMA NewSpaceGrows ==
  ASSUME NEW mem \in Memory, NEW base, Accounts(mem.pmm, base, {}),
         base \cap DOMAIN KernelTables = {}, KernelTablesKept(mem), NEW ready
  PROVE  SpaceOutcome(mem, vmm_new_user_space(mem, ready), base)
<1>1. CASE ready
  BY <1>1, RootedGrows DEF vmm_new_user_space
<1>2. CASE ~ready
  BY <1>2 DEF vmm_new_user_space, SpaceOutcome
<1> QED
  BY <1>1, <1>2

----------------------------------------------------------------------------
(* Pages on their way in and out *)

\* Writing bytes changes nothing of who owns what.
LEMMA BytesKeepGrown ==
  ASSUME NEW m, NEW space, NEW base, NEW at, NEW extra, Grown(m, space, base, at, extra),
         NEW after \in Memory, after.pmm = m.pmm, after.entries = m.entries
  PROVE  Grown(after, space, base, at, extra)
<1>1. PICK height, num : Built(m, space, height, num, base, at, extra)
  BY DEF Grown
<1>2. Built(after, space, height, num, base, at, extra)
  BY <1>1 DEF Built
<1> QED
  BY <1>2 DEF Grown

\* The allocator hands a page out for the space.
LEMMA PageTaken ==
  ASSUME NEW m, NEW space, NEW base, NEW at, Grown(m, space, base, at, {}),
         NEW g, g = pmm_alloc(m.pmm).phys, g # PMM_NONE,
         NEW after \in Memory, after.pmm = pmm_alloc(m.pmm).pmm,
         \A x \in Frames \ {g} : after.entries[x] = m.entries[x]
  PROVE  /\ Grown(after, space, base, at, {g})
         /\ g \in base /\ g \notin DOMAIN at /\ g \in Frames
<1>1. PICK height, num : Built(m, space, height, num, base, at, {})
  BY DEF Grown
<1> DEFINE D == DOMAIN height
           root == space.root
<1>2. /\ D \subseteq base /\ base \subseteq Frames /\ root \in D
      /\ DOMAIN at \subseteq D /\ base \cap DOMAIN KernelTables = {}
      /\ DOMAIN KernelTables \subseteq Frames
  <2>1. D \subseteq base /\ base \subseteq Frames /\ root \in D
    BY <1>1, BuiltIn
  <2> QED
    BY <1>1, <2>1, PagingAssumption DEF Built
<1>3. g \in base \ D /\ g \in Frames /\ Accounts(after.pmm, base, D \cup {g})
  <2>1. D \cup {} = D
    OBVIOUS
  <2>2. Accounts(m.pmm, base, D)
    BY <1>1, <2>1 DEF Built
  <2> QED
    BY <2>2, AllocTakes
<1>4. \A x \in D \cup DOMAIN KernelTables : after.entries[x] = m.entries[x]
  BY <1>2, <1>3
<1>5. SameWays(height, m.entries, after.entries)
  BY <1>4 DEF SameWays
<1>6. Tree(after.entries, root, height, num)
  BY <1>1, <1>5, TreeStays DEF Built
<1>7. KernelKept(after.entries, root)
  BY <1>1, <1>2, <1>4 DEF Built, KernelKept
<1>8. Built(after, space, height, num, base, at, {g})
  BY <1>1, <1>3, <1>6, <1>7 DEF Built
<1> QED
  BY <1>2, <1>3, <1>8 DEF Grown

\* One that could not be mapped goes back.
LEMMA PageReturned ==
  ASSUME NEW m, NEW space, NEW base, NEW at, NEW g, Grown(m, space, base, at, {g}),
         NEW after \in Memory, after.pmm = pmm_free(m.pmm, <<g>>), after.entries = m.entries
  PROVE  Grown(after, space, base, at, {})
<1>1. PICK height, num : Built(m, space, height, num, base, at, {g})
  BY DEF Grown
<1>2. Accounts(after.pmm, base, DOMAIN height \cup {})
  <2>1. Accounts(m.pmm, base, DOMAIN height \cup {g}) /\ g \notin DOMAIN height
    BY <1>1 DEF Built
  <2>2. Accounts(after.pmm, base, (DOMAIN height \cup {g}) \ {g})
    BY <2>1, FreeGivesOne
  <2>3. (DOMAIN height \cup {g}) \ {g} = DOMAIN height \cup {}
    BY <2>1
  <2> QED
    BY <2>2, <2>3
<1>3. Built(after, space, height, num, base, at, {})
  BY <1>1, <1>2 DEF Built
<1> QED
  BY <1>3 DEF Grown

\* Nothing of what the allocator started with is out.
Gone(after, base) ==
  after \in Memory /\ Accounts(after.pmm, base, {}) /\ KernelTablesKept(after)

\* The pages given back, and then the tables: that is everything.
LEMMA SpaceGone ==
  ASSUME NEW m, NEW space, NEW base, NEW at, Grown(m, space, base, at, {}),
         NEW pages \in Seq(Frames), {pages[i] : i \in DOMAIN pages} = DOMAIN at,
         \A i, j \in DOMAIN pages : pages[i] = pages[j] => i = j,
         NEW mid \in Memory, mid.pmm = pmm_free(m.pmm, pages), mid.entries = m.entries
  PROVE  Gone(vmm_destroy(mid, space), base)
<1> DEFINE after == vmm_destroy(mid, space)
<1>1. PICK height, num : Built(m, space, height, num, base, at, {})
  BY DEF Grown
<1> DEFINE D == DOMAIN height
           tables == {f \in D : height[f] > 0}
<1>2. /\ space \in Space /\ Tree(mid.entries, space.root, height, num)
      /\ DOMAIN at = {f \in D : height[f] = 0} /\ KernelKept(m.entries, space.root)
      /\ Accounts(m.pmm, base, D) /\ space.tables = Cardinality(D \ DOMAIN at)
      /\ base \cap DOMAIN KernelTables = {}
  <2>1. D \cup {} = D
    OBVIOUS
  <2> QED
    BY <1>1, <2>1 DEF Built
<1>3. /\ IsFiniteSet(D) /\ space.root \in D /\ height[space.root] = PAGING_LEVELS
      /\ D \subseteq base /\ base \subseteq Frames
  BY <1>1, BuiltIn
<1>4. D \ DOMAIN at = tables
  <2>1. \A f \in D : height[f] \in 0 .. PAGING_LEVELS
    BY <1>2 DEF Tree, Placed
  <2>2. PAGING_LEVELS \in Nat
    BY PagingAssumption
  <2> QED
    BY <2>1, <2>2, <1>2
<1>5. Accounts(mid.pmm, base, tables)
  <2>1. pages \in Bijection(DOMAIN pages, DOMAIN at)
    <3>1. pages \in [DOMAIN pages -> DOMAIN at]
      OBVIOUS
    <3>2. \A f \in DOMAIN at : \E i \in DOMAIN pages : pages[i] = f
      OBVIOUS
    <3> QED
      BY <3>1, <3>2 DEF Bijection, Injection, Surjection, IsInjective
  <2>2. IsFiniteSet(DOMAIN pages)
    <3>1. DOMAIN pages = 1 .. Len(pages) /\ Len(pages) \in Nat
      OBVIOUS
    <3> QED
      BY <3>1, FS_Interval
  <2>3. DOMAIN at \subseteq D
    BY <1>2
  <2>4. Accounts(mid.pmm, base, D \ DOMAIN at)
    BY <1>2, <2>1, <2>2, <2>3, FreeGives
  <2> QED
    BY <2>4, <1>4
<1>6. space.tables # 0
  <2>1. space.root \in tables
    BY <1>3, PagingAssumption
  <2>2. IsFiniteSet(tables)
    BY <1>3, FS_Subset
  <2> QED
    BY <2>1, <2>2, <1>2, <1>4, FS_EmptySet
<1>7. Emptied(mid, after, base, space.root)
  BY <1>2, <1>5, <1>6, DestroyGives
<1>8. KernelTablesKept(after)
  <2>1. DOMAIN KernelTables \subseteq Frames \ {space.root}
    BY <1>2, <1>3, PagingAssumption
  <2> QED
    BY <2>1, <1>2, <1>7 DEF KernelTablesKept, KernelKept, Emptied
<1> QED
  BY <1>7, <1>8 DEF Emptied, Gone

\* A page below the middle of the numbers there are is in the program's half.
LEMMA LowIsInHalf ==
  ASSUME NEW page \in Nat, 2 * page < VIRT_PAGES
  PROVE  InHalf(page)
<1> DEFINE E == PAGING_ENTRIES
           top == Span[PAGING_LEVELS - 1]
           q == page \div top
<1>0. top \in Nat \ {0} /\ E \in Nat \ {0} /\ VIRT_PAGES = E * top
  <2>1. /\ PAGING_LEVELS - 1 \in 0 .. PAGING_LEVELS - 1
        /\ PAGING_LEVELS \in 0 .. PAGING_LEVELS /\ PAGING_LEVELS - 1 \in 0 .. PAGING_LEVELS
        /\ (PAGING_LEVELS - 1) + 1 = PAGING_LEVELS /\ E \in Nat \ {0}
    BY PagingAssumption
  <2>2. Span[PAGING_LEVELS] = VIRT_PAGES
    BY <2>1, PagingAssumption DEF Span
  <2> QED
    BY <2>1, <2>2, PowersAssumption
<1> HIDE DEF top, E
<1>1. q \in Nat /\ q * top + (page % top) = page /\ page % top \in 0 .. top - 1
  BY <1>0, Division
<1> HIDE DEF q
<1>2. 2 * q < E
  <2> SUFFICES ASSUME E <= 2 * q PROVE FALSE
    BY <1>0, <1>1
  <2>1. E * top <= (2 * q) * top /\ E * top \in Nat /\ (2 * q) * top \in Nat
    BY <1>0, <1>1, TimesGrows
  <2>2. (2 * q) * top = 2 * (q * top) /\ q * top \in Nat
    BY <1>0, <1>1, SMT
  <2> QED
    BY <1>0, <1>1, <2>1, <2>2
<1>3. q \in 0 .. E - 1 /\ q % E = q
  BY <1>0, <1>1, <1>2
<1>4. paging_index(page, PAGING_LEVELS - 1) = q
  BY <1>3 DEF paging_index, q, top, E
<1>5. q \in Indices \ Upper
  BY <1>0, <1>1, <1>2, <1>3 DEF Indices, Upper, E
<1>6. page \in Page
  <2>1. VIRT_PAGES \in Nat
    BY <1>0, TimesGrows
  <2> QED
    BY <2>1 DEF Page
<1> QED
  BY <1>4, <1>5, <1>6 DEF InHalf

----------------------------------------------------------------------------
(* Where an address of any kind leads *)

\* A walk that makes no tables changes nothing, and goes on where an entry is.
LEMMA FollowReads ==
  ASSUME NEW w \in Walks, NEW i \in Indices
  PROVE  LET next == follow(w, i, FALSE, FALSE)
             entry == w.mem.entries[w.table][i]
         IN  /\ next \in Walks /\ next.mem = w.mem
             /\ next.result = "OK" => entry.present /\ ~entry.huge /\ next.table = entry.addr
<1> DEFINE f == w.table
           entry == w.mem.entries[f][i]
           next == follow(w, i, FALSE, FALSE)
<1>0. /\ w.mem \in Memory /\ f \in Frames /\ next \in Walks
  BY FollowTyped DEF Walks
<1> SUFFICES /\ next.mem = w.mem
             /\ next.result = "OK" => entry.present /\ ~entry.huge /\ next.table = entry.addr
  BY <1>0
<1>1. CASE ~entry.present
  <2>1. next = [w EXCEPT !.result = "NOT_MAPPED"]
    BY <1>1 DEF follow
  <2> HIDE DEF next
  <2> QED
    BY <2>1 DEF Walks
<1>2. CASE entry.present /\ entry.huge
  <2>1. next = [w EXCEPT !.result = "HUGE_PAGE"]
    BY <1>2 DEF follow
  <2> HIDE DEF next
  <2> QED
    BY <2>1 DEF Walks
<1>3. CASE entry.present /\ ~entry.huge
  <2>1. next = [w EXCEPT !.mem.entries[f][i] = entry, !.table = entry.addr]
    BY <1>3 DEF follow
  <2>2. w.mem.entries \in [Frames -> [Indices -> Entry]]
    BY <1>0 DEF Memory
  <2>3. [w.mem.entries EXCEPT ![f] = [w.mem.entries[f] EXCEPT ![i] = entry]] = w.mem.entries
    BY <1>0, <2>2
  <2>4. [w.mem EXCEPT !.entries = w.mem.entries] = w.mem
    BY <1>0 DEF Memory
  <2>5. [w.mem EXCEPT !.entries[f][i] = entry] = w.mem
    BY <2>3, <2>4
  <2>6. next = [w EXCEPT !.mem = w.mem, !.table = entry.addr]
    BY <2>1, <2>5
  <2> HIDE DEF next, entry
  <2>7. next.mem = w.mem /\ next.table = entry.addr
    BY <2>6 DEF Walks
  <2> QED
    BY <2>7, <1>3
<1> QED
  BY <1>1, <1>2, <1>3

\* KernelAssumption, with a name for the levels.
Levels(level) ==
  /\ level \in [DOMAIN KernelTables -> 0 .. PAGING_LEVELS - 1]
  /\ level[KERNEL_ROOT] = PAGING_LEVELS - 1
  /\ \A f \in DOMAIN KernelTables :
       \A i \in IF f = KERNEL_ROOT THEN Upper ELSE Indices :
         LET entry == KernelTables[f][i]
         IN  entry.present /\ ~(level[f] > 0 /\ entry.huge) =>
               IF level[f] = 0 THEN ~entry.user
               ELSE entry.addr \in DOMAIN KernelTables /\ level[entry.addr] = level[f] - 1

\* An entry of a table is an entry of the kernel's table `k'.
ReadsAs(entries, f, k) ==
  /\ k \in DOMAIN KernelTables
  /\ \A i \in IF k = KERNEL_ROOT THEN Upper ELSE Indices : entries[f][i] = KernelTables[k][i]

\* Where a walk has come to, of a page in the kernel's half, after `k' levels.
InKernel(level, w, page, k) ==
  paging_index(page, PAGING_LEVELS - 1) \in Upper /\ w.result = "OK" =>
    \E t : ReadsAs(w.mem.entries, w.table, t) /\ level[t] = PAGING_LEVELS - 1 - k

\* One level of it.
LEMMA KernelStep ==
  ASSUME NEW level, Levels(level), NEW page \in Page,
         NEW k \in 0 .. PAGING_LEVELS - 2,
         NEW w \in Walks, w.result = "OK", KernelTablesKept(w.mem), InKernel(level, w, page, k)
  PROVE  InKernel(level, follow(w, paging_index(page, PAGING_LEVELS - 1 - k), FALSE, FALSE),
                  page, k + 1)
<1> DEFINE i == paging_index(page, PAGING_LEVELS - 1 - k)
           next == follow(w, i, FALSE, FALSE)
           entry == w.mem.entries[w.table][i]
           L == PAGING_LEVELS
<1> SUFFICES ASSUME paging_index(page, L - 1) \in Upper, next.result = "OK"
             PROVE  \E t : ReadsAs(next.mem.entries, next.table, t)
                           /\ level[t] = L - 1 - (k + 1)
  BY DEF InKernel
<1>0. L \in Nat \ {0} /\ page \in Nat /\ L - 1 - k \in 0 .. L
  BY PagingAssumption DEF Page
<1>1. i \in Indices
  BY <1>0, IndexTyped
<1>2. next.mem = w.mem /\ entry.present /\ ~entry.huge /\ next.table = entry.addr
  <2> HIDE DEF i
  <2> QED
    BY <1>1, FollowReads DEF i
<1>3. PICK t : ReadsAs(w.mem.entries, w.table, t) /\ level[t] = L - 1 - k
  BY DEF InKernel
<1>4. t \in DOMAIN KernelTables /\ (t = KERNEL_ROOT => k = 0 /\ i \in Upper)
  <2>1. t \in DOMAIN KernelTables
    BY <1>3 DEF ReadsAs
  <2>2. t = KERNEL_ROOT => k = 0
    BY <1>0, <1>3 DEF Levels
  <2>3. k = 0 => L - 1 - k = L - 1
    BY <1>0
  <2> QED
    BY <2>1, <2>2, <2>3
<1>5. entry = KernelTables[t][i] /\ i \in (IF t = KERNEL_ROOT THEN Upper ELSE Indices)
  BY <1>1, <1>3, <1>4 DEF ReadsAs
<1>6. level[t] # 0
  BY <1>0, <1>3
<1> HIDE DEF i, next, entry
<1>7. entry.addr \in DOMAIN KernelTables /\ level[entry.addr] = level[t] - 1
  BY <1>2, <1>4, <1>5, <1>6 DEF Levels
<1>8. ReadsAs(next.mem.entries, next.table, entry.addr)
  BY <1>2, <1>7, PagingAssumption DEF ReadsAs, KernelTablesKept, Upper
<1>9. level[entry.addr] = L - 1 - (k + 1)
  BY <1>0, <1>3, <1>7
<1> QED
  BY <1>8, <1>9

\* A walk that makes no tables leaves the memory, and one to a page in the
\* kernel's half stays in the kernel's tables.
LEMMA ArriveReads ==
  ASSUME NEW level, Levels(level), NEW mem \in Memory, NEW space \in Space,
         KernelKept(mem.entries, space.root), NEW page \in Page
  PROVE  LET w == arrive(mem, space, page, 0, FALSE, FALSE)
         IN  /\ w \in Walks /\ w.mem = mem
             /\ InKernel(level, w, page, PAGING_LEVELS - 1)
<1> DEFINE step == walk_step(page, FALSE, FALSE)
           start == [result |-> "OK", mem |-> mem, space |-> space, table |-> space.root]
           L == PAGING_LEVELS
           T == [k \in Nat |-> {w \in Walks :
                   w.mem = mem /\ (k <= L - 1 => InKernel(level, w, page, k))}]
           g == Iterate(step, start)
<1>0. L \in Nat \ {0} /\ page \in Nat /\ KernelTablesKept(mem)
  BY PagingAssumption DEF Page, KernelKept, KernelTablesKept
<1>1. start \in Walks
  BY <1>0 DEF Walks, Space, Results
<1>2. step \in [Nat -> [Walks -> Walks]]
  <2> SUFFICES ASSUME NEW k \in Nat, NEW w \in Walks, k \in 1 .. L - 1
               PROVE  follow(w, paging_index(page, L - k), FALSE, FALSE) \in Walks
    BY DEF walk_step
  <2>1. L - k \in 0 .. L
    BY <1>0
  <2> QED
    BY <2>1, <1>0, IndexTyped, FollowTyped
<1>3. /\ g \in [Nat -> Walks] /\ g[0] = start
      /\ \A k \in Nat : g[k + 1] = step[k + 1][g[k]]
  <2> HIDE DEF step, start
  <2> QED
    BY <1>1, <1>2, IterateWalks
<1>4. start \in T[0]
  <2>1. start.mem = mem /\ start.table = space.root
    OBVIOUS
  <2> HIDE DEF start
  <2>2. ReadsAs(start.mem.entries, start.table, KERNEL_ROOT)
    BY <2>1, PagingAssumption DEF ReadsAs, KernelKept
  <2>3. level[KERNEL_ROOT] = L - 1 - 0
    BY <1>0 DEF Levels
  <2>4. InKernel(level, start, page, 0)
    BY <2>2, <2>3 DEF InKernel
  <2> QED
    BY <1>1, <2>1, <2>4
<1> HIDE DEF g, T
<1>5. ASSUME NEW k \in Nat, g[k] \in T[k] PROVE g[k + 1] \in T[k + 1]
  <2> DEFINE w == g[k]
             i == paging_index(page, L - 1 - k)
  <2>1. g[k + 1] = step[k + 1][w] /\ w \in Walks /\ g[k + 1] \in Walks
    <3> HIDE DEF step
    <3> QED
      BY <1>3
  <2>2. w.mem = mem /\ (k <= L - 1 => InKernel(level, w, page, k))
    BY <1>5 DEF T
  <2>5. k + 1 \in Nat
    OBVIOUS
  <2> SUFFICES /\ g[k + 1].mem = mem
               /\ k + 1 <= L - 1 => InKernel(level, g[k + 1], page, k + 1)
    <3>1. k + 1 \in Nat
      OBVIOUS
    <3> HIDE DEF step
    <3> QED
      BY <2>1, <3>1 DEF T
  <2> HIDE DEF w
  <2>3. CASE w.result = "OK" /\ k + 1 \in 1 .. L - 1
    <3>1. L - (k + 1) = L - 1 - k /\ L - 1 - k \in 0 .. L /\ k \in 0 .. L - 2 /\ k <= L - 1
      BY <1>0, <2>3
    <3>2. g[k + 1] = follow(w, i, FALSE, FALSE)
      BY <2>1, <2>3, <2>5, <3>1 DEF walk_step, w
    <3>3. i \in Indices
      BY <1>0, <3>1, IndexTyped
    <3>4. InKernel(level, follow(w, i, FALSE, FALSE), page, k + 1)
      BY <2>1, <2>2, <2>3, <3>1, <1>0, KernelStep
    <3> HIDE DEF i
    <3>5. follow(w, i, FALSE, FALSE).mem = w.mem
      BY <2>1, <3>3, FollowReads
    <3> QED
      BY <2>2, <3>2, <3>4, <3>5
  <2>4. CASE ~(w.result = "OK" /\ k + 1 \in 1 .. L - 1)
    <3>1. g[k + 1] = w
      BY <2>1, <2>4, <2>5 DEF walk_step, w
    <3>2. k + 1 <= L - 1 => w.result # "OK"
      BY <2>4, <1>0
    <3> QED
      BY <2>2, <3>1, <3>2 DEF InKernel
  <2> QED
    BY <2>3, <2>4
<1>6. \A k \in Nat : g[k] \in T[k]
  <2>1. g[0] \in T[0]
    BY <1>3, <1>4
  <2> QED
    BY <2>1, <1>5, WalkPasses
<1> DEFINE n == L - 1 - 0
<1>7. n \in Nat /\ n <= L - 1 /\ n = L - 1
  BY <1>0
<1> HIDE DEF n
<1>8. g[n] \in Walks /\ g[n].mem = mem /\ InKernel(level, g[n], page, L - 1)
  BY <1>6, <1>7 DEF T
<1> QED
  BY <1>8 DEF arrive, g, n

\* A page in the kernel's half is never the user's.
LEMMA KernelPagesAreItsOwn ==
  ASSUME NEW mem \in Memory, NEW space \in Space, KernelKept(mem.entries, space.root),
         NEW page \in Page, paging_index(page, PAGING_LEVELS - 1) \in Upper
  PROVE  LET there == vmm_translate(mem, space, page)
         IN  ~(there.result = "OK" /\ there.entry.user)
<1> DEFINE there == vmm_translate(mem, space, page)
           w == arrive(mem, space, page, 0, FALSE, FALSE)
           i == paging_index(page, 0)
           entry == w.mem.entries[w.table][i]
<1> SUFFICES ASSUME there.result = "OK", there.entry.user PROVE FALSE
  OBVIOUS
<1>0. PAGING_LEVELS \in Nat \ {0} /\ page \in Nat /\ 0 \in 0 .. PAGING_LEVELS
  BY PagingAssumption DEF Page
<1>1. w.result = "OK" /\ entry.present /\ there.entry = entry
  <2> DEFINE v == walk(mem, space, page, FALSE, FALSE)
  <2>1. v.result = "OK" /\ v.mem.entries[v.table][i].present
        /\ there.entry = v.mem.entries[v.table][i]
    <3> HIDE DEF v
    <3> QED
      BY DEF vmm_translate, leaf_at, leaf_of, v
  <2>2. v = w
    BY <2>1 DEF walk
  <2> QED
    BY <2>1, <2>2
<1>2. PICK level : Levels(level)
  BY KernelAssumption DEF Levels
<1>3. InKernel(level, w, page, PAGING_LEVELS - 1)
  BY <1>2, ArriveReads
<1>4. i \in Indices
  BY <1>0, IndexTyped
<1> HIDE DEF w, i, there
<1>5. PICK t : ReadsAs(w.mem.entries, w.table, t) /\ level[t] = PAGING_LEVELS - 1 - (PAGING_LEVELS - 1)
  BY <1>1, <1>3 DEF InKernel
<1>6. level[t] = 0 /\ t \in DOMAIN KernelTables
  BY <1>0, <1>5 DEF ReadsAs
<1>7. t = KERNEL_ROOT => i \in Upper
  <2>1. t = KERNEL_ROOT => PAGING_LEVELS - 1 = 0
    BY <1>0, <1>2, <1>6 DEF Levels
  <2> QED
    BY <2>1 DEF i
<1>8. entry = KernelTables[t][i] /\ i \in (IF t = KERNEL_ROOT THEN Upper ELSE Indices)
  BY <1>4, <1>5, <1>7 DEF ReadsAs
<1>9. ~entry.user
  BY <1>1, <1>2, <1>6, <1>8 DEF Levels
<1> QED
  BY <1>1, <1>9

\* In the program's half, that is the page mapped there, if there is one.
Finds(there, at, page) ==
  IF there.result = "OK" THEN there.entry.addr \in DOMAIN at /\ at[there.entry.addr] = page
  ELSE \A f \in DOMAIN at : at[f] # page

LEMMA TranslateFinds ==
  ASSUME NEW mem, NEW space, NEW base, NEW at, NEW extra, Grown(mem, space, base, at, extra),
         NEW page, InHalf(page)
  PROVE  /\ Finds(vmm_translate(mem, space, page), at, page)
         /\ \A f, g \in DOMAIN at : at[f] = at[g] => f = g
<1> DEFINE there == vmm_translate(mem, space, page)
           w == arrive(mem, space, page, 0, FALSE, FALSE)
           v == walk(mem, space, page, FALSE, FALSE)
           i == paging_index(page, 0)
<1>1. PICK height, num : Built(mem, space, height, num, base, at, extra)
  BY DEF Grown
<1>2. /\ mem \in Memory /\ space \in Space /\ Tree(mem.entries, space.root, height, num)
      /\ DOMAIN at = {f \in DOMAIN height : height[f] = 0}
      /\ \A f \in DOMAIN at : num[f] = at[f]
  BY <1>1 DEF Built
<1>3. /\ PAGING_LEVELS \in Nat \ {0} /\ 0 \in 0 .. PAGING_LEVELS - 1
      /\ 1 \in 1 .. PAGING_LEVELS /\ 1 - 1 = 0 /\ 0 + 1 = 1
      /\ page \in Page /\ page \in Nat
  BY PagingAssumption DEF InHalf, Page
<1>4. space.root # 0
  <2>1. space.root \in DOMAIN height /\ DOMAIN height \subseteq base /\ 0 \notin base
    BY <1>1, BuiltIn
  <2> QED
    BY <2>1
<1>5. /\ v = w
      /\ there.result = IF w.result # "OK" THEN w.result
                        ELSE IF w.mem.entries[w.table][i].present THEN "OK" ELSE "NOT_MAPPED"
      /\ there.entry = w.mem.entries[w.table][i]
  <2>1. v = w
    BY <1>3, <1>4 DEF walk, paging_canonical
  <2> HIDE DEF v, w
  <2>2. there = leaf_of(w, w.mem.entries[w.table][i])
    BY <2>1 DEF vmm_translate, leaf_at, v
  <2> QED
    BY <2>1, <2>2 DEF leaf_of
<1> HIDE DEF v, w, there
<1>6. Looking(w, mem, space, height, num, page, 1)
  <2>1. Looking(w, mem, space, height, num, page, 0 + 1)
    BY <1>2, <1>3, ArriveLooks DEF w
  <2> QED
    BY <2>1, <1>3
<1>7. page \div Span[0] = page
  BY <1>3, PowersAssumption
<1>8. \A f \in DOMAIN at : at[f] = page => f \in Place(height, num, page, 0)
  BY <1>2, <1>7 DEF Place
<1>9. \A f, g \in DOMAIN at : at[f] = at[g] => f = g
  BY <1>2 DEF Tree, Placed
<1>10. Place(height, num, page, 0) # {} =>
         \E f \in Place(height, num, page, 1) : i \in Ways(mem.entries, space.root, height, f)
  <2> SUFFICES ASSUME NEW x \in Place(height, num, page, 0)
               PROVE  \E f \in Place(height, num, page, 1) :
                        i \in Ways(mem.entries, space.root, height, f)
    OBVIOUS
  <2>1. x \in Place(height, num, page, 1 - 1)
    BY <1>3
  <2>2. \E f \in Place(height, num, page, 1) :
          /\ paging_index(page, 1 - 1) \in Ways(mem.entries, space.root, height, f)
          /\ mem.entries[f][paging_index(page, 1 - 1)].addr = x
    BY <1>2, <1>3, <2>1, PlaceAbove
  <2> QED
    BY <1>3, <2>2
<1>11. CASE w.result # "OK"
  <2>1. Place(height, num, page, 1) = {}
    BY <1>6, <1>11 DEF Looking
  <2>2. \A f \in DOMAIN at : at[f] # page
    BY <1>8, <1>10, <2>1
  <2>3. there.result # "OK"
    BY <1>5, <1>11
  <2> QED
    BY <1>9, <2>2, <2>3 DEF Finds, there
<1>12. CASE w.result = "OK"
  <2> DEFINE f == w.table
             entry == mem.entries[f][i]
  <2>1. /\ w.mem = mem /\ f \in DOMAIN height /\ height[f] = 1
        /\ num[f] = page \div Span[1]
    BY <1>6, <1>12 DEF Looking, Stands
  <2>2. /\ i \in Below(space.root, f)
        /\ page \div Span[0] = num[f] * PAGING_ENTRIES + i
    <3>1. f = space.root => 1 = PAGING_LEVELS
      BY <1>2, <2>1 DEF Tree, Placed
    <3>2. /\ page \div Span[1 - 1] = (page \div Span[1]) * PAGING_ENTRIES + paging_index(page, 1 - 1)
          /\ \A root, x : (x = root => 1 = PAGING_LEVELS) => paging_index(page, 1 - 1) \in Below(root, x)
      BY <1>3, PlaceBelow
    <3> HIDE DEF f
    <3> QED
      BY <1>3, <2>1, <3>1, <3>2
  <2> HIDE DEF i
  <2>3. CASE ~entry.present
    <3>1. there.result # "OK"
      BY <1>5, <1>12, <2>1, <2>3
    <3>2. \A x \in Place(height, num, page, 1) : x = f
      BY <1>2, <2>1 DEF Place, Tree, Placed
    <3>3. i \notin Ways(mem.entries, space.root, height, f)
      BY <2>3 DEF Ways
    <3>4. \A x \in DOMAIN at : at[x] # page
      BY <1>8, <1>10, <3>2, <3>3
    <3> QED
      BY <1>9, <3>1, <3>4 DEF Finds, there
  <2>4. CASE entry.present
    <3>1. i \in Ways(mem.entries, space.root, height, f)
      BY <2>1, <2>2, <2>4 DEF Ways
    <3>2. LeadsOn(height, num, entry, f, i)
      BY <1>2, <2>1, <3>1 DEF Tree, AllLead
    <3>3. there.result = "OK" /\ there.entry = entry
      BY <1>5, <1>12, <2>1, <2>4
    <3>4. entry.addr \in DOMAIN height /\ height[entry.addr] = 0
      BY <2>1, <3>2 DEF LeadsOn
    <3>5. num[entry.addr] = page
      BY <2>2, <1>7, <3>2 DEF LeadsOn
    <3> HIDE DEF entry
    <3> QED
      BY <1>2, <1>9, <3>3, <3>4, <3>5 DEF Finds, there
  <2> QED
    BY <2>3, <2>4
<1> QED
  BY <1>11, <1>12
============================================================================
