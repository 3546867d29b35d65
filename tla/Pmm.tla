-------------------------------- MODULE Pmm --------------------------------
(***************************************************************************)
(* The physical page allocator (pmm.c) and how it is brought up from the   *)
(* bootloader's memory map (pmmboot.c).                                    *)
(*                                                                         *)
(* The bitmap is the set `used' of the pages whose bit is set.  A page is  *)
(* its frame number: every address the allocator returns, and every one    *)
(* this kernel hands back, is the first of a page.  The bitmap starts at   *)
(* frame zero, as pmmboot_init asks, so a frame is its own slot.           *)
(***************************************************************************)
EXTENDS Integers, FiniteSets

CONSTANTS PAGE_SIZE,     \* 4096 bytes
          LOW_LIMIT      \* 0x100000: place_bitmap prefers to be above it

ASSUME PageAssumption == PAGE_SIZE \in Nat \ {0} /\ LOW_LIMIT \in Nat

PMM_NONE == 0

\* struct pmm, without the bitmap's own address.
PmmType == [pages : Nat, used : SUBSET Nat, free_pages : Nat, hint : Nat,
            bad_frees : Nat]

slots(pmm) == 0 .. pmm.pages - 1
FreePages(pmm) == slots(pmm) \ pmm.used

\* A kernel_pmm nobody has reset.
NoPmm == [pages |-> 0, used |-> {}, free_pages |-> 0, hint |-> 0, bad_frees |-> 0]

frames_covering(bytes) == (bytes + PAGE_SIZE - 1) \div PAGE_SIZE
pmm_bitmap_bytes_for(pages) == (pages + 7) \div 8

least(S) == CHOOSE s \in S : \A t \in S : s <= t

----------------------------------------------------------------------------
(* Changing the bitmap.  The loops mark page after page and skip one that  *)
(* is marked already, so a range is marked all at once.                    *)

\* Mutant: a page that was marked already is counted once more.
MarkCountsAll(pmm, pages) ==
  [pmm EXCEPT !.used = @ \cup (pages \cap slots(pmm)),
              !.free_pages = @ - Cardinality(pages \cap slots(pmm))]

mark_used(pmm, pages) ==
  [pmm EXCEPT !.used = @ \cup (pages \cap slots(pmm)),
              !.free_pages = @ - Cardinality(pages \cap FreePages(pmm))]

mark_free(pmm, pages) ==
  [pmm EXCEPT !.used = @ \ pages,
              !.free_pages = @ + Cardinality(pages \cap pmm.used \cap slots(pmm))]

pmm_reset(bitmap_bytes, pages) ==
  LET fits == bitmap_bytes * 8
      covered == IF pages > fits THEN fits ELSE pages
  IN  [NoPmm EXCEPT !.pages = covered, !.used = 0 .. covered - 1]

\* Mutant: page zero is handed out like any other.
PagesFromZero(base, length) ==
  frames_covering(base) .. ((base + length) \div PAGE_SIZE) - 1

\* pmm_add_free: the whole pages inside a range, frame zero never.
pages_inside(base, length) ==
  {f \in frames_covering(base) .. ((base + length) \div PAGE_SIZE) - 1 : f # 0}

\* Mutant: only whole pages are reserved, as only whole pages are handed out.
TouchedWhole(base, length) ==
  frames_covering(base) .. ((base + length) \div PAGE_SIZE) - 1

\* pmm_reserve: every page a range touches.
pages_touched(base, length) ==
  IF length = 0 THEN {}
  ELSE (base \div PAGE_SIZE) .. frames_covering(base + length) - 1

\* Where pmm_alloc finds a page: from the hint on, then from the beginning.
next_free(pmm) ==
  LET onwards == {s \in FreePages(pmm) : s >= pmm.hint}
  IN  least(IF onwards # {} THEN onwards ELSE FreePages(pmm))

pmm_alloc(pmm) ==
  IF pmm.free_pages = 0 \/ FreePages(pmm) = {}
  THEN [phys |-> PMM_NONE, pmm |-> pmm]
  ELSE LET slot == next_free(pmm)
       IN  [phys |-> slot,
            pmm |-> [mark_used(pmm, {slot}) EXCEPT !.hint = slot + 1]]

\* pmm_free, called for every value of the function `given' (a sequence, or
\* one with another domain) in turn.  A page that is not the allocator's, or
\* is free already, is refused and counted.
pmm_free(pmm, given) ==
  LET back == {given[i] : i \in DOMAIN given} \cap pmm.used \cap slots(pmm)
  IN  [mark_free(pmm, back) EXCEPT
         !.hint = IF \E s \in back : s < @ THEN least(back) ELSE @,
         !.bad_frees = @ + (Cardinality(DOMAIN given) - Cardinality(back))]

----------------------------------------------------------------------------
(* Bringing it up *)

\* The memory map is a sequence of [base, length, usable], in bytes.
usable(map) == {i \in DOMAIN map : map[i].usable}

highest_usable_end(map) ==
  IF usable(map) = {} THEN 0
  ELSE LET ends == {map[i].base + map[i].length : i \in usable(map)}
       IN  CHOOSE top \in ends : \A e \in ends : e <= top

\* Zero when there is no room for it.
place_bitmap(map, bytes) ==
  LET big == {i \in usable(map) : map[i].length >= bytes}
      high == {i \in big : map[i].base >= LOW_LIMIT}
  IN  IF high # {} THEN map[least(high)].base
      ELSE IF big # {} THEN map[least(big)].base ELSE 0

\* `bitmap' is the pages the bitmap itself has bytes in.
pmmboot_init(map) ==
  LET pages == highest_usable_end(map) \div PAGE_SIZE
      bytes == pmm_bitmap_bytes_for(pages)
      at == place_bitmap(map, bytes)
      free == UNION {pages_inside(map[i].base, map[i].length) : i \in usable(map)}
  IN  IF highest_usable_end(map) = 0 \/ at = 0
      THEN [ready |-> FALSE, bitmap |-> {}, pmm |-> NoPmm]
      ELSE [ready |-> TRUE, bitmap |-> {b \div PAGE_SIZE : b \in at .. at + bytes - 1},
            pmm |-> mark_used(mark_free(pmm_reset(bytes, pages), free),
                              pages_touched(at, bytes))]
============================================================================
