-------------------------- MODULE Programs_proofs --------------------------
(***************************************************************************)
(* Whatever programs are run, on whatever machine, and however they end:   *)
(* every part of the kernel's record of them stays of its type, the page   *)
(* allocator's account of itself stays right, every page has one owner,    *)
(* and a program finds in its memory what its file says.                   *)
(***************************************************************************)
EXTENDS ProgramsCheck, Memory_proofs

\* TypeOK is not inductive by itself.  A walk is only a walk through a memory of
\* its type, the allocator's account included, and the steps of cmdexec_program
\* rely on what the earlier ones left in `job'.
WellTyped ==
  /\ TypeOK
  /\ mem \in Memory
  /\ job.at # "PROMPT" => job.slot \in Slots
  /\ job.at \in {"CREATED", "LOADING", "STACK", "LOADED"} => job.image \in Images
  /\ job.at = "CREATED" => job.segment = 1
  /\ job.at = "LOADING" => job.segment \in DOMAIN job.image.segments
  /\ InProgram => current \in Slots

----------------------------------------------------------------------------
(* Bringing the allocator up *)

LEMMA InSequence ==
  ASSUME NEW R, NEW s \in Seq(R), NEW i \in DOMAIN s
  PROVE  s[i] \in R
OBVIOUS

\* The bitmap's bytes, and the bitmap after pmm_reset: every page is taken.
BitmapBytes(map) == pmm_bitmap_bytes_for(highest_usable_end(map) \div PAGE_SIZE)
AllTaken(map) == pmm_reset(BitmapBytes(map), highest_usable_end(map) \div PAGE_SIZE)

LEMMA ResetTakesAll ==
  ASSUME NEW map \in MemoryMaps
  PROVE  /\ BitmapBytes(map) \in Nat /\ place_bitmap(map, BitmapBytes(map)) \in Nat
         /\ AllTaken(map) \in KernelPmm
         /\ AllTaken(map).used = slots(AllTaken(map)) /\ AllTaken(map).bad_frees = 0
<1> DEFINE end == highest_usable_end(map)
           pages == end \div PAGE_SIZE
           bytes == pmm_bitmap_bytes_for(pages)
           at == place_bitmap(map, bytes)
           reset == pmm_reset(bytes, pages)
<1>0. PAGE_SIZE \in Nat \ {0} /\ MAX_FRAME \in Nat
  BY PageAssumption, PagingAssumption
<1>1. pages \in Nat /\ pages <= MAX_FRAME + 1
  <2>1. end \in 0 .. (MAX_FRAME + 1) * PAGE_SIZE
    BY MapsAssumption
  <2> HIDE DEF end
  <2>2. end \in Nat
    BY <2>1, <1>0, SMT
  <2>3. /\ pages \in Nat
        /\ pages * PAGE_SIZE <= end
    BY <2>2, <1>0, SMT
  <2>4. pages * PAGE_SIZE <= (MAX_FRAME + 1) * PAGE_SIZE
    BY <2>1, <2>3, <1>0, SMT
  <2> HIDE DEF pages
  <2> QED
    BY <2>3, <2>4, <1>0, SMT
<1>2. bytes \in Nat
  <2> HIDE DEF pages
  <2> QED
    BY <1>1 DEF pmm_bitmap_bytes_for
<1>3. reset \in KernelPmm /\ reset.used = slots(reset) /\ reset.bad_frees = 0
  <2> DEFINE covered == IF pages > bytes * 8 THEN bytes * 8 ELSE pages
  <2> HIDE DEF pages, bytes
  <2>1. covered \in Nat /\ covered <= MAX_FRAME + 1
    BY <1>0, <1>1, <1>2
  <2>2. reset = [NoPmm EXCEPT !.pages = covered, !.used = 0 .. covered - 1]
    BY DEF pmm_reset
  <2> HIDE DEF covered
  <2>3. /\ reset.pages = covered /\ reset.used = 0 .. covered - 1
        /\ reset.free_pages = 0 /\ reset.hint = 0 /\ reset \in PmmType
        /\ reset.bad_frees = 0
    <3>1. NoPmm \in PmmType
      BY DEF NoPmm, PmmType
    <3>2. 0 .. covered - 1 \in SUBSET Nat
      BY <2>1
    <3>3. NoPmm.free_pages = 0 /\ NoPmm.hint = 0 /\ NoPmm.bad_frees = 0
      BY DEF NoPmm
    <3> HIDE DEF reset
    <3> QED
      BY <2>1, <2>2, <3>1, <3>2, <3>3 DEF PmmType
  <2>4. slots(reset) = 0 .. covered - 1 /\ FreePages(reset) = {}
    BY <2>3 DEF slots, FreePages
  <2>5. slots(reset) \subseteq Frames
    BY <2>1, <2>4, <1>0 DEF Frames
  <2>6. PmmSound(reset)
    BY <2>1, <2>3, <2>4, FS_EmptySet DEF PmmSound
  <2> QED
    BY <2>3, <2>4, <2>5, <2>6 DEF KernelPmm
<1>4. at \in Nat
  <2>1. map \in Seq([base : Nat, length : Nat, usable : BOOLEAN])
    BY MapsAssumption
  <2>2. \A S \in SUBSET DOMAIN map : S # {} => map[least(S)].base \in Nat
    <3> SUFFICES ASSUME NEW S \in SUBSET DOMAIN map, S # {}
                 PROVE  map[least(S)].base \in Nat
      OBVIOUS
    <3>1. S \in SUBSET Nat
      BY <2>1
    <3>2. \E n \in S : \A m \in S : n <= m
      BY <3>1, LeastNat
    <3>3. least(S) \in S
      BY <3>2 DEF least
    <3>4. least(S) \in DOMAIN map
      BY <3>3
    <3>5. map[least(S)] \in [base : Nat, length : Nat, usable : BOOLEAN]
      BY <2>1, <3>4, InSequence
    <3> QED
      BY <3>5
  <2> DEFINE big == {i \in usable(map) : map[i].length >= bytes}
             high == {i \in big : map[i].base >= LOW_LIMIT}
  <2>3. big \in SUBSET DOMAIN map /\ high \in SUBSET DOMAIN map
    BY DEF usable
  <2>4. at = IF high # {} THEN map[least(high)].base
             ELSE IF big # {} THEN map[least(big)].base ELSE 0
    BY DEF place_bitmap
  <2> HIDE DEF big, high, at
  <2> QED
    BY <2>2, <2>3, <2>4
<1> QED
  BY <1>2, <1>3, <1>4 DEF BitmapBytes, AllTaken

LEMMA PmmBootTyped ==
  ASSUME NEW map \in MemoryMaps
  PROVE  /\ pmmboot_init(map).ready \in BOOLEAN
         /\ pmmboot_init(map).bitmap \subseteq Nat
         /\ pmmboot_init(map).pmm \in KernelPmm
<1> DEFINE bytes == BitmapBytes(map)
           at == place_bitmap(map, bytes)
           bitmap == {b \div PAGE_SIZE : b \in at .. at + bytes - 1}
           free == UNION {pages_inside(map[i].base, map[i].length) : i \in usable(map)}
           reset == AllTaken(map)
<1>1. bytes \in Nat /\ at \in Nat /\ reset \in KernelPmm
  BY ResetTakesAll
<1>2. PAGE_SIZE \in Nat \ {0}
  BY PageAssumption
<1>3. mark_used(mark_free(reset, free), pages_touched(at, bytes)) \in KernelPmm
  <2> HIDE DEF reset, free, at, bytes
  <2> QED
    BY <1>1, MarkFreeKeeps, MarkUsedKeeps
<1>4. bitmap \subseteq Nat
  <2> HIDE DEF at, bytes
  <2> SUFFICES ASSUME NEW b \in at .. at + bytes - 1 PROVE b \div PAGE_SIZE \in Nat
    OBVIOUS
  <2>1. b \in Nat
    BY <1>1
  <2> QED
    BY <2>1, <1>2, SMT
<1>5. NoPmm \in KernelPmm
  <2>1. NoPmm \in PmmType /\ slots(NoPmm) = {} /\ FreePages(NoPmm) = {}
    BY DEF NoPmm, PmmType, slots, FreePages
  <2>2. PmmSound(NoPmm)
    BY <2>1, FS_EmptySet DEF PmmSound, NoPmm
  <2> QED
    BY <2>1, <2>2 DEF KernelPmm
<1> QED
  BY <1>3, <1>4, <1>5 DEF pmmboot_init, BitmapBytes, AllTaken

----------------------------------------------------------------------------
(* Giving pages to a process and taking them back *)

LEMMA ProcessUpdates ==
  ASSUME NEW p \in Process
  PROVE  /\ \A space \in Space : [p EXCEPT !.space = space] \in Process
         /\ \A space \in Space, f \in Frames :
              [p EXCEPT !.space = space, !.pages = Append(p.pages, f)] \in Process
         /\ Destroyed(p) \in Process
<1>1. \A f \in Frames : Append(p.pages, f) \in Seq(Frames)
  BY DEF Process
<1>2. NoSpace \in Space /\ << >> \in Seq(Frames)
  BY ZeroTyped
<1> QED
  BY <1>1, <1>2 DEF Process, Destroyed, States

LEMMA FilledTyped ==
  ASSUME NEW old \in [Offsets -> Bytes \cup {0}], NEW fill,
         \A o \in DOMAIN fill : fill[o] \in Bytes \cup {0}
  PROVE  filled(old, fill) \in [Offsets -> Bytes \cup {0}]
BY DEF filled

\* What became of a page that was to be added is a process, whether it was or not.
LEMMA AddPageTyped ==
  ASSUME NEW m \in Memory, NEW p \in Process, NEW page \in Nat,
         NEW flags \in [write : BOOLEAN, nx : BOOLEAN], NEW fill,
         \A o \in DOMAIN fill : fill[o] \in Bytes \cup {0}
  PROVE  process_add_page_at(m, p, page, flags, fill)
           \in [ok : BOOLEAN, mem : Memory, proc : Process]
<1> DEFINE Outcome == [ok : BOOLEAN, mem : Memory, proc : Process]
           there == vmm_translate(m, p.space, page)
           got == pmm_alloc(m.pmm)
           with == page_in(m, got, ZeroTable, filled(ZeroPage, fill))
           mapped == vmm_map(with, p.space, page, got.phys, flags)
<1>0. p.space \in Space /\ m.pmm \in KernelPmm
  BY DEF Process, Memory
<1>1. got.phys \in Frames /\ got.pmm \in KernelPmm
  BY <1>0, AllocKeeps
<1>2. with \in Memory
  <2>1. filled(ZeroPage, fill) \in [Offsets -> Bytes \cup {0}]
    BY ZeroTyped, FilledTyped
  <2> HIDE DEF got
  <2> QED
    BY <1>1, <2>1, ZeroTyped, TakenTyped DEF page_in
<1>3. mapped \in Walks
  <2> HIDE DEF with, got
  <2> QED
    BY <1>0, <1>1, <1>2, MapTyped
<1>4. keep_page(p, got.phys, mapped) \in Outcome
  <2> HIDE DEF mapped, got
  <2>1. mapped.mem \in Memory /\ mapped.space \in Space /\ mapped.mem.pmm \in KernelPmm
    BY <1>3 DEF Walks, Memory
  <2>2. pmm_free(mapped.mem.pmm, <<got.phys>>) \in KernelPmm
    <3>1. DOMAIN <<got.phys>> = {1}
      OBVIOUS
    <3>2. IsFiniteSet(DOMAIN <<got.phys>>)
      <4>1. IsFiniteSet({1})
        BY FS_Singleton
      <4> QED
        BY <3>1, <4>1
    <3>3. <<got.phys>> = [i \in DOMAIN <<got.phys>> |-> <<got.phys>>[i]]
      OBVIOUS
    <3> QED
      BY <2>1, <3>2, <3>3, FreeKeeps
  <2>3. [mapped.mem EXCEPT !.pmm = pmm_free(mapped.mem.pmm, <<got.phys>>)] \in Memory
    BY <2>1, <2>2 DEF Memory
  <2> QED
    BY <2>1, <2>3, <1>1, ProcessUpdates DEF keep_page
<1>5. there \in [result : Results, entry : Entry]
  BY <1>0, TranslateTyped
<1>6. [m EXCEPT !.bytes[there.entry.addr] = filled(m.bytes[there.entry.addr], fill)] \in Memory
  <2> HIDE DEF there
  <2>1. there.entry.addr \in Frames
    BY <1>5 DEF Entry
  <2>2. m.bytes[there.entry.addr] \in [Offsets -> Bytes \cup {0}]
    BY <2>1 DEF Memory
  <2>3. filled(m.bytes[there.entry.addr], fill) \in [Offsets -> Bytes \cup {0}]
    BY <2>2, FilledTyped
  <2> QED
    BY <2>3 DEF Memory
<1>7. add_new_page(m, p, got, page, flags, fill) \in Outcome
  BY <1>4 DEF add_new_page
<1> QED
  <2> HIDE DEF there, got
  <2> QED
    BY <1>6, <1>7 DEF process_add_page_at, add_page, there, got

LEMMA ProcessDestroyTyped ==
  ASSUME NEW m \in Memory, NEW p \in Process
  PROVE  process_destroy(m, p) \in Memory
<1>1. p.space \in Space /\ p.pages \in Seq(Frames) /\ m.pmm \in KernelPmm
  BY DEF Process, Memory
<1>2. IsFiniteSet(DOMAIN p.pages)
  <2>1. DOMAIN p.pages = 1 .. Len(p.pages) /\ Len(p.pages) \in Nat
    BY <1>1
  <2> QED
    BY <2>1, FS_Interval
<1>3. p.pages = [i \in DOMAIN p.pages |-> p.pages[i]]
  BY <1>1
<1>4. pmm_free(m.pmm, p.pages) \in KernelPmm
  BY <1>1, <1>2, <1>3, FreeKeeps
<1>5. [m EXCEPT !.pmm = pmm_free(m.pmm, p.pages)] \in Memory
  BY <1>4 DEF Memory
<1> QED
  BY <1>1, <1>5, DestroyTyped DEF process_destroy

----------------------------------------------------------------------------
(* The steps *)

LEMMA IdleTyped ==
  Idle \in JobType /\ Blank \in Process /\ Idle.at = "PROMPT"
<1>1. NoSpace \in Space /\ << >> \in Seq(Frames) /\ NoWindow \in WindowIds \cup {NoWindow}
  BY ZeroTyped
<1>2. Blank \in Process
  BY <1>1 DEF Blank, Process, States, Reasons
<1> QED
  BY <1>2 DEF Idle, JobType

LEMMA MemoryParts ==
  ASSUME NEW m \in Memory
  PROVE  /\ m.pmm \in PmmType /\ m.pmm \in KernelPmm
         /\ m.entries \in [Frames -> [Indices -> Entry]]
         /\ m.bytes \in [Frames -> [Offsets -> Bytes \cup {0}]]
BY DEF Memory, KernelPmm

LEMMA StartsTyped == Init => WellTyped
<1> SUFFICES ASSUME Init PROVE WellTyped
  OBVIOUS
<1>1. /\ boot.ready \in BOOLEAN /\ boot.bitmap \subseteq Nat
      /\ boot.pmm \in KernelPmm /\ boot.pmm \in PmmType
  BY PmmBootTyped DEF Init, KernelPmm
<1>2. mem \in Memory
  <2>1. PICK junk \in Bytes :
          mem = [pmm |-> boot.pmm,
                 bytes |-> [f \in Frames |-> [o \in Offsets |-> junk]],
                 entries |-> [f \in Frames |->
                    IF f \in DOMAIN KernelTables THEN KernelTables[f]
                    ELSE [i \in Indices |-> [ZeroEntry EXCEPT !.present = TRUE,
                                               !.user = TRUE, !.write = TRUE]]]]
    BY DEF Init
  <2>2. [ZeroEntry EXCEPT !.present = TRUE, !.user = TRUE, !.write = TRUE] \in Entry
    BY ZeroTyped DEF Entry
  <2>3. \A f \in DOMAIN KernelTables : KernelTables[f] \in [Indices -> Entry]
    BY PagingAssumption
  <2>4. mem.entries \in [Frames -> [Indices -> Entry]]
    BY <2>1, <2>2, <2>3
  <2>5. mem.bytes \in [Frames -> [Offsets -> Bytes \cup {0}]]
    BY <2>1
  <2> QED
    BY <2>1, <2>4, <2>5, <1>1 DEF Memory
<1>3. table \in [Slots -> Process] /\ job \in JobType /\ job.at = "PROMPT"
  BY IdleTyped DEF Init
<1>4. current \in Slots \cup {0} /\ windows \subseteq WindowIds /\ report \in Reports
  BY DEF Init, Reports
<1> QED
  BY <1>1, <1>2, <1>3, <1>4, MemoryParts DEF WellTyped, TypeOK, InProgram

\* A program that could not be loaded is gone, and the kernel is at the prompt.
LEMMA GiveUpTyped ==
  ASSUME WellTyped, job.slot \in Slots, NEW m \in Memory, NEW p \in Process,
         NEW why \in Reports, GiveUp(m, p, why), UNCHANGED <<boot, current, windows>>
  PROVE  WellTyped'
<1>1. mem' \in Memory
  BY ProcessDestroyTyped DEF GiveUp
<1>2. table' \in [Slots -> Process]
  BY ProcessUpdates DEF GiveUp, WellTyped, TypeOK
<1>3. job' \in JobType /\ job'.at = "PROMPT" /\ report' \in Reports
  BY IdleTyped DEF GiveUp
<1>4. /\ mem'.pmm \in PmmType /\ mem'.entries \in [Frames -> [Indices -> Entry]]
      /\ mem'.bytes \in [Frames -> [Offsets -> Bytes \cup {0}]]
  BY <1>1, MemoryParts
<1> QED
  BY <1>1, <1>2, <1>3, <1>4 DEF WellTyped, TypeOK, InProgram

LEMMA CreateTyped ==
  ASSUME WellTyped, NEW image \in Images, CreateProcess(image)
  PROVE  WellTyped'
<1>0. /\ mem \in Memory /\ table \in [Slots -> Process] /\ boot.ready \in BOOLEAN
      /\ job \in JobType /\ job.at = "PROMPT"
  BY DEF WellTyped, TypeOK, CreateProcess
<1>1. CASE free_slots = {}
  <2>1. "NO_ROOM" \in Reports
    BY DEF Reports
  <2> QED
    BY <1>1, <2>1 DEF CreateProcess, WellTyped, TypeOK, InProgram
<1>2. CASE free_slots # {}
  <2> DEFINE new == vmm_new_user_space(mem, boot.ready)
             slot == least(free_slots)
  <2>1. new \in [result : Results, mem : Memory, space : Space]
    BY <1>0, NewSpaceTyped
  <2>2. slot \in Slots
    <3>1. free_slots \in SUBSET Nat
      BY ProgramsAssumption DEF free_slots, Slots
    <3>2. \E n \in free_slots : \A k \in free_slots : n <= k
      BY <1>2, <3>1, LeastNat
    <3> QED
      BY <3>2 DEF least, free_slots
  <2>3. Created(image, slot, new) /\ UNCHANGED <<boot, current, windows>>
    BY <1>2 DEF CreateProcess
  <2> HIDE DEF new, slot
  <2>4. mem' \in Memory
    BY <2>1, <2>3 DEF Created
  <2>5. table' \in [Slots -> Process]
    <3>1. [Blank EXCEPT !.state = "READY", !.space = new.space] \in Process
      BY <2>1, IdleTyped DEF Process, States
    <3> QED
      BY <3>1, <1>0, <2>3, IdleTyped DEF Created
  <2>6. /\ job' \in JobType /\ report' \in Reports
        /\ job'.at \in {"PROMPT", "CREATED"}
        /\ job'.at = "CREATED" =>
             job'.slot \in Slots /\ job'.image \in Images /\ job'.segment = 1
    <3>1. [Idle EXCEPT !.at = "CREATED", !.slot = slot, !.image = image] \in JobType
      BY <2>2, IdleTyped DEF JobType
    <3>2. Idle \in JobType /\ Idle.segment = 1
      BY IdleTyped DEF Idle
    <3> QED
      BY <1>0, <2>2, <2>3, <3>1, <3>2 DEF Created, Reports, JobType
  <2>7. /\ mem'.pmm \in PmmType /\ mem'.entries \in [Frames -> [Indices -> Entry]]
        /\ mem'.bytes \in [Frames -> [Offsets -> Bytes \cup {0}]]
    BY <2>4, MemoryParts
  <2> QED
    BY <2>3, <2>4, <2>5, <2>6, <2>7 DEF WellTyped, TypeOK, InProgram
<1> QED
  BY <1>1, <1>2

\* What a segment asks of the pages it is in.
LEMMA SegmentTyped ==
  ASSUME NEW s \in Segment, NEW page \in Nat
  PROVE  /\ first_page(s) \in Nat
         /\ flags_for(s) \in [write : BOOLEAN, nx : BOOLEAN]
         /\ \A o \in DOMAIN fill_of(s, page) : fill_of(s, page)[o] \in Bytes \cup {0}
<1>1. first_page(s) \in Nat
  <2>1. s.vaddr \in Nat /\ PAGE_SIZE \in Nat \ {0}
    BY PageAssumption DEF Segment
  <2> QED
    BY <2>1, SMT DEF first_page
<1>2. flags_for(s) \in [write : BOOLEAN, nx : BOOLEAN]
  <2>1. s.write \in BOOLEAN /\ (~s.exec /\ NX_AVAILABLE) \in BOOLEAN
    BY DEF Segment
  <2> QED
    BY <2>1 DEF flags_for
<1>3. s.file \in Seq(Bytes \cup {0})
  BY DEF Segment
<1>4. ASSUME NEW o \in DOMAIN fill_of(s, page)
      PROVE  fill_of(s, page)[o] \in Bytes \cup {0}
  <2> DEFINE at == page * PAGE_SIZE + o - s.vaddr + 1
  <2>1. at \in DOMAIN s.file /\ fill_of(s, page)[o] = s.file[at]
    BY DEF fill_of
  <2> HIDE DEF at
  <2> QED
    BY <1>3, <2>1, InSequence
<1> QED
  BY <1>1, <1>2, <1>4

\* The job while there is an image to load.
LEMMA ImageTyped ==
  ASSUME WellTyped, job.at \in {"CREATED", "LOADING", "STACK", "LOADED"}
  PROVE  /\ mem \in Memory /\ table[job.slot] \in Process /\ job.slot \in Slots
         /\ job \in JobType /\ job.page \in Nat /\ job.segment \in Nat
         /\ job.image \in Images
         /\ job.image.segments \in Seq(Segment) /\ job.image.entry \in Nat
         /\ \A i \in DOMAIN job.image.segments : job.image.segments[i] \in Segment
<1>1. job.image \in Image
  BY ProgramsAssumption DEF WellTyped
<1>2. job.image.segments \in Seq(Segment) /\ job.image.entry \in Nat
  BY <1>1 DEF Image
<1>3. \A i \in DOMAIN job.image.segments : job.image.segments[i] \in Segment
  BY <1>2, InSequence
<1>4. job.slot \in Slots /\ table \in [Slots -> Process] /\ job \in JobType
  BY DEF WellTyped, TypeOK
<1> QED
  BY <1>2, <1>3, <1>4 DEF WellTyped, JobType

LEMMA CheckTyped ==
  ASSUME WellTyped, CheckImage
  PROVE  WellTyped'
<1>0. /\ mem \in Memory /\ table[job.slot] \in Process /\ job.slot \in Slots
      /\ job \in JobType /\ job.image \in Images
      /\ job.image.segments \in Seq(Segment)
      /\ \A i \in DOMAIN job.image.segments : job.image.segments[i] \in Segment
  BY ImageTyped DEF CheckImage
<1>1. CASE elf_check(job.image)
  <2>1. 1 \in DOMAIN job.image.segments
    BY <1>0, <1>1 DEF elf_check
  <2>2. first_page(job.image.segments[1]) \in Nat
    BY <1>0, <2>1, SegmentTyped
  <2>3. /\ job' = [job EXCEPT !.at = "LOADING", !.page = first_page(job.image.segments[1])]
        /\ UNCHANGED <<boot, mem, table, current, windows, report>>
    BY <1>1 DEF CheckImage
  <2>4. /\ job' \in JobType /\ job'.at = "LOADING" /\ job'.slot = job.slot
        /\ job'.image = job.image /\ job'.segment = job.segment
    BY <1>0, <2>2, <2>3 DEF JobType
  <2>5. job.segment = 1
    BY DEF WellTyped, CheckImage
  <2> QED
    BY <1>0, <2>1, <2>3, <2>4, <2>5 DEF WellTyped, TypeOK, InProgram
<1>2. CASE ~elf_check(job.image)
  <2>1. /\ GiveUp(mem, table[job.slot], "NOT_LOADED")
        /\ UNCHANGED <<boot, current, windows>>
    BY <1>2 DEF CheckImage
  <2>2. "NOT_LOADED" \in Reports
    BY DEF Reports
  <2> QED
    BY <1>0, <2>1, <2>2, GiveUpTyped
<1> QED
  BY <1>1, <1>2

LEMMA LoadTyped ==
  ASSUME WellTyped, LoadPage
  PROVE  WellTyped'
<1> DEFINE segment == job.image.segments[job.segment]
           added == process_add_page_at(mem, table[job.slot], job.page,
                      flags_for(segment), fill_of(segment, job.page))
<1>0. /\ job.at = "LOADING" /\ UNCHANGED <<boot, current, windows>>
      /\ PageLoaded(segment, added)
  BY DEF LoadPage
<1>1. /\ mem \in Memory /\ table[job.slot] \in Process /\ job.slot \in Slots
      /\ job \in JobType /\ job.image \in Images /\ job.page \in Nat
      /\ job.segment \in Nat /\ job.image.entry \in Nat
      /\ job.image.segments \in Seq(Segment)
      /\ \A i \in DOMAIN job.image.segments : job.image.segments[i] \in Segment
  BY <1>0, ImageTyped
<1>2. segment \in Segment
  BY <1>0, <1>1 DEF WellTyped
<1>3. added \in [ok : BOOLEAN, mem : Memory, proc : Process]
  <2> HIDE DEF segment
  <2> QED
    BY <1>1, <1>2, SegmentTyped, AddPageTyped
<1> HIDE DEF added
<1>4. added.mem \in Memory /\ added.proc \in Process
  BY <1>3
<1>5. CASE ~added.ok
  <2>1. GiveUp(added.mem, added.proc, "NOT_LOADED")
    BY <1>0, <1>5 DEF PageLoaded
  <2>2. "NOT_LOADED" \in Reports
    BY DEF Reports
  <2> QED
    BY <1>0, <1>1, <1>4, <2>1, <2>2, GiveUpTyped
<1>6. CASE added.ok
  <2>1. mem' = added.mem /\ NextPage(segment, added.proc) /\ UNCHANGED report
    BY <1>0, <1>6 DEF PageLoaded
  <2>2. [added.proc EXCEPT !.entry = job.image.entry] \in Process
    BY <1>1, <1>4 DEF Process
  <2>3. table' \in [Slots -> Process]
    <3>1. table \in [Slots -> Process]
      BY DEF WellTyped, TypeOK
    <3> QED
      BY <2>1, <2>2, <3>1, <1>4 DEF NextPage
  <2>4. /\ job' \in JobType /\ job'.slot = job.slot /\ job'.image = job.image
        /\ job'.at \in {"LOADING", "STACK"}
        /\ job'.at = "LOADING" => job'.segment \in DOMAIN job.image.segments
    <3>1. CASE job.page < last_page(segment)
      <4>1. job' = [job EXCEPT !.page = job.page + 1]
        BY <2>1, <3>1 DEF NextPage
      <4> QED
        BY <4>1, <1>0, <1>1 DEF JobType, WellTyped
    <3>2. CASE ~(job.page < last_page(segment)) /\ job.segment < Len(job.image.segments)
      <4> DEFINE next == job.segment + 1
      <4>1. job' = [job EXCEPT !.segment = next, !.page = first_page(job.image.segments[next])]
        BY <2>1, <3>2 DEF NextPage
      <4>2. next \in DOMAIN job.image.segments
        BY <1>1, <3>2
      <4>3. first_page(job.image.segments[next]) \in Nat
        BY <1>1, <4>2, SegmentTyped
      <4>4. next \in Nat
        BY <1>1
      <4> HIDE DEF next
      <4> QED
        BY <4>1, <4>2, <4>3, <4>4, <1>0, <1>1 DEF JobType
    <3>3. CASE ~(job.page < last_page(segment)) /\ ~(job.segment < Len(job.image.segments))
      <4>1. job' = [job EXCEPT !.at = "STACK"]
        BY <2>1, <3>3 DEF NextPage
      <4> QED
        BY <4>1, <1>1 DEF JobType
    <3> QED
      BY <3>1, <3>2, <3>3
  <2>5. mem' \in Memory
    BY <1>4, <2>1
  <2>6. /\ mem'.pmm \in PmmType /\ mem'.entries \in [Frames -> [Indices -> Entry]]
        /\ mem'.bytes \in [Frames -> [Offsets -> Bytes \cup {0}]]
    BY <2>5, MemoryParts
  <2> QED
    BY <1>0, <1>1, <2>1, <2>3, <2>4, <2>5, <2>6 DEF WellTyped, TypeOK, InProgram
<1> QED
  BY <1>5, <1>6

LEMMA StackAdded ==
  ASSUME NEW m \in Memory, NEW p \in Process
  PROVE  process_add_page_at(m, p, StackPage, StackFlags, << >>)
           \in [ok : BOOLEAN, mem : Memory, proc : Process]
<1>1. StackPage \in Nat
  <2>1. /\ USER_STACK_TOP \in Nat /\ USER_STACK_TOP >= PAGE_SIZE
        /\ PAGE_SIZE \in Nat \ {0}
    BY ProgramsAssumption, PageAssumption
  <2>2. USER_STACK_TOP - PAGE_SIZE \in Nat
    BY <2>1
  <2> QED
    BY <2>1, <2>2, SMT DEF StackPage
<1>2. StackFlags \in [write : BOOLEAN, nx : BOOLEAN]
  BY ProgramsAssumption DEF StackFlags
<1>3. \A o \in DOMAIN << >> : << >>[o] \in Bytes \cup {0}
  OBVIOUS
<1> QED
  BY <1>1, <1>2, <1>3, AddPageTyped

LEMMA StackTyped ==
  ASSUME WellTyped, give_stack
  PROVE  WellTyped'
<1> DEFINE added == process_add_page_at(mem, table[job.slot], StackPage, StackFlags, << >>)
<1>0. job.at = "STACK" /\ UNCHANGED <<boot, current, windows>> /\ StackGiven(added)
  BY DEF give_stack
<1>1. /\ mem \in Memory /\ table[job.slot] \in Process /\ job.slot \in Slots
      /\ job \in JobType /\ job.image \in Images
  BY <1>0, ImageTyped
<1>2. added \in [ok : BOOLEAN, mem : Memory, proc : Process]
  BY <1>1, StackAdded
<1> HIDE DEF added
<1>3. added.mem \in Memory /\ added.proc \in Process
  BY <1>2
<1>4. CASE ~added.ok
  <2>1. GiveUp(added.mem, added.proc, "NO_STACK")
    BY <1>0, <1>4 DEF StackGiven
  <2>2. "NO_STACK" \in Reports
    BY DEF Reports
  <2> QED
    BY <1>0, <1>1, <1>3, <2>1, <2>2, GiveUpTyped
<1>5. CASE added.ok
  <2>1. /\ mem' = added.mem /\ UNCHANGED report
        /\ table' = [table EXCEPT ![job.slot] = added.proc]
        /\ job' = [job EXCEPT !.at = "LOADED"]
    BY <1>0, <1>5 DEF StackGiven
  <2>2. /\ mem'.pmm \in PmmType /\ mem'.entries \in [Frames -> [Indices -> Entry]]
        /\ mem'.bytes \in [Frames -> [Offsets -> Bytes \cup {0}]]
    BY <1>3, <2>1, MemoryParts
  <2>3. job' \in JobType /\ job'.slot = job.slot /\ job'.image = job.image /\ job'.at = "LOADED"
    BY <1>1, <2>1 DEF JobType
  <2> QED
    BY <1>0, <1>1, <1>3, <2>1, <2>2, <2>3 DEF WellTyped, TypeOK, InProgram
<1> QED
  BY <1>4, <1>5

LEMMA EnterTyped ==
  ASSUME WellTyped, EnterUser
  PROVE  WellTyped'
<1>1. /\ job.slot \in Slots /\ job \in JobType /\ table[job.slot] \in Process
  BY ImageTyped DEF EnterUser
<1>2. /\ table' = [table EXCEPT ![job.slot].state = "RUNNING"]
      /\ current' = job.slot /\ job' = [job EXCEPT !.at = "IN_PROGRAM"]
      /\ UNCHANGED <<boot, mem, windows, report>>
  BY DEF EnterUser
<1>3. [table[job.slot] EXCEPT !.state = "RUNNING"] \in Process
  BY <1>1 DEF Process, States
<1>4. table' \in [Slots -> Process]
  BY <1>1, <1>2, <1>3 DEF WellTyped, TypeOK
<1>5. job' \in JobType /\ job'.slot = job.slot /\ job'.at = "IN_PROGRAM"
  BY <1>1, <1>2 DEF JobType
<1> QED
  BY <1>1, <1>2, <1>4, <1>5 DEF WellTyped, TypeOK, InProgram

\* What can happen while a program is in charge: its own entry of the table is
\* rewritten, a window comes or goes, memory is written, or the processor leaves it.
LEMMA InsideTyped ==
  ASSUME WellTyped, InProgram, NEW p \in Process,
         table' = [table EXCEPT ![current] = p], mem' \in Memory,
         windows' \subseteq WindowIds,
         job' = job \/ job' = [job EXCEPT !.at = "BACK"],
         UNCHANGED <<boot, current, report>>
  PROVE  WellTyped'
<1>1. job \in JobType /\ job.at = "IN_PROGRAM" /\ job.slot \in Slots
  BY DEF WellTyped, TypeOK, InProgram
<1>2. table' \in [Slots -> Process]
  BY DEF WellTyped, TypeOK
<1>3. job' \in JobType /\ job'.slot = job.slot /\ job'.at \in {"IN_PROGRAM", "BACK"}
  BY <1>1 DEF JobType
<1>4. /\ mem'.pmm \in PmmType /\ mem'.entries \in [Frames -> [Indices -> Entry]]
      /\ mem'.bytes \in [Frames -> [Offsets -> Bytes \cup {0}]]
  BY MemoryParts
<1> QED
  BY <1>1, <1>2, <1>3, <1>4 DEF WellTyped, TypeOK, InProgram

\* What a program's entry of the table turns into.
LEMMA ProcTyped ==
  ASSUME WellTyped, InProgram
  PROVE  /\ proc \in Process /\ current \in Slots /\ mem \in Memory
         /\ windows \subseteq WindowIds
         /\ [proc EXCEPT !.faulted = TRUE, !.exit_code = -1, !.state = "EXITED"] \in Process
         /\ \A elapsed \in Elapsed :
              /\ paid(elapsed) \in Process
              /\ \A code \in Int, why \in Reasons :
                   process_stop(paid(elapsed), code, why) \in Process
              /\ \A code \in Int :
                   [paid(elapsed) EXCEPT !.exit_code = code, !.state = "EXITED",
                                         !.faulted = FALSE] \in Process
              /\ \A waited \in Nat :
                   [paid(elapsed) EXCEPT !.ran_counts =
                      paid(elapsed).ran_counts + waited] \in Process
              /\ \A id \in WindowIds \cup {NoWindow} :
                   [paid(elapsed) EXCEPT !.window_id = id] \in Process
<1>1. /\ proc \in Process /\ current \in Slots /\ mem \in Memory
      /\ windows \subseteq WindowIds
  BY DEF WellTyped, TypeOK, proc
<1>2. ASSUME NEW elapsed \in Elapsed PROVE paid(elapsed) \in Process
  <2>1. elapsed \in Nat /\ proc.ran_counts \in Nat
    BY <1>1, ProgramsAssumption DEF Elapsed, Process
  <2>2. charged(elapsed) \in Nat
    BY <2>1 DEF charged
  <2> QED
    BY <1>1, <2>2 DEF paid, Process
<1>3. \A p \in Process : p.ran_counts \in Nat
  BY DEF Process
<1>4. ASSUME NEW p \in Process
      PROVE  /\ \A code \in Int, why \in Reasons : process_stop(p, code, why) \in Process
             /\ \A code \in Int : [p EXCEPT !.exit_code = code, !.state = "EXITED",
                                            !.faulted = FALSE] \in Process
             /\ \A n \in Nat : [p EXCEPT !.ran_counts = n] \in Process
             /\ \A id \in WindowIds \cup {NoWindow} : [p EXCEPT !.window_id = id] \in Process
  <2>1. "EXITED" \in States
    BY DEF States
  <2> QED
    BY <2>1 DEF process_stop, Process
<1>5. [proc EXCEPT !.faulted = TRUE, !.exit_code = -1, !.state = "EXITED"] \in Process
  <2>1. \A code \in Int :
          [proc EXCEPT !.faulted = TRUE, !.exit_code = code, !.state = "EXITED"] \in Process
    BY <1>1 DEF Process, States
  <2>2. -1 \in Int
    OBVIOUS
  <2> QED
    BY <2>1, <2>2
<1>6. ASSUME NEW elapsed \in Elapsed, NEW waited \in Nat
      PROVE  paid(elapsed).ran_counts + waited \in Nat
  BY <1>2, <1>3
<1> QED
  BY <1>1, <1>2, <1>4, <1>5, <1>6

LEMMA StoreTyped ==
  ASSUME WellTyped, NEW store \in Stores, UserStore(store)
  PROVE  WellTyped'
<1> DEFINE there == vmm_translate(mem, proc.space, store.page)
<1>1. InProgram /\ UNCHANGED <<boot, table, current, job, windows, report>>
      /\ mem' = [mem EXCEPT !.bytes[there.entry.addr][store.offset] = store.byte]
  BY DEF UserStore
<1>2. proc \in Process /\ mem \in Memory /\ windows \subseteq WindowIds
      /\ table \in [Slots -> Process]
  BY <1>1, ProcTyped DEF WellTyped, TypeOK
<1>3. store.byte \in Bytes
  BY ProgramsAssumption
<1>4. mem' \in Memory
  <2>1. mem.bytes \in [Frames -> [Offsets -> Bytes \cup {0}]]
    BY <1>2, MemoryParts
  <2> HIDE DEF there
  <2>2. [mem.bytes EXCEPT ![there.entry.addr][store.offset] = store.byte]
          \in [Frames -> [Offsets -> Bytes \cup {0}]]
    BY <1>3, <2>1
  <2> QED
    BY <1>1, <1>2, <2>2 DEF Memory
<1>5. table' = [table EXCEPT ![current] = proc]
  BY <1>1, <1>2 DEF proc
<1> QED
  BY <1>1, <1>2, <1>4, <1>5, InsideTyped

LEMMA FaultTyped ==
  ASSUME WellTyped, UserFault
  PROVE  WellTyped'
<1> DEFINE p == [proc EXCEPT !.faulted = TRUE, !.exit_code = -1, !.state = "EXITED"]
<1>1. /\ InProgram /\ table' = [table EXCEPT ![current] = p]
      /\ job' = [job EXCEPT !.at = "BACK"]
      /\ UNCHANGED <<boot, mem, current, windows, report>>
  BY DEF UserFault, Leave
<1>2. p \in Process /\ mem \in Memory /\ windows \subseteq WindowIds
  BY <1>1, ProcTyped
<1> HIDE DEF p
<1> QED
  BY <1>1, <1>2, InsideTyped

\* A page of the program's after an event has been written into it.
LEMMA CopiedTyped ==
  ASSUME NEW at, mem \in Memory
  PROVE  event_copied(at) \in Memory
<1>1. mem.bytes \in [Frames -> [Offsets -> Bytes \cup {0}]]
  BY MemoryParts
<1>2. EventByte \in Bytes
  BY ProgramsAssumption
<1> DEFINE written(f, o) ==
             \E i \in 0 .. EVENT_BYTES - 1 :
               /\ (at + i) % PAGE_SIZE = o
               /\ vmm_translate(mem, proc.space, (at + i) \div PAGE_SIZE).entry.addr = f
           bytes == [f \in Frames |-> [o \in Offsets |->
                       IF written(f, o) THEN EventByte ELSE mem.bytes[f][o]]]
<1>3. event_copied(at) = [mem EXCEPT !.bytes = bytes]
  BY DEF event_copied
<1>4. bytes \in [Frames -> [Offsets -> Bytes \cup {0}]]
  <2> HIDE DEF written
  <2> QED
    BY <1>1, <1>2
<1> HIDE DEF bytes
<1> QED
  BY <1>3, <1>4 DEF Memory

LEMMA CallTyped ==
  ASSUME WellTyped, NEW elapsed \in Elapsed, SystemCall(elapsed)
  PROVE  WellTyped'
<1>0. InProgram
  BY DEF SystemCall, SysTimeLimit, Call, do_exit, SysOther, do_hold, winsys_open,
         winsys_close, winsys_event, StopRequested
<1>1. /\ proc \in Process /\ mem \in Memory /\ windows \subseteq WindowIds
      /\ paid(elapsed) \in Process
      /\ \A code \in Int, why \in Reasons :
           process_stop(paid(elapsed), code, why) \in Process
      /\ \A code \in Int :
           [paid(elapsed) EXCEPT !.exit_code = code, !.state = "EXITED",
                                 !.faulted = FALSE] \in Process
      /\ \A waited \in Nat :
           [paid(elapsed) EXCEPT !.ran_counts =
              paid(elapsed).ran_counts + waited] \in Process
      /\ \A id \in WindowIds \cup {NoWindow} :
           [paid(elapsed) EXCEPT !.window_id = id] \in Process
  BY <1>0, ProcTyped
<1>2. {-2, -3} \subseteq Int /\ {"TIME", "KEY"} \subseteq Reasons
  BY DEF Reasons
<1>3. CASE SysTimeLimit(elapsed)
  <2> DEFINE p == process_stop(paid(elapsed), -2, "TIME")
  <2>1. p \in Process
    BY <1>1, <1>2
  <2>2. /\ table' = [table EXCEPT ![current] = p] /\ job' = [job EXCEPT !.at = "BACK"]
        /\ UNCHANGED <<boot, mem, current, windows, report>>
    BY <1>3 DEF SysTimeLimit, Leave
  <2> HIDE DEF p
  <2> QED
    BY <1>0, <1>1, <2>1, <2>2, InsideTyped
<1>4. ASSUME NEW code \in {0, 1}, do_exit(elapsed, code) PROVE WellTyped'
  <2> DEFINE p == [paid(elapsed) EXCEPT !.exit_code = code, !.state = "EXITED",
                                        !.faulted = FALSE]
  <2>1. code \in Int
    OBVIOUS
  <2>2. p \in Process
    BY <1>1, <2>1
  <2>3. /\ table' = [table EXCEPT ![current] = p] /\ job' = [job EXCEPT !.at = "BACK"]
        /\ UNCHANGED <<boot, mem, current, windows, report>>
    BY <1>4 DEF do_exit, Leave
  <2> HIDE DEF p
  <2> QED
    BY <1>0, <1>1, <2>2, <2>3, InsideTyped
<1>5. CASE SysOther(elapsed)
  <2>1. /\ table' = [table EXCEPT ![current] = paid(elapsed)] /\ job' = job
        /\ UNCHANGED <<boot, mem, current, windows, report>>
    BY <1>5 DEF SysOther
  <2> QED
    BY <1>0, <1>1, <2>1, InsideTyped
<1>6. ASSUME NEW counts \in {0, HOLD_MAX + 1}, do_hold(elapsed, counts) PROVE WellTyped'
  <2> DEFINE want == IF counts > HOLD_MAX THEN HOLD_MAX ELSE counts
             waits == IF want = 0 THEN {0} ELSE want .. want + PIT_PERIOD - 2
             p(waited) == [paid(elapsed) EXCEPT !.ran_counts =
                             paid(elapsed).ran_counts + waited]
  <2>1. waits \subseteq Nat
    <3>1. want \in Nat /\ PIT_PERIOD \in Nat
      BY ProgramsAssumption
    <3> HIDE DEF want
    <3> QED
      BY <3>1
  <2>2. UNCHANGED <<boot, mem, current, job, windows, report>>
    BY <1>6 DEF do_hold
  <2>3. PICK waited \in waits : table' = [table EXCEPT ![current] = p(waited)]
    BY <1>6 DEF do_hold
  <2>4. p(waited) \in Process
    BY <1>1, <2>1
  <2> HIDE DEF p
  <2> QED
    BY <1>0, <1>1, <2>2, <2>3, <2>4, InsideTyped
<1>7. ASSUME NEW title \in Addresses, winsys_open(elapsed, title) PROVE WellTyped'
  <2>1. PICK id \in WindowIds \ windows :
          /\ windows' = windows \cup {id}
          /\ table' = [table EXCEPT ![current] = [paid(elapsed) EXCEPT !.window_id = id]]
    BY <1>7 DEF winsys_open
  <2>2. UNCHANGED <<boot, mem, current, job, report>>
    BY <1>7 DEF winsys_open
  <2>3. [paid(elapsed) EXCEPT !.window_id = id] \in Process
    BY <1>1
  <2>4. windows' \subseteq WindowIds
    BY <1>1, <2>1
  <2> QED
    BY <1>0, <1>1, <2>1, <2>2, <2>3, <2>4, InsideTyped
<1>8. CASE winsys_close(elapsed)
  <2>1. released(paid(elapsed)) \in Process
    BY <1>1 DEF released
  <2>2. /\ table' = [table EXCEPT ![current] = released(paid(elapsed))]
        /\ windows' \subseteq windows
        /\ UNCHANGED <<boot, mem, current, job, report>>
    BY <1>8 DEF winsys_close
  <2>3. windows' \subseteq WindowIds
    BY <1>1, <2>2
  <2> QED
    BY <1>0, <1>1, <2>1, <2>2, <2>3, InsideTyped
<1>9. ASSUME NEW into \in Addresses, winsys_event(elapsed, into) PROVE WellTyped'
  <2>1. event_copied(into) \in Memory
    BY <1>1, CopiedTyped
  <2>2. /\ mem' = event_copied(into)
        /\ table' = [table EXCEPT ![current] = paid(elapsed)]
        /\ UNCHANGED <<boot, current, job, windows, report>>
    BY <1>9 DEF winsys_event
  <2> QED
    BY <1>0, <1>1, <2>1, <2>2, InsideTyped
<1>10. CASE StopRequested(elapsed)
  <2> DEFINE p == process_stop(paid(elapsed), -3, "KEY")
  <2>1. p \in Process
    BY <1>1, <1>2
  <2>2. /\ table' = [table EXCEPT ![current] = p] /\ job' = [job EXCEPT !.at = "BACK"]
        /\ UNCHANGED <<boot, mem, current, windows, report>>
    BY <1>10 DEF StopRequested, Leave
  <2> HIDE DEF p
  <2> QED
    BY <1>0, <1>1, <2>1, <2>2, InsideTyped
<1> QED
  BY <1>3, <1>4, <1>5, <1>6, <1>7, <1>8, <1>9, <1>10 DEF SystemCall

LEMMA LeaveTyped ==
  ASSUME WellTyped, LeaveProgram
  PROVE  WellTyped'
<1>1. /\ job \in JobType /\ job.at = "BACK" /\ job.slot \in Slots
      /\ table \in [Slots -> Process] /\ windows \subseteq WindowIds
  BY DEF WellTyped, TypeOK, LeaveProgram
<1>2. /\ table' = [table EXCEPT ![job.slot] = released(table[job.slot])]
      /\ windows' \subseteq windows /\ current' = 0
      /\ job' = [job EXCEPT !.at = "RETURNED"]
      /\ UNCHANGED <<boot, mem, report>>
  BY DEF LeaveProgram
<1>3. released(table[job.slot]) \in Process
  BY <1>1 DEF released, Process
<1>4. table' \in [Slots -> Process] /\ windows' \subseteq WindowIds
  BY <1>1, <1>2, <1>3
<1>5. job' \in JobType /\ job'.slot = job.slot /\ job'.at = "RETURNED"
  BY <1>1, <1>2 DEF JobType
<1> QED
  BY <1>1, <1>2, <1>4, <1>5 DEF WellTyped, TypeOK, InProgram

LEMMA ReportTyped ==
  ASSUME WellTyped, ReportAndDestroy
  PROVE  WellTyped'
<1>1. job.slot \in Slots /\ table[job.slot] \in Process /\ mem \in Memory
  BY DEF WellTyped, TypeOK, ReportAndDestroy
<1>2. PICK why \in Reports : report' = why
  BY DEF ReportAndDestroy, Reports
<1>3. GiveUp(mem, table[job.slot], why) /\ UNCHANGED <<boot, current, windows>>
  BY <1>2 DEF ReportAndDestroy, GiveUp
<1> QED
  BY <1>1, <1>3, GiveUpTyped

----------------------------------------------------------------------------

\* Whatever the kernel, the program or the processor does, what is well typed
\* stays so.
LEMMA StepTyped == WellTyped /\ [Next]_vars => WellTyped'
<1> SUFFICES ASSUME WellTyped, [Next]_vars PROVE WellTyped'
  OBVIOUS
<1>1. ASSUME NEW image \in Images, CreateProcess(image) PROVE WellTyped'
  BY <1>1, CreateTyped
<1>2. CASE Kernel
  BY <1>2, CheckTyped, LoadTyped, StackTyped, EnterTyped, LeaveTyped, ReportTyped DEF Kernel
<1>3. ASSUME NEW store \in Stores, UserStore(store) PROVE WellTyped'
  BY <1>3, StoreTyped
<1>4. CASE UserFault
  BY <1>4, FaultTyped
<1>5. ASSUME NEW elapsed \in Elapsed, SystemCall(elapsed) PROVE WellTyped'
  BY <1>5, CallTyped
<1>6. CASE UNCHANGED vars
  BY <1>6 DEF vars, WellTyped, TypeOK, InProgram
<1> QED
  BY <1>1, <1>2, <1>3, <1>4, <1>5, <1>6 DEF Next

LEMMA AlwaysWellTyped == Spec => []WellTyped
  BY StartsTyped, StepTyped, PTL DEF Spec

\* On every machine, for every set of executables and whatever they do, the
\* process table, the page tables, the bytes of memory and what cmdexec_program
\* remembers between its steps stay of their types (process.c, vmm.c, cmdexec.c):
\* in particular every page a process holds, and every frame an entry leads to,
\* is one the machine has.
THEOREM ProgramsTypeCorrect == Spec => []TypeOK
<1>1. WellTyped => TypeOK
  BY DEF WellTyped
<1> QED
  BY <1>1, AlwaysWellTyped, PTL

\* On every machine and whatever programs do, the allocator's count of free
\* pages is the number of clear bits and its hint is inside the bitmap, so
\* pmm_alloc says that memory is exhausted only when it is (pmm.c); not even a
\* page given back twice, or one that never was the allocator's, spoils it.
THEOREM AllocatorStaysSound == Spec => []AllocatorSound
<1>1. WellTyped => AllocatorSound
  BY MemoryParts DEF WellTyped, AllocatorSound
<1> QED
  BY <1>1, AlwaysWellTyped, PTL

----------------------------------------------------------------------------
(* Windows *)

\* There is one program at a time, in the slot that cmdexec_program took, and
\* it can have a window only from its first instruction to the tail of
\* process_run.
OneProgram ==
  /\ \A s \in Slots : table[s].state # "FREE" <=> (job.at # "PROMPT" /\ s = job.slot)
  /\ InProgram => current = job.slot
  /\ job.at \in {"IN_PROGRAM", "BACK"} =>
       windows = {table[job.slot].window_id} \ {NoWindow}
  /\ job.at \notin {"IN_PROGRAM", "BACK"} => windows = {}
  /\ job.at \notin {"PROMPT", "IN_PROGRAM", "BACK"} =>
       table[job.slot].window_id = NoWindow

\* Neither the state nor the window of a process changes when it gets a page.
LEMMA AddPageKeeps ==
  ASSUME NEW m \in Memory, NEW p \in Process, NEW page, NEW flags, NEW fill
  PROVE  /\ process_add_page_at(m, p, page, flags, fill).proc.state = p.state
         /\ process_add_page_at(m, p, page, flags, fill).proc.window_id = p.window_id
<1> DEFINE same(r) == r.proc.state = p.state /\ r.proc.window_id = p.window_id
<1>1. \A phys, mapped : same(keep_page(p, phys, mapped))
  BY DEF keep_page, Process
<1>2. \A got : same(add_new_page(m, p, got, page, flags, fill))
  <2> HIDE DEF same
  <2>1. same([ok |-> FALSE, mem |-> m, proc |-> p])
    BY DEF same
  <2> QED
    BY <1>1, <2>1 DEF add_new_page
<1>3. \A there : same(add_page(m, p, there, page, flags, fill))
  BY <1>2 DEF add_page
<1> HIDE DEF same
<1>4. same(process_add_page_at(m, p, page, flags, fill))
  BY <1>3 DEF process_add_page_at
<1> QED
  BY <1>4 DEF same

LEMMA StartsWithNone == Init => OneProgram
BY DEF Init, OneProgram, Idle, Blank, InProgram, NoWindow

\* A program without a window is taken apart: nothing is live.
LEMMA GoneAlone ==
  ASSUME WellTyped, OneProgram, NEW m, NEW p \in Process, NEW why,
         job.at \notin {"PROMPT", "IN_PROGRAM", "BACK"},
         GiveUp(m, p, why), UNCHANGED <<boot, current, windows>>
  PROVE  OneProgram'
<1>1. table \in [Slots -> Process]
  BY DEF WellTyped, TypeOK
<1>2. table' = [table EXCEPT ![job.slot] = Destroyed(p)] /\ job' = Idle
  BY DEF GiveUp
<1>3. Destroyed(p).state = "FREE"
  BY DEF Destroyed, Process
<1>4. \A s \in Slots : table'[s].state = "FREE"
  BY <1>1, <1>2, <1>3 DEF OneProgram
<1>5. job'.at = "PROMPT"
  BY <1>2 DEF Idle
<1> QED
  BY <1>4, <1>5 DEF OneProgram, InProgram

\* A process being built stays the live one, and has no window.
LEMMA BuiltAlone ==
  ASSUME WellTyped, OneProgram, NEW p \in Process,
         job.at \notin {"PROMPT", "IN_PROGRAM", "BACK"},
         p.state # "FREE", p.window_id = NoWindow,
         table' = [table EXCEPT ![job.slot] = p], windows' = windows,
         job'.at \in {"LOADING", "STACK", "LOADED"}, job'.slot = job.slot
  PROVE  OneProgram'
<1>1. table \in [Slots -> Process] /\ job.slot \in Slots
  BY DEF WellTyped, TypeOK
<1> QED
  BY <1>1 DEF OneProgram, InProgram

LEMMA LoadAlone ==
  ASSUME WellTyped, OneProgram, CheckImage \/ LoadPage \/ give_stack
  PROVE  OneProgram'
<1>0. /\ job.at \in {"CREATED", "LOADING", "STACK"}
      /\ job.at \notin {"PROMPT", "IN_PROGRAM", "BACK"}
      /\ UNCHANGED <<boot, current, windows>>
  BY DEF CheckImage, LoadPage, give_stack
<1>1. /\ mem \in Memory /\ table[job.slot] \in Process /\ job.slot \in Slots
      /\ table \in [Slots -> Process] /\ job \in JobType
  BY <1>0, ImageTyped DEF WellTyped, TypeOK
<1>2. table[job.slot].state # "FREE" /\ table[job.slot].window_id = NoWindow
  BY <1>0, <1>1 DEF OneProgram
<1>3. CASE CheckImage
  <2>1. CASE ~elf_check(job.image)
    <3>1. GiveUp(mem, table[job.slot], "NOT_LOADED")
      BY <1>3, <2>1 DEF CheckImage
    <3> QED
      BY <1>0, <1>1, <3>1, GoneAlone
  <2>2. CASE elf_check(job.image)
    <3>1. /\ job' = [job EXCEPT !.at = "LOADING", !.page = first_page(job.image.segments[1])]
          /\ table' = table
      BY <1>3, <2>2 DEF CheckImage
    <3>2. table' = [table EXCEPT ![job.slot] = table[job.slot]]
      BY <1>1, <3>1
    <3>3. job'.at = "LOADING" /\ job'.slot = job.slot
      BY <1>1, <3>1 DEF JobType
    <3> QED
      BY <1>0, <1>1, <1>2, <3>2, <3>3, BuiltAlone
  <2> QED
    BY <2>1, <2>2
<1>4. CASE LoadPage
  <2> DEFINE segment == job.image.segments[job.segment]
             added == process_add_page_at(mem, table[job.slot], job.page,
                        flags_for(segment), fill_of(segment, job.page))
  <2>1. PageLoaded(segment, added)
    BY <1>4 DEF LoadPage
  <2>2. added \in [ok : BOOLEAN, mem : Memory, proc : Process]
    <3>1. /\ job.page \in Nat
          /\ \A i \in DOMAIN job.image.segments : job.image.segments[i] \in Segment
      BY <1>0, ImageTyped
    <3>2. segment \in Segment
      BY <1>4, <3>1 DEF WellTyped, LoadPage
    <3> HIDE DEF segment
    <3> QED
      BY <1>1, <3>1, <3>2, SegmentTyped, AddPageTyped
  <2>3. added.proc.state # "FREE" /\ added.proc.window_id = NoWindow
    BY <1>1, <1>2, AddPageKeeps
  <2> HIDE DEF added
  <2>4. CASE ~added.ok
    <3>1. GiveUp(added.mem, added.proc, "NOT_LOADED")
      BY <2>1, <2>4 DEF PageLoaded
    <3> QED
      BY <1>0, <2>2, <3>1, GoneAlone
  <2>5. CASE added.ok
    <3>1. NextPage(segment, added.proc)
      BY <2>1, <2>5 DEF PageLoaded
    <3>2. PICK p \in Process :
            /\ p.state # "FREE" /\ p.window_id = NoWindow
            /\ table' = [table EXCEPT ![job.slot] = p]
      <4>1. /\ [added.proc EXCEPT !.entry = job.image.entry] \in Process
            /\ [added.proc EXCEPT !.entry = job.image.entry].state = added.proc.state
            /\ [added.proc EXCEPT !.entry = job.image.entry].window_id = added.proc.window_id
        <5>1. job.image.entry \in Nat
          BY <1>0, ImageTyped
        <5> QED
          BY <2>2, <5>1 DEF Process
      <4> QED
        BY <2>2, <2>3, <3>1, <4>1 DEF NextPage
    <3>3. job'.at \in {"LOADING", "STACK"} /\ job'.slot = job.slot
      <4>1. job.at = "LOADING"
        BY <1>4 DEF LoadPage
      <4> QED
        BY <1>1, <3>1, <4>1 DEF NextPage, JobType
    <3> QED
      BY <1>0, <3>2, <3>3, BuiltAlone
  <2> QED
    BY <2>4, <2>5
<1>5. CASE give_stack
  <2> DEFINE added == process_add_page_at(mem, table[job.slot], StackPage, StackFlags, << >>)
  <2>1. StackGiven(added)
    BY <1>5 DEF give_stack
  <2>2. added.proc \in Process
    BY <1>1, StackAdded
  <2>3. added.proc.state # "FREE" /\ added.proc.window_id = NoWindow
    BY <1>1, <1>2, AddPageKeeps
  <2> HIDE DEF added
  <2>4. CASE ~added.ok
    <3>1. GiveUp(added.mem, added.proc, "NO_STACK")
      BY <2>1, <2>4 DEF StackGiven
    <3> QED
      BY <1>0, <2>2, <3>1, GoneAlone
  <2>5. CASE added.ok
    <3>1. /\ table' = [table EXCEPT ![job.slot] = added.proc]
          /\ job' = [job EXCEPT !.at = "LOADED"]
      BY <2>1, <2>5 DEF StackGiven
    <3>2. job'.at = "LOADED" /\ job'.slot = job.slot
      BY <1>1, <3>1 DEF JobType
    <3> QED
      BY <1>0, <2>2, <2>3, <3>1, <3>2, BuiltAlone
  <2> QED
    BY <2>4, <2>5
<1> QED
  BY <1>3, <1>4, <1>5

LEMMA CreateAlone ==
  ASSUME WellTyped, OneProgram, NEW image \in Images, CreateProcess(image)
  PROVE  OneProgram'
<1>0. /\ table \in [Slots -> Process] /\ job \in JobType /\ job.at = "PROMPT"
      /\ UNCHANGED windows
  BY DEF WellTyped, TypeOK, CreateProcess
<1>1. CASE free_slots = {}
  BY <1>0, <1>1 DEF CreateProcess, OneProgram, InProgram
<1>2. CASE free_slots # {}
  <2> DEFINE new == vmm_new_user_space(mem, boot.ready)
             slot == least(free_slots)
             made == [Blank EXCEPT !.state = "READY", !.space = new.space]
  <2>1. Created(image, slot, new)
    BY <1>2 DEF CreateProcess
  <2>2. slot \in Slots
    <3>1. free_slots \in SUBSET Nat
      BY ProgramsAssumption DEF free_slots, Slots
    <3>2. \E n \in free_slots : \A k \in free_slots : n <= k
      BY <1>2, <3>1, LeastNat
    <3> QED
      BY <3>2 DEF least, free_slots
  <2> HIDE DEF new, slot
  <2>3. /\ made.state = "READY" /\ made.window_id = NoWindow
        /\ Blank.state = "FREE"
    BY DEF Blank
  <2>4. CASE new.result = "OK"
    <3>1. /\ table' = [table EXCEPT ![slot] = made]
          /\ job' = [Idle EXCEPT !.at = "CREATED", !.slot = slot, !.image = image]
      BY <2>1, <2>4 DEF Created
    <3>2. job'.at = "CREATED" /\ job'.slot = slot
      BY <3>1 DEF Idle
    <3> HIDE DEF made
    <3> QED
      BY <1>0, <2>2, <2>3, <3>1, <3>2 DEF OneProgram, InProgram
  <2>5. CASE new.result # "OK"
    <3>1. table' = [table EXCEPT ![slot] = Blank] /\ job' = job
      BY <2>1, <2>5 DEF Created
    <3> QED
      BY <1>0, <2>2, <2>3, <3>1 DEF OneProgram, InProgram
  <2> QED
    BY <2>4, <2>5
<1> QED
  BY <1>1, <1>2

LEMMA EnterAlone ==
  ASSUME WellTyped, OneProgram, EnterUser
  PROVE  OneProgram'
<1>1. /\ job.slot \in Slots /\ job \in JobType /\ table \in [Slots -> Process]
      /\ job.at = "LOADED" /\ windows' = windows /\ current' = job.slot
      /\ table' = [table EXCEPT ![job.slot].state = "RUNNING"]
      /\ job' = [job EXCEPT !.at = "IN_PROGRAM"]
  BY DEF WellTyped, TypeOK, EnterUser
<1>2. job'.at = "IN_PROGRAM" /\ job'.slot = job.slot
  BY <1>1 DEF JobType
<1>3. /\ table'[job.slot].state = "RUNNING"
      /\ table'[job.slot].window_id = table[job.slot].window_id
      /\ \A s \in Slots \ {job.slot} : table'[s] = table[s]
  BY <1>1 DEF Process
<1>4. windows = {} /\ table[job.slot].window_id = NoWindow
  BY <1>1 DEF OneProgram
<1>5. \A s \in Slots : table[s].state # "FREE" <=> s = job.slot
  BY <1>1 DEF OneProgram
<1> QED
  BY <1>1, <1>2, <1>3, <1>4, <1>5 DEF OneProgram, InProgram

\* Inside the program: its entry stays live, and the desktop follows it.
LEMMA InsideAlone ==
  ASSUME WellTyped, OneProgram, InProgram, NEW p \in Process,
         table' = [table EXCEPT ![current] = p], p.state # "FREE",
         windows' = {p.window_id} \ {NoWindow}, current' = current,
         job' = job \/ job' = [job EXCEPT !.at = "BACK"]
  PROVE  OneProgram'
<1>1. /\ job.slot \in Slots /\ job \in JobType /\ table \in [Slots -> Process]
      /\ job.at = "IN_PROGRAM" /\ current = job.slot
  BY DEF WellTyped, TypeOK, InProgram, OneProgram
<1>2. job'.at \in {"IN_PROGRAM", "BACK"} /\ job'.slot = job.slot
  BY <1>1 DEF JobType
<1>3. \A s \in Slots : table'[s].state # "FREE" <=> s = job.slot
  BY <1>1 DEF OneProgram
<1>4. table'[job.slot] = p
  BY <1>1
<1> QED
  BY <1>1, <1>2, <1>3, <1>4 DEF OneProgram, InProgram

\* The program that is running, and what becomes of its state and its window.
LEMMA ProcAlone ==
  ASSUME WellTyped, OneProgram, InProgram, NEW elapsed \in Elapsed
  PROVE  /\ proc.state # "FREE" /\ windows = {proc.window_id} \ {NoWindow}
         /\ paid(elapsed).state # "FREE" /\ paid(elapsed).window_id = proc.window_id
<1>1. proc \in Process /\ job.at = "IN_PROGRAM" /\ current = job.slot /\ job.slot \in Slots
  BY ProcTyped DEF InProgram, OneProgram
<1>2. proc.state # "FREE" /\ windows = {proc.window_id} \ {NoWindow}
  BY <1>1 DEF OneProgram, proc
<1> QED
  BY <1>1, <1>2 DEF paid, Process

LEMMA CallAlone ==
  ASSUME WellTyped, OneProgram, NEW elapsed \in Elapsed, SystemCall(elapsed)
  PROVE  OneProgram'
<1>0. InProgram
  BY DEF SystemCall, SysTimeLimit, Call, do_exit, SysOther, do_hold, winsys_open,
         winsys_close, winsys_event, StopRequested
<1> DEFINE pays == paid(elapsed)
<1>1. /\ proc.state # "FREE" /\ windows = {proc.window_id} \ {NoWindow}
      /\ pays.state # "FREE" /\ pays.window_id = proc.window_id
  BY <1>0, ProcAlone
<1>2. pays \in Process
  BY <1>0, ProcTyped
<1>3. \A code, why : /\ process_stop(pays, code, why).state = "EXITED"
                     /\ process_stop(pays, code, why).window_id = pays.window_id
  BY <1>2 DEF process_stop, Process
<1>4. CASE SysTimeLimit(elapsed)
  <2> DEFINE p == process_stop(pays, -2, "TIME")
  <2>1. p \in Process
    <3>1. -2 \in Int /\ "TIME" \in Reasons
      BY DEF Reasons
    <3> QED
      BY <3>1, <1>0, ProcTyped
  <2>2. /\ table' = [table EXCEPT ![current] = p] /\ job' = [job EXCEPT !.at = "BACK"]
        /\ UNCHANGED <<current, windows>>
    BY <1>4 DEF SysTimeLimit, Leave
  <2>3. p.state = "EXITED" /\ p.window_id = proc.window_id
    BY <1>1, <1>3
  <2> HIDE DEF p
  <2> QED
    BY <1>0, <1>1, <2>1, <2>2, <2>3, InsideAlone
<1>5. ASSUME NEW code \in {0, 1}, do_exit(elapsed, code) PROVE OneProgram'
  <2> DEFINE p == [pays EXCEPT !.exit_code = code, !.state = "EXITED", !.faulted = FALSE]
  <2>1. code \in Int
    OBVIOUS
  <2>2. p \in Process
    BY <1>0, <2>1, ProcTyped
  <2>3. /\ table' = [table EXCEPT ![current] = p] /\ job' = [job EXCEPT !.at = "BACK"]
        /\ UNCHANGED <<current, windows>>
    BY <1>5 DEF do_exit, Leave
  <2>4. p.state = "EXITED" /\ p.window_id = proc.window_id
    BY <1>1, <1>2 DEF Process
  <2> HIDE DEF p
  <2> QED
    BY <1>0, <1>1, <2>2, <2>3, <2>4, InsideAlone
<1>6. CASE SysOther(elapsed) \/ \E into \in Addresses : winsys_event(elapsed, into)
  <2>1. /\ table' = [table EXCEPT ![current] = pays] /\ job' = job
        /\ UNCHANGED <<current, windows>>
    BY <1>6 DEF SysOther, winsys_event
  <2> QED
    BY <1>0, <1>1, <1>2, <2>1, InsideAlone
<1>7. ASSUME NEW counts \in {0, HOLD_MAX + 1}, do_hold(elapsed, counts) PROVE OneProgram'
  <2> DEFINE want == IF counts > HOLD_MAX THEN HOLD_MAX ELSE counts
             waits == IF want = 0 THEN {0} ELSE want .. want + PIT_PERIOD - 2
             p(waited) == [pays EXCEPT !.ran_counts = pays.ran_counts + waited]
  <2>1. waits \subseteq Nat
    <3>1. want \in Nat /\ PIT_PERIOD \in Nat
      BY ProgramsAssumption
    <3> HIDE DEF want
    <3> QED
      BY <3>1
  <2>2. job' = job /\ UNCHANGED <<current, windows>>
    BY <1>7 DEF do_hold
  <2>3. PICK waited \in waits : table' = [table EXCEPT ![current] = p(waited)]
    BY <1>7 DEF do_hold
  <2>4. p(waited) \in Process
    BY <1>0, <2>1, ProcTyped
  <2>5. p(waited).state = pays.state /\ p(waited).window_id = pays.window_id
    BY <1>2 DEF Process
  <2> HIDE DEF p
  <2> QED
    BY <1>0, <1>1, <2>2, <2>3, <2>4, <2>5, InsideAlone
<1>8. ASSUME NEW title \in Addresses, winsys_open(elapsed, title) PROVE OneProgram'
  <2>1. PICK id \in WindowIds \ windows :
          /\ windows' = windows \cup {id}
          /\ table' = [table EXCEPT ![current] = [paid(elapsed) EXCEPT !.window_id = id]]
    BY <1>8 DEF winsys_open
  <2>2. job' = job /\ current' = current /\ proc.window_id = NoWindow
    BY <1>8 DEF winsys_open
  <2> DEFINE p == [pays EXCEPT !.window_id = id]
  <2>3. p \in Process /\ p.state = pays.state /\ p.window_id = id
    BY <1>2 DEF Process
  <2>4. id # NoWindow
    BY ProgramsAssumption DEF NoWindow
  <2>5. windows' = {p.window_id} \ {NoWindow}
    BY <1>1, <2>1, <2>2, <2>3, <2>4
  <2>6. table' = [table EXCEPT ![current] = p]
    BY <2>1
  <2> HIDE DEF p
  <2> QED
    BY <1>0, <1>1, <2>2, <2>3, <2>5, <2>6, InsideAlone
<1>9. CASE winsys_close(elapsed)
  <2> DEFINE p == released(pays)
  <2>1. /\ table' = [table EXCEPT ![current] = p]
        /\ windows' = windows \ {proc.window_id} /\ job' = job /\ current' = current
    BY <1>9 DEF winsys_close
  <2>2. p \in Process /\ p.state = pays.state /\ p.window_id = NoWindow
    BY <1>2 DEF released, Process
  <2>3. windows' = {p.window_id} \ {NoWindow}
    BY <1>1, <2>1, <2>2
  <2> HIDE DEF p
  <2> QED
    BY <1>0, <1>1, <2>1, <2>2, <2>3, InsideAlone
<1>10. CASE StopRequested(elapsed)
  <2> DEFINE p == process_stop(pays, -3, "KEY")
  <2>1. p \in Process
    <3>1. -3 \in Int /\ "KEY" \in Reasons
      BY DEF Reasons
    <3> QED
      BY <3>1, <1>0, ProcTyped
  <2>2. /\ table' = [table EXCEPT ![current] = p] /\ job' = [job EXCEPT !.at = "BACK"]
        /\ UNCHANGED <<current, windows>>
    BY <1>10 DEF StopRequested, Leave
  <2>3. p.state = "EXITED" /\ p.window_id = proc.window_id
    BY <1>1, <1>3
  <2> HIDE DEF p
  <2> QED
    BY <1>0, <1>1, <2>1, <2>2, <2>3, InsideAlone
<1> QED
  BY <1>4, <1>5, <1>6, <1>7, <1>8, <1>9, <1>10 DEF SystemCall

LEMMA FaultAlone ==
  ASSUME WellTyped, OneProgram, UserFault
  PROVE  OneProgram'
<1> DEFINE p == [proc EXCEPT !.faulted = TRUE, !.exit_code = -1, !.state = "EXITED"]
<1>1. /\ InProgram /\ table' = [table EXCEPT ![current] = p]
      /\ job' = [job EXCEPT !.at = "BACK"] /\ UNCHANGED <<current, windows>>
  BY DEF UserFault, Leave
<1>2. p \in Process /\ proc \in Process
  BY <1>1, ProcTyped
<1>3. p.state = "EXITED" /\ p.window_id = proc.window_id
  BY <1>2 DEF Process
<1>4. windows = {proc.window_id} \ {NoWindow}
  BY <1>1 DEF OneProgram, InProgram, proc
<1> HIDE DEF p
<1> QED
  BY <1>1, <1>2, <1>3, <1>4, InsideAlone

LEMMA LeaveAlone ==
  ASSUME WellTyped, OneProgram, LeaveProgram
  PROVE  OneProgram'
<1> DEFINE p == table[job.slot]
<1>1. /\ job \in JobType /\ job.at = "BACK" /\ job.slot \in Slots
      /\ table \in [Slots -> Process] /\ p \in Process
  BY DEF WellTyped, TypeOK, LeaveProgram
<1>2. /\ table' = [table EXCEPT ![job.slot] = released(p)]
      /\ windows' = windows \ ({p.window_id} \ {released(p).window_id})
      /\ job' = [job EXCEPT !.at = "RETURNED"]
  BY DEF LeaveProgram
<1>3. released(p).state = p.state /\ released(p).window_id = NoWindow
  BY <1>1 DEF released, Process
<1>4. windows' = {}
  BY <1>1, <1>2, <1>3 DEF OneProgram
<1>5. job'.at = "RETURNED" /\ job'.slot = job.slot
  BY <1>1, <1>2 DEF JobType
<1>6. \A s \in Slots : table'[s].state # "FREE" <=> s = job.slot
  <2>1. \A s \in Slots : table[s].state # "FREE" <=> s = job.slot
    BY <1>1 DEF OneProgram
  <2> QED
    BY <1>1, <1>2, <1>3, <2>1
<1>7. table'[job.slot].window_id = NoWindow
  BY <1>1, <1>2, <1>3
<1> QED
  BY <1>4, <1>5, <1>6, <1>7 DEF OneProgram, InProgram

LEMMA ReportAlone ==
  ASSUME WellTyped, OneProgram, ReportAndDestroy
  PROVE  OneProgram'
<1>1. /\ job.at = "RETURNED" /\ job.slot \in Slots /\ table[job.slot] \in Process
  BY DEF WellTyped, TypeOK, ReportAndDestroy
<1>2. GiveUp(mem, table[job.slot], report') /\ UNCHANGED <<boot, current, windows>>
  BY DEF ReportAndDestroy, GiveUp
<1> QED
  BY <1>1, <1>2, GoneAlone

LEMMA StepAlone == WellTyped /\ OneProgram /\ [Next]_vars => OneProgram'
<1> SUFFICES ASSUME WellTyped, OneProgram, [Next]_vars PROVE OneProgram'
  OBVIOUS
<1>1. ASSUME NEW image \in Images, CreateProcess(image) PROVE OneProgram'
  BY <1>1, CreateAlone
<1>2. CASE Kernel
  BY <1>2, LoadAlone, EnterAlone, LeaveAlone, ReportAlone DEF Kernel
<1>3. ASSUME NEW store \in Stores, UserStore(store) PROVE OneProgram'
  BY <1>3 DEF UserStore, OneProgram, InProgram
<1>4. CASE UserFault
  BY <1>4, FaultAlone
<1>5. ASSUME NEW elapsed \in Elapsed, SystemCall(elapsed) PROVE OneProgram'
  BY <1>5, CallAlone
<1>6. CASE UNCHANGED vars
  BY <1>6 DEF vars, OneProgram, InProgram
<1> QED
  BY <1>1, <1>2, <1>3, <1>4, <1>5, <1>6 DEF Next

\* However a program ends (it exits, faults, runs out of time, is stopped with
\* control and C, or never starts), no window of its outlives it, and the
\* desktop has no window of a program that does not know of it (winsys_release,
\* the tail of process_run).
THEOREM WindowsGoWithPrograms == Spec => []WindowsFollowPrograms
<1>1. WellTyped /\ OneProgram => WindowsFollowPrograms
  <2> SUFFICES ASSUME WellTyped, OneProgram PROVE WindowsFollowPrograms
    OBVIOUS
  <2>1. CASE job.at = "PROMPT"
    <3>1. Live = {} /\ windows = {}
      BY <2>1 DEF OneProgram, Live
    <3> QED
      BY <3>1 DEF WindowsFollowPrograms
  <2>2. CASE job.at # "PROMPT"
    <3>1. Live = {job.slot}
      BY <2>2 DEF WellTyped, OneProgram, Live
    <3>2. windows = {table[job.slot].window_id} \ {NoWindow}
      BY <2>2 DEF OneProgram
    <3> QED
      BY <3>1, <3>2 DEF WindowsFollowPrograms
  <2> QED
    BY <2>1, <2>2
<1> QED
  BY <1>1, StartsTyped, StepTyped, StartsWithNone, StepAlone, PTL DEF Spec

----------------------------------------------------------------------------
(* Whose the pages are *)

\* Of the pages the allocator started with, `base', a process has those its
\* space consists of, and the pages it remembers are the mapped ones, each of
\* them once; all the others are free.
Remembers(p, at) ==
  /\ {p.pages[i] : i \in DOMAIN p.pages} = DOMAIN at
  /\ \A i, j \in DOMAIN p.pages : p.pages[i] = p.pages[j] => i = j

Owner(m, p, base) == \E at : Grown(m, p.space, base, at, {}) /\ Remembers(p, at)

\* The same of what adding a page gives.
OwnerAfter(added, base) == Owner(added.mem, added.proc, base)

LEMMA BytesKeepOwner ==
  ASSUME NEW m, NEW p, NEW base, Owner(m, p, base),
         NEW after \in Memory, after.pmm = m.pmm, after.entries = m.entries
  PROVE  Owner(after, p, base)
<1>1. PICK at : Grown(m, p.space, base, at, {}) /\ Remembers(p, at)
  BY DEF Owner
<1>2. Grown(after, p.space, base, at, {})
  BY <1>1, BytesKeepGrown
<1> QED
  BY <1>1, <1>2 DEF Owner

LEMMA OwnerKeeps ==
  ASSUME NEW m, NEW p, NEW base, Owner(m, p, base)
  PROVE  KernelTablesKept(m) /\ m \in Memory
<1>1. PICK at : Grown(m, p.space, base, at, {})
  BY DEF Owner
<1>2. PICK height, num : Built(m, p.space, height, num, base, at, {})
  BY <1>1 DEF Grown
<1> QED
  BY <1>2 DEF Built, KernelKept, KernelTablesKept

\* It has the pages of `at' mapped where `at' says.
Holds(m, p, base, at) == Grown(m, p.space, base, at, {}) /\ Remembers(p, at)

\* What keeping a page comes to, and what adding and filling one does.
KeptOutcome(m, added, base, at, g, page) ==
  /\ OwnerAfter(added, base)
  /\ added.ok => /\ Holds(added.mem, added.proc, base, With(at, g, page))
                 /\ SameBytes(m, added.mem, DOMAIN at \cup {g})

FilledIn(m, after, at, later, page, fill) ==
  \E g :
    \/ /\ g \in DOMAIN at /\ at[g] = page /\ later = at
       /\ after.bytes[g] = filled(m.bytes[g], fill)
       /\ SameBytes(m, after, DOMAIN at \ {g})
    \/ /\ g \notin DOMAIN at /\ \A f \in DOMAIN at : at[f] # page
       /\ later = With(at, g, page)
       /\ after.bytes[g] = filled(ZeroPage, fill)
       /\ SameBytes(m, after, DOMAIN at)

AddedOutcome(m, added, base, at, page, fill) ==
  /\ OwnerAfter(added, base)
  /\ added.ok => \E later : /\ Holds(added.mem, added.proc, base, later)
                            /\ FilledIn(m, added.mem, at, later, page, fill)

\* A page the allocator found is the process's, or the allocator's again.
LEMMA KeepPageHolds ==
  ASSUME NEW m, NEW p \in Process, NEW base, NEW at,
         NEW g \in Frames, g \notin DOMAIN at, Grown(m, p.space, base, at, {g}),
         Remembers(p, at), NEW page, InHalf(page),
         NEW flags \in [write : BOOLEAN, nx : BOOLEAN],
         NEW mapped, mapped = vmm_map(m, p.space, page, g, flags)
  PROVE  KeptOutcome(m, keep_page(p, g, mapped), base, at, g, page)
<1> DEFINE added == keep_page(p, g, mapped)
<1>1. MapOutcome(m, p.space, mapped, base, at, {g}, g, page)
  <2>1. g \in {g}
    OBVIOUS
  <2> DEFINE extra == {g}
  <2> HIDE DEF extra
  <2>2. \A h \in extra : MapOutcome(m, p.space, vmm_map(m, p.space, page, h, flags),
                                    base, at, extra, h, page)
    <3>1. Grown(m, p.space, base, at, extra)
      BY DEF extra
    <3> QED
      BY <3>1, MapGrows
  <2> QED
    BY <2>2 DEF extra
<1>2. mapped \in Walks /\ mapped.mem \in Memory /\ mapped.space \in Space
  BY <1>1 DEF MapOutcome, Walks
<1> SUFFICES /\ Owner(added.mem, added.proc, base)
             /\ added.ok => /\ Holds(added.mem, added.proc, base, With(at, g, page))
                            /\ SameBytes(m, added.mem, DOMAIN at \cup {g})
  BY DEF OwnerAfter, KeptOutcome
<1>3. CASE mapped.result = "OK"
  <2> DEFINE q == [p EXCEPT !.space = mapped.space, !.pages = Append(p.pages, g)]
  <2>1. added.mem = mapped.mem /\ added.proc = q
    BY <1>3 DEF keep_page
  <2> HIDE DEF added
  <2>2. q.space = mapped.space /\ q.pages = Append(p.pages, g) /\ p.pages \in Seq(Frames)
    BY DEF Process
  <2>3. Grown(mapped.mem, q.space, base, With(at, g, page), {})
    <3>1. {g} \ {g} = {}
      OBVIOUS
    <3> QED
      BY <1>1, <1>3, <2>2, <3>1 DEF MapOutcome
  <2>4. Remembers(q, With(at, g, page))
    <3> DEFINE pages == p.pages
               longer == Append(pages, g)
               n == Len(pages)
    <3>1. /\ n \in Nat /\ DOMAIN pages = 1 .. n /\ DOMAIN longer = 1 .. n + 1
          /\ longer[n + 1] = g /\ \A i \in 1 .. n : longer[i] = pages[i]
      BY <2>2
    <3>2. /\ {pages[i] : i \in DOMAIN pages} = DOMAIN at
          /\ \A i, j \in DOMAIN pages : pages[i] = pages[j] => i = j
      BY DEF Remembers
    <3>3. DOMAIN With(at, g, page) = DOMAIN at \cup {g}
      BY DEF With
    <3>4. \A i \in 1 .. n + 1 : i \in 1 .. n \/ i = n + 1
      BY <3>1
    <3>5. 1 .. n \subseteq 1 .. n + 1 /\ n + 1 \in 1 .. n + 1
      BY <3>1
    <3> HIDE DEF pages, longer, n
    <3>6. {longer[i] : i \in DOMAIN longer} = DOMAIN at \cup {g}
      BY <3>1, <3>2, <3>4, <3>5
    <3>7. \A i \in 1 .. n : longer[i] # g
      BY <3>1, <3>2
    <3>8. \A i, j \in DOMAIN longer : longer[i] = longer[j] => i = j
      BY <3>1, <3>2, <3>4, <3>7
    <3>9. q.pages = longer
      BY <2>2 DEF longer, pages
    <3> QED
      BY <3>3, <3>6, <3>8, <3>9 DEF Remembers
  <2> HIDE DEF q
  <2>5. SameBytes(m, mapped.mem, DOMAIN at \cup {g})
    BY <1>1 DEF MapOutcome
  <2> QED
    BY <2>1, <2>3, <2>4, <2>5 DEF Owner, Holds
<1>4. CASE mapped.result # "OK"
  <2> DEFINE q == [p EXCEPT !.space = mapped.space]
             after == [mapped.mem EXCEPT !.pmm = pmm_free(mapped.mem.pmm, <<g>>)]
  <2>1. added.mem = after /\ added.proc = q /\ ~added.ok
    BY <1>4 DEF keep_page
  <2> HIDE DEF added
  <2>2. q.space = mapped.space /\ q.pages = p.pages
    BY DEF Process
  <2>3. after \in Memory /\ after.pmm = pmm_free(mapped.mem.pmm, <<g>>)
        /\ after.entries = mapped.mem.entries
    <3>1. pmm_free(mapped.mem.pmm, <<g>>) \in KernelPmm
      <4>1. DOMAIN <<g>> = {1}
        OBVIOUS
      <4>2. IsFiniteSet({1})
        BY FS_Singleton
      <4>3. IsFiniteSet(DOMAIN <<g>>)
        BY <4>1, <4>2
      <4>4. <<g>> = [i \in DOMAIN <<g>> |-> <<g>>[i]]
        OBVIOUS
      <4>5. mapped.mem.pmm \in KernelPmm
        BY <1>2 DEF Memory
      <4> QED
        BY <4>3, <4>4, <4>5, FreeKeeps
    <3> QED
      BY <3>1, <1>2 DEF Memory
  <2> HIDE DEF after
  <2>4. Grown(mapped.mem, q.space, base, at, {g})
    BY <1>1, <1>4, <2>2 DEF MapOutcome
  <2>5. Grown(after, q.space, base, at, {})
    BY <2>3, <2>4, PageReturned
  <2>6. Remembers(q, at)
    BY <2>2 DEF Remembers
  <2> HIDE DEF q
  <2> QED
    BY <2>1, <2>5, <2>6 DEF Owner
<1> QED
  BY <1>3, <1>4

LEMMA AddPageHolds ==
  ASSUME NEW m, NEW p \in Process, NEW base, NEW at, Holds(m, p, base, at),
         NEW page, InHalf(page), NEW flags \in [write : BOOLEAN, nx : BOOLEAN], NEW fill,
         \A o \in DOMAIN fill : fill[o] \in Bytes \cup {0}
  PROVE  AddedOutcome(m, process_add_page_at(m, p, page, flags, fill), base, at, page, fill)
<1> DEFINE there == vmm_translate(m, p.space, page)
           got == pmm_alloc(m.pmm)
           with == page_in(m, got, ZeroTable, filled(ZeroPage, fill))
           added == process_add_page_at(m, p, page, flags, fill)
<1>0. /\ m \in Memory /\ p.space \in Space /\ page \in Nat
      /\ Owner(m, p, base) /\ Grown(m, p.space, base, at, {}) /\ Remembers(p, at)
  <2>1. Owner(m, p, base) /\ Grown(m, p.space, base, at, {}) /\ Remembers(p, at)
    BY DEF Holds, Owner
  <2> QED
    BY <2>1, OwnerKeeps DEF Process, InHalf, Page
<1>a. /\ Finds(there, at, page) /\ DOMAIN at \subseteq Frames
      /\ \A f, g \in DOMAIN at : at[f] = at[g] => f = g
  <2>1. PICK height, num : Built(m, p.space, height, num, base, at, {})
    BY <1>0 DEF Grown
  <2>2. DOMAIN at \subseteq Frames
    BY <2>1 DEF Built, Tree, Placed
  <2> HIDE DEF there
  <2> QED
    BY <1>0, <2>2, TranslateFinds DEF there
<1>1. added \in [ok : BOOLEAN, mem : Memory, proc : Process]
  BY <1>0, AddPageTyped
<1> SUFFICES /\ Owner(added.mem, added.proc, base)
             /\ added.ok => \E later : /\ Holds(added.mem, added.proc, base, later)
                                       /\ FilledIn(m, added.mem, at, later, page, fill)
  BY DEF OwnerAfter, AddedOutcome
<1>2. added = add_page(m, p, there, page, flags, fill)
  BY DEF process_add_page_at
<1>3. CASE there.result = "OK"
  <2> DEFINE after == [m EXCEPT !.bytes[there.entry.addr]
                                   = filled(m.bytes[there.entry.addr], fill)]
  <2>1. added.mem = after /\ added.proc = p
    <3> HIDE DEF there, added
    <3> QED
      BY <1>2, <1>3 DEF add_page
  <2>2. after.pmm = m.pmm /\ after.entries = m.entries
    BY <1>0 DEF Memory
  <2>3. after \in Memory
    BY <1>1, <2>1
  <2>4. FilledIn(m, after, at, at, page, fill)
    <3> DEFINE g == there.entry.addr
    <3>1. g \in DOMAIN at /\ at[g] = page /\ g \in Frames
      BY <1>3, <1>a DEF Finds
    <3>2. m.bytes \in [Frames -> [Offsets -> Bytes \cup {0}]]
      BY <1>0 DEF Memory
    <3>3. after.bytes = [m.bytes EXCEPT ![g] = filled(m.bytes[g], fill)]
      BY <1>0 DEF Memory
    <3> HIDE DEF g, after
    <3>4. after.bytes[g] = filled(m.bytes[g], fill) /\ SameBytes(m, after, DOMAIN at \ {g})
      BY <1>a, <3>1, <3>2, <3>3 DEF SameBytes
    <3> QED
      BY <3>1, <3>4 DEF FilledIn
  <2> HIDE DEF after, added
  <2>5. Owner(after, p, base)
    BY <1>0, <2>2, <2>3, BytesKeepOwner
  <2>6. Holds(after, p, base, at)
    BY <1>0, <2>2, <2>3, BytesKeepGrown DEF Holds
  <2> QED
    BY <2>1, <2>4, <2>5, <2>6
<1>4. CASE there.result # "OK" /\ (Len(p.pages) >= PROC_MAX_PAGES \/ got.phys = PMM_NONE)
  <2>1. added.mem = m /\ added.proc = p /\ ~added.ok
    <3> HIDE DEF there, added, got
    <3> QED
      BY <1>2, <1>4 DEF add_page, add_new_page, got
  <2> HIDE DEF added
  <2> QED
    BY <1>0, <2>1
<1>5. CASE there.result # "OK" /\ ~(Len(p.pages) >= PROC_MAX_PAGES) /\ got.phys # PMM_NONE
  <2> DEFINE g == got.phys
             mapped == vmm_map(with, p.space, page, g, flags)
  <2>1. added = keep_page(p, g, mapped)
    <3> HIDE DEF there, added, got
    <3> QED
      BY <1>2, <1>5 DEF add_page, add_new_page, got
  <2>2. Grown(m, p.space, base, at, {}) /\ Remembers(p, at)
    BY <1>0
  <2>3. /\ with \in Memory /\ with.pmm = got.pmm
        /\ \A x \in Frames \ {g} : with.entries[x] = m.entries[x]
        /\ \A x \in Frames \ {g} : with.bytes[x] = m.bytes[x]
        /\ with.bytes[g] = filled(ZeroPage, fill)
    <3>1. got.phys \in Frames /\ got.pmm \in KernelPmm
      BY <1>0, AllocKeeps DEF Memory
    <3>2. filled(ZeroPage, fill) \in [Offsets -> Bytes \cup {0}]
      BY ZeroTyped, FilledTyped
    <3> HIDE DEF got
    <3>3. with \in Memory
      BY <1>0, <3>1, <3>2, ZeroTyped, TakenTyped DEF page_in
    <3>4. /\ m.entries \in [Frames -> [Indices -> Entry]]
          /\ m.bytes \in [Frames -> [Offsets -> Bytes \cup {0}]]
      BY <1>0 DEF Memory
    <3> DEFINE full == filled(ZeroPage, fill)
    <3> HIDE DEF full
    <3>5. /\ with.pmm = got.pmm /\ with.entries = [m.entries EXCEPT ![g] = ZeroTable]
          /\ with.bytes = [m.bytes EXCEPT ![g] = full]
      BY <1>0 DEF page_in, Memory, full
    <3> HIDE DEF with
    <3>6. /\ \A x \in Frames \ {g} : with.entries[x] = m.entries[x]
          /\ \A x \in Frames \ {g} : with.bytes[x] = m.bytes[x]
          /\ with.bytes[g] = full
      BY <3>1, <3>4, <3>5
    <3> QED
      BY <3>3, <3>5, <3>6 DEF full
  <2> HIDE DEF with, added
  <2>4. Grown(with, p.space, base, at, {g}) /\ g \notin DOMAIN at /\ g \in Frames
    <3>1. g = pmm_alloc(m.pmm).phys /\ g # PMM_NONE /\ with.pmm = pmm_alloc(m.pmm).pmm
      BY <1>5, <2>3
    <3> HIDE DEF g, got
    <3> QED
      BY <2>2, <2>3, <3>1, PageTaken
  <2> HIDE DEF g
  <2>5. KeptOutcome(with, keep_page(p, g, mapped), base, at, g, page)
    BY <2>2, <2>4, KeepPageHolds
  <2>6. Owner(added.mem, added.proc, base)
    BY <2>1, <2>5 DEF OwnerAfter, KeptOutcome
  <2>7. ASSUME added.ok
        PROVE  /\ Holds(added.mem, added.proc, base, With(at, g, page))
               /\ FilledIn(m, added.mem, at, With(at, g, page), page, fill)
    <3>1. /\ Holds(added.mem, added.proc, base, With(at, g, page))
          /\ SameBytes(with, added.mem, DOMAIN at \cup {g})
      BY <2>1, <2>5, <2>7 DEF KeptOutcome
    <3>2. added.mem.bytes[g] = filled(ZeroPage, fill) /\ SameBytes(m, added.mem, DOMAIN at)
      BY <1>a, <2>3, <2>4, <3>1 DEF SameBytes
    <3>3. \A f \in DOMAIN at : at[f] # page
      BY <1>a, <1>5 DEF Finds
    <3> QED
      BY <2>4, <3>1, <3>2, <3>3 DEF FilledIn
  <2> QED
    BY <2>6, <2>7
<1> QED
  BY <1>3, <1>4, <1>5

LEMMA AddPageOwns ==
  ASSUME NEW m, NEW p \in Process, NEW base, Owner(m, p, base),
         NEW page, InHalf(page), NEW flags \in [write : BOOLEAN, nx : BOOLEAN], NEW fill,
         \A o \in DOMAIN fill : fill[o] \in Bytes \cup {0}
  PROVE  OwnerAfter(process_add_page_at(m, p, page, flags, fill), base)
<1>1. PICK at : Holds(m, p, base, at)
  BY DEF Owner, Holds
<1>2. AddedOutcome(m, process_add_page_at(m, p, page, flags, fill), base, at, page, fill)
  BY <1>1, AddPageHolds
<1> QED
  BY <1>2 DEF AddedOutcome

\* Taking the process apart gives back everything it had.
LEMMA DestroyOwned ==
  ASSUME NEW m, NEW p \in Process, NEW base, Owner(m, p, base)
  PROVE  Gone(process_destroy(m, p), base)
<1> DEFINE mid == [m EXCEPT !.pmm = pmm_free(m.pmm, p.pages)]
<1>1. PICK at : Grown(m, p.space, base, at, {}) /\ Remembers(p, at)
  BY DEF Owner
<1>2. m \in Memory /\ m.pmm \in KernelPmm
  BY OwnerKeeps, MemoryParts
<1>3. p.pages \in Seq(Frames)
  BY DEF Process
<1>4. pmm_free(m.pmm, p.pages) \in KernelPmm
  <2>1. DOMAIN p.pages = 1 .. Len(p.pages) /\ Len(p.pages) \in Nat
    BY <1>3
  <2>2. IsFiniteSet(DOMAIN p.pages)
    BY <2>1, FS_Interval
  <2>3. p.pages = [i \in DOMAIN p.pages |-> p.pages[i]]
    BY <1>3
  <2> QED
    BY <1>2, <2>2, <2>3, FreeKeeps
<1>5. mid \in Memory /\ mid.pmm = pmm_free(m.pmm, p.pages) /\ mid.entries = m.entries
  BY <1>2, <1>4 DEF Memory
<1>6. process_destroy(m, p) = vmm_destroy(mid, p.space)
  BY DEF process_destroy
<1> HIDE DEF mid
<1>7. /\ {p.pages[i] : i \in DOMAIN p.pages} = DOMAIN at
      /\ \A i, j \in DOMAIN p.pages : p.pages[i] = p.pages[j] => i = j
  BY <1>1 DEF Remembers
<1>8. Gone(vmm_destroy(mid, p.space), base)
  BY <1>1, <1>3, <1>5, <1>7, SpaceGone
<1> QED
  BY <1>6, <1>8

----------------------------------------------------------------------------
(* The pages there are to begin with *)

\* A multiple that a number is not below is not above its quotient.
LEMMA QuotientGrows ==
  ASSUME NEW x \in Nat, NEW d \in Nat \ {0}, NEW q \in Nat, q * d <= x
  PROVE  q <= x \div d
<1> DEFINE y == x \div d
<1>1. y \in Nat /\ x % d \in 0 .. d - 1 /\ x = y * d + (x % d)
  BY Division
<1> HIDE DEF y
<1>2. ~(y + 1 <= q)
  <2> SUFFICES ASSUME y + 1 <= q PROVE FALSE
    OBVIOUS
  <2>1. (y + 1) * d <= q * d
    BY <1>1, TimesGrows
  <2>2. (y + 1) * d = y * d + d /\ y * d \in Nat /\ q * d \in Nat
    BY <1>1, SMT
  <2> QED
    BY <1>1, <2>1, <2>2
<1> QED
  BY <1>1, <1>2 DEF y

\* Every page that some byte of a range is in is one the range touches.
LEMMA BytesTouch ==
  ASSUME NEW at \in Nat, NEW bytes \in Nat, NEW b \in at .. at + bytes - 1
  PROVE  b \div PAGE_SIZE \in pages_touched(at, bytes)
<1> DEFINE d == PAGE_SIZE
           q == b \div d
           r == at \div d
           end == at + bytes + d - 1
<1>0. d \in Nat \ {0} /\ b \in Nat /\ bytes # 0 /\ end \in Nat /\ b + d <= end
  BY PageAssumption
<1> HIDE DEF d
<1>1. q \in Nat /\ q * d <= b /\ q * d \in Nat
  <2>1. q \in Nat /\ b % d \in 0 .. d - 1 /\ b = q * d + (b % d)
    BY <1>0, Division
  <2> HIDE DEF q
  <2>2. q * d \in Nat
    BY <2>1, <1>0, TimesGrows
  <2> QED
    BY <2>1, <2>2, <1>0
<1>2. r \in Nat /\ r * d <= at /\ r * d \in Nat
  <2>1. r \in Nat /\ at % d \in 0 .. d - 1 /\ at = r * d + (at % d)
    BY <1>0, Division
  <2> HIDE DEF r
  <2>2. r * d \in Nat
    BY <2>1, <1>0, TimesGrows
  <2> QED
    BY <2>1, <2>2, <1>0
<1>3. r <= q
  <2>1. r * d <= b
    BY <1>0, <1>2
  <2> HIDE DEF r
  <2> QED
    BY <1>0, <1>2, <2>1, QuotientGrows
<1>4. q + 1 <= end \div d
  <2> HIDE DEF q
  <2>1. (q + 1) * d = q * d + d
    BY <1>0, <1>1, SMT
  <2>2. (q + 1) * d <= end
    BY <1>0, <1>1, <2>1
  <2> HIDE DEF end
  <2> QED
    BY <1>0, <1>1, <2>2, QuotientGrows
<1>5. frames_covering(at + bytes) = end \div d
  BY DEF frames_covering, d
<1>6. end \div d \in Nat
  <2> HIDE DEF end
  <2> QED
    BY <1>0, Division
<1>7. q \in r .. frames_covering(at + bytes) - 1
  <2> HIDE DEF q, r, end
  <2> QED
    BY <1>1, <1>2, <1>3, <1>4, <1>5, <1>6
<1> QED
  BY <1>0, <1>7 DEF pages_touched, d

\* The pages the allocator starts with are usable ones: page zero is not among
\* them, nor is a page of the bitmap or one of the bootloader's page tables.
BootSound(b) ==
  LET free == FreePages(b.pmm)
  IN  /\ Accounts(b.pmm, free, {})
      /\ free \cap b.bitmap = {}
      /\ free \cap DOMAIN KernelTables = {}

LEMMA BootGivesPages ==
  ASSUME NEW map \in MemoryMaps
  PROVE  BootSound(pmmboot_init(map))
<1> DEFINE end == highest_usable_end(map)
           bytes == BitmapBytes(map)
           at == place_bitmap(map, bytes)
           bitmap == {b \div PAGE_SIZE : b \in at .. at + bytes - 1}
           free == UNION {pages_inside(map[i].base, map[i].length) : i \in usable(map)}
           touched == pages_touched(at, bytes)
           reset == AllTaken(map)
           freed == mark_free(reset, free)
           pmm == mark_used(freed, touched)
           boots == pmmboot_init(map)
<1> SUFFICES BootSound(boots)
  OBVIOUS
<1>1. boots.pmm \in KernelPmm
  BY PmmBootTyped
<1>2. boots = IF end = 0 \/ at = 0 THEN [ready |-> FALSE, bitmap |-> {}, pmm |-> NoPmm]
              ELSE [ready |-> TRUE, bitmap |-> bitmap, pmm |-> pmm]
  BY DEF pmmboot_init, BitmapBytes, AllTaken
<1>3. CASE end = 0 \/ at = 0
  <2>1. boots.pmm = NoPmm /\ boots.bitmap = {}
    <3> HIDE DEF end, at
    <3> QED
      BY <1>2, <1>3
  <2>2. FreePages(NoPmm) = {} /\ NoPmm.bad_frees = 0
    BY DEF FreePages, slots, NoPmm
  <2> HIDE DEF boots
  <2> QED
    BY <1>1, <2>1, <2>2 DEF BootSound, Accounts
<1>4. CASE ~(end = 0 \/ at = 0)
  <2>1. boots.pmm = pmm /\ boots.bitmap = bitmap
    <3> HIDE DEF end, at, bitmap, pmm
    <3> QED
      BY <1>2, <1>4
  <2>2. reset \in KernelPmm /\ reset.used = slots(reset) /\ reset.bad_frees = 0
        /\ bytes \in Nat /\ at \in Nat
    BY ResetTakesAll
  <2> HIDE DEF reset
  <2>3. freed \in KernelPmm
    BY <2>2, MarkFreeKeeps
  <2>4. /\ freed.bad_frees = 0 /\ freed.pages = reset.pages
        /\ freed.used = slots(reset) \ free
    BY <2>2 DEF mark_free, KernelPmm, PmmType
  <2> HIDE DEF freed
  <2>5. /\ pmm.bad_frees = 0 /\ pmm.pages = reset.pages
        /\ pmm.used = (slots(reset) \ free) \cup (touched \cap slots(freed))
    BY <2>3, <2>4 DEF mark_used, KernelPmm, PmmType
  <2> HIDE DEF pmm
  <2>6. FreePages(pmm) = (slots(pmm) \cap free) \ touched
    BY <2>4, <2>5 DEF FreePages, slots
  <2>7. 0 \notin free
    BY DEF pages_inside
  <2>8. free \cap DOMAIN KernelTables = {}
    BY MapsAssumption
  <2>9. bitmap \subseteq touched
    <3> HIDE DEF at, bytes
    <3> QED
      BY <2>2, BytesTouch
  <2> HIDE DEF free, touched, bitmap, boots
  <2>10. Accounts(pmm, FreePages(pmm), {})
    BY <1>1, <2>1, <2>5, <2>6, <2>7 DEF Accounts
  <2> QED
    BY <2>1, <2>6, <2>8, <2>9, <2>10 DEF BootSound
<1> QED
  BY <1>3, <1>4

----------------------------------------------------------------------------
(* Every page is somebody's *)

\* What the allocator had to give when the kernel came up.
Base == FreePages(boot.pmm)

\* At the prompt all of it is back, and from process_create to process_destroy
\* the rest of it is the program's.  The pages of an executable that is being
\* loaded are in the program's half of the space.
Owned ==
  /\ BootSound(boot)
  /\ job.at = "PROMPT" => Gone(mem, Base)
  /\ job.at # "PROMPT" => Owner(mem, table[job.slot], Base)
  /\ job.at = "LOADING" =>
       /\ elf_check(job.image)
       /\ job.page \in first_page(job.image.segments[job.segment])
                         .. last_page(job.image.segments[job.segment])

LEMMA AddressInHalf ==
  ASSUME NEW at \in Nat, 2 * at < VIRT_PAGES * PAGE_SIZE,
         NEW page \in Nat, page <= at \div PAGE_SIZE
  PROVE  InHalf(page)
<1> DEFINE d == PAGE_SIZE
           q == at \div d
<1>0. d \in Nat \ {0} /\ VIRT_PAGES \in Nat
  <2>1. VIRT_PAGES = Span[PAGING_LEVELS] /\ PAGING_LEVELS \in 0 .. PAGING_LEVELS
    BY PagingAssumption DEF Span
  <2> QED
    BY <2>1, PageAssumption, PowersAssumption
<1> HIDE DEF d
<1>1. q \in Nat /\ at % d \in 0 .. d - 1 /\ at = q * d + (at % d)
  BY <1>0, Division
<1>2. page <= q
  BY DEF q, d
<1>3. 2 * at < VIRT_PAGES * d
  BY DEF d
<1> HIDE DEF q
<1>4. page * d <= q * d /\ page * d \in Nat /\ q * d \in Nat
  BY <1>0, <1>1, <1>2, TimesGrows
<1>5. 2 * page < VIRT_PAGES
  <2> SUFFICES ASSUME VIRT_PAGES <= 2 * page PROVE FALSE
    BY <1>0
  <2>1. VIRT_PAGES * d <= (2 * page) * d /\ VIRT_PAGES * d \in Nat
    BY <1>0, TimesGrows
  <2>2. (2 * page) * d = 2 * (page * d)
    BY <1>0, <1>4, SMT
  <2> QED
    BY <1>0, <1>1, <1>3, <1>4, <2>1, <2>2
<1> QED
  BY <1>5, LowIsInHalf

\* elf_check's bounds keep every page of a segment in the program's half.
LEMMA SegmentInHalf ==
  ASSUME NEW image, NEW i, segment_ok(image, i), image.segments[i] \in Segment,
         NEW page \in first_page(image.segments[i]) .. last_page(image.segments[i])
  PROVE  InHalf(page)
<1> DEFINE s == image.segments[i]
           end == s.vaddr + s.mem_bytes - 1
<1>1. /\ s.vaddr \in Nat /\ s.mem_bytes \in Nat \ {0}
      /\ s.vaddr + s.mem_bytes <= USER_HIGHEST
  BY DEF segment_ok, Segment
<1>2. end \in Nat /\ 2 * end < 2 * USER_HIGHEST
  BY <1>1, ProgramsAssumption
<1>3. 2 * USER_HIGHEST <= VIRT_PAGES * PAGE_SIZE /\ VIRT_PAGES * PAGE_SIZE \in Nat
  <2>1. VIRT_PAGES = Span[PAGING_LEVELS] /\ PAGING_LEVELS \in 0 .. PAGING_LEVELS
    BY PagingAssumption DEF Span
  <2>2. VIRT_PAGES \in Nat /\ PAGE_SIZE \in Nat
    BY <2>1, PageAssumption, PowersAssumption
  <2> QED
    BY <2>2, TimesGrows, ProgramsAssumption
<1>4. 2 * end < VIRT_PAGES * PAGE_SIZE
  <2> HIDE DEF end
  <2> QED
    BY <1>2, <1>3, ProgramsAssumption
<1>5. first_page(s) \in Nat /\ last_page(s) = end \div PAGE_SIZE
  BY SegmentTyped DEF last_page
<1>6. page \in first_page(s) .. last_page(s)
  OBVIOUS
<1> HIDE DEF s, end
<1>7. page \in Nat /\ page <= end \div PAGE_SIZE
  <2>1. end \div PAGE_SIZE \in Nat
    BY <1>2, PageAssumption, Division
  <2> QED
    BY <1>5, <1>6, <2>1
<1> QED
  BY <1>2, <1>4, <1>7, AddressInHalf

LEMMA StackInHalf == InHalf(StackPage)
<1> DEFINE at == USER_STACK_TOP - PAGE_SIZE
<1>1. /\ at \in Nat /\ PAGE_SIZE \in Nat \ {0} /\ USER_STACK_TOP \in Nat
      /\ 2 * at < 2 * USER_STACK_TOP
  BY ProgramsAssumption, PageAssumption
<1>2. 2 * USER_STACK_TOP <= VIRT_PAGES * PAGE_SIZE /\ VIRT_PAGES * PAGE_SIZE \in Nat
  <2>1. VIRT_PAGES = Span[PAGING_LEVELS] /\ PAGING_LEVELS \in 0 .. PAGING_LEVELS
    BY PagingAssumption DEF Span
  <2>2. VIRT_PAGES \in Nat /\ PAGE_SIZE \in Nat
    BY <2>1, PageAssumption, PowersAssumption
  <2> QED
    BY <2>2, TimesGrows, ProgramsAssumption
<1>3. StackPage = at \div PAGE_SIZE
  BY DEF StackPage
<1> HIDE DEF at
<1>4. 2 * at < VIRT_PAGES * PAGE_SIZE
  BY <1>1, <1>2
<1>5. at \div PAGE_SIZE \in Nat
  BY <1>1, Division
<1>6. InHalf(at \div PAGE_SIZE)
  <2> DEFINE q == at \div PAGE_SIZE
  <2>1. q \in Nat /\ q <= at \div PAGE_SIZE
    BY <1>5
  <2> HIDE DEF q
  <2>2. InHalf(q)
    BY <1>1, <1>4, <2>1, AddressInHalf
  <2> QED
    BY <2>2 DEF q
<1> QED
  BY <1>3, <1>6

LEMMA StartsOwned == Init => Owned
<1> SUFFICES ASSUME Init PROVE Owned
  OBVIOUS
<1>1. BootSound(boot)
  BY BootGivesPages DEF Init
<1>2. mem \in Memory
  BY StartsTyped DEF WellTyped
<1>3. mem.pmm = boot.pmm /\ job.at = "PROMPT"
  BY DEF Init, Idle
<1>4. KernelTablesKept(mem)
  <2>1. DOMAIN KernelTables \subseteq Frames
    BY PagingAssumption
  <2> QED
    BY <2>1 DEF Init, KernelTablesKept
<1>5. Gone(mem, Base)
  BY <1>1, <1>2, <1>3, <1>4 DEF BootSound, Gone, Base
<1> QED
  BY <1>1, <1>3, <1>5 DEF Owned

----------------------------------------------------------------------------
(* The steps *)

\* Who owns what is a matter of the space and the pages alone.
LEMMA SameOwner ==
  ASSUME NEW m, NEW p, NEW base, Owner(m, p, base), NEW q,
         q.space = p.space, q.pages = p.pages
  PROVE  Owner(m, q, base)
BY DEF Owner, Remembers

\* A process that is taken apart leaves the prompt and everything given back.
LEMMA GiveUpOwned ==
  ASSUME Owned, NEW m, NEW p \in Process, Owner(m, p, Base), NEW why,
         GiveUp(m, p, why), boot' = boot
  PROVE  Owned'
<1>1. Gone(process_destroy(m, p), Base)
  BY DestroyOwned
<1>2. mem' = process_destroy(m, p) /\ job' = Idle
  BY DEF GiveUp
<1>3. job'.at = "PROMPT"
  BY <1>2 DEF Idle
<1>4. Gone(mem', Base') /\ BootSound(boot')
  BY <1>1, <1>2 DEF Base, Owned
<1> QED
  BY <1>3, <1>4 DEF Owned

LEMMA CreateOwned ==
  ASSUME WellTyped, Owned, NEW image \in Images, CreateProcess(image)
  PROVE  Owned'
<1>0. /\ mem \in Memory /\ table \in [Slots -> Process] /\ job.at = "PROMPT"
      /\ boot' = boot /\ BootSound(boot) /\ Gone(mem, Base) /\ Base' = Base
  BY DEF WellTyped, TypeOK, CreateProcess, Owned, Base
<1>1. CASE free_slots = {}
  BY <1>0, <1>1 DEF CreateProcess, Owned
<1>2. CASE free_slots # {}
  <2> DEFINE new == vmm_new_user_space(mem, boot.ready)
             slot == least(free_slots)
             made == [Blank EXCEPT !.state = "READY", !.space = new.space]
  <2>1. Created(image, slot, new)
    BY <1>2 DEF CreateProcess
  <2>2. slot \in Slots
    <3>1. free_slots \in SUBSET Nat
      BY ProgramsAssumption DEF free_slots, Slots
    <3>2. \E n \in free_slots : \A k \in free_slots : n <= k
      BY <1>2, <3>1, LeastNat
    <3> QED
      BY <3>2 DEF least, free_slots
  <2>3. SpaceOutcome(mem, new, Base)
    <3>1. Accounts(mem.pmm, Base, {}) /\ KernelTablesKept(mem)
      BY <1>0 DEF Gone
    <3>2. Base \cap DOMAIN KernelTables = {}
      BY <1>0 DEF BootSound, Base
    <3> QED
      BY <1>0, <3>1, <3>2, NewSpaceGrows
  <2> HIDE DEF new, slot
  <2>4. CASE new.result = "OK"
    <3>1. /\ mem' = new.mem /\ table' = [table EXCEPT ![slot] = made]
          /\ job' = [Idle EXCEPT !.at = "CREATED", !.slot = slot, !.image = image]
      BY <2>1, <2>4 DEF Created
    <3>2. job'.at = "CREATED" /\ job'.slot = slot
      BY <3>1 DEF Idle
    <3>3. made.space = new.space /\ made.pages = << >>
      BY DEF Blank
    <3>4. table'[job'.slot] = made
      BY <1>0, <2>2, <3>1, <3>2
    <3> HIDE DEF made
    <3>5. Owner(new.mem, made, Base)
      <4>1. Grown(new.mem, made.space, Base, NoPages, {})
        BY <2>3, <2>4, <3>3 DEF SpaceOutcome
      <4>2. Remembers(made, NoPages)
        BY <3>3 DEF Remembers, NoPages
      <4> QED
        BY <4>1, <4>2 DEF Owner
    <3> QED
      BY <1>0, <3>1, <3>2, <3>4, <3>5 DEF Owned
  <2>5. CASE new.result # "OK"
    <3>1. mem' = mem /\ job' = job
      BY <2>1, <2>3, <2>5 DEF Created, SpaceOutcome
    <3> QED
      BY <1>0, <3>1 DEF Owned
  <2> QED
    BY <2>4, <2>5
<1> QED
  BY <1>1, <1>2

\* A segment is in its first page.
LEMMA FirstPageIn ==
  ASSUME NEW s \in Segment
  PROVE  first_page(s) \in first_page(s) .. last_page(s) /\ last_page(s) \in Nat
<1> DEFINE end == s.vaddr + s.mem_bytes - 1
           q == s.vaddr \div PAGE_SIZE
<1>1. /\ s.vaddr \in Nat /\ end \in Nat /\ s.vaddr <= end /\ PAGE_SIZE \in Nat \ {0}
  BY PageAssumption DEF Segment
<1>2. first_page(s) = q /\ last_page(s) = end \div PAGE_SIZE
  BY DEF first_page, last_page
<1>3. /\ q \in Nat /\ s.vaddr % PAGE_SIZE \in 0 .. PAGE_SIZE - 1
      /\ s.vaddr = q * PAGE_SIZE + (s.vaddr % PAGE_SIZE)
  BY <1>1, Division
<1> HIDE DEF q, end
<1>4. q * PAGE_SIZE \in Nat
  BY <1>1, <1>3, TimesGrows
<1>5. q * PAGE_SIZE <= end
  BY <1>1, <1>3, <1>4
<1>6. q <= end \div PAGE_SIZE
  BY <1>1, <1>3, <1>5, QuotientGrows
<1>7. end \div PAGE_SIZE \in Nat
  BY <1>1, Division
<1> QED
  BY <1>2, <1>3, <1>6, <1>7

LEMMA CheckOwned ==
  ASSUME WellTyped, Owned, CheckImage
  PROVE  Owned'
<1>0. /\ table[job.slot] \in Process /\ job \in JobType /\ job.segment = 1
      /\ job.image.segments \in Seq(Segment) /\ job.at = "CREATED" /\ boot' = boot
      /\ \A i \in DOMAIN job.image.segments : job.image.segments[i] \in Segment
  BY ImageTyped DEF CheckImage, WellTyped
<1>1. Owner(mem, table[job.slot], Base)
  BY <1>0 DEF Owned
<1>2. CASE elf_check(job.image)
  <2>1. /\ job' = [job EXCEPT !.at = "LOADING", !.page = first_page(job.image.segments[1])]
        /\ UNCHANGED <<boot, mem, table>>
    BY <1>2 DEF CheckImage
  <2>2. /\ job'.at = "LOADING" /\ job'.slot = job.slot /\ job'.image = job.image
        /\ job'.segment = 1 /\ job'.page = first_page(job.image.segments[1])
    BY <1>0, <2>1 DEF JobType
  <2>3. 1 \in DOMAIN job.image.segments
    BY <1>0, <1>2 DEF elf_check
  <2>4. job'.page \in first_page(job.image.segments[1]) .. last_page(job.image.segments[1])
    BY <1>0, <2>2, <2>3, FirstPageIn
  <2>5. Base' = Base
    BY <2>1 DEF Base
  <2> QED
    BY <1>1, <1>2, <2>1, <2>2, <2>4, <2>5 DEF Owned
<1>3. CASE ~elf_check(job.image)
  <2>1. GiveUp(mem, table[job.slot], "NOT_LOADED")
    BY <1>3 DEF CheckImage
  <2> QED
    BY <1>0, <1>1, <2>1, GiveUpOwned
<1> QED
  BY <1>2, <1>3

LEMMA LoadOwned ==
  ASSUME WellTyped, Owned, LoadPage
  PROVE  Owned'
<1> DEFINE segment == job.image.segments[job.segment]
           fill == fill_of(segment, job.page)
           added == process_add_page_at(mem, table[job.slot], job.page,
                      flags_for(segment), fill)
<1>0. job.at = "LOADING" /\ boot' = boot /\ PageLoaded(segment, added)
  BY DEF LoadPage
<1>1. /\ mem \in Memory /\ table[job.slot] \in Process /\ job.slot \in Slots
      /\ job \in JobType /\ job.page \in Nat /\ job.segment \in Nat
      /\ job.image.segments \in Seq(Segment) /\ job.image.entry \in Nat
      /\ \A i \in DOMAIN job.image.segments : job.image.segments[i] \in Segment
      /\ table \in [Slots -> Process]
  BY <1>0, ImageTyped DEF WellTyped, TypeOK
<1>2. job.segment \in DOMAIN job.image.segments /\ segment \in Segment
  BY <1>0, <1>1 DEF WellTyped
<1>3. /\ Owner(mem, table[job.slot], Base) /\ elf_check(job.image)
      /\ job.page \in first_page(segment) .. last_page(segment)
  BY <1>0 DEF Owned
<1>4. InHalf(job.page)
  <2>1. segment_ok(job.image, job.segment)
    BY <1>2, <1>3 DEF elf_check
  <2> QED
    BY <1>2, <1>3, <2>1, SegmentInHalf
<1>5. /\ flags_for(segment) \in [write : BOOLEAN, nx : BOOLEAN]
      /\ \A o \in DOMAIN fill : fill[o] \in Bytes \cup {0}
  <2> HIDE DEF segment
  <2> QED
    BY <1>1, <1>2, SegmentTyped
<1>6. added \in [ok : BOOLEAN, mem : Memory, proc : Process]
  <2> HIDE DEF segment, fill
  <2> QED
    BY <1>1, <1>5, AddPageTyped
<1>7. OwnerAfter(added, Base)
  <2> HIDE DEF segment, fill
  <2> QED
    BY <1>1, <1>3, <1>4, <1>5, AddPageOwns
<1> HIDE DEF added
<1>8. Owner(added.mem, added.proc, Base) /\ added.proc \in Process
  BY <1>6, <1>7 DEF OwnerAfter
<1>9. CASE ~added.ok
  <2>1. GiveUp(added.mem, added.proc, "NOT_LOADED")
    BY <1>0, <1>9 DEF PageLoaded
  <2> QED
    BY <1>0, <1>8, <2>1, GiveUpOwned
<1>10. CASE added.ok
  <2>1. mem' = added.mem /\ NextPage(segment, added.proc)
    BY <1>0, <1>10 DEF PageLoaded
  <2>2. Base' = Base /\ BootSound(boot')
    BY <1>0 DEF Base, Owned
  <2>3. CASE job.page < last_page(segment)
    <3>1. /\ job' = [job EXCEPT !.page = job.page + 1]
          /\ table' = [table EXCEPT ![job.slot] = added.proc]
      BY <2>1, <2>3 DEF NextPage
    <3>2. /\ job'.at = "LOADING" /\ job'.slot = job.slot /\ job'.image = job.image
          /\ job'.segment = job.segment /\ job'.page = job.page + 1
      BY <1>0, <1>1, <3>1 DEF JobType
    <3>3. job.page + 1 \in first_page(segment) .. last_page(segment)
      <4>1. first_page(segment) \in Nat /\ last_page(segment) \in Nat
        BY <1>2, SegmentTyped, FirstPageIn
      <4> HIDE DEF segment
      <4> QED
        BY <1>1, <1>3, <2>3, <4>1
    <3>4. table'[job'.slot] = added.proc
      BY <1>1, <3>1, <3>2
    <3> QED
      BY <1>3, <1>8, <2>1, <2>2, <3>2, <3>3, <3>4 DEF Owned
  <2>4. CASE ~(job.page < last_page(segment)) /\ job.segment < Len(job.image.segments)
    <3> DEFINE next == job.segment + 1
    <3>1. /\ job' = [job EXCEPT !.segment = next,
                                !.page = first_page(job.image.segments[next])]
          /\ table' = [table EXCEPT ![job.slot] = added.proc]
      BY <2>1, <2>4 DEF NextPage
    <3>2. next \in DOMAIN job.image.segments
      BY <1>1, <2>4
    <3> HIDE DEF next
    <3>3. /\ job'.at = "LOADING" /\ job'.slot = job.slot /\ job'.image = job.image
          /\ job'.segment = next /\ job'.page = first_page(job.image.segments[next])
      BY <1>0, <1>1, <3>1 DEF JobType
    <3>4. job'.page \in first_page(job.image.segments[next])
                          .. last_page(job.image.segments[next])
      BY <1>1, <3>2, <3>3, FirstPageIn
    <3>5. table'[job'.slot] = added.proc
      BY <1>1, <3>1, <3>3
    <3> QED
      BY <1>3, <1>8, <2>1, <2>2, <3>3, <3>4, <3>5 DEF Owned
  <2>5. CASE ~(job.page < last_page(segment)) /\ ~(job.segment < Len(job.image.segments))
    <3> DEFINE q == [added.proc EXCEPT !.entry = job.image.entry]
    <3>1. /\ job' = [job EXCEPT !.at = "STACK"]
          /\ table' = [table EXCEPT ![job.slot] = q]
      BY <2>1, <2>5 DEF NextPage
    <3>2. job'.at = "STACK" /\ job'.slot = job.slot
      BY <1>1, <3>1 DEF JobType
    <3>3. q.space = added.proc.space /\ q.pages = added.proc.pages
      BY <1>8 DEF Process
    <3>4. table'[job'.slot] = q
      BY <1>1, <3>1, <3>2
    <3> HIDE DEF q
    <3>5. Owner(added.mem, q, Base)
      BY <1>8, <3>3, SameOwner
    <3> QED
      BY <2>1, <2>2, <3>2, <3>4, <3>5 DEF Owned
  <2> QED
    BY <2>3, <2>4, <2>5
<1> QED
  BY <1>9, <1>10

LEMMA StackOwned ==
  ASSUME WellTyped, Owned, give_stack
  PROVE  Owned'
<1> DEFINE added == process_add_page_at(mem, table[job.slot], StackPage, StackFlags, << >>)
<1>0. job.at = "STACK" /\ boot' = boot /\ StackGiven(added)
  BY DEF give_stack
<1>1. /\ mem \in Memory /\ table[job.slot] \in Process /\ job.slot \in Slots
      /\ job \in JobType /\ table \in [Slots -> Process]
      /\ Owner(mem, table[job.slot], Base)
  BY <1>0, ImageTyped DEF WellTyped, TypeOK, Owned
<1>2. added \in [ok : BOOLEAN, mem : Memory, proc : Process]
  BY <1>1, StackAdded
<1>3. OwnerAfter(added, Base)
  <2>1. StackFlags \in [write : BOOLEAN, nx : BOOLEAN]
    BY ProgramsAssumption DEF StackFlags
  <2>2. \A o \in DOMAIN << >> : << >>[o] \in Bytes \cup {0}
    OBVIOUS
  <2> QED
    BY <1>1, <2>1, <2>2, StackInHalf, AddPageOwns
<1> HIDE DEF added
<1>4. Owner(added.mem, added.proc, Base) /\ added.proc \in Process
  BY <1>2, <1>3 DEF OwnerAfter
<1>5. CASE ~added.ok
  <2>1. GiveUp(added.mem, added.proc, "NO_STACK")
    BY <1>0, <1>5 DEF StackGiven
  <2> QED
    BY <1>0, <1>4, <2>1, GiveUpOwned
<1>6. CASE added.ok
  <2>1. /\ mem' = added.mem
        /\ table' = [table EXCEPT ![job.slot] = added.proc]
        /\ job' = [job EXCEPT !.at = "LOADED"]
    BY <1>0, <1>6 DEF StackGiven
  <2>2. job'.slot = job.slot /\ job'.at = "LOADED"
    BY <1>1, <2>1 DEF JobType
  <2>3. table'[job'.slot] = added.proc
    BY <1>1, <2>1, <2>2
  <2>4. Base' = Base /\ BootSound(boot')
    BY <1>0 DEF Base, Owned
  <2> QED
    BY <1>4, <2>1, <2>2, <2>3, <2>4 DEF Owned
<1> QED
  BY <1>5, <1>6

\* From the program's first instruction to process_destroy neither its space
\* nor its pages change, nor any page table.
LEMMA RunningOwned ==
  ASSUME WellTyped, Owned, job.at \in {"LOADED", "IN_PROGRAM", "BACK"},
         NEW p, table' = [table EXCEPT ![job.slot] = p],
         p.space = table[job.slot].space, p.pages = table[job.slot].pages,
         mem' \in Memory, mem'.pmm = mem.pmm, mem'.entries = mem.entries,
         job'.at \in {"IN_PROGRAM", "BACK", "RETURNED"}, job'.slot = job.slot,
         boot' = boot
  PROVE  Owned'
<1>1. job.slot \in Slots /\ table \in [Slots -> Process]
  BY DEF WellTyped, TypeOK
<1>2. Owner(mem, table[job.slot], Base)
  BY DEF Owned
<1>3. Owner(mem', table[job.slot], Base)
  BY <1>2, BytesKeepOwner
<1>4. Owner(mem', p, Base)
  BY <1>3, SameOwner
<1>5. table'[job'.slot] = p
  BY <1>1
<1>6. Base' = Base /\ BootSound(boot')
  BY DEF Base, Owned
<1> QED
  BY <1>4, <1>5, <1>6 DEF Owned

LEMMA EnterOwned ==
  ASSUME WellTyped, Owned, EnterUser
  PROVE  Owned'
<1>1. /\ job.slot \in Slots /\ job \in JobType /\ table[job.slot] \in Process
      /\ mem \in Memory
  BY ImageTyped DEF EnterUser
<1> DEFINE p == [table[job.slot] EXCEPT !.state = "RUNNING"]
<1>2. /\ table' = [table EXCEPT ![job.slot] = p] /\ job.at = "LOADED"
      /\ job' = [job EXCEPT !.at = "IN_PROGRAM"] /\ mem' = mem /\ boot' = boot
  BY DEF EnterUser
<1>3. p.space = table[job.slot].space /\ p.pages = table[job.slot].pages
  BY <1>1 DEF Process
<1>4. job'.slot = job.slot /\ job'.at = "IN_PROGRAM"
  BY <1>1, <1>2 DEF JobType
<1> HIDE DEF p
<1> QED
  BY <1>1, <1>2, <1>3, <1>4, RunningOwned

\* In the program, with its entry of the table rewritten.
LEMMA InsideOwned ==
  ASSUME WellTyped, OneProgram, Owned, InProgram,
         NEW p, table' = [table EXCEPT ![current] = p],
         p.space = proc.space, p.pages = proc.pages,
         mem' \in Memory, mem'.pmm = mem.pmm, mem'.entries = mem.entries,
         job' = job \/ job' = [job EXCEPT !.at = "BACK"], boot' = boot
  PROVE  Owned'
<1>1. job.at = "IN_PROGRAM" /\ current = job.slot /\ job \in JobType /\ proc = table[job.slot]
  BY DEF InProgram, OneProgram, WellTyped, TypeOK, proc
<1>2. job'.at \in {"IN_PROGRAM", "BACK"} /\ job'.slot = job.slot
  BY <1>1 DEF JobType
<1> QED
  BY <1>1, <1>2, RunningOwned

LEMMA StoreOwned ==
  ASSUME WellTyped, OneProgram, Owned, NEW store \in Stores, UserStore(store)
  PROVE  Owned'
<1> DEFINE there == vmm_translate(mem, proc.space, store.page)
<1>1. /\ InProgram /\ UNCHANGED <<boot, table, current, job>>
      /\ mem' = [mem EXCEPT !.bytes[there.entry.addr][store.offset] = store.byte]
  BY DEF UserStore
<1> HIDE DEF there
<1>2. /\ mem \in Memory /\ mem' \in Memory /\ table \in [Slots -> Process]
      /\ current \in Slots
  BY <1>1, StoreTyped, ProcTyped DEF WellTyped, TypeOK
<1>3. mem'.pmm = mem.pmm /\ mem'.entries = mem.entries
  BY <1>1, <1>2 DEF Memory
<1>4. table' = [table EXCEPT ![current] = proc]
  BY <1>1, <1>2 DEF proc
<1>5. proc.space = proc.space /\ proc.pages = proc.pages
  OBVIOUS
<1> QED
  BY <1>1, <1>2, <1>3, <1>4, <1>5, InsideOwned

LEMMA FaultOwned ==
  ASSUME WellTyped, OneProgram, Owned, UserFault
  PROVE  Owned'
<1> DEFINE p == [proc EXCEPT !.faulted = TRUE, !.exit_code = -1, !.state = "EXITED"]
<1>1. /\ InProgram /\ table' = [table EXCEPT ![current] = p]
      /\ job' = [job EXCEPT !.at = "BACK"] /\ mem' = mem /\ boot' = boot
  BY DEF UserFault, Leave
<1>2. proc \in Process /\ mem \in Memory
  BY <1>1, ProcTyped
<1>3. p.space = proc.space /\ p.pages = proc.pages
  BY <1>2 DEF Process
<1> HIDE DEF p
<1> QED
  BY <1>1, <1>2, <1>3, InsideOwned

\* No call changes a page table, the allocator, or what the program has.
LEMMA CallKeeps ==
  ASSUME WellTyped, NEW elapsed \in Elapsed, SystemCall(elapsed)
  PROVE  /\ InProgram /\ boot' = boot
         /\ \E p : /\ table' = [table EXCEPT ![current] = p]
                   /\ p.space = proc.space /\ p.pages = proc.pages
         /\ mem'.pmm = mem.pmm /\ mem'.entries = mem.entries
         /\ job' = job \/ job' = [job EXCEPT !.at = "BACK"]
<1> DEFINE pays == paid(elapsed)
           same(p) == p.space = proc.space /\ p.pages = proc.pages
           becomes(p) == table' = [table EXCEPT ![current] = p]
           rest == /\ boot' = boot /\ mem'.pmm = mem.pmm /\ mem'.entries = mem.entries
                   /\ (job' = job \/ job' = [job EXCEPT !.at = "BACK"])
<1>0. InProgram
  BY DEF SystemCall, SysTimeLimit, Call, do_exit, SysOther, do_hold, winsys_open,
         winsys_close, winsys_event, StopRequested
<1>1. proc \in Process /\ pays \in Process /\ mem \in Memory
  BY <1>0, ProcTyped
<1>2. same(pays)
  BY <1>1 DEF paid, Process
<1> HIDE DEF pays
<1>3. ASSUME NEW p \in Process PROVE
        /\ \A code, why : /\ process_stop(p, code, why).space = p.space
                          /\ process_stop(p, code, why).pages = p.pages
        /\ \A code : LET q == [p EXCEPT !.exit_code = code, !.state = "EXITED",
                                        !.faulted = FALSE]
                     IN  q.space = p.space /\ q.pages = p.pages
        /\ \A n : LET q == [p EXCEPT !.ran_counts = n]
                  IN  q.space = p.space /\ q.pages = p.pages
        /\ \A id : LET q == [p EXCEPT !.window_id = id]
                   IN  q.space = p.space /\ q.pages = p.pages
  BY DEF process_stop, Process
<1> SUFFICES rest /\ \E p : becomes(p) /\ same(p)
  BY <1>0
<1>4. CASE SysTimeLimit(elapsed)
  <2> DEFINE p == process_stop(pays, -2, "TIME")
  <2>1. becomes(p) /\ rest
    BY <1>4 DEF SysTimeLimit, Leave, pays
  <2>2. same(p)
    BY <1>1, <1>2, <1>3
  <2> QED
    BY <2>1, <2>2
<1>5. ASSUME NEW code \in {0, 1}, do_exit(elapsed, code)
      PROVE  rest /\ \E p : becomes(p) /\ same(p)
  <2> DEFINE p == [pays EXCEPT !.exit_code = code, !.state = "EXITED", !.faulted = FALSE]
  <2>1. becomes(p) /\ rest
    BY <1>5 DEF do_exit, Leave, pays
  <2>2. same(p)
    BY <1>1, <1>2, <1>3
  <2> QED
    BY <2>1, <2>2
<1>6. CASE SysOther(elapsed)
  <2>1. becomes(pays) /\ rest
    BY <1>6 DEF SysOther, pays
  <2> QED
    BY <1>2, <2>1
<1>7. ASSUME NEW into \in Addresses, winsys_event(elapsed, into)
      PROVE  rest /\ \E p : becomes(p) /\ same(p)
  <2>1. becomes(pays) /\ mem' = event_copied(into) /\ job' = job /\ boot' = boot
    BY <1>7 DEF winsys_event, pays
  <2>2. mem'.pmm = mem.pmm /\ mem'.entries = mem.entries
    BY <1>1, <2>1 DEF event_copied, Memory
  <2> QED
    BY <1>2, <2>1, <2>2
<1>8. ASSUME NEW counts \in {0, HOLD_MAX + 1}, do_hold(elapsed, counts)
      PROVE  rest /\ \E p : becomes(p) /\ same(p)
  <2> DEFINE p(waited) == [pays EXCEPT !.ran_counts = pays.ran_counts + waited]
  <2>1. rest
    BY <1>8 DEF do_hold
  <2>2. PICK waited : becomes(p(waited))
    BY <1>8 DEF do_hold, pays
  <2>3. same(p(waited))
    BY <1>1, <1>2, <1>3
  <2> QED
    BY <2>1, <2>2, <2>3
<1>9. ASSUME NEW title \in Addresses, winsys_open(elapsed, title)
      PROVE  rest /\ \E p : becomes(p) /\ same(p)
  <2> DEFINE p(id) == [pays EXCEPT !.window_id = id]
  <2>1. rest
    BY <1>9 DEF winsys_open
  <2>2. PICK id : becomes(p(id))
    BY <1>9 DEF winsys_open, pays
  <2>3. same(p(id))
    BY <1>1, <1>2, <1>3
  <2> QED
    BY <2>1, <2>2, <2>3
<1>10. CASE winsys_close(elapsed)
  <2> DEFINE p == [pays EXCEPT !.window_id = NoWindow]
  <2>1. becomes(p) /\ rest
    BY <1>10 DEF winsys_close, released, pays
  <2>2. same(p)
    BY <1>1, <1>2, <1>3
  <2> QED
    BY <2>1, <2>2
<1>11. CASE StopRequested(elapsed)
  <2> DEFINE p == process_stop(pays, -3, "KEY")
  <2>1. becomes(p) /\ rest
    BY <1>11 DEF StopRequested, Leave, pays
  <2>2. same(p)
    BY <1>1, <1>2, <1>3
  <2> QED
    BY <2>1, <2>2
<1> QED
  BY <1>4, <1>5, <1>6, <1>7, <1>8, <1>9, <1>10, <1>11 DEF SystemCall

LEMMA CallOwned ==
  ASSUME WellTyped, OneProgram, Owned, NEW elapsed \in Elapsed, SystemCall(elapsed)
  PROVE  Owned'
<1>1. PICK p : /\ table' = [table EXCEPT ![current] = p]
               /\ p.space = proc.space /\ p.pages = proc.pages
  BY CallKeeps
<1>2. /\ InProgram /\ boot' = boot /\ mem'.pmm = mem.pmm /\ mem'.entries = mem.entries
      /\ job' = job \/ job' = [job EXCEPT !.at = "BACK"]
  BY CallKeeps
<1>3. mem' \in Memory
  BY CallTyped DEF WellTyped
<1> QED
  BY <1>1, <1>2, <1>3, InsideOwned

LEMMA LeaveOwned ==
  ASSUME WellTyped, Owned, LeaveProgram
  PROVE  Owned'
<1> DEFINE p == released(table[job.slot])
<1>1. /\ job.at = "BACK" /\ table' = [table EXCEPT ![job.slot] = p]
      /\ job' = [job EXCEPT !.at = "RETURNED"] /\ mem' = mem /\ boot' = boot
  BY DEF LeaveProgram
<1>2. /\ table[job.slot] \in Process /\ job \in JobType /\ mem \in Memory
  BY <1>1 DEF WellTyped, TypeOK
<1>3. p.space = table[job.slot].space /\ p.pages = table[job.slot].pages
  BY <1>2 DEF released, Process
<1>4. job'.at = "RETURNED" /\ job'.slot = job.slot
  BY <1>1, <1>2 DEF JobType
<1> HIDE DEF p
<1> QED
  BY <1>1, <1>2, <1>3, <1>4, RunningOwned

LEMMA ReportOwned ==
  ASSUME WellTyped, Owned, ReportAndDestroy
  PROVE  Owned'
<1>1. job.at = "RETURNED" /\ table[job.slot] \in Process /\ boot' = boot
  BY DEF WellTyped, TypeOK, ReportAndDestroy
<1>2. GiveUp(mem, table[job.slot], report')
  BY DEF ReportAndDestroy, GiveUp
<1>3. Owner(mem, table[job.slot], Base)
  BY <1>1 DEF Owned
<1> QED
  BY <1>1, <1>2, <1>3, GiveUpOwned

LEMMA StepOwned == WellTyped /\ OneProgram /\ Owned /\ [Next]_vars => Owned'
<1> SUFFICES ASSUME WellTyped, OneProgram, Owned, [Next]_vars PROVE Owned'
  OBVIOUS
<1>1. ASSUME NEW image \in Images, CreateProcess(image) PROVE Owned'
  BY <1>1, CreateOwned
<1>2. CASE Kernel
  BY <1>2, CheckOwned, LoadOwned, StackOwned, EnterOwned, LeaveOwned, ReportOwned DEF Kernel
<1>3. ASSUME NEW store \in Stores, UserStore(store) PROVE Owned'
  BY <1>3, StoreOwned
<1>4. CASE UserFault
  BY <1>4, FaultOwned
<1>5. ASSUME NEW elapsed \in Elapsed, SystemCall(elapsed) PROVE Owned'
  BY <1>5, CallOwned
<1>6. CASE UNCHANGED vars
  BY <1>6 DEF vars, Owned, Base
<1> QED
  BY <1>1, <1>2, <1>3, <1>4, <1>5, <1>6 DEF Next

LEMMA AlwaysOwned == Spec => [](WellTyped /\ OneProgram /\ Owned)
  BY StartsTyped, StepTyped, StartsWithNone, StepAlone, StartsOwned, StepOwned, PTL DEF Spec

----------------------------------------------------------------------------
(* The links that the tables themselves show *)

\* The pages of a height, and the entries by which its tables lead on.
Layer(height, h) == {f \in DOMAIN height : height[f] = h}

LinksAt(entries, root, height, h) ==
  UNION {{<<f, i>> : i \in Ways(entries, root, height, f)} : f \in Layer(height, h)}

LEMMA LeadingIs ==
  ASSUME NEW tables, NEW indices, NEW t
  PROVE  t \in leading(tables, indices) <=>
           \E f \in tables, i \in indices :
             /\ t = <<f, i>>
             /\ mem.entries[f][i].present /\ ~mem.entries[f][i].huge
<1> DEFINE leads(f, i) == mem.entries[f][i].present /\ ~mem.entries[f][i].huge
<1>1. t \in leading(tables, indices) <=> t \in tables \X indices /\ leads(t[1], t[2])
  BY DEF leading
<1> HIDE DEF leads
<1>2. ASSUME t \in tables \X indices /\ leads(t[1], t[2])
      PROVE  \E f \in tables, i \in indices : t = <<f, i>> /\ leads(f, i)
  BY <1>2
<1>3. ASSUME NEW f \in tables, NEW i \in indices, t = <<f, i>>, leads(f, i)
      PROVE  t \in tables \X indices /\ leads(t[1], t[2])
  BY <1>3
<1> QED
  BY <1>1, <1>2, <1>3 DEF leads

\* The links of a layer are those that lead from its tables, from the root by
\* the program's half and from any other by every entry.
LEMMA LayerLeads ==
  ASSUME NEW root, NEW height, NEW num, Tree(mem.entries, root, height, num),
         NEW h \in 1 .. PAGING_LEVELS, NEW indices,
         \A f \in Layer(height, h) : Below(root, f) = indices
  PROVE  leading(Layer(height, h), indices) = LinksAt(mem.entries, root, height, h)
<1> DEFINE E == mem.entries
           ways(f) == Ways(E, root, height, f)
           A == leading(Layer(height, h), indices)
           B == LinksAt(E, root, height, h)
<1>1. \A f \in Layer(height, h) : f \in DOMAIN height /\ height[f] > 0
  BY DEF Layer
<1>2. \A f \in Layer(height, h) : \A i \in ways(f) : ~E[f][i].huge
  BY <1>1 DEF Tree, AllLead, LeadsOn
<1>3. \A f \in Layer(height, h) : \A i :
        i \in ways(f) <=> i \in indices /\ E[f][i].present /\ ~E[f][i].huge
  BY <1>1, <1>2 DEF Ways
<1>4. \A t : t \in A <=> \E f \in Layer(height, h), i \in indices :
                           t = <<f, i>> /\ E[f][i].present /\ ~E[f][i].huge
  BY LeadingIs
<1>5. \A t : t \in B <=> \E f \in Layer(height, h) : \E i \in ways(f) : t = <<f, i>>
  BY DEF LinksAt
<1> HIDE DEF A, B, ways
<1>6. A = B
  BY <1>3, <1>4, <1>5
<1> QED
  BY <1>6 DEF A, B

\* What the links of a height lead to is the layer below it.
LEMMA TargetsAre ==
  ASSUME NEW root, NEW height, NEW num, Tree(mem.entries, root, height, num),
         NEW h \in 1 .. PAGING_LEVELS
  PROVE  {target(t) : t \in LinksAt(mem.entries, root, height, h)} = Layer(height, h - 1)
<1> DEFINE E == mem.entries
           D == DOMAIN height
           B == LinksAt(E, root, height, h)
<1>0. /\ \A f \in D : height[f] \in 0 .. PAGING_LEVELS
      /\ height[root] = PAGING_LEVELS /\ PAGING_LEVELS \in Nat
  BY PagingAssumption DEF Tree, Placed
<1>1. ASSUME NEW t \in B PROVE target(t) \in Layer(height, h - 1)
  <2>1. PICK f \in Layer(height, h) : \E i \in Ways(E, root, height, f) : t = <<f, i>>
    BY DEF LinksAt
  <2>2. PICK i \in Ways(E, root, height, f) : t = <<f, i>>
    BY <2>1
  <2>3. f \in D /\ height[f] = h
    BY DEF Layer
  <2>4. LeadsOn(height, num, E[f][i], f, i)
    BY <2>3 DEF Tree, AllLead
  <2>5. target(t) = E[f][i].addr
    BY <2>2 DEF target
  <2> QED
    BY <2>3, <2>4, <2>5 DEF LeadsOn, Layer
<1>2. ASSUME NEW g \in Layer(height, h - 1) PROVE \E t \in B : target(t) = g
  <2>1. g \in D \ {root} /\ height[g] = h - 1
    BY <1>0 DEF Layer
  <2>2. PICK f \in D : \E i \in Ways(E, root, height, f) : E[f][i].addr = g
    BY <2>1 DEF Tree, Reached
  <2>3. PICK i \in Ways(E, root, height, f) : E[f][i].addr = g
    BY <2>2
  <2>4. height[g] = height[f] - 1
    BY <2>2, <2>3 DEF Tree, AllLead, LeadsOn
  <2>5. f \in Layer(height, h)
    BY <1>0, <2>1, <2>4 DEF Layer
  <2>6. <<f, i>> \in B
    BY <2>3, <2>5 DEF LinksAt
  <2>7. target(<<f, i>>) = g
    BY <2>3 DEF target
  <2> QED
    BY <2>6, <2>7
<1> HIDE DEF B
<1>3. {target(t) : t \in B} = Layer(height, h - 1)
  BY <1>1, <1>2
<1> QED
  BY <1>3 DEF B

\* Two links never lead to one page.
LEMMA TargetsDiffer ==
  ASSUME NEW root, NEW height, NEW num, Tree(mem.entries, root, height, num),
         NEW g \in 1 .. PAGING_LEVELS, NEW h \in 1 .. PAGING_LEVELS,
         NEW t \in LinksAt(mem.entries, root, height, g),
         NEW u \in LinksAt(mem.entries, root, height, h), target(t) = target(u)
  PROVE  t = u
<1> DEFINE E == mem.entries
           D == DOMAIN height
           K == PAGING_ENTRIES
<1>1. PICK a \in Layer(height, g) : \E i \in Ways(E, root, height, a) : t = <<a, i>>
  BY DEF LinksAt
<1>2. PICK i \in Ways(E, root, height, a) : t = <<a, i>>
  BY <1>1
<1>3. PICK b \in Layer(height, h) : \E j \in Ways(E, root, height, b) : u = <<b, j>>
  BY DEF LinksAt
<1>4. PICK j \in Ways(E, root, height, b) : u = <<b, j>>
  BY <1>3
<1>5. a \in D /\ b \in D /\ height[a] = g /\ height[b] = h
  BY DEF Layer
<1>6. LeadsOn(height, num, E[a][i], a, i) /\ LeadsOn(height, num, E[b][j], b, j)
  BY <1>5 DEF Tree, AllLead
<1>7. E[a][i].addr = E[b][j].addr
  BY <1>2, <1>4 DEF target
<1>8. /\ height[a] - 1 = height[b] - 1
      /\ num[a] * K + i = num[b] * K + j
  BY <1>6, <1>7 DEF LeadsOn
<1>9. /\ num[a] \in Nat /\ num[b] \in Nat /\ K \in Nat \ {0}
      /\ i \in 0 .. K - 1 /\ j \in 0 .. K - 1
  BY <1>5, PagingAssumption DEF Tree, Placed, Ways, Below, Indices
<1> HIDE DEF K
<1>10. num[a] = num[b] /\ i = j
  <2> DEFINE p == num[a]
             q == num[b]
  <2>1. p \in Nat /\ q \in Nat /\ p * K + i = q * K + j
    BY <1>8, <1>9
  <2> HIDE DEF p, q
  <2>2. p = q /\ i = j
    BY <1>9, <2>1, Digits
  <2> QED
    BY <2>2 DEF p, q
<1>11. a = b
  <2>1. height[a] = height[b]
    BY <1>5, <1>8
  <2> QED
    BY <1>5, <1>10, <2>1 DEF Tree, Placed
<1> QED
  BY <1>2, <1>4, <1>10, <1>11

\* So the links found level by level are those of the tree.
LEMMA LinksAre ==
  ASSUME mem \in Memory, NEW root, NEW height, NEW num, Tree(mem.entries, root, height, num),
         NEW level \in 0 .. PAGING_LEVELS - 1
  PROVE  links(root, level) = LinksAt(mem.entries, root, height, level + 1)
<1> DEFINE L == PAGING_LEVELS
           E == mem.entries
           S == SUBSET (Frames \X Indices)
           start == leading({root}, Indices \ Upper)
           w == Iterate(descend, start)
           at(k) == LinksAt(E, root, height, L - k)
           T == [k \in Nat |-> IF k <= L - 1 THEN {at(k)} ELSE S]
<1>0. L \in Nat \ {0}
  BY PagingAssumption
<1>1. /\ DOMAIN height \subseteq Frames /\ root \in DOMAIN height /\ height[root] = L
      /\ \A f \in DOMAIN height : height[f] = L => f = root
  BY <1>0 DEF Tree, Placed
<1>2. \A X \in SUBSET Frames, I \in SUBSET Indices : leading(X, I) \in S
  <2> SUFFICES ASSUME NEW X \in SUBSET Frames, NEW I \in SUBSET Indices, NEW t \in leading(X, I)
               PROVE  t \in Frames \X Indices
    OBVIOUS
  <2>1. PICK f \in X, i \in I : t = <<f, i>>
    BY LeadingIs
  <2> QED
    BY <2>1
<1>3. start = at(0) /\ start \in S
  <2>1. Layer(height, L) = {root}
    BY <1>1 DEF Layer
  <2>2. L \in 1 .. PAGING_LEVELS /\ L - 0 = L
    BY <1>0
  <2>3. \A f \in Layer(height, L) : Below(root, f) = Indices \ Upper
    BY <2>1 DEF Below
  <2>4. leading(Layer(height, L), Indices \ Upper) = LinksAt(E, root, height, L)
    <3> HIDE DEF L
    <3> QED
      BY <2>2, <2>3, LayerLeads
  <2>5. start \in S
    BY <1>1, <1>2
  <2> QED
    BY <2>1, <2>2, <2>4, <2>5
<1>4. \A k \in Nat : \A X \in S :
        descend[k][X] = leading({target(t) : t \in X}, Indices)
  BY DEF descend
<1>5. \A X \in S : {target(t) : t \in X} \in SUBSET Frames
  <2> SUFFICES ASSUME NEW X \in S, NEW t \in X PROVE target(t) \in Frames
    OBVIOUS
  <2>1. t \in Frames \X Indices
    OBVIOUS
  <2>2. t[1] \in Frames /\ t[2] \in Indices
    BY <2>1
  <2>3. mem.entries[t[1]][t[2]] \in Entry
    BY <2>2 DEF Memory
  <2> QED
    BY <2>3 DEF Entry, target
<1>6. StepsIn(descend, S)
  <2> SUFFICES ASSUME NEW k \in Nat, NEW X \in S PROVE descend[k][X] \in S
    BY DEF StepsIn
  <2>1. {target(t) : t \in X} \in SUBSET Frames
    BY <1>5
  <2>2. Indices \in SUBSET Indices
    OBVIOUS
  <2>3. leading({target(t) : t \in X}, Indices) \in S
    BY <1>2, <2>1, <2>2
  <2>4. descend[k][X] = leading({target(t) : t \in X}, Indices)
    BY <1>4
  <2> QED
    BY <2>3, <2>4
<1>7. /\ w \in [Nat -> S] /\ w[0] = start
      /\ \A k \in Nat : w[k + 1] = descend[k + 1][w[k]]
  <2> HIDE DEF start, S
  <2> QED
    BY <1>3, <1>6, IterateSteps
<1> HIDE DEF w, start, S
<1>8. ASSUME NEW k \in Nat, k + 1 <= L - 1, w[k] = at(k)
      PROVE  w[k + 1] = at(k + 1)
  <2> DEFINE h == L - k
             next == L - (k + 1)
  <2>1. h \in 1 .. L /\ next \in 1 .. L /\ h - 1 = next /\ next # L
    BY <1>0, <1>8
  <2>2. w[k + 1] = leading({target(t) : t \in w[k]}, Indices)
    BY <1>4, <1>7
  <2> HIDE DEF h, next
  <2>3. {target(t) : t \in LinksAt(E, root, height, h)} = Layer(height, h - 1)
    BY <2>1, TargetsAre
  <2>4. w[k] = LinksAt(E, root, height, h)
    BY <1>8 DEF h
  <2>5. w[k + 1] = leading(Layer(height, next), Indices)
    BY <2>1, <2>2, <2>3, <2>4
  <2>6. \A f \in Layer(height, next) : Below(root, f) = Indices
    BY <1>1, <2>1 DEF Layer, Below
  <2>7. leading(Layer(height, next), Indices) = LinksAt(E, root, height, next)
    BY <2>1, <2>6, LayerLeads
  <2> QED
    BY <2>5, <2>7 DEF next
<1>9. \A k \in Nat : w[k] \in T[k]
  <2>1. w[0] \in T[0]
    BY <1>0, <1>3, <1>7
  <2>2. ASSUME NEW k \in Nat, w[k] \in T[k] PROVE w[k + 1] \in T[k + 1]
    <3>1. CASE k + 1 <= L - 1
      <4>1. k <= L - 1
        BY <1>0, <3>1
      <4>2. w[k] = at(k)
        BY <2>2, <4>1
      <4>3. w[k + 1] = at(k + 1)
        BY <1>8, <3>1, <4>2
      <4> QED
        BY <3>1, <4>3
    <3>2. CASE ~(k + 1 <= L - 1)
      <4>1. w[k + 1] \in S
        BY <1>7
      <4> QED
        BY <3>2, <4>1
    <3> QED
      BY <3>1, <3>2
  <2> HIDE DEF T
  <2> QED
    BY <2>1, <2>2, WalkPasses
<1> DEFINE n == L - 1 - level
<1>10. n \in Nat /\ n <= L - 1 /\ L - n = level + 1
  BY <1>0
<1>11. links(root, level) = w[n]
  BY DEF links, w, start
<1> HIDE DEF n
<1>12. w[n] = at(n)
  BY <1>9, <1>10
<1> QED
  BY <1>10, <1>11, <1>12

----------------------------------------------------------------------------
(* One owner for every page, and nothing else in reach *)

\* As many links as there are pages they lead to.
LEMMA CountedByTarget ==
  ASSUME NEW S, NEW T, T = {target(t) : t \in S}, IsFiniteSet(T),
         \A t, u \in S : target(t) = target(u) => t = u
  PROVE  Cardinality(S) = Cardinality(T)
<1> DEFINE f == [t \in S |-> target(t)]
<1>1. f \in [S -> T] /\ (\A t, u \in S : f[t] = f[u] => t = u)
      /\ \A x \in T : \E t \in S : f[t] = x
  OBVIOUS
<1> HIDE DEF f
<1>2. f \in Injection(S, T) /\ f \in Surjection(S, T)
  BY <1>1 DEF Injection, Surjection, IsInjective
<1> QED
  BY <1>2, FS_Injection

\* What a process's tables show of it, against what the kernel keeps.
Shows(s) ==
  LET root == table[s].space.root
  IN  /\ Cardinality(tables_of(s)) = 1 + Cardinality(table_links(root))
      /\ Cardinality(tables_of(s)) = table[s].space.tables
      /\ Cardinality(pages_of(s)) = Len(table[s].pages)
      /\ tables_of(s) \cap pages_of(s) = {}
      /\ owned(s) \subseteq Base
      /\ Base \ FreePages(mem.pmm) = owned(s)
      /\ {target(l) : l \in links(root, 0)} = pages_of(s)
      /\ Cardinality(links(root, 0)) = Cardinality(pages_of(s))
      /\ \A i \in Upper : mem.entries[root][i] = KernelTables[KERNEL_ROOT][i]

LEMMA OwnerShows ==
  ASSUME NEW s, table[s] \in Process, Owner(mem, table[s], Base)
  PROVE  Shows(s) /\ 0 \notin FreePages(mem.pmm) /\ mem.pmm.bad_frees = 0
<1> DEFINE p == table[s]
           root == p.space.root
           E == mem.entries
           L == PAGING_LEVELS
<1>1. PICK at : Grown(mem, p.space, Base, at, {}) /\ Remembers(p, at)
  BY DEF Owner
<1>2. PICK height, num : Built(mem, p.space, height, num, Base, at, {})
  BY <1>1 DEF Grown
<1> DEFINE D == DOMAIN height
<1>3. /\ mem \in Memory /\ Tree(E, root, height, num) /\ Accounts(mem.pmm, Base, D)
      /\ DOMAIN at = Layer(height, 0) /\ p.space.tables = Cardinality(D \ DOMAIN at)
      /\ KernelKept(E, root)
  <2>1. D \cup {} = D
    OBVIOUS
  <2> QED
    BY <1>2, <2>1 DEF Built, Layer
<1>4. IsFiniteSet(D) /\ D \subseteq Base /\ root \in D /\ height[root] = L /\ 0 \notin Base
  BY <1>2, BuiltIn
<1>5. /\ L \in Nat \ {0} /\ \A f \in D : height[f] \in 0 .. L
      /\ \A f \in D \ {root} : height[f] < L
  BY <1>3, PagingAssumption DEF Tree, Placed
<1>6. \A l \in 0 .. L - 1 : links(root, l) = LinksAt(E, root, height, l + 1)
  BY <1>3, LinksAre
<1>7. \A h \in 1 .. L : {target(t) : t \in LinksAt(E, root, height, h)} = Layer(height, h - 1)
  BY <1>3, TargetsAre
<1>8. \A g, h \in 1 .. L : \A t \in LinksAt(E, root, height, g) :
        \A u \in LinksAt(E, root, height, h) : target(t) = target(u) => t = u
  BY <1>3, TargetsDiffer
<1> DEFINE inner == {f \in D \ {root} : height[f] > 0}
           ties == table_links(root)
<1>9. {target(t) : t \in ties} = inner /\ \A t, u \in ties : target(t) = target(u) => t = u
  <2>1. \A t : t \in ties <=> \E h \in 2 .. L : t \in LinksAt(E, root, height, h)
    <3>1. \A t : t \in ties <=> \E l \in 1 .. L - 1 : t \in links(root, l)
      BY DEF table_links
    <3>2. \A l \in 1 .. L - 1 : l \in 0 .. L - 1 /\ l + 1 \in 2 .. L
      BY <1>5
    <3>3. \A h \in 2 .. L : h - 1 \in 1 .. L - 1 /\ h - 1 \in 0 .. L - 1 /\ (h - 1) + 1 = h
      BY <1>5
    <3> HIDE DEF L, ties
    <3> QED
      BY <1>6, <3>1, <3>2, <3>3
  <2>2. 2 .. L \subseteq 1 .. L
    OBVIOUS
  <2> HIDE DEF ties
  <2>3. \A x : (\E t \in ties : target(t) = x) <=> (\E h \in 2 .. L : x \in Layer(height, h - 1))
    <3>1. \A x : \A h \in 2 .. L : x \in Layer(height, h - 1)
                   <=> \E t \in LinksAt(E, root, height, h) : target(t) = x
      BY <1>7, <2>2
    <3> QED
      BY <2>1, <3>1
  <2>4. \A x : (\E h \in 2 .. L : x \in Layer(height, h - 1)) <=> x \in inner
    <3>1. ASSUME NEW x, NEW h \in 2 .. L, x \in Layer(height, h - 1) PROVE x \in inner
      BY <3>1, <1>4, <1>5 DEF Layer
    <3>2. ASSUME NEW x \in inner PROVE \E h \in 2 .. L : x \in Layer(height, h - 1)
      <4>1. height[x] + 1 \in 2 .. L /\ (height[x] + 1) - 1 = height[x]
        BY <1>5
      <4>2. x \in Layer(height, (height[x] + 1) - 1)
        BY <4>1 DEF Layer
      <4> QED
        BY <4>1, <4>2
    <3> HIDE DEF inner
    <3> QED
      BY <3>1, <3>2
  <2> HIDE DEF inner
  <2>5. {target(t) : t \in ties} = inner
    BY <2>3, <2>4
  <2>6. \A t, u \in ties : target(t) = target(u) => t = u
    BY <1>8, <2>1, <2>2
  <2> QED
    BY <2>5, <2>6
<1>10. tables_of(s) = D \ DOMAIN at /\ pages_of(s) = DOMAIN at
  <2>1. tables_of(s) = {root} \cup {target(t) : t \in ties}
    BY DEF tables_of
  <2>2. {root} \cup inner = D \ Layer(height, 0)
    BY <1>4, <1>5 DEF Layer
  <2>3. pages_of(s) = DOMAIN at
    BY <1>1 DEF Remembers, pages_of
  <2> HIDE DEF inner, ties
  <2> QED
    BY <1>3, <1>9, <2>1, <2>2, <2>3
<1>11. DOMAIN at \subseteq D /\ IsFiniteSet(DOMAIN at) /\ IsFiniteSet(inner)
  <2>1. DOMAIN at \subseteq D /\ inner \subseteq D
    BY <1>3 DEF Layer
  <2> QED
    BY <1>4, <2>1, FS_Subset
<1>12. Cardinality(tables_of(s)) = 1 + Cardinality(ties)
  <2>1. Cardinality(ties) = Cardinality(inner)
    <3> HIDE DEF ties, inner
    <3> QED
      BY <1>9, <1>11, CountedByTarget
  <2>2. tables_of(s) = inner \cup {root} /\ root \notin inner
    BY <1>9 DEF tables_of
  <2>3. Cardinality(inner) \in Nat
    BY <1>11, FS_CardinalityType
  <2> HIDE DEF inner, ties
  <2>4. Cardinality(inner \cup {root}) = Cardinality(inner) + 1
    BY <1>11, <2>2, FS_AddElement
  <2> QED
    BY <2>1, <2>2, <2>3, <2>4
<1>13. Cardinality(pages_of(s)) = Len(p.pages)
  <2> DEFINE pages == p.pages
             n == Len(pages)
  <2>1. pages \in Seq(Frames) /\ n \in Nat /\ DOMAIN pages = 1 .. n
    BY DEF Process
  <2>2. /\ {pages[i] : i \in DOMAIN pages} = DOMAIN at
        /\ \A i, j \in DOMAIN pages : pages[i] = pages[j] => i = j
    BY <1>1 DEF Remembers
  <2> HIDE DEF pages
  <2>3. pages \in [1 .. n -> DOMAIN at]
    BY <2>1, <2>2
  <2>4. pages \in Injection(1 .. n, DOMAIN at) /\ pages \in Surjection(1 .. n, DOMAIN at)
    BY <2>1, <2>2, <2>3 DEF Injection, Surjection, IsInjective
  <2>5. Cardinality(1 .. n) = Cardinality(DOMAIN at)
    BY <1>11, <2>4, FS_Injection
  <2>6. Cardinality(1 .. n) = n
    <3> HIDE DEF n
    <3>1. n \in Int /\ 1 \in Int
      BY <2>1
    <3>2. Cardinality(1 .. n) = IF 1 > n THEN 0 ELSE n - 1 + 1
      BY <3>1, FS_Interval
    <3> QED
      BY <2>1, <3>2
  <2> QED
    BY <1>10, <2>5, <2>6 DEF pages
<1>14. {target(l) : l \in links(root, 0)} = pages_of(s)
       /\ Cardinality(links(root, 0)) = Cardinality(pages_of(s))
  <2>1. 0 \in 0 .. L - 1 /\ 0 + 1 = 1 /\ 1 \in 1 .. L /\ 1 - 1 = 0
    BY <1>5
  <2> DEFINE low == LinksAt(E, root, height, 1)
  <2>2. links(root, 0) = low
    BY <1>6, <2>1
  <2>3. {target(l) : l \in low} = DOMAIN at
    BY <1>3, <1>7, <2>1
  <2>4. \A t, u \in low : target(t) = target(u) => t = u
    BY <1>8, <2>1
  <2> HIDE DEF low
  <2>5. Cardinality(low) = Cardinality(DOMAIN at)
    BY <1>11, <2>3, <2>4, CountedByTarget
  <2> QED
    BY <1>10, <2>2, <2>3, <2>5
<1>15. owned(s) = D
  BY <1>10, <1>11 DEF owned
<1>16. /\ Base \ FreePages(mem.pmm) = D /\ FreePages(mem.pmm) \subseteq Base
       /\ mem.pmm.bad_frees = 0
  BY <1>3 DEF Accounts
<1>17. \A i \in Upper : E[root][i] = KernelTables[KERNEL_ROOT][i]
  BY <1>3 DEF KernelKept
<1>18. tables_of(s) \cap pages_of(s) = {} /\ owned(s) \subseteq Base
       /\ Cardinality(tables_of(s)) = p.space.tables
  BY <1>3, <1>4, <1>10, <1>15
<1>19. Shows(s)
  BY <1>12, <1>13, <1>14, <1>15, <1>16, <1>17, <1>18 DEF Shows
<1> QED
  BY <1>4, <1>16, <1>19

\* Which processes are live, and what is free, is known from the job.
LEMMA LiveOwns ==
  ASSUME WellTyped, OneProgram, Owned
  PROVE  /\ job.at = "PROMPT" => Live = {} /\ Gone(mem, Base)
         /\ job.at # "PROMPT" =>
              /\ Live = {job.slot} /\ Shows(job.slot) /\ KernelTablesKept(mem)
              /\ 0 \notin FreePages(mem.pmm) /\ mem.pmm.bad_frees = 0
<1>1. CASE job.at = "PROMPT"
  BY <1>1 DEF OneProgram, Live, Owned
<1>2. CASE job.at # "PROMPT"
  <2>1. job.slot \in Slots /\ table[job.slot] \in Process /\ Owner(mem, table[job.slot], Base)
    BY <1>2 DEF WellTyped, TypeOK, Owned
  <2>2. Live = {job.slot}
    BY <1>2, <2>1 DEF OneProgram, Live
  <2>3. Shows(job.slot) /\ 0 \notin FreePages(mem.pmm) /\ mem.pmm.bad_frees = 0
    BY <2>1, OwnerShows
  <2>4. KernelTablesKept(mem)
    BY <2>1, OwnerKeeps
  <2> QED
    BY <1>2, <2>2, <2>3, <2>4
<1> QED
  BY <1>1, <1>2

LEMMA OwnedOnce ==
  ASSUME WellTyped, OneProgram, Owned
  PROVE  EveryFrameHasOneOwner
<1>1. Base \cap boot.bitmap = {} /\ 0 \notin Base
  BY DEF Owned, BootSound, Accounts, Base
<1>2. CASE job.at = "PROMPT"
  <2>1. Live = {} /\ Accounts(mem.pmm, Base, {})
    BY <1>2, LiveOwns DEF Gone
  <2>2. FreePages(mem.pmm) = Base /\ mem.pmm.bad_frees = 0
    BY <2>1 DEF Accounts
  <2>3. UNION {owned(s) : s \in Live} = {}
    BY <2>1
  <2> QED
    BY <1>1, <2>1, <2>2, <2>3 DEF EveryFrameHasOneOwner, Base
<1>3. CASE job.at # "PROMPT"
  <2> DEFINE slot == job.slot
  <2>1. /\ Live = {slot} /\ Shows(slot)
        /\ 0 \notin FreePages(mem.pmm) /\ mem.pmm.bad_frees = 0
    BY <1>3, LiveOwns
  <2> HIDE DEF slot
  <2>2. UNION {owned(s) : s \in Live} = owned(slot)
    BY <2>1
  <2>3. \A s \in Live : s = slot
    BY <2>1
  <2>4. owned(slot) \cap boot.bitmap = {}
    BY <1>1, <2>1 DEF Shows
  <2> QED
    BY <2>1, <2>2, <2>3, <2>4 DEF EveryFrameHasOneOwner, Shows, Base
<1> QED
  BY <1>2, <1>3

LEMMA OwnedAlone ==
  ASSUME WellTyped, OneProgram, Owned
  PROVE  Isolation
<1>1. CASE job.at = "PROMPT"
  <2>1. Live = {} /\ KernelTablesKept(mem)
    BY <1>1, LiveOwns DEF Gone
  <2> QED
    BY <2>1 DEF Isolation, KernelTablesKept
<1>2. CASE job.at # "PROMPT"
  <2>1. Live = {job.slot} /\ Shows(job.slot) /\ KernelTablesKept(mem)
    BY <1>2, LiveOwns
  <2> QED
    BY <2>1 DEF Isolation, Shows, KernelTablesKept
<1> QED
  BY <1>1, <1>2

\* On every machine, whatever is run and however it ends: a page that has left
\* the allocator is a table of the one live program, in one place of its tree,
\* or a page of it; all come back when it is gone, none twice, and neither the
\* bitmap's pages nor page zero are ever among them (process_destroy,
\* vmm_destroy, process_add_page_at, vmm_map, pmm_add_free).
THEOREM EveryPageHasOneOwner == Spec => []EveryFrameHasOneOwner
  BY AlwaysOwned, OwnedOnce, PTL

\* On every machine, a program's half of its space leads to its own pages, each
\* of them once, and to nothing else; the kernel's half is the kernel's own, and
\* no program's loading, running or end changes a table of the kernel's
\* (vmm_new_user_space, vmm_map, walk).
THEOREM ProgramsAreIsolated == Spec => []Isolation
  BY AlwaysOwned, OwnedAlone, PTL

----------------------------------------------------------------------------
(* What a running program can write, and have written *)

\* A page of the program's half that can be reached is what a link of the last
\* level leads to.
LEMMA HalfLeads ==
  ASSUME mem \in Memory, NEW space \in Space, NEW height, NEW num,
         Tree(mem.entries, space.root, height, num), NEW page, InHalf(page),
         vmm_translate(mem, space, page).result = "OK"
  PROVE  \E l \in LinksAt(mem.entries, space.root, height, 1) :
           vmm_translate(mem, space, page).entry = mem.entries[l[1]][l[2]]
<1> DEFINE there == vmm_translate(mem, space, page)
           w == arrive(mem, space, page, 0, FALSE, FALSE)
           f == w.table
           i == paging_index(page, 0)
<1>0. /\ 0 \in 0 .. PAGING_LEVELS - 1 /\ 0 + 1 = 1 /\ 1 \in 1 .. PAGING_LEVELS /\ 1 - 1 = 0
      /\ page \in Page
  BY PagingAssumption DEF InHalf
<1>1. /\ w.result = "OK" /\ w.mem.entries[f][i].present
      /\ there.entry = w.mem.entries[f][i]
  <2> DEFINE v == walk(mem, space, page, FALSE, FALSE)
  <2>1. /\ v.result = "OK" /\ v.mem.entries[v.table][i].present
        /\ there.entry = v.mem.entries[v.table][i]
    <3> HIDE DEF v
    <3> QED
      BY DEF vmm_translate, leaf_at, leaf_of, v
  <2>2. v = w
    BY <2>1 DEF walk
  <2> QED
    BY <2>1, <2>2
<1> HIDE DEF w, there
<1>2. Looking(w, mem, space, height, num, page, 1)
  <2>1. Looking(w, mem, space, height, num, page, 0 + 1)
    BY <1>0, ArriveLooks DEF w
  <2> QED
    BY <2>1, <1>0
<1>3. w.mem = mem /\ f \in DOMAIN height /\ height[f] = 1
  BY <1>1, <1>2 DEF Looking, Stands
<1>4. i \in Below(space.root, f)
  <2>1. f = space.root => 1 = PAGING_LEVELS
    BY <1>3 DEF Tree, Placed
  <2>2. \A root, x : (x = root => 1 = PAGING_LEVELS) => paging_index(page, 1 - 1) \in Below(root, x)
    BY <1>0, PlaceBelow
  <2> QED
    BY <2>1, <2>2, <1>0
<1> HIDE DEF i
<1>5. i \in Ways(mem.entries, space.root, height, f) /\ f \in Layer(height, 1)
  BY <1>1, <1>3, <1>4 DEF Ways, Layer
<1>6. <<f, i>> \in LinksAt(mem.entries, space.root, height, 1)
  BY <1>5 DEF LinksAt
<1>7. there.entry = mem.entries[<<f, i>>[1]][<<f, i>>[2]]
  BY <1>1, <1>3
<1> QED
  BY <1>6, <1>7 DEF there

\* A page that may be written is in the program's half, whatever its address,
\* and is one of its own that are writable.
LEMMA WrittenIsWritable ==
  ASSUME WellTyped, OneProgram, Owned, InProgram, NEW page \in Nat,
         opens(vmm_translate(mem, proc.space, page), TRUE)
  PROVE  vmm_translate(mem, proc.space, page).entry.addr \in writable_frames
<1> DEFINE there == vmm_translate(mem, proc.space, page)
           root == proc.space.root
<1>1. mem \in Memory /\ proc \in Process /\ proc.space \in Space
  BY ProcTyped DEF Process
<1>2. Owner(mem, proc, Base)
  BY DEF InProgram, OneProgram, Owned, proc
<1>3. PICK at : Grown(mem, proc.space, Base, at, {})
  BY <1>2 DEF Owner
<1>4. PICK height, num : Built(mem, proc.space, height, num, Base, at, {})
  BY <1>3 DEF Grown
<1>5. Tree(mem.entries, root, height, num) /\ KernelKept(mem.entries, root)
  BY <1>4 DEF Built
<1>6. there.result = "OK" /\ there.entry.user /\ there.entry.write
  BY DEF opens
<1>7. page \in Page
  <2> SUFFICES ASSUME page \notin Page PROVE there.result # "OK"
    BY <1>6
  <2>1. walk(mem, proc.space, page, FALSE, FALSE).result # "OK"
    BY DEF walk, paging_canonical
  <2> QED
    BY <2>1 DEF vmm_translate, leaf_at, leaf_of
<1>8. paging_index(page, PAGING_LEVELS - 1) \notin Upper
  <2> HIDE DEF there
  <2> QED
    BY <1>1, <1>5, <1>6, <1>7, KernelPagesAreItsOwn DEF there
<1>9. InHalf(page)
  <2>1. PAGING_LEVELS - 1 \in 0 .. PAGING_LEVELS
    BY PagingAssumption
  <2> QED
    BY <2>1, <1>7, <1>8, IndexTyped DEF InHalf
<1>10. PICK l \in LinksAt(mem.entries, root, height, 1) : there.entry = mem.entries[l[1]][l[2]]
  <2> HIDE DEF there
  <2> QED
    BY <1>1, <1>5, <1>6, <1>9, HalfLeads DEF there
<1>11. links(root, 0) = LinksAt(mem.entries, root, height, 1)
  <2>1. 0 \in 0 .. PAGING_LEVELS - 1 /\ 0 + 1 = 1
    BY PagingAssumption
  <2>2. links(root, 0) = LinksAt(mem.entries, root, height, 0 + 1)
    BY <2>1, <1>1, <1>5, LinksAre
  <2> QED
    BY <2>1, <2>2
<1> HIDE DEF there
<1>12. l \in {k \in links(root, 0) :
                mem.entries[k[1]][k[2]].user /\ mem.entries[k[1]][k[2]].write}
  BY <1>6, <1>10, <1>11
<1>13. there.entry.addr = target(l)
  BY <1>10 DEF target
<1> QED
  BY <1>12, <1>13 DEF writable_frames, there

\* Where the processor lets a program store, the kernel would too.
LEMMA AllowedOpens ==
  ASSUME WellTyped, OneProgram, Owned, InProgram, NEW page \in Nat, allowed(page)
  PROVE  opens(vmm_translate(mem, proc.space, page), TRUE)
<1> DEFINE there == vmm_translate(mem, proc.space, page)
           w == arrive(mem, proc.space, page, 0, FALSE, FALSE)
           i == paging_index(page, 0)
           v == walk(mem, proc.space, page, FALSE, FALSE)
<1>1. mem \in Memory /\ proc.space \in Space
  BY ProcTyped DEF Process
<1>2. KernelKept(mem.entries, proc.space.root)
  <2>1. Owner(mem, proc, Base)
    BY DEF InProgram, OneProgram, Owned, proc
  <2> QED
    BY <2>1 DEF Owner, Grown, Built
<1>3. v.result = "OK" /\ there.entry = v.mem.entries[v.table][i] /\ there.result = "OK"
  <2>1. there.result = "OK"
    BY DEF allowed
  <2> HIDE DEF v
  <2> QED
    BY <2>1 DEF vmm_translate, leaf_at, leaf_of, v
<1>4. page \in Page /\ v = w
  BY <1>3 DEF walk, paging_canonical
<1>5. w.mem = mem
  <2>1. PICK level : Levels(level)
    BY KernelAssumption DEF Levels
  <2> QED
    BY <2>1, <1>1, <1>2, <1>4, ArriveReads
<1>6. mem.entries[w.table][i].user /\ mem.entries[w.table][i].write
  <2>1. 0 \in 0 .. PAGING_LEVELS - 1
    BY PagingAssumption
  <2>2. on_path(page, 0).user /\ on_path(page, 0).write
    BY <2>1 DEF allowed
  <2> HIDE DEF w, i
  <2> QED
    BY <2>2 DEF on_path, w, i
<1> HIDE DEF there, w, i, v
<1> QED
  BY <1>3, <1>4, <1>5, <1>6 DEF opens, there

LEMMA StoreKeepsTheRest ==
  ASSUME WellTyped, OneProgram, Owned, NEW store \in Stores, UserStore(store),
         NEW f \in Frames \ writable_frames
  PROVE  mem'.bytes[f] = mem.bytes[f]
<1> DEFINE there == vmm_translate(mem, proc.space, store.page)
<1>1. InProgram /\ allowed(store.page)
      /\ mem' = [mem EXCEPT !.bytes[there.entry.addr][store.offset] = store.byte]
  BY DEF UserStore
<1>2. store.page \in Nat
  BY ProgramsAssumption, PagingAssumption DEF Page
<1>3. there.entry.addr \in writable_frames
  <2>1. opens(there, TRUE)
    BY <1>1, <1>2, AllowedOpens
  <2> QED
    BY <2>1, <1>1, <1>2, WrittenIsWritable
<1>4. mem.bytes \in [Frames -> [Offsets -> Bytes \cup {0}]] /\ mem \in Memory
  BY MemoryParts DEF WellTyped
<1> HIDE DEF there
<1>5. mem'.bytes = [mem.bytes EXCEPT ![there.entry.addr][store.offset] = store.byte]
  BY <1>1, <1>4 DEF Memory
<1> QED
  BY <1>3, <1>4, <1>5

LEMMA EventKeepsTheRest ==
  ASSUME WellTyped, OneProgram, Owned, InProgram,
         NEW into \in Addresses, uaccess_range_ok(into, EVENT_BYTES, TRUE),
         NEW f \in Frames \ writable_frames
  PROVE  event_copied(into).bytes[f] = mem.bytes[f]
<1> DEFINE P == PAGE_SIZE
           N == EVENT_BYTES
           reach(j) == vmm_translate(mem, proc.space, (into + j) \div P)
<1>0. into \in Nat /\ P \in Nat \ {0} /\ N \in Nat \ {0}
  BY ProgramsAssumption, PageAssumption
<1>1. ASSUME NEW j \in 0 .. N - 1 PROVE reach(j).entry.addr # f
  <2> DEFINE page == (into + j) \div P
             low == into \div P
             high == (into + N - 1) \div P
  <2>0. into + j \in Nat /\ into + N - 1 \in Nat /\ into <= into + j /\ into + j <= into + N - 1
    BY <1>0
  <2> HIDE DEF P, N
  <2>1. page \in Nat /\ low \in Nat /\ high \in Nat /\ low <= page /\ page <= high
    <3>1. \A x, y \in Nat : x <= y => x \div P \in Nat /\ x \div P <= y \div P
      <4> SUFFICES ASSUME NEW x \in Nat, NEW y \in Nat, x <= y
                   PROVE  x \div P \in Nat /\ x \div P <= y \div P
        OBVIOUS
      <4> DEFINE q == x \div P
      <4>1. q \in Nat /\ x = q * P + (x % P) /\ x % P \in 0 .. P - 1
        BY <1>0, Division
      <4> HIDE DEF q
      <4>2. q * P \in Nat /\ q * P <= y
        <5>1. q * P \in Nat
          BY <1>0, <4>1, SMT
        <5> QED
          BY <5>1, <4>1
      <4>3. q <= y \div P
        BY <1>0, <4>1, <4>2, QuotientGrows
      <4> QED
        BY <4>1, <4>3 DEF q
    <3>2. high \in Nat /\ page \in Nat /\ low \in Nat
      BY <2>0, <1>0, <3>1
    <3> QED
      BY <2>0, <1>0, <3>1, <3>2
  <2>2. user_page(page, TRUE)
    <3>1. page \in low .. high
      <4> HIDE DEF page, low, high
      <4> QED
        BY <2>1
    <3> HIDE DEF page
    <3> QED
      BY <3>1 DEF uaccess_range_ok, P, N
  <2>3. reach(j).entry.addr \in writable_frames
    <3>1. opens(vmm_translate(mem, proc.space, page), TRUE)
      <4> HIDE DEF page
      <4> QED
        BY <2>2 DEF user_page
    <3> HIDE DEF page
    <3>2. vmm_translate(mem, proc.space, page).entry.addr \in writable_frames
      BY <2>1, <3>1, WrittenIsWritable
    <3> QED
      BY <3>2 DEF page
  <2> QED
    BY <2>3
<1>2. mem.bytes \in [Frames -> [Offsets -> Bytes \cup {0}]] /\ mem \in Memory
  BY MemoryParts DEF WellTyped
<1>3. mem.bytes[f] = [o \in Offsets |-> mem.bytes[f][o]]
  BY <1>2
<1> DEFINE written(g, o) == \E j \in 0 .. N - 1 : (into + j) % P = o /\ reach(j).entry.addr = g
           bytes == [g \in Frames |-> [o \in Offsets |->
                       IF written(g, o) THEN EventByte ELSE mem.bytes[g][o]]]
<1>4. event_copied(into) = [mem EXCEPT !.bytes = bytes]
  BY DEF event_copied
<1>5. \A o : ~written(f, o)
  BY <1>1
<1> HIDE DEF written
<1>6. bytes[f] = mem.bytes[f]
  BY <1>3, <1>5
<1> HIDE DEF bytes
<1> QED
  BY <1>2, <1>4, <1>6 DEF Memory

LEMMA StepKeepsTheRest ==
  WellTyped /\ OneProgram /\ Owned /\ [Next]_vars =>
    [InProgram => \A f \in Frames \ writable_frames : mem.bytes'[f] = mem.bytes[f]]_vars
<1> SUFFICES ASSUME WellTyped, OneProgram, Owned, Next, InProgram,
                    NEW f \in Frames \ writable_frames
             PROVE  mem'.bytes[f] = mem.bytes[f]
  OBVIOUS
<1>1. ~(\E image \in Images : CreateProcess(image)) /\ ~Kernel
  BY DEF CreateProcess, Kernel, CheckImage, LoadPage, give_stack, EnterUser, LeaveProgram,
         ReportAndDestroy, InProgram
<1>2. ASSUME NEW store \in Stores, UserStore(store) PROVE mem'.bytes[f] = mem.bytes[f]
  BY <1>2, StoreKeepsTheRest
<1>3. CASE UserFault
  BY <1>3 DEF UserFault
<1>4. ASSUME NEW elapsed \in Elapsed, SystemCall(elapsed) PROVE mem'.bytes[f] = mem.bytes[f]
  <2>1. mem' = mem \/ \E into \in Addresses : winsys_event(elapsed, into)
    BY <1>4 DEF SystemCall, SysTimeLimit, do_exit, SysOther, do_hold, winsys_open, winsys_close,
         StopRequested
  <2>2. ASSUME NEW into \in Addresses, winsys_event(elapsed, into)
        PROVE  mem'.bytes[f] = mem.bytes[f]
    BY <2>2, EventKeepsTheRest DEF winsys_event
  <2> QED
    BY <2>1, <2>2
<1> QED
  BY <1>1, <1>2, <1>3, <1>4 DEF Next

\* On every machine, no byte outside the writable pages of the running program
\* changes while it runs: not by its own stores, and not through an address it
\* hands the kernel, whatever the address (user_byte, uaccess_copy_out).
THEOREM ReadOnlyIsNeverWritten == Spec => ReadOnlyStaysAsLoaded
  BY AlwaysOwned, StepKeepsTheRest, PTL DEF Spec, ReadOnlyStaysAsLoaded

----------------------------------------------------------------------------
(* What is in the pages *)

\* Whether an address holds a byte of the segment's file, and which.
InFile(s, a) == a - s.vaddr + 1 \in DOMAIN s.file
FileByte(s, a) == s.file[a - s.vaddr + 1]

\* Of segment i the pages below upto[i] are there, from its first.
ReadInto(image, upto, q, a) ==
  {i \in DOMAIN image.segments : q < upto[i] /\ InFile(image.segments[i], a)}

\* A byte of a page is what the segments read into it so far say, or zero.
ByteLaid(image, upto, q, o, byte) ==
  LET a == q * PAGE_SIZE + o
  IN  /\ \A i \in ReadInto(image, upto, q, a) : byte = FileByte(image.segments[i], a)
      /\ ReadInto(image, upto, q, a) = {} => byte = 0

PageLaid(image, upto, q, bytes) ==
  \A o \in Offsets : ByteLaid(image, upto, q, o, bytes[o])

\* The pages that there should be.
Asked(image, upto, more, q) ==
  \/ q \in more
  \/ \E i \in DOMAIN image.segments :
       first_page(image.segments[i]) <= q /\ q < upto[i]

LaidAt(m, image, upto, more, at) ==
  /\ \A q \in Page : (\E f \in DOMAIN at : at[f] = q) <=> Asked(image, upto, more, q)
  /\ \A f \in DOMAIN at : at[f] \in Page /\ PageLaid(image, upto, at[f], m.bytes[f])

Laid(m, p, base, image, upto, more) ==
  \E at : Holds(m, p, base, at) /\ LaidAt(m, image, upto, more, at)

\* The files of two segments have no address in common.
LEMMA FilesApart ==
  ASSUME NEW image, elf_check(image),
         \A i \in DOMAIN image.segments : image.segments[i] \in Segment,
         NEW i \in DOMAIN image.segments, NEW j \in DOMAIN image.segments,
         image.segments \in Seq(Segment),
         NEW a \in Nat, InFile(image.segments[i], a), InFile(image.segments[j], a)
  PROVE  i = j
<1> DEFINE segs == image.segments
           within(s) == s.vaddr <= a /\ a < s.vaddr + s.mem_bytes
<1>1. ASSUME NEW k \in DOMAIN segs, InFile(segs[k], a)
      PROVE  within(segs[k])
  <2>1. /\ segs[k].vaddr \in Nat /\ segs[k].mem_bytes \in Nat
        /\ segs[k].file \in Seq(Bytes \cup {0})
    BY <1>1 DEF Segment
  <2>2. Len(segs[k].file) <= segs[k].mem_bytes
    BY <1>1 DEF elf_check, segment_ok
  <2>3. /\ DOMAIN segs[k].file = 1 .. Len(segs[k].file) /\ Len(segs[k].file) \in Nat
    BY <2>1
  <2>4. a - segs[k].vaddr + 1 \in 1 .. Len(segs[k].file)
    BY <1>1, <2>3 DEF InFile
  <2> DEFINE v == segs[k].vaddr
             n == segs[k].mem_bytes
             len == Len(segs[k].file)
  <2>5. /\ v \in Nat /\ n \in Nat /\ len \in Nat /\ len <= n
        /\ a - v + 1 \in 1 .. len
    BY <2>1, <2>2, <2>3, <2>4
  <2> HIDE DEF v, n, len
  <2>6. v <= a /\ a < v + n
    BY <2>5
  <2> QED
    BY <2>6 DEF v, n
<1>2. ASSUME NEW k \in DOMAIN segs, NEW l \in 1 .. k - 1
      PROVE  ~(within(segs[k]) /\ within(segs[l]))
  <2>1. ~(/\ segs[k].vaddr < segs[l].vaddr + segs[l].mem_bytes
          /\ segs[l].vaddr < segs[k].vaddr + segs[k].mem_bytes)
    BY <1>2 DEF elf_check, segment_ok
  <2>2. l \in DOMAIN segs
    BY <1>2
  <2>3. /\ segs[k].vaddr \in Nat /\ segs[k].mem_bytes \in Nat
        /\ segs[l].vaddr \in Nat /\ segs[l].mem_bytes \in Nat
    BY <1>2, <2>2 DEF Segment
  <2> DEFINE v == segs[k].vaddr
             n == segs[k].mem_bytes
             w == segs[l].vaddr
             x == segs[l].mem_bytes
  <2>4. /\ v \in Nat /\ n \in Nat /\ w \in Nat /\ x \in Nat
        /\ ~(v < w + x /\ w < v + n)
    BY <2>1, <2>3
  <2> HIDE DEF v, n, w, x
  <2>5. ~((v <= a /\ a < v + n) /\ (w <= a /\ a < w + x))
    BY <2>4
  <2> QED
    BY <2>5 DEF v, n, w, x
<1>3. i \in Nat \ {0} /\ j \in Nat \ {0}
  OBVIOUS
<1>4. ~(i < j) /\ ~(j < i)
  <2>1. i < j => i \in 1 .. j - 1
    BY <1>3
  <2>2. j < i => j \in 1 .. i - 1
    BY <1>3
  <2>3. within(segs[i]) /\ within(segs[j])
    BY <1>1
  <2> HIDE DEF within, segs
  <2> QED
    BY <1>2, <2>1, <2>2, <2>3 DEF segs
<1> QED
  BY <1>3, <1>4

\* An address in a segment's file is in one of its pages.
LEMMA FileInPages ==
  ASSUME NEW s \in Segment, Len(s.file) <= s.mem_bytes,
         NEW q \in Nat, NEW o \in Offsets, InFile(s, q * PAGE_SIZE + o)
  PROVE  first_page(s) <= q /\ q <= last_page(s)
<1> DEFINE d == PAGE_SIZE
           a == q * d + o
           end == s.vaddr + s.mem_bytes - 1
<1>1. d \in Nat \ {0} /\ o \in 0 .. d - 1 /\ s.vaddr \in Nat /\ s.mem_bytes \in Nat \ {0}
  BY PageAssumption DEF Offsets, Segment
<1>2. q * d \in Nat
  BY <1>1, TimesGrows
<1>3. a \in Nat /\ s.vaddr <= a /\ a <= end /\ end \in Nat
  <2>1. /\ DOMAIN s.file = 1 .. Len(s.file) /\ Len(s.file) \in Nat
    BY DEF Segment
  <2>2. a - s.vaddr + 1 \in 1 .. Len(s.file)
    BY <2>1 DEF InFile
  <2>3. a \in Nat
    BY <1>1, <1>2
  <2> DEFINE v == s.vaddr
             n == s.mem_bytes
             len == Len(s.file)
  <2>4. /\ v \in Nat /\ n \in Nat \ {0} /\ len \in Nat /\ len <= n /\ a \in Nat
        /\ a - v + 1 \in 1 .. len
    BY <1>1, <2>1, <2>2, <2>3
  <2> HIDE DEF v, n, len, a
  <2>5. v <= a /\ a <= v + n - 1 /\ v + n - 1 \in Nat
    BY <2>4
  <2> QED
    BY <2>4, <2>5 DEF v, n
<1>4. q <= end \div d
  <2>1. q * d <= end
    BY <1>1, <1>2, <1>3
  <2> HIDE DEF d, end
  <2> QED
    BY <1>1, <1>3, <2>1, QuotientGrows
<1>5. s.vaddr \div d <= q
  <2> DEFINE v == s.vaddr \div d
  <2>1. v \in Nat /\ s.vaddr % d \in 0 .. d - 1 /\ s.vaddr = v * d + (s.vaddr % d)
    BY <1>1, Division
  <2> HIDE DEF v
  <2>2. v * d \in Nat
    BY <1>1, <2>1, TimesGrows
  <2>3. v * d <= a
    BY <1>3, <2>1, <2>2
  <2>4. a \div d = q
    <3> HIDE DEF d
    <3> QED
      BY <1>1, QuotientIs
  <2>5. v <= a \div d
    <3> HIDE DEF a, d
    <3> QED
      BY <1>1, <1>3, <2>1, <2>3, QuotientGrows
  <2> QED
    BY <2>4, <2>5 DEF v
<1> QED
  BY <1>4, <1>5 DEF first_page, last_page

\* An executable that elf_check let through.
Checked(image) ==
  /\ elf_check(image) /\ image.segments \in Seq(Segment)
  /\ \A i \in DOMAIN image.segments : image.segments[i] \in Segment

\* Before anything is read into a page, zero is what it holds.
LEMMA NothingRead ==
  ASSUME NEW image, Checked(image), NEW upto, NEW q \in Nat, ~Asked(image, upto, {}, q)
  PROVE  PageLaid(image, upto, q, ZeroPage)
<1> SUFFICES ASSUME NEW o \in Offsets
             PROVE  ByteLaid(image, upto, q, o, ZeroPage[o])
  BY DEF PageLaid
<1>1. ReadInto(image, upto, q, q * PAGE_SIZE + o) = {}
  <2> SUFFICES ASSUME NEW i \in DOMAIN image.segments, q < upto[i],
                      InFile(image.segments[i], q * PAGE_SIZE + o)
               PROVE  FALSE
    BY DEF ReadInto
  <2> DEFINE s == image.segments[i]
  <2>1. s \in Segment /\ Len(s.file) <= s.mem_bytes
    BY DEF Checked, elf_check, segment_ok
  <2>2. InFile(s, q * PAGE_SIZE + o)
    OBVIOUS
  <2> HIDE DEF s
  <2>3. first_page(s) <= q
    BY <2>1, <2>2, FileInPages
  <2> QED
    BY <2>3 DEF Asked, s
<1>2. ZeroPage[o] = 0
  BY DEF ZeroPage
<1> QED
  BY <1>1, <1>2 DEF ByteLaid

\* A page of a segment is read over what the page held already.
LEMMA PageRead ==
  ASSUME NEW image, Checked(image), NEW upto \in [DOMAIN image.segments -> Nat],
         NEW k \in DOMAIN image.segments, NEW q, q = upto[k],
         NEW old, PageLaid(image, upto, q, old)
  PROVE  PageLaid(image, [upto EXCEPT ![k] = q + 1], q,
                  filled(old, fill_of(image.segments[k], q)))
<1> DEFINE segs == image.segments
           next == [upto EXCEPT ![k] = q + 1]
           fill == fill_of(segs[k], q)
<1> SUFFICES ASSUME NEW o \in Offsets
             PROVE  ByteLaid(image, next, q, o, filled(old, fill)[o])
  BY DEF PageLaid
<1> DEFINE a == q * PAGE_SIZE + o
           before == ReadInto(image, upto, q, a)
           after == ReadInto(image, next, q, a)
<1>0. q \in Nat /\ k \notin before
  BY DEF ReadInto
<1>1. \A i \in DOMAIN segs : q < next[i] <=> q < upto[i] \/ i = k
  BY <1>0
<1>2. after = before \cup {i \in {k} : InFile(segs[i], a)}
  <2> HIDE DEF next, a
  <2> QED
    BY <1>1 DEF ReadInto
<1>3. ByteLaid(image, upto, q, o, old[o])
  BY DEF PageLaid
<1>4. filled(old, fill)[o] = IF o \in DOMAIN fill THEN fill[o] ELSE old[o]
  BY DEF filled
<1>5. /\ o \in DOMAIN fill <=> InFile(segs[k], a)
      /\ o \in DOMAIN fill => fill[o] = FileByte(segs[k], a)
  <2> DEFINE place(x) == q * PAGE_SIZE + x - segs[k].vaddr + 1
             here == {x \in Offsets : place(x) \in DOMAIN segs[k].file}
  <2>1. fill = [x \in here |-> segs[k].file[place(x)]]
    BY DEF fill_of
  <2>2. place(o) = a - segs[k].vaddr + 1
    <3> DEFINE from == q * PAGE_SIZE
               v == segs[k].vaddr
    <3>1. o \in Nat /\ PAGE_SIZE \in Nat /\ v \in Nat
      BY PageAssumption DEF Offsets, Checked, Segment
    <3>2. from \in Nat
      BY <1>0, <3>1, TimesGrows
    <3> HIDE DEF from, v
    <3>3. from + o - v + 1 = (from + o) - v + 1
      BY <3>1, <3>2
    <3> QED
      BY <3>3 DEF from, v
  <2>3. /\ InFile(segs[k], a) <=> place(o) \in DOMAIN segs[k].file
        /\ FileByte(segs[k], a) = segs[k].file[place(o)]
    <3> HIDE DEF place, a
    <3> QED
      BY <2>2 DEF InFile, FileByte
  <2> HIDE DEF fill, place, a
  <2> QED
    BY <2>1, <2>3
<1>6. CASE InFile(segs[k], a)
  <2>1. a \in Nat
    <3>1. PAGE_SIZE \in Nat /\ o \in Nat
      BY PageAssumption DEF Offsets
    <3>2. q * PAGE_SIZE \in Nat
      BY <1>0, <3>1, TimesGrows
    <3> QED
      BY <3>1, <3>2
  <2>2. \A i \in after : i = k
    <3> SUFFICES ASSUME NEW i \in after PROVE i = k
      OBVIOUS
    <3>1. i \in DOMAIN segs /\ InFile(segs[i], a)
      BY DEF ReadInto
    <3> HIDE DEF a, after
    <3> QED
      BY <1>6, <2>1, <3>1, FilesApart DEF Checked
  <2>3. k \in after
    BY <1>2, <1>6
  <2>4. filled(old, fill)[o] = FileByte(segs[k], a)
    <3> HIDE DEF fill, a
    <3> QED
      BY <1>4, <1>5, <1>6
  <2> HIDE DEF fill, next
  <2> QED
    BY <2>2, <2>3, <2>4 DEF ByteLaid
<1>7. CASE ~InFile(segs[k], a)
  <2>1. after = before
    <3> HIDE DEF a, before, after
    <3> QED
      BY <1>2, <1>7
  <2>2. filled(old, fill)[o] = old[o]
    <3> HIDE DEF fill, a
    <3> QED
      BY <1>4, <1>5, <1>7
  <2> HIDE DEF fill, next
  <2> QED
    BY <1>3, <2>1, <2>2 DEF ByteLaid
<1> QED
  BY <1>6, <1>7

\* What goes for one page and the next reading of it, and leaves the others alone.
Advances(image, upto, next, more, others, q, fill) ==
  /\ \A i \in DOMAIN image.segments, x \in Page \ {q} : x < upto[i] <=> x < next[i]
  /\ \A x \in Page : Asked(image, next, others, x) <=> Asked(image, upto, more, x) \/ x = q
  /\ \A old : PageLaid(image, upto, q, old) => PageLaid(image, next, q, filled(old, fill))

LEMMA LaidGrows ==
  ASSUME NEW m, NEW after, NEW at, NEW later, NEW q \in Page, NEW fill,
         FilledIn(m, after, at, later, q, fill),
         \A f, g \in DOMAIN at : at[f] = at[g] => f = g,
         NEW image, Checked(image), NEW upto, NEW next, NEW more, NEW others,
         LaidAt(m, image, upto, more, at),
         Advances(image, upto, next, more, others, q, fill)
  PROVE  LaidAt(after, image, next, others, later)
<1>0. q \in Nat
  BY DEF Page
<1>1. ASSUME NEW x \in Page, x # q, NEW bytes, PageLaid(image, upto, x, bytes)
      PROVE  PageLaid(image, next, x, bytes)
  <2>1. \A a : ReadInto(image, upto, x, a) = ReadInto(image, next, x, a)
    BY <1>1 DEF Advances, ReadInto
  <2> QED
    BY <1>1, <2>1 DEF PageLaid, ByteLaid
<1>2. PICK g :
    \/ /\ g \in DOMAIN at /\ at[g] = q /\ later = at
       /\ after.bytes[g] = filled(m.bytes[g], fill)
       /\ SameBytes(m, after, DOMAIN at \ {g})
    \/ /\ g \notin DOMAIN at /\ \A f \in DOMAIN at : at[f] # q
       /\ later = With(at, g, q)
       /\ after.bytes[g] = filled(ZeroPage, fill)
       /\ SameBytes(m, after, DOMAIN at)
  BY DEF FilledIn
<1>3. /\ DOMAIN later = DOMAIN at \cup {g} /\ later[g] = q
      /\ \A f \in DOMAIN at \ {g} : /\ later[f] = at[f] /\ at[f] # q
                                    /\ after.bytes[f] = m.bytes[f]
  BY <1>2 DEF With, SameBytes
<1>4. PageLaid(image, next, q, after.bytes[g])
  <2>1. \A old : PageLaid(image, upto, q, old) => PageLaid(image, next, q, filled(old, fill))
    BY DEF Advances
  <2>2. CASE g \in DOMAIN at
    <3>1. after.bytes[g] = filled(m.bytes[g], fill) /\ at[g] = q
      BY <1>2, <2>2
    <3>2. PageLaid(image, upto, q, m.bytes[g])
      BY <2>2, <3>1 DEF LaidAt
    <3> QED
      BY <2>1, <3>1, <3>2
  <2>3. CASE g \notin DOMAIN at
    <3>1. after.bytes[g] = filled(ZeroPage, fill) /\ \A f \in DOMAIN at : at[f] # q
      BY <1>2, <2>3
    <3>2. ~Asked(image, upto, more, q)
      BY <3>1 DEF LaidAt
    <3>3. ~Asked(image, upto, {}, q)
      BY <3>2 DEF Asked
    <3>4. PageLaid(image, upto, q, ZeroPage)
      BY <1>0, <3>3, NothingRead
    <3> QED
      BY <2>1, <3>1, <3>4
  <2> QED
    BY <2>2, <2>3
<1>5. ASSUME NEW f \in DOMAIN later
      PROVE  later[f] \in Page /\ PageLaid(image, next, later[f], after.bytes[f])
  <2>1. CASE f = g
    BY <1>3, <1>4, <2>1
  <2>2. CASE f # g
    <3>1. /\ f \in DOMAIN at /\ later[f] = at[f] /\ at[f] # q
          /\ after.bytes[f] = m.bytes[f]
      BY <1>3, <2>2
    <3>2. at[f] \in Page /\ PageLaid(image, upto, at[f], m.bytes[f])
      BY <3>1 DEF LaidAt
    <3> QED
      BY <1>1, <3>1, <3>2
  <2> QED
    BY <2>1, <2>2
<1>6. ASSUME NEW x \in Page
      PROVE  (\E f \in DOMAIN later : later[f] = x) <=> Asked(image, next, others, x)
  <2>1. (\E f \in DOMAIN later : later[f] = x) <=> (\E f \in DOMAIN at : at[f] = x) \/ x = q
    BY <1>2, <1>3
  <2>2. (\E f \in DOMAIN at : at[f] = x) <=> Asked(image, upto, more, x)
    BY DEF LaidAt
  <2>3. Asked(image, next, others, x) <=> Asked(image, upto, more, x) \/ x = q
    BY DEF Advances
  <2> QED
    BY <2>1, <2>2, <2>3
<1> QED
  BY <1>5, <1>6 DEF LaidAt

LEMMA AddedLaid ==
  ASSUME NEW m, NEW p \in Process, NEW base, NEW image, Checked(image), NEW upto, NEW more,
         Laid(m, p, base, image, upto, more), NEW page, InHalf(page),
         NEW flags \in [write : BOOLEAN, nx : BOOLEAN], NEW fill,
         \A o \in DOMAIN fill : fill[o] \in Bytes \cup {0},
         NEW next, NEW others, Advances(image, upto, next, more, others, page, fill),
         NEW added, added = process_add_page_at(m, p, page, flags, fill), added.ok
  PROVE  Laid(added.mem, added.proc, base, image, next, others)
<1>1. PICK at : Holds(m, p, base, at) /\ LaidAt(m, image, upto, more, at)
  BY DEF Laid
<1>2. AddedOutcome(m, added, base, at, page, fill)
  BY <1>1, AddPageHolds
<1>3. PICK later : /\ Holds(added.mem, added.proc, base, later)
                   /\ FilledIn(m, added.mem, at, later, page, fill)
  BY <1>2 DEF AddedOutcome
<1>4. \A f, g \in DOMAIN at : at[f] = at[g] => f = g
  <2>1. PICK height, num : Built(m, p.space, height, num, base, at, {})
    BY <1>1 DEF Holds, Grown
  <2>2. /\ DOMAIN at = {f \in DOMAIN height : height[f] = 0}
        /\ \A f \in DOMAIN at : num[f] = at[f]
        /\ \A f, g \in DOMAIN height : height[f] = height[g] /\ num[f] = num[g] => f = g
    BY <2>1 DEF Built, Tree, Placed
  <2> QED
    BY <2>2
<1>5. page \in Page
  BY DEF InHalf
<1>6. LaidAt(added.mem, image, next, others, later)
  BY <1>1, <1>3, <1>4, <1>5, LaidGrows
<1> QED
  BY <1>3, <1>6 DEF Laid

LEMMA SameLaid ==
  ASSUME NEW m, NEW p, NEW q, q.space = p.space, q.pages = p.pages, NEW base, NEW image,
         NEW upto, NEW more, Laid(m, p, base, image, upto, more)
  PROVE  Laid(m, q, base, image, upto, more)
BY DEF Laid, Holds, Remembers

\* How far elfload has come: the segments before this one are there, and of
\* this one the pages before this.
Upto(image, segment, page) ==
  [i \in DOMAIN image.segments |->
     IF i < segment THEN last_page(image.segments[i]) + 1
     ELSE IF i = segment THEN page ELSE first_page(image.segments[i])]

All(image) == Upto(image, Len(image.segments) + 1, 0)

\* A process that was just made has no pages.
LEMMA NoneLaid ==
  ASSUME NEW m, NEW p, NEW base, Owner(m, p, base), p.pages = << >>,
         NEW image, Checked(image)
  PROVE  Laid(m, p, base, image, Upto(image, 1, first_page(image.segments[1])), {})
<1> DEFINE upto == Upto(image, 1, first_page(image.segments[1]))
<1>1. PICK at : Holds(m, p, base, at)
  BY DEF Owner, Holds
<1>2. DOMAIN at = {}
  <2>1. {p.pages[i] : i \in DOMAIN p.pages} = DOMAIN at
    BY <1>1 DEF Holds, Remembers
  <2>2. DOMAIN p.pages = {}
    OBVIOUS
  <2> QED
    BY <2>1, <2>2
<1>3. ASSUME NEW q \in Page PROVE ~Asked(image, upto, {}, q)
  <2> SUFFICES ASSUME NEW i \in DOMAIN image.segments,
                      first_page(image.segments[i]) <= q, q < upto[i]
               PROVE  FALSE
    BY DEF Asked
  <2>1. upto[i] = first_page(image.segments[i])
    <3>1. i \in Nat \ {0}
      BY DEF Checked
    <3>2. ~(i < 1)
      BY <3>1
    <3> QED
      BY <3>2 DEF Upto
  <2>2. first_page(image.segments[i]) \in Nat
    BY SegmentTyped DEF Checked
  <2>3. q \in Nat
    BY DEF Page
  <2> HIDE DEF upto
  <2> QED
    BY <2>1, <2>2, <2>3
<1> HIDE DEF upto
<1>4. LaidAt(m, image, upto, {}, at)
  BY <1>2, <1>3 DEF LaidAt
<1> QED
  BY <1>1, <1>4 DEF Laid, upto

LEMMA UptoTyped ==
  ASSUME NEW image, Checked(image), NEW segment \in Nat, NEW page \in Nat
  PROVE  /\ Upto(image, segment, page) \in [DOMAIN image.segments -> Nat]
         /\ \A i \in DOMAIN image.segments :
              /\ first_page(image.segments[i]) \in Nat /\ last_page(image.segments[i]) \in Nat
              /\ first_page(image.segments[i]) <= last_page(image.segments[i])
<1>1. ASSUME NEW i \in DOMAIN image.segments
      PROVE  /\ first_page(image.segments[i]) \in Nat /\ last_page(image.segments[i]) \in Nat
             /\ first_page(image.segments[i]) <= last_page(image.segments[i])
  <2>1. image.segments[i] \in Segment
    BY DEF Checked
  <2>2. /\ first_page(image.segments[i]) \in Nat /\ last_page(image.segments[i]) \in Nat
        /\ first_page(image.segments[i])
             \in first_page(image.segments[i]) .. last_page(image.segments[i])
    BY <2>1, SegmentTyped, FirstPageIn
  <2> QED
    BY <2>2
<1>2. ASSUME NEW i \in DOMAIN image.segments
      PROVE  last_page(image.segments[i]) + 1 \in Nat
  BY <1>1
<1> QED
  BY <1>1, <1>2 DEF Upto

\* One page further: elfload's two loops.
LEMMA UptoNext ==
  ASSUME NEW image, Checked(image), NEW k \in DOMAIN image.segments,
         NEW page \in first_page(image.segments[k]) .. last_page(image.segments[k]),
         NEW next, next = [Upto(image, k, page) EXCEPT ![k] = page + 1]
  PROVE  /\ page < last_page(image.segments[k]) => next = Upto(image, k, page + 1)
         /\ ~(page < last_page(image.segments[k])) =>
              /\ k < Len(image.segments) =>
                   next = Upto(image, k + 1, first_page(image.segments[k + 1]))
              /\ ~(k < Len(image.segments)) => next = All(image)
<1> DEFINE D == DOMAIN image.segments
           last(i) == last_page(image.segments[i])
           first(i) == first_page(image.segments[i])
<1>0. /\ D = 1 .. Len(image.segments) /\ Len(image.segments) \in Nat
      /\ k \in Nat /\ \A i \in D : i \in Nat
  BY DEF Checked
<1>1. first(k) \in Nat /\ last(k) \in Nat
  BY <1>0, UptoTyped
<1>2. page \in Nat /\ page <= last(k)
  BY <1>1
<1>3. ASSUME NEW s, NEW x,
             \A i \in D : (IF i = k THEN page + 1 ELSE IF i < k THEN last(i) + 1 ELSE first(i))
                          = (IF i < s THEN last(i) + 1 ELSE IF i = s THEN x ELSE first(i))
      PROVE  next = Upto(image, s, x)
  <2>1. next = [i \in D |-> IF i = k THEN page + 1
                            ELSE IF i < k THEN last(i) + 1 ELSE first(i)]
    <3>1. \A i \in D : i # k => (IF i < k THEN last(i) + 1 ELSE IF i = k THEN page ELSE first(i))
                                = (IF i < k THEN last(i) + 1 ELSE first(i))
      OBVIOUS
    <3>2. next = [i \in D |-> IF i = k THEN page + 1 ELSE
                    IF i < k THEN last(i) + 1 ELSE IF i = k THEN page ELSE first(i)]
      BY DEF Upto
    <3> HIDE DEF D, last, first
    <3> QED
      BY <3>1, <3>2
  <2>2. Upto(image, s, x) = [i \in D |-> IF i < s THEN last(i) + 1
                                         ELSE IF i = s THEN x ELSE first(i)]
    BY DEF Upto
  <2> HIDE DEF D, last, first
  <2> QED
    BY <1>3, <2>1, <2>2
<1> HIDE DEF D, last, first
<1>4. next = Upto(image, k, page + 1)
  <2>1. \A i \in D : ~(i = k /\ i < k)
    BY <1>0
  <2>2. \A i \in D : (IF i = k THEN page + 1 ELSE IF i < k THEN last(i) + 1 ELSE first(i))
                     = (IF i < k THEN last(i) + 1 ELSE IF i = k THEN page + 1 ELSE first(i))
    BY <2>1
  <2> QED
    BY <1>3, <2>2
<1>5. ASSUME ~(page < last(k)), k < Len(image.segments)
      PROVE  next = Upto(image, k + 1, first(k + 1))
  <2> DEFINE l == k + 1
  <2>1. page = last(k)
    BY <1>1, <1>2, <1>5
  <2>2. \A i \in D : i < l <=> i < k \/ i = k
    BY <1>0
  <2> HIDE DEF l
  <2>3. \A i \in D : (IF i = k THEN page + 1 ELSE IF i < k THEN last(i) + 1 ELSE first(i))
                     = (IF i < l THEN last(i) + 1 ELSE IF i = l THEN first(l) ELSE first(i))
    BY <2>1, <2>2
  <2>4. next = Upto(image, l, first(l))
    BY <1>3, <2>3
  <2> QED
    BY <2>4 DEF l
<1>6. ASSUME ~(page < last(k)), ~(k < Len(image.segments))
      PROVE  next = All(image)
  <2> DEFINE l == Len(image.segments) + 1
  <2>1. page = last(k)
    BY <1>1, <1>2, <1>6
  <2>2. \A i \in D : i < l /\ (i < k \/ i = k)
    BY <1>0, <1>6
  <2> HIDE DEF l
  <2>3. \A i \in D : (IF i = k THEN page + 1 ELSE IF i < k THEN last(i) + 1 ELSE first(i))
                     = (IF i < l THEN last(i) + 1 ELSE IF i = l THEN 0 ELSE first(i))
    BY <2>1, <2>2
  <2>4. next = Upto(image, l, 0)
    BY <1>3, <2>3
  <2> QED
    BY <2>4 DEF All, l
<1> QED
  BY <1>4, <1>5, <1>6 DEF last, first

\* Reading the page that elfload is at.
LEMMA PageAdvances ==
  ASSUME NEW image, Checked(image), NEW k \in DOMAIN image.segments,
         NEW upto \in [DOMAIN image.segments -> Nat], NEW page \in Nat, page = upto[k],
         first_page(image.segments[k]) <= page
  PROVE  Advances(image, upto, [upto EXCEPT ![k] = page + 1], {}, {}, page,
                  fill_of(image.segments[k], page))
<1> DEFINE next == [upto EXCEPT ![k] = page + 1]
           fill == fill_of(image.segments[k], page)
<1>1. \A i \in DOMAIN image.segments : next[i] = IF i = k THEN page + 1 ELSE upto[i]
  OBVIOUS
<1>2. \A x \in Page : x \in Nat
  BY DEF Page
<1>3. first_page(image.segments[k]) \in Nat
  BY UptoTyped
<1>4. ASSUME NEW old, PageLaid(image, upto, page, old)
      PROVE  PageLaid(image, next, page, filled(old, fill))
  BY <1>4, PageRead
<1> HIDE DEF next, fill
<1>5. \A i \in DOMAIN image.segments, x \in Page \ {page} : x < upto[i] <=> x < next[i]
  <2> SUFFICES ASSUME NEW i \in DOMAIN image.segments, NEW x \in Page \ {page}
               PROVE  x < upto[i] <=> x < next[i]
    OBVIOUS
  <2>1. x \in Nat /\ x # page
    BY <1>2
  <2> QED
    BY <1>1, <2>1
<1>6. ASSUME NEW x \in Page
      PROVE  Asked(image, next, {}, x) <=> Asked(image, upto, {}, x) \/ x = page
  <2>1. CASE x = page
    <3>1. page < next[k]
      BY <1>1
    <3> QED
      BY <2>1, <3>1 DEF Asked
  <2>2. CASE x # page
    BY <1>5, <2>2 DEF Asked
  <2> QED
    BY <2>1, <2>2
<1> QED
  BY <1>4, <1>5, <1>6 DEF Advances, next, fill

\* The stack's page is zeroes, unless a segment is there.
LEMMA StackAdvances ==
  ASSUME NEW image, NEW upto
  PROVE  Advances(image, upto, upto, {}, {StackPage}, StackPage, << >>)
<1>1. ASSUME NEW x PROVE Asked(image, upto, {StackPage}, x)
                            <=> Asked(image, upto, {}, x) \/ x = StackPage
  BY DEF Asked
<1>2. ASSUME NEW old, PageLaid(image, upto, StackPage, old)
      PROVE  PageLaid(image, upto, StackPage, filled(old, << >>))
  <2>1. \A o \in Offsets : filled(old, << >>)[o] = old[o]
    BY DEF filled
  <2> QED
    BY <1>2, <2>1 DEF PageLaid
<1> QED
  BY <1>1, <1>2 DEF Advances

\* What cmdexec_program has made of the process so far, on its way to the
\* program's first instruction.
LaidOut ==
  LET p == table[job.slot]
      image == job.image
  IN  /\ job.at = "CREATED" => p.pages = << >>
      /\ job.at = "LOADING" =>
           Laid(mem, p, Base, image, Upto(image, job.segment, job.page), {})
      /\ job.at = "STACK" => elf_check(image) /\ Laid(mem, p, Base, image, All(image), {})
      /\ job.at = "LOADED" =>
           elf_check(image) /\ Laid(mem, p, Base, image, All(image), {StackPage})

LEMMA NotLoading ==
  ASSUME job'.at \notin {"CREATED", "LOADING", "STACK", "LOADED"}
  PROVE  LaidOut'
BY DEF LaidOut

LEMMA GiveUpLaid ==
  ASSUME NEW m, NEW p, NEW why, GiveUp(m, p, why)
  PROVE  LaidOut'
<1>1. job'.at = "PROMPT"
  BY DEF GiveUp, Idle
<1> QED
  BY <1>1, NotLoading

LEMMA CreateLaid ==
  ASSUME WellTyped, NEW image \in Images, CreateProcess(image)
  PROVE  LaidOut'
<1>0. table \in [Slots -> Process] /\ job.at = "PROMPT"
  BY DEF WellTyped, TypeOK, CreateProcess
<1>1. CASE free_slots = {}
  <2>1. job'.at = "PROMPT"
    BY <1>0, <1>1 DEF CreateProcess
  <2> QED
    BY <2>1, NotLoading
<1>2. CASE free_slots # {}
  <2> DEFINE new == vmm_new_user_space(mem, boot.ready)
             slot == least(free_slots)
             made == [Blank EXCEPT !.state = "READY", !.space = new.space]
  <2>1. Created(image, slot, new)
    BY <1>2 DEF CreateProcess
  <2>2. slot \in Slots
    <3>1. free_slots \in SUBSET Nat
      BY ProgramsAssumption DEF free_slots, Slots
    <3>2. \E n \in free_slots : \A k \in free_slots : n <= k
      BY <1>2, <3>1, LeastNat
    <3> QED
      BY <3>2 DEF least, free_slots
  <2> HIDE DEF new, slot
  <2>3. CASE new.result = "OK"
    <3>1. /\ table' = [table EXCEPT ![slot] = made]
          /\ job' = [Idle EXCEPT !.at = "CREATED", !.slot = slot, !.image = image]
      BY <2>1, <2>3 DEF Created
    <3>2. job'.at = "CREATED" /\ job'.slot = slot
      BY <3>1 DEF Idle
    <3>3. made.pages = << >>
      BY DEF Blank
    <3> HIDE DEF made
    <3>4. table'[job'.slot] = made
      BY <1>0, <2>2, <3>1, <3>2
    <3> QED
      BY <3>2, <3>3, <3>4 DEF LaidOut
  <2>4. CASE new.result # "OK"
    <3>1. job'.at = "PROMPT"
      BY <1>0, <2>1, <2>4 DEF Created
    <3> QED
      BY <3>1, NotLoading
  <2> QED
    BY <2>3, <2>4
<1> QED
  BY <1>1, <1>2

LEMMA CheckLaid ==
  ASSUME WellTyped, Owned, LaidOut, CheckImage
  PROVE  LaidOut'
<1>0. /\ job \in JobType /\ job.segment = 1 /\ job.at = "CREATED" /\ boot' = boot
      /\ job.image.segments \in Seq(Segment)
      /\ \A i \in DOMAIN job.image.segments : job.image.segments[i] \in Segment
  BY ImageTyped DEF CheckImage, WellTyped
<1>1. Owner(mem, table[job.slot], Base) /\ table[job.slot].pages = << >>
  BY <1>0 DEF Owned, LaidOut
<1>2. CASE elf_check(job.image)
  <2>1. /\ job' = [job EXCEPT !.at = "LOADING", !.page = first_page(job.image.segments[1])]
        /\ UNCHANGED <<boot, mem, table>>
    BY <1>2 DEF CheckImage
  <2>2. /\ job'.at = "LOADING" /\ job'.slot = job.slot /\ job'.image = job.image
        /\ job'.segment = 1 /\ job'.page = first_page(job.image.segments[1])
    BY <1>0, <2>1 DEF JobType
  <2>3. Checked(job.image)
    BY <1>0, <1>2 DEF Checked
  <2>4. Laid(mem, table[job.slot], Base, job.image,
             Upto(job.image, 1, first_page(job.image.segments[1])), {})
    BY <1>1, <2>3, NoneLaid
  <2>5. Base' = Base
    BY <2>1 DEF Base
  <2> QED
    BY <2>1, <2>2, <2>4, <2>5 DEF LaidOut
<1>3. CASE ~elf_check(job.image)
  <2>1. GiveUp(mem, table[job.slot], "NOT_LOADED")
    BY <1>3 DEF CheckImage
  <2> QED
    BY <2>1, GiveUpLaid
<1> QED
  BY <1>2, <1>3

LEMMA LoadLaid ==
  ASSUME WellTyped, Owned, LaidOut, LoadPage
  PROVE  LaidOut'
<1> DEFINE image == job.image
           k == job.segment
           segment == image.segments[k]
           fill == fill_of(segment, job.page)
           added == process_add_page_at(mem, table[job.slot], job.page,
                      flags_for(segment), fill)
           upto == Upto(image, k, job.page)
           next == [upto EXCEPT ![k] = job.page + 1]
<1>0. job.at = "LOADING" /\ boot' = boot /\ PageLoaded(segment, added)
  BY DEF LoadPage
<1>1. /\ table[job.slot] \in Process /\ job.slot \in Slots /\ mem \in Memory
      /\ job \in JobType /\ job.page \in Nat /\ k \in Nat
      /\ image.segments \in Seq(Segment) /\ table \in [Slots -> Process]
      /\ \A i \in DOMAIN image.segments : image.segments[i] \in Segment
      /\ k \in DOMAIN image.segments /\ segment \in Segment
  BY <1>0, ImageTyped DEF WellTyped, TypeOK
<1>2. /\ elf_check(image) /\ job.page \in first_page(segment) .. last_page(segment)
      /\ Laid(mem, table[job.slot], Base, image, upto, {})
  BY <1>0 DEF Owned, LaidOut
<1>3. Checked(image)
  BY <1>1, <1>2 DEF Checked
<1>4. InHalf(job.page)
  <2>1. segment_ok(image, k)
    BY <1>1, <1>2 DEF elf_check
  <2> QED
    BY <1>1, <1>2, <2>1, SegmentInHalf
<1>5. /\ flags_for(segment) \in [write : BOOLEAN, nx : BOOLEAN]
      /\ \A o \in DOMAIN fill : fill[o] \in Bytes \cup {0}
  <2> HIDE DEF segment
  <2> QED
    BY <1>1, SegmentTyped
<1>6. Advances(image, upto, next, {}, {}, job.page, fill)
  <2>1. upto \in [DOMAIN image.segments -> Nat] /\ first_page(segment) \in Nat
        /\ last_page(segment) \in Nat
    BY <1>1, <1>3, UptoTyped
  <2>2. job.page = upto[k]
    BY <1>1 DEF Upto
  <2>3. first_page(segment) <= job.page
    <3> HIDE DEF segment
    <3> QED
      BY <1>2, <2>1
  <2> HIDE DEF upto, image, k
  <2> QED
    BY <1>1, <1>3, <2>1, <2>2, <2>3, PageAdvances
<1>7. added.ok => Laid(added.mem, added.proc, Base, image, next, {})
  <2> HIDE DEF segment, fill, upto, next, image
  <2> QED
    BY <1>1, <1>2, <1>3, <1>4, <1>5, <1>6, AddedLaid
<1>8. added \in [ok : BOOLEAN, mem : Memory, proc : Process]
  <2> HIDE DEF segment, fill
  <2> QED
    BY <1>1, <1>5, AddPageTyped
<1>9. /\ job.page < last_page(segment) => next = Upto(image, k, job.page + 1)
      /\ ~(job.page < last_page(segment)) =>
           /\ k < Len(image.segments) =>
                next = Upto(image, k + 1, first_page(image.segments[k + 1]))
           /\ ~(k < Len(image.segments)) => next = All(image)
  <2> HIDE DEF image, k
  <2> QED
    BY <1>1, <1>2, <1>3, UptoNext
<1> HIDE DEF added, next
<1>10. CASE ~added.ok
  <2>1. GiveUp(added.mem, added.proc, "NOT_LOADED")
    BY <1>0, <1>10 DEF PageLoaded
  <2> QED
    BY <2>1, GiveUpLaid
<1>11. CASE added.ok
  <2>1. mem' = added.mem /\ NextPage(segment, added.proc)
    BY <1>0, <1>11 DEF PageLoaded
  <2>2. Base' = Base
    BY <1>0 DEF Base
  <2>3. Laid(added.mem, added.proc, Base, image, next, {})
    BY <1>7, <1>11
  <2>4. CASE job.page < last_page(segment)
    <3>1. /\ job' = [job EXCEPT !.page = job.page + 1]
          /\ table' = [table EXCEPT ![job.slot] = added.proc]
      BY <2>1, <2>4 DEF NextPage
    <3>2. /\ job'.at = "LOADING" /\ job'.slot = job.slot /\ job'.image = image
          /\ job'.segment = k /\ job'.page = job.page + 1
      BY <1>0, <1>1, <3>1 DEF JobType
    <3>3. table'[job'.slot] = added.proc
      BY <1>1, <3>1, <3>2
    <3>4. next = Upto(image, k, job.page + 1)
      BY <1>9, <2>4
    <3> HIDE DEF image, k
    <3> QED
      BY <2>1, <2>2, <2>3, <3>2, <3>3, <3>4 DEF LaidOut
  <2>5. CASE ~(job.page < last_page(segment)) /\ k < Len(image.segments)
    <3> DEFINE l == k + 1
    <3>1. /\ job' = [job EXCEPT !.segment = l, !.page = first_page(image.segments[l])]
          /\ table' = [table EXCEPT ![job.slot] = added.proc]
      BY <2>1, <2>5 DEF NextPage
    <3>2. next = Upto(image, l, first_page(image.segments[l]))
      BY <1>9, <2>5
    <3> HIDE DEF l
    <3>3. /\ job'.at = "LOADING" /\ job'.slot = job.slot /\ job'.image = image
          /\ job'.segment = l /\ job'.page = first_page(image.segments[l])
      BY <1>0, <1>1, <3>1 DEF JobType
    <3>4. table'[job'.slot] = added.proc
      BY <1>1, <3>1, <3>3
    <3> HIDE DEF image, k
    <3> QED
      BY <2>1, <2>2, <2>3, <3>2, <3>3, <3>4 DEF LaidOut
  <2>6. CASE ~(job.page < last_page(segment)) /\ ~(k < Len(image.segments))
    <3> DEFINE q == [added.proc EXCEPT !.entry = image.entry]
    <3>1. /\ job' = [job EXCEPT !.at = "STACK"]
          /\ table' = [table EXCEPT ![job.slot] = q]
      BY <2>1, <2>6 DEF NextPage
    <3>2. job'.at = "STACK" /\ job'.slot = job.slot /\ job'.image = image
      BY <1>1, <3>1 DEF JobType
    <3>3. q.space = added.proc.space /\ q.pages = added.proc.pages
      BY <1>8 DEF Process
    <3>4. table'[job'.slot] = q
      BY <1>1, <3>1, <3>2
    <3>5. next = All(image)
      BY <1>9, <2>6
    <3> HIDE DEF q, image
    <3>6. Laid(added.mem, q, Base, image, All(image), {})
      BY <2>3, <3>3, <3>5, SameLaid
    <3> QED
      BY <1>2, <2>1, <2>2, <3>2, <3>4, <3>6 DEF LaidOut
  <2> QED
    BY <2>4, <2>5, <2>6
<1> QED
  BY <1>10, <1>11

LEMMA StackLaid ==
  ASSUME WellTyped, LaidOut, give_stack
  PROVE  LaidOut'
<1> DEFINE image == job.image
           fill == << >>
           added == process_add_page_at(mem, table[job.slot], StackPage, StackFlags, fill)
<1>0. job.at = "STACK" /\ boot' = boot /\ StackGiven(added)
  BY DEF give_stack
<1>1. /\ table[job.slot] \in Process /\ job.slot \in Slots
      /\ job \in JobType /\ table \in [Slots -> Process]
      /\ image.segments \in Seq(Segment)
      /\ \A i \in DOMAIN image.segments : image.segments[i] \in Segment
  BY <1>0, ImageTyped DEF WellTyped, TypeOK
<1>2. elf_check(image) /\ Laid(mem, table[job.slot], Base, image, All(image), {})
  BY <1>0 DEF LaidOut
<1>3. Checked(image)
  BY <1>1, <1>2 DEF Checked
<1>4. added.ok => Laid(added.mem, added.proc, Base, image, All(image), {StackPage})
  <2>1. StackFlags \in [write : BOOLEAN, nx : BOOLEAN]
    BY ProgramsAssumption DEF StackFlags
  <2>2. \A o \in DOMAIN fill : fill[o] \in Bytes \cup {0}
    OBVIOUS
  <2> DEFINE upto == All(image)
  <2>3. Advances(image, upto, upto, {}, {StackPage}, StackPage, fill)
    <3> HIDE DEF upto, image
    <3> QED
      BY StackAdvances
  <2>4. Laid(mem, table[job.slot], Base, image, upto, {})
    BY <1>2
  <2> HIDE DEF fill, upto, image
  <2>5. added.ok => Laid(added.mem, added.proc, Base, image, upto, {StackPage})
    BY <1>1, <1>3, <2>1, <2>2, <2>3, <2>4, StackInHalf, AddedLaid
  <2> QED
    BY <2>5 DEF upto
<1> HIDE DEF added
<1>5. CASE ~added.ok
  <2>1. GiveUp(added.mem, added.proc, "NO_STACK")
    BY <1>0, <1>5 DEF StackGiven
  <2> QED
    BY <2>1, GiveUpLaid
<1>6. CASE added.ok
  <2>1. /\ mem' = added.mem
        /\ table' = [table EXCEPT ![job.slot] = added.proc]
        /\ job' = [job EXCEPT !.at = "LOADED"]
    BY <1>0, <1>6 DEF StackGiven
  <2>2. job'.slot = job.slot /\ job'.at = "LOADED" /\ job'.image = image
    BY <1>1, <2>1 DEF JobType
  <2>3. table'[job'.slot] = added.proc
    BY <1>1, <2>1, <2>2
  <2>4. Base' = Base
    BY <1>0 DEF Base
  <2> HIDE DEF image
  <2> QED
    BY <1>2, <1>4, <1>6, <2>1, <2>2, <2>3, <2>4 DEF LaidOut
<1> QED
  BY <1>5, <1>6

LEMMA StepLaid == WellTyped /\ Owned /\ LaidOut /\ [Next]_vars => LaidOut'
<1> SUFFICES ASSUME WellTyped, Owned, LaidOut, [Next]_vars PROVE LaidOut'
  OBVIOUS
<1>0. job \in JobType
  BY DEF WellTyped, TypeOK
<1>1. ASSUME NEW image \in Images, CreateProcess(image) PROVE LaidOut'
  BY <1>1, CreateLaid
<1>2. CASE Kernel
  <2>1. CASE CheckImage
    BY <2>1, CheckLaid
  <2>2. CASE LoadPage
    BY <2>2, LoadLaid
  <2>3. CASE give_stack
    BY <2>3, StackLaid
  <2>4. CASE EnterUser
    <3>1. job'.at = "IN_PROGRAM"
      BY <1>0, <2>4 DEF EnterUser, JobType
    <3> QED
      BY <3>1, NotLoading
  <2>5. CASE LeaveProgram
    <3>1. job'.at = "RETURNED"
      BY <1>0, <2>5 DEF LeaveProgram, JobType
    <3> QED
      BY <3>1, NotLoading
  <2>6. CASE ReportAndDestroy
    <3>1. job'.at = "PROMPT"
      BY <2>6 DEF ReportAndDestroy, Idle
    <3> QED
      BY <3>1, NotLoading
  <2> QED
    BY <1>2, <2>1, <2>2, <2>3, <2>4, <2>5, <2>6 DEF Kernel
<1>3. ASSUME InProgram, job' = job \/ job' = [job EXCEPT !.at = "BACK"]
      PROVE  LaidOut'
  <2>1. job'.at \in {"IN_PROGRAM", "BACK"}
    BY <1>0, <1>3 DEF InProgram, JobType
  <2> QED
    BY <2>1, NotLoading
<1>4. ASSUME NEW store \in Stores, UserStore(store) PROVE LaidOut'
  BY <1>3, <1>4 DEF UserStore
<1>5. CASE UserFault
  BY <1>3, <1>5 DEF UserFault, Leave
<1>6. ASSUME NEW elapsed \in Elapsed, SystemCall(elapsed) PROVE LaidOut'
  BY <1>3, <1>6, CallKeeps
<1>7. CASE UNCHANGED vars
  <2>1. Base' = Base
    BY <1>7 DEF vars, Base
  <2> QED
    BY <1>7, <2>1 DEF vars, LaidOut
<1> QED
  BY <1>1, <1>2, <1>4, <1>5, <1>6, <1>7 DEF Next

\* What was read is what the file says.
LEMMA LaidIsFile ==
  ASSUME NEW image, Checked(image), NEW page \in Page, NEW o \in Offsets, NEW byte,
         ByteLaid(image, All(image), page, o, byte)
  PROVE  byte = file_byte(image, page * PAGE_SIZE + o)
<1> DEFINE segs == image.segments
           a == page * PAGE_SIZE + o
           in == {i \in DOMAIN segs : a - segs[i].vaddr + 1 \in DOMAIN segs[i].file}
<1>0. page \in Nat
  BY DEF Page
<1>1. ReadInto(image, All(image), page, a) = in
  <2>1. ASSUME NEW i \in DOMAIN segs, InFile(segs[i], a)
        PROVE  page < All(image)[i]
    <3> DEFINE s == segs[i]
    <3>1. s \in Segment /\ Len(s.file) <= s.mem_bytes
      BY <2>1 DEF Checked, elf_check, segment_ok
    <3>2. InFile(s, page * PAGE_SIZE + o)
      BY <2>1
    <3>3. All(image)[i] = last_page(s) + 1
      <4>1. i < Len(image.segments) + 1
        BY <2>1 DEF Checked
      <4> QED
        BY <4>1 DEF All, Upto
    <3> HIDE DEF s
    <3>4. page <= last_page(s) /\ last_page(s) \in Nat
      BY <1>0, <3>1, <3>2, FileInPages, FirstPageIn
    <3> QED
      BY <1>0, <3>3, <3>4
  <2> HIDE DEF a
  <2> QED
    BY <2>1 DEF ReadInto, InFile
<1>2. /\ \A i \in in : byte = FileByte(segs[i], a)
      /\ in = {} => byte = 0
  BY <1>1 DEF ByteLaid
<1>3. file_byte(image, a)
        = IF in = {} THEN 0 ELSE FileByte(segs[CHOOSE i \in in : TRUE], a)
  BY DEF file_byte, FileByte
<1>4. in # {} => (CHOOSE i \in in : TRUE) \in in
  OBVIOUS
<1> HIDE DEF in, a
<1>5. byte = file_byte(image, a)
  BY <1>2, <1>3, <1>4
<1> QED
  BY <1>5 DEF a

\* The pages the segments were read into are those they ask for.
LEMMA AllAsked ==
  ASSUME NEW image, Checked(image), NEW page \in Page
  PROVE  Asked(image, All(image), {StackPage}, page) <=> page \in requested(image)
<1> DEFINE segs == image.segments
<1>0. page \in Nat
  BY DEF Page
<1>1. ASSUME NEW i \in DOMAIN segs
      PROVE  (first_page(segs[i]) <= page /\ page < All(image)[i])
               <=> page \in first_page(segs[i]) .. last_page(segs[i])
  <2>1. All(image)[i] = last_page(segs[i]) + 1
    <3>1. i < Len(segs) + 1
      BY <1>1 DEF Checked
    <3> QED
      BY <3>1 DEF All, Upto
  <2>2. first_page(segs[i]) \in Nat /\ last_page(segs[i]) \in Nat
    BY <1>1, SegmentTyped, FirstPageIn DEF Checked
  <2> QED
    BY <1>0, <2>1, <2>2
<1> QED
  BY <1>1 DEF Asked, requested

LEMMA LaidIsLoaded ==
  ASSUME WellTyped, LaidOut
  PROVE  LoadedAsTheFileSays
<1> SUFFICES ASSUME job.at = "LOADED", NEW page \in Page, 2 * page < VIRT_PAGES
             PROVE  LET there == vmm_translate(mem, table[job.slot].space, page)
                    IN  /\ (there.result = "OK") <=> (page \in requested(job.image))
                        /\ there.result = "OK" =>
                             \A o \in Offsets :
                               mem.bytes[there.entry.addr][o]
                                 = file_byte(job.image, page * PAGE_SIZE + o)
  BY DEF LoadedAsTheFileSays
<1> DEFINE p == table[job.slot]
           image == job.image
           there == vmm_translate(mem, p.space, page)
<1>1. Checked(image)
  BY ImageTyped DEF LaidOut, Checked
<1>2. PICK at : /\ Holds(mem, p, Base, at)
                /\ LaidAt(mem, image, All(image), {StackPage}, at)
  BY DEF LaidOut, Laid
<1>3. Finds(there, at, page)
  <2>1. InHalf(page)
    BY LowIsInHalf DEF Page
  <2>2. Grown(mem, p.space, Base, at, {})
    BY <1>2 DEF Holds
  <2> HIDE DEF p, there
  <2> QED
    BY <2>1, <2>2, TranslateFinds DEF there
<1>4. (\E f \in DOMAIN at : at[f] = page) <=> page \in requested(image)
  <2>1. (\E f \in DOMAIN at : at[f] = page) <=> Asked(image, All(image), {StackPage}, page)
    BY <1>2 DEF LaidAt
  <2> HIDE DEF image
  <2> QED
    BY <1>1, <2>1, AllAsked
<1>5. there.result = "OK" <=> page \in requested(image)
  <2> HIDE DEF there, image
  <2> QED
    BY <1>3, <1>4 DEF Finds
<1>6. ASSUME there.result = "OK", NEW o \in Offsets
      PROVE  mem.bytes[there.entry.addr][o] = file_byte(image, page * PAGE_SIZE + o)
  <2> DEFINE f == there.entry.addr
  <2>1. f \in DOMAIN at /\ at[f] = page
    BY <1>3, <1>6 DEF Finds
  <2> HIDE DEF f, there, image
  <2>2. ByteLaid(image, All(image), page, o, mem.bytes[f][o])
    BY <1>2, <1>6, <2>1 DEF LaidAt, PageLaid
  <2>3. mem.bytes[f][o] = file_byte(image, page * PAGE_SIZE + o)
    BY <1>1, <1>6, <2>2, LaidIsFile
  <2> QED
    BY <2>3 DEF f
<1> QED
  BY <1>5, <1>6

\* Whatever executable is run, on whatever machine and after whatever other
\* programs: when the program is about to start, its memory is what its file
\* says and nothing else (elfload, process_add_page_at).
THEOREM MemoryIsAsTheFileSays == Spec => []LoadedAsTheFileSays
<1>1. Init => LaidOut
  BY DEF Init, Idle, LaidOut
<1> QED
  BY <1>1, AlwaysOwned, StepLaid, LaidIsLoaded, PTL DEF Spec
============================================================================
