------------------------------ MODULE Programs ------------------------------
(***************************************************************************)
(* Programs: loading one from a file, running it, the system calls that    *)
(* change what it owns, every way it can end, and taking it apart again    *)
(* (cmdexec.c, process.c, elf.c, elfload.c, syscall.c, uaccess.c and the   *)
(* windows of winsys.c), over the memory of Vmm.                           *)
(*                                                                         *)
(* There is no scheduler: the shell waits inside cmdexec_program until the *)
(* program is gone.  `job' says how far that call has come.  While a       *)
(* program runs the processor and the program choose what happens next.    *)
(***************************************************************************)
EXTENDS Vmm, Sequences

CONSTANTS PROC_MAX,         \* 8 slots
          PROC_MAX_PAGES,   \* 16
          ELF_MAX_SEGMENTS, \* 8
          USER_LOWEST, USER_HIGHEST, USER_STACK_TOP,  \* addresses
          NX_AVAILABLE,     \* whether the processor has the bit
          PIT_PERIOD,       \* 65536 counts before the timer wraps
          COUNTS_MAX,       \* PROC_SECONDS_MAX * TIMER_HZ
          HOLD_MAX,         \* SYS_HOLD_MAX_MS, in counts
          TITLE_MAX,        \* PROC_NAME_MAX, the room for a title
          EVENT_BYTES,      \* sizeof (struct sys_event)
          WindowIds,        \* the window manager's identifiers, zero apart
          WINDOW_ROOM,      \* DESKTOP_MAX_APPS - DESKTOP_BUILTIN_APPS
          Images,           \* the executables that can be run
          MemoryMaps,       \* what the bootloader may report
          Addresses,        \* addresses a program passes to a call
          Stores,           \* what it stores: sets of [page, offset, byte]
          EventByte         \* what a delivered event consists of

\* struct elf_image with the bytes of its segments.  The table entries that
\* elf_check skips (not to be loaded, or asking for nothing) are left out, and
\* with them that an empty one is refused when it comes after the last that
\* fits.
Segment == [vaddr : Nat, mem_bytes : Nat \ {0}, file : Seq(Bytes \cup {0}),
            write : BOOLEAN, exec : BOOLEAN]
Image == [segments : Seq(Segment), entry : Nat]

Slots == 1 .. PROC_MAX
NoWindow == 0

\* Programs are put in the lower half of their space.
ASSUME ProgramsAssumption ==
  /\ PROC_MAX \in Nat /\ PROC_MAX_PAGES \in Nat /\ ELF_MAX_SEGMENTS \in Nat
  /\ USER_LOWEST \in Nat /\ USER_HIGHEST \in Nat
  /\ USER_STACK_TOP \in Nat /\ USER_STACK_TOP >= PAGE_SIZE
  /\ 2 * USER_HIGHEST <= VIRT_PAGES * PAGE_SIZE
  /\ 2 * USER_STACK_TOP <= VIRT_PAGES * PAGE_SIZE
  /\ NX_AVAILABLE \in BOOLEAN
  /\ PIT_PERIOD \in Nat \ {0} /\ COUNTS_MAX \in Nat /\ HOLD_MAX \in Nat
  /\ TITLE_MAX \in Nat \ {0} /\ EVENT_BYTES \in Nat \ {0}
  /\ WindowIds \subseteq Nat \ {0} /\ WINDOW_ROOM \in Nat
  /\ Images \subseteq Image
  /\ Addresses \subseteq Nat
  /\ Stores \subseteq [page : Page, offset : Offsets, byte : Bytes]
  /\ EventByte \in Bytes

\* The machine has every page that its memory map calls usable, and the
\* bootloader put its own page tables in none of them.
ASSUME MapsAssumption ==
  \A map \in MemoryMaps :
    /\ map \in Seq([base : Nat, length : Nat, usable : BOOLEAN])
    /\ highest_usable_end(map) \in 0 .. (MAX_FRAME + 1) * PAGE_SIZE
    /\ \A i \in usable(map) :
         pages_inside(map[i].base, map[i].length) \cap DOMAIN KernelTables = {}

States == {"FREE", "READY", "RUNNING", "EXITED"}
Reasons == {"NONE", "TIME", "KEY"}

\* struct process.  Names, titles and what is only logged are left out.
Process == [state : States, space : Space, entry : Nat, pages : Seq(Frames),
            exit_code : Int, faulted : BOOLEAN, overran : BOOLEAN,
            stopped_because : Reasons, window_id : WindowIds \cup {NoWindow},
            ran_counts : Nat]

\* What memset leaves.
Blank == [state |-> "FREE", space |-> NoSpace, entry |-> 0, pages |-> << >>,
          exit_code |-> 0, faulted |-> FALSE, overran |-> FALSE,
          stopped_because |-> "NONE", window_id |-> NoWindow, ran_counts |-> 0]

\* What cmdexec_program says when it returns.
Reports == {"NOTHING", "NO_ROOM", "NOT_LOADED", "NO_STACK", "STOPPED",
            "TOO_LONG", "CODE"}

VARIABLES
  boot,    \* what pmmboot_init made of the memory map
  mem,     \* physical memory and its allocator
  table,   \* the process table
  current, \* the running process, or 0
  job,     \* how far cmdexec_program is: [at, slot, image, segment, page]
  windows, \* the windows of programs on the desktop
  report   \* what the last program left on the screen

vars == <<boot, mem, table, current, job, windows, report>>

Idle == [at |-> "PROMPT", slot |-> 0, image |-> [segments |-> << >>, entry |-> 0],
         segment |-> 1, page |-> 0]

JobType == [at : {"PROMPT", "CREATED", "LOADING", "STACK", "LOADED",
                  "IN_PROGRAM", "BACK", "RETURNED"},
            slot : Slots \cup {0}, image : Images \cup {Idle.image},
            segment : Nat, page : Nat]

----------------------------------------------------------------------------
(* Reading an executable *)

\* The loop of elf_check over the program headers, and the entry point.
segment_ok(image, i) ==
  LET s == image.segments[i]
  IN  /\ i <= ELF_MAX_SEGMENTS
      /\ Len(s.file) <= s.mem_bytes
      /\ s.vaddr >= USER_LOWEST
      /\ s.vaddr + s.mem_bytes <= USER_HIGHEST
      /\ \A j \in 1 .. i - 1 :
           LET other == image.segments[j]
           IN  ~(/\ s.vaddr < other.vaddr + other.mem_bytes
                 /\ other.vaddr < s.vaddr + s.mem_bytes)

elf_check(image) ==
  /\ image.segments # << >>
  /\ \A i \in DOMAIN image.segments : segment_ok(image, i)
  /\ \E i \in DOMAIN image.segments :
       LET s == image.segments[i]
       IN  image.entry \in s.vaddr .. s.vaddr + s.mem_bytes - 1 /\ s.exec

first_page(s) == s.vaddr \div PAGE_SIZE
last_page(s) == (s.vaddr + s.mem_bytes - 1) \div PAGE_SIZE

flags_for(s) == [write |-> s.write, nx |-> ~s.exec /\ NX_AVAILABLE]
StackFlags == [write |-> TRUE, nx |-> NX_AVAILABLE]
StackPage == (USER_STACK_TOP - PAGE_SIZE) \div PAGE_SIZE

\* Mutant: the file's bytes are put at the start of every page they reach.
FillFromStart(s, page) ==
  LET here == {i \in DOMAIN s.file : (s.vaddr + i - 1) \div PAGE_SIZE = page}
  IN  [o \in {i - least(here) : i \in here} |-> s.file[least(here) + o]]

\* The file's bytes that land in a page, by their offset in it.
fill_of(s, page) ==
  LET from == page * PAGE_SIZE
  IN  [o \in {o \in Offsets : from + o - s.vaddr + 1 \in DOMAIN s.file} |->
         s.file[from + o - s.vaddr + 1]]

----------------------------------------------------------------------------
(* Building a process and taking it apart *)

free_slots == {s \in Slots : table[s].state = "FREE"}

filled(old, fill) ==
  [o \in Offsets |-> IF o \in DOMAIN fill THEN fill[o] ELSE old[o]]

\* The page the allocator found, with what it holds then.
page_in(m, got, entries, bytes) ==
  [m EXCEPT !.pmm = got.pmm, !.entries[got.phys] = entries, !.bytes[got.phys] = bytes]

\* Mapped, it is the program's.  Otherwise it goes back, and the tables that
\* the walk had made stay with the space.
keep_page(proc, phys, mapped) ==
  IF mapped.result = "OK"
  THEN [ok |-> TRUE, mem |-> mapped.mem,
        proc |-> [proc EXCEPT !.space = mapped.space, !.pages = Append(@, phys)]]
  ELSE [ok |-> FALSE, proc |-> [proc EXCEPT !.space = mapped.space],
        mem |-> [mapped.mem EXCEPT !.pmm = pmm_free(@, <<phys>>)]]

\* Mutant: a page that is handed out shows what its last owner left in it.
AddUncleared(m, proc, got, page, flags, fill) ==
  IF got.phys = PMM_NONE THEN [ok |-> FALSE, mem |-> m, proc |-> proc]
  ELSE keep_page(proc, got.phys,
         vmm_map(page_in(m, got, ZeroTable, filled(m.bytes[got.phys], fill)),
                 proc.space, page, got.phys, flags))

\* A new page for the program, zeroed, filled and mapped.
add_new_page(m, proc, got, page, flags, fill) ==
  IF got.phys = PMM_NONE THEN [ok |-> FALSE, mem |-> m, proc |-> proc]
  ELSE keep_page(proc, got.phys,
         vmm_map(page_in(m, got, ZeroTable, filled(ZeroPage, fill)),
                 proc.space, page, got.phys, flags))

\* A page that is mapped already is filled where it is.
add_page(m, proc, there, page, flags, fill) ==
  IF there.result = "OK"
  THEN [ok |-> TRUE, proc |-> proc,
        mem |-> [m EXCEPT !.bytes[there.entry.addr] = filled(@, fill)]]
  ELSE IF Len(proc.pages) >= PROC_MAX_PAGES
  THEN [ok |-> FALSE, mem |-> m, proc |-> proc]
  ELSE add_new_page(m, proc, pmm_alloc(m.pmm), page, flags, fill)

process_add_page_at(m, proc, page, flags, fill) ==
  add_page(m, proc, vmm_translate(m, proc.space, page), page, flags, fill)

\* Mutant: the tables go before the pages are given back, which then is
\* forgotten.
DestroyTablesOnly(m, proc) == vmm_destroy(m, proc.space)

\* The memory after process_destroy: the pages first, then the tables.
process_destroy(m, proc) ==
  vmm_destroy([m EXCEPT !.pmm = pmm_free(@, proc.pages)], proc.space)

Destroyed(proc) == [proc EXCEPT !.state = "FREE", !.pages = << >>, !.space = NoSpace]

----------------------------------------------------------------------------
(* cmdexec_program, up to the program's first instruction *)

\* process_create, in the first free slot, wiped whatever comes of it.
Created(image, slot, new) ==
  /\ mem' = new.mem
  /\ table' = [table EXCEPT ![slot] =
       IF new.result = "OK" THEN [Blank EXCEPT !.state = "READY", !.space = new.space]
       ELSE Blank]
  /\ IF new.result = "OK"
     THEN /\ report' = "NOTHING"
          /\ job' = [Idle EXCEPT !.at = "CREATED", !.slot = slot, !.image = image]
     ELSE report' = "NO_ROOM" /\ job' = job

CreateProcess(image) ==
  /\ job.at = "PROMPT"
  /\ IF free_slots = {} THEN report' = "NO_ROOM" /\ UNCHANGED <<mem, table, job>>
     ELSE Created(image, least(free_slots), vmm_new_user_space(mem, boot.ready))
  /\ UNCHANGED <<boot, current, windows>>

\* Loading or the stack failed: everything the process has goes back.
GiveUp(m, proc, why) ==
  /\ mem' = process_destroy(m, proc)
  /\ table' = [table EXCEPT ![job.slot] = Destroyed(proc)]
  /\ report' = why
  /\ job' = Idle

CheckImage ==
  /\ job.at = "CREATED"
  /\ IF elf_check(job.image)
     THEN /\ job' = [job EXCEPT !.at = "LOADING",
                                !.page = first_page(job.image.segments[1])]
          /\ UNCHANGED <<mem, table, report>>
     ELSE GiveUp(mem, table[job.slot], "NOT_LOADED")
  /\ UNCHANGED <<boot, current, windows>>

\* After a page of a segment: the segment's next, the next segment's first, or
\* all of them are there.
NextPage(segment, added) ==
  IF job.page < last_page(segment)
  THEN /\ job' = [job EXCEPT !.page = @ + 1]
       /\ table' = [table EXCEPT ![job.slot] = added]
  ELSE IF job.segment < Len(job.image.segments)
  THEN /\ job' = [job EXCEPT !.segment = @ + 1,
                    !.page = first_page(job.image.segments[job.segment + 1])]
       /\ table' = [table EXCEPT ![job.slot] = added]
  ELSE /\ job' = [job EXCEPT !.at = "STACK"]
       /\ table' = [table EXCEPT ![job.slot] = [added EXCEPT !.entry = job.image.entry]]

PageLoaded(segment, added) ==
  IF ~added.ok THEN GiveUp(added.mem, added.proc, "NOT_LOADED")
  ELSE mem' = added.mem /\ NextPage(segment, added.proc) /\ UNCHANGED report

\* One turn of elfload's two loops: segments, and the pages of each.
LoadPage ==
  /\ job.at = "LOADING"
  /\ LET segment == job.image.segments[job.segment]
     IN  PageLoaded(segment, process_add_page_at(mem, table[job.slot], job.page,
                               flags_for(segment), fill_of(segment, job.page)))
  /\ UNCHANGED <<boot, current, windows>>

StackGiven(added) ==
  IF ~added.ok THEN GiveUp(added.mem, added.proc, "NO_STACK")
  ELSE /\ mem' = added.mem
       /\ table' = [table EXCEPT ![job.slot] = added.proc]
       /\ job' = [job EXCEPT !.at = "LOADED"]
       /\ UNCHANGED report

give_stack ==
  /\ job.at = "STACK"
  /\ StackGiven(process_add_page_at(mem, table[job.slot], StackPage, StackFlags, << >>))
  /\ UNCHANGED <<boot, current, windows>>

\* process_run, down to user mode.
EnterUser ==
  /\ job.at = "LOADED"
  /\ table[job.slot].state = "READY"
  /\ table' = [table EXCEPT ![job.slot].state = "RUNNING"]
  /\ current' = job.slot
  /\ job' = [job EXCEPT !.at = "IN_PROGRAM"]
  /\ UNCHANGED <<boot, mem, windows, report>>

----------------------------------------------------------------------------
(* The program and the processor *)

InProgram == job.at = "IN_PROGRAM"
proc == table[current]

\* Where the processor lets a program store: under the user bit and the write
\* bit at every level of the walk.
on_path(page, level) ==
  mem.entries[arrive(mem, proc.space, page, level, FALSE, FALSE).table]
    [paging_index(page, level)]

allowed(page) ==
  /\ vmm_translate(mem, proc.space, page).result = "OK"
  /\ \A level \in 0 .. PAGING_LEVELS - 1 :
       on_path(page, level).user /\ on_path(page, level).write

\* The program stores a byte where it may.
UserStore(store) ==
  /\ InProgram
  /\ allowed(store.page)
  /\ mem' = [mem EXCEPT
       !.bytes[vmm_translate(mem, proc.space, store.page).entry.addr][store.offset]
          = store.byte]
  /\ UNCHANGED <<boot, table, current, job, windows, report>>

\* proc_leave_user: back into process_run.
Leave(left) ==
  /\ table' = [table EXCEPT ![current] = left]
  /\ job' = [job EXCEPT !.at = "BACK"]

\* on_user_trap, for anything but a system call.
UserFault ==
  /\ InProgram
  /\ Leave([proc EXCEPT !.faulted = TRUE, !.exit_code = -1, !.state = "EXITED"])
  /\ UNCHANGED <<boot, mem, current, windows, report>>

----------------------------------------------------------------------------
(* Crossing into the program's memory (uaccess.c) *)

\* user_byte finds the page: mapped, the program's, and writable if need be.
\* Only the entry of the last level is looked at.
opens(there, need_write) ==
  there.result = "OK" /\ there.entry.user /\ (need_write => there.entry.write)

user_page(page, need_write) == opens(vmm_translate(mem, proc.space, page), need_write)

\* Mutant: only the page the range starts in is looked at.
RangeByStart(at, bytes, need_write) == user_page(at \div PAGE_SIZE, need_write)

\* Every page of the range before any byte of it.
uaccess_range_ok(at, bytes, need_write) ==
  \A page \in at \div PAGE_SIZE .. (at + bytes - 1) \div PAGE_SIZE :
    user_page(page, need_write)

\* The memory after uaccess_copy_out of an event, when the range is ok.
event_copied(at) ==
  [mem EXCEPT !.bytes = [f \in Frames |-> [o \in Offsets |->
     IF \E i \in 0 .. EVENT_BYTES - 1 :
          /\ (at + i) % PAGE_SIZE = o
          /\ vmm_translate(mem, proc.space, (at + i) \div PAGE_SIZE).entry.addr = f
     THEN EventByte ELSE mem.bytes[f][o]]]]

user_byte(at) ==
  mem.bytes[vmm_translate(mem, proc.space, at \div PAGE_SIZE).entry.addr]
    [at % PAGE_SIZE]

\* uaccess_copy_string: a zero within the room there is, nothing before it out
\* of reach.
copies_string(at) ==
  \E n \in 0 .. TITLE_MAX - 1 :
    /\ uaccess_range_ok(at, n + 1, FALSE)
    /\ user_byte(at + n) = 0

----------------------------------------------------------------------------
(* System calls *)

\* What one reading of the timer can charge: its counter wraps at PIT_PERIOD.
Elapsed == 0 .. PIT_PERIOD - 1

\* Mutant: the timer counts down, and so does the total.
ChargedDown(elapsed) == proc.ran_counts - elapsed

\* Mutant: every reading of the timer replaces the total.
ChargeLast(elapsed) == elapsed

\* take_counts.
charged(elapsed) == proc.ran_counts + elapsed

out_of_time(elapsed) == charged(elapsed) > COUNTS_MAX

\* Every call starts here: the time is charged and the limit looked at.
Call(elapsed) == InProgram /\ ~out_of_time(elapsed)

paid(elapsed) == [proc EXCEPT !.ran_counts = charged(elapsed)]

\* process_stop, in process `p'.
process_stop(p, code, why) ==
  [p EXCEPT !.overran = TRUE, !.stopped_because = why, !.exit_code = code,
            !.state = "EXITED"]

SysTimeLimit(elapsed) ==
  /\ InProgram
  /\ out_of_time(elapsed)
  /\ Leave(process_stop(paid(elapsed), -2, "TIME"))
  /\ UNCHANGED <<boot, mem, current, windows, report>>

do_exit(elapsed, code) ==
  /\ Call(elapsed)
  /\ Leave([paid(elapsed) EXCEPT !.exit_code = code, !.state = "EXITED",
                                 !.faulted = FALSE])
  /\ UNCHANGED <<boot, mem, current, windows, report>>

\* A call that changes nothing but the time: write, getpid, drawing, flushing,
\* an unknown number, or one that is refused.
SysOther(elapsed) ==
  /\ Call(elapsed)
  /\ table' = [table EXCEPT ![current] = paid(elapsed)]
  /\ UNCHANGED <<boot, mem, current, job, windows, report>>

\* do_hold: the timer is read until enough has gone by, and all of it charged.
do_hold(elapsed, counts) ==
  /\ Call(elapsed)
  /\ LET want == IF counts > HOLD_MAX THEN HOLD_MAX ELSE counts
     IN  \E waited \in IF want = 0 THEN {0} ELSE want .. want + PIT_PERIOD - 2 :
           table' = [table EXCEPT ![current] =
                      [paid(elapsed) EXCEPT !.ran_counts = @ + waited]]
  /\ UNCHANGED <<boot, mem, current, job, windows, report>>

\* winsys_open, when it is not refused: one window a program, a title it can
\* read, room on the desktop (desktop_add).
winsys_open(elapsed, title) ==
  /\ Call(elapsed)
  /\ proc.window_id = NoWindow
  /\ copies_string(title)
  /\ Cardinality(windows) < WINDOW_ROOM
  /\ \E id \in WindowIds \ windows :
       /\ windows' = windows \cup {id}
       /\ table' = [table EXCEPT ![current] = [paid(elapsed) EXCEPT !.window_id = id]]
  /\ UNCHANGED <<boot, mem, current, job, report>>

\* Mutant: only a program that ends by itself gives its window back.
ReleasedByExit(p) == IF p.faulted THEN p ELSE [p EXCEPT !.window_id = NoWindow]

\* winsys_release: the process forgets the window, then the desktop does.
released(p) == [p EXCEPT !.window_id = NoWindow]

winsys_close(elapsed) ==
  /\ Call(elapsed)
  /\ proc.window_id # NoWindow
  /\ windows' = windows \ {proc.window_id}
  /\ table' = [table EXCEPT ![current] = released(paid(elapsed))]
  /\ UNCHANGED <<boot, mem, current, job, report>>

\* winsys_event with a key or a pointer movement waiting, copied out.
winsys_event(elapsed, into) ==
  /\ Call(elapsed)
  /\ proc.window_id # NoWindow
  /\ uaccess_range_ok(into, EVENT_BYTES, TRUE)
  /\ mem' = event_copied(into)
  /\ table' = [table EXCEPT ![current] = paid(elapsed)]
  /\ UNCHANGED <<boot, current, job, windows, report>>

\* winsys_event with control and C waiting: the program never hears of it.
StopRequested(elapsed) ==
  /\ Call(elapsed)
  /\ proc.window_id # NoWindow
  /\ Leave(process_stop(paid(elapsed), -3, "KEY"))
  /\ UNCHANGED <<boot, mem, current, windows, report>>

\* Any system call with this much time gone by since the last.
SystemCall(elapsed) ==
  \/ SysTimeLimit(elapsed)
  \/ \E code \in {0, 1} : do_exit(elapsed, code)
  \/ SysOther(elapsed)
  \/ \E counts \in {0, HOLD_MAX + 1} : do_hold(elapsed, counts)
  \/ \E title \in Addresses : winsys_open(elapsed, title)
  \/ winsys_close(elapsed)
  \/ \E into \in Addresses : winsys_event(elapsed, into)
  \/ StopRequested(elapsed)

----------------------------------------------------------------------------
(* Back in the kernel *)

\* The tail of process_run: whatever ended the program, its window goes.
LeaveProgram ==
  /\ job.at = "BACK"
  /\ LET p == table[job.slot]
         left == released(p)
     IN  /\ table' = [table EXCEPT ![job.slot] = left]
         /\ windows' = windows \ ({p.window_id} \ {left.window_id})
  /\ current' = 0
  /\ job' = [job EXCEPT !.at = "RETURNED"]
  /\ UNCHANGED <<boot, mem, report>>

\* The tail of cmdexec_program.
ReportAndDestroy ==
  /\ job.at = "RETURNED"
  /\ LET p == table[job.slot]
     IN  /\ report' = IF p.faulted THEN "STOPPED"
                      ELSE IF p.overran THEN "TOO_LONG"
                      ELSE IF p.exit_code # 0 THEN "CODE" ELSE "NOTHING"
         /\ mem' = process_destroy(mem, p)
         /\ table' = [table EXCEPT ![job.slot] = Destroyed(p)]
  /\ job' = Idle
  /\ UNCHANGED <<boot, current, windows>>

----------------------------------------------------------------------------

\* After the allocator and the kernel's space have been set up.  What the
\* memory held before is anything, present entries among it.
Init ==
  /\ \E map \in MemoryMaps : boot = pmmboot_init(map)
  /\ \E junk \in Bytes :
       mem = [pmm |-> boot.pmm,
              bytes |-> [f \in Frames |-> [o \in Offsets |-> junk]],
              entries |-> [f \in Frames |->
                 IF f \in DOMAIN KernelTables THEN KernelTables[f]
                 ELSE [i \in Indices |-> [ZeroEntry EXCEPT !.present = TRUE,
                                            !.user = TRUE, !.write = TRUE]]]]
  /\ table = [s \in Slots |-> Blank]
  /\ current = 0
  /\ job = Idle
  /\ windows = {}
  /\ report = "NOTHING"

\* The kernel's own steps.
Kernel ==
  \/ CheckImage
  \/ LoadPage
  \/ give_stack
  \/ EnterUser
  \/ LeaveProgram
  \/ ReportAndDestroy

Next ==
  \/ \E image \in Images : CreateProcess(image)
  \/ Kernel
  \/ \E store \in Stores : UserStore(store)
  \/ UserFault
  \/ \E elapsed \in Elapsed : SystemCall(elapsed)

Spec == Init /\ [][Next]_vars

\* A program that goes on making calls while the clock moves.
KeepsCalling == \E elapsed \in Elapsed \ {0} : SystemCall(elapsed)

\* Weak fairness of the kernel's steps and of the calls, with what enables
\* them written out: a kernel step always can be taken outside the prompt and
\* the program, and a call always can be made inside it.
KernelProceeds == []<>(job.at \in {"PROMPT", "IN_PROGRAM"}) \/ []<><<Kernel>>_vars
CallsGoOn == []<>~InProgram \/ []<><<KeepsCalling>>_vars

FairSpec == Spec /\ KernelProceeds /\ CallsGoOn
============================================================================
