----------------------------- MODULE MCPrograms -----------------------------
(***************************************************************************)
(* A machine of twelve pages of two bytes, with page tables of two entries *)
(* on three levels, and one program for each way loading can go.           *)
(***************************************************************************)
EXTENDS ProgramsCheck, TLC

\* The bootloader's tables: the kernel's half of the root leads to a page of the
\* kernel's, to another, and to one huge page.
Kernels(phys) == [ZeroEntry EXCEPT !.present = TRUE, !.addr = phys, !.write = TRUE]
Table(first, second) == [i \in 0 .. 1 |-> IF i = 0 THEN first ELSE second]
MCKernelTables ==
  9 :> Table(ZeroEntry, Kernels(10))
    @@ 10 :> Table(Kernels(11), [Kernels(0) EXCEPT !.huge = TRUE])
    @@ 11 :> Table(Kernels(0), Kernels(9))

Region(base, length, kind) == [base |-> base, length |-> length, usable |-> kind]

\* Room for a whole program, for all but its last page, for its root only, for
\* nothing but the bitmap, and no memory at all.
MCMemoryMaps ==
  {<<Region(0, 2, TRUE), Region(2, 14, TRUE), Region(16, 8, FALSE)>>,
   <<Region(0, 2, FALSE), Region(3, 11, TRUE)>>,
   <<Region(2, 10, TRUE)>>,
   <<Region(2, 4, TRUE)>>,
   <<Region(2, 2, TRUE)>>,
   <<Region(2, 14, FALSE)>>}

Code(vaddr, mem_bytes, file) ==
  [vaddr |-> vaddr, mem_bytes |-> mem_bytes, file |-> file, write |-> FALSE, exec |-> TRUE]
Data(vaddr, mem_bytes, file) ==
  [vaddr |-> vaddr, mem_bytes |-> mem_bytes, file |-> file, write |-> TRUE, exec |-> FALSE]

\* Programs whose segments keep to their pages: one page; data on two pages
\* below the stack's, one page too many; three pages, refused while loading;
\* overlapping segments, refused unread; no bytes to run.
Separate ==
  {[segments |-> <<Code(2, 2, <<1, 1>>)>>, entry |-> 2],
   [segments |-> <<Code(2, 1, <<1>>), Data(4, 1, << >>)>>, entry |-> 2],
   [segments |-> <<Code(3, 4, <<1, 1>>)>>, entry |-> 3],
   [segments |-> <<Code(2, 2, <<1>>), Data(3, 2, <<1>>)>>, entry |-> 2],
   [segments |-> <<Data(2, 2, <<1>>)>>, entry |-> 2]}

\* Two segments in one page, and one in the stack's page.
TwoInOnePage == [segments |-> <<Code(5, 1, <<1>>), Data(4, 1, << >>)>>, entry |-> 5]
InTheStackPage == [segments |-> <<Code(6, 1, <<1>>)>>, entry |-> 6]

MCImages == Separate \cup {TwoInOnePage, InTheStackPage}
MCSharedImages == {TwoInOnePage}

Store(page, offset) == [page |-> page, offset |-> offset, byte |-> 2]
MCStores == {Store(1, 1), Store(3, 0), Store(4, 0)}
============================================================================
