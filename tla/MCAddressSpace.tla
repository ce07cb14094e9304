--------------------------- MODULE MCAddressSpace ---------------------------
(* A text of two pages, of which the file has one, a stack of a page, and  *)
(* a TLB that holds two pages. Memory has room for both images, or for one *)
(* and a part of the other beside the block of the kernel.                 *)
EXTENDS AddressSpace, TLC

CONSTANTS p1, p2, c1, c2

MCProcs == {p1, p2}
MCCpus == {c1, c2}

Text == [p_type |-> "load", p_vaddr |-> 1, p_memsz |-> 2, p_filesz |-> 1, p_flags |-> {"R", "X"}]
Reginfo == [Text EXCEPT !.p_type = "skip"]
MCPrograms == {<<Reginfo, Text>>}

\* Code on the stack that stores into the text: two pages at once, of which one
\* is read-only. Pages have no permission to execute that vm_fault looks at.
Fetch(v) == [page |-> v, write |-> FALSE]
Store(v) == [page |-> v, write |-> TRUE]
MCInstructions == {<<Fetch(3), Store(2)>>}

MCGarbage == {2}

MCKernelSizes == {1, 2}

Sym == Permutations(MCProcs) \cup Permutations(MCCpus)
=============================================================================
