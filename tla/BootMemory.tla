----------------------------- MODULE BootMemory -----------------------------
(***************************************************************************)
(* The memory the kernel gives out while it boots: the heap                *)
(* (embclox-hal-x86/src/heap.rs), DMA memory taken from it (BootDmaAlloc-  *)
(* ator, embclox-core/src/dma_alloc.rs), and MemoryMapper's virtual        *)
(* addresses for devices (embclox-hal-x86/src/memory.rs), whose page       *)
(* tables come from the heap as well.                                      *)
(*                                                                         *)
(* The unit is a page of 4 KiB.  A memory is a record: pages of the heap   *)
(* in use, next_vaddr (counted from MMIO_VIRT_BASE), the page tables that  *)
(* exist and the mappings.  What is smaller than a page (boxes, vectors)   *)
(* and fragmentation are left out.                                         *)
(***************************************************************************)
EXTENDS Naturals, FiniteSets

HeapPages == 2048        \* heap_size: 8 MiB
PagesPerTable == 512     \* what one page table of the lowest level maps

NewMemory == [heap |-> 0, next_vaddr |-> 0, tables |-> {}, maps |-> {}]

(* alloc_coherent asserts that there is memory, and map_to that there is a *)
(* frame: the caller panics when this is true of the memory it got.        *)
Exhausted(m) == m.heap > HeapPages

alloc_coherent(m, pages) == [m EXCEPT !.heap = @ + pages]
free_coherent(m, pages) == [m EXCEPT !.heap = @ - pages]

(* The tables of the two levels above come with the first mapping *)
Tables(first, pages) == {(first + i) \div PagesPerTable : i \in 0 .. pages - 1}
TableFrames(tables) == IF tables = {} THEN 0 ELSE Cardinality(tables) + 2

(* map_mmio, map_code: the frames that contain phys and what follows it,   *)
(* at next_vaddr, with one page left unmapped behind them.  The offset of  *)
(* phys in its frame is not kept: vaddr() is the first page's address.     *)
map_mmio(m, phys, pages) ==
  LET tables == m.tables \cup Tables(m.next_vaddr, pages)
  IN [heap |-> m.heap + TableFrames(tables) - TableFrames(m.tables),
      next_vaddr |-> m.next_vaddr + pages + 1,
      tables |-> tables,
      maps |-> m.maps \cup {[virt |-> m.next_vaddr, phys |-> phys, pages |-> pages]}]

(* translate_addr: the frames a virtual page leads to (at most one, unless *)
(* mappings overlap)                                                       *)
translate_addr(m, v) ==
  {x.phys + (v - x.virt) : x \in {y \in m.maps : v \in y.virt .. y.virt + y.pages - 1}}
=============================================================================
