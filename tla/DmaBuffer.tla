------------------------------ MODULE DmaBuffer ------------------------------
(***************************************************************************)
(* DMA buffers in the kernel driver: a file of the dma-proxy device has at *)
(* most one buffer, which mmap puts together from physically contiguous    *)
(* segments and which goes away with the mapping.  Sizes are in pages.     *)
(*                                                                         *)
(* The operators here say what one call of the driver does to the kernel's *)
(* state; module LibBuffers puts them into the steps of a process.  Files  *)
(* are numbered in the order of being opened, and segment <<f, k>> is      *)
(* entry k of the buffer_list of file f.                                   *)
(***************************************************************************)
EXTENDS Integers, FiniteSets, SequencesExt

CONSTANTS MaxFiles,   \* bound: number of files ever opened
          MAX_ORDER,  \* MAX_BUF_SIZE is 2^(MAX_ORDER - 1) pages
          Sizes       \* sizes, in pages, programs ask for

ASSUME BufferAssumption == /\ MaxFiles \in Nat
                           /\ MAX_ORDER \in Nat \ {0}
                           /\ Sizes \subseteq Nat

VARIABLES nfile,    \* number of files opened so far
          segs,     \* buffer_list, as far as it is filled in: the page of the
                    \* mapping that each segment reaches to
          size,     \* size of the mapping asked for
          mapped,   \* files whose mapping exists, with dma_proxy_vm_ops
          live,     \* segments dma_alloc_coherent returned, not freed since
          badFree,  \* a segment was freed that was not allocated
          nomem     \* history: some mmap has returned -ENOMEM

bufVars == <<nfile, segs, size, mapped, live, badFree, nomem>>

Files == 1..MaxFiles
MAX_BUF_SIZE == 2^(MAX_ORDER - 1)

BufInit == /\ nfile = 0
           /\ segs = [f \in Files |-> <<>>]
           /\ size = [f \in Files |-> 0]
           /\ mapped = {} /\ live = {} /\ badFree = FALSE
           /\ nomem = FALSE

-----------------------------------------------------------------------------
(* mmap                                                                    *)

RoundDownPowOfTwo(p) == Max({2^o : o \in {i \in 0..p : 2^i <= p}})
OrderBase2(p)        == Min({o \in 0..p : 2^o >= p})

\* Mutant: the size is not rounded down to a power of two.
FirstOrder_NoRounding(remaining) == OrderBase2(Min({remaining, MAX_BUF_SIZE}))

\* The order at which the attempts to allocate a segment start.
FirstOrder(remaining) ==
  OrderBase2(RoundDownPowOfTwo(Min({remaining, MAX_BUF_SIZE})))

\* Which order succeeds is up to the allocator.
SegmentSizes(remaining) == {2^o : o \in 0..FirstOrder(remaining)}

\* The pages that come before segment i, and all of them.
PagesBefore(s, i) == IF i = 1 THEN 0 ELSE s[i - 1]
Pages(s) == PagesBefore(s, Len(s) + 1)

\* The segments the allocation loop can have collected for a mapping of n
\* pages when it stops: because they suffice, or because even a single page
\* was refused.
Collected(n) ==
  {s \in BoundedSeq(1..(n + MAX_BUF_SIZE), n) :
     \A i \in DOMAIN s :
       LET before == PagesBefore(s, i)
       IN  before < n /\ s[i] - before \in SegmentSizes(n - before)}

Segments(f, s) == {<<f, k>> : k \in DOMAIN s}

MmapSucceeds(f, n) ==
  \E s \in Collected(n) :
    /\ Pages(s) >= n
    /\ segs' = [segs EXCEPT ![f] = s]
    /\ size' = [size EXCEPT ![f] = n]
    /\ live' = live \cup Segments(f, s)
    /\ mapped' = mapped \cup {f}
    /\ UNCHANGED <<badFree, nomem>>

\* -ENOMEM: what was collected stays allocated, and in the buffer_list.
MmapNoMemory(f, n) ==
  \E s \in Collected(n) :
    /\ Pages(s) < n
    /\ segs' = [segs EXCEPT ![f] = s]
    /\ live' = live \cup Segments(f, s)
    /\ nomem' = TRUE
    /\ UNCHANGED <<size, mapped, badFree>>

\* -EAGAIN: dma_mmap_coherent refuses a segment, all are freed and cleared.
\* A mapping of no pages is refused by the kernel before it calls the driver.
MmapUndone == UNCHANGED <<segs, size, mapped, live, badFree, nomem>>

-----------------------------------------------------------------------------
(* dma_proxy_vma_close                                                     *)

\* Entries 0 to buffer_list_max_idx.
BufferList(f) == 1..Len(segs[f])

\* The mappings of the files in F go away.
VmaClose(F) ==
  LET freed == UNION {{<<f, k>> : k \in BufferList(f)} : f \in F}
  IN  /\ live' = live \ freed
      /\ badFree' = (badFree \/ ~(freed \subseteq live))
      /\ segs' = [f \in Files |-> IF f \in F THEN <<>> ELSE segs[f]]
      /\ mapped' = mapped \ F
      /\ UNCHANGED <<size, nomem>>

-----------------------------------------------------------------------------
BufTypeOK ==
  /\ nfile \in 0..MaxFiles
  /\ segs \in [Files -> Seq(Nat)]
  /\ size \in [Files -> Nat]
  /\ mapped \subseteq Files
  /\ live \subseteq Files \X Nat
  /\ badFree \in BOOLEAN /\ nomem \in BOOLEAN
=============================================================================
