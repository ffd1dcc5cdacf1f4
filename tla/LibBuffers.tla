----------------------------- MODULE LibBuffers -----------------------------
(***************************************************************************)
(* The buffer list of dma-proxy-lib in one process after another, over the *)
(* driver's buffers (DmaBuffer): dmap_alloc_buffer, dmap_free_buffer, the  *)
(* selection of a buffer by a transfer call, the library's constructor and *)
(* destructor, and the end of the process at any time.                     *)
(*                                                                         *)
(* master_mutex makes alloc, free and the selection one step each.  The    *)
(* ioctl that follows a selection is made after the mutex is released, on  *)
(* the copied descriptor.  Programs do not free a buffer that a transfer   *)
(* uses.  A buffer is known by the address it starts at.                   *)
(***************************************************************************)
EXTENDS DmaBuffer

CONSTANTS Threads,
          Fds,             \* descriptors the process may get; above 2
          Addrs,           \* addresses mmap may return
          buffer_list_inc,
          MaxResizes,      \* bound: times the list is resized
          Uninit,          \* what an entry that realloc gained may hold
          NULL, MAP_FAILED

Entries == [fd : {0} \cup Fds, buffer : Addrs \cup {NULL, MAP_FAILED}]

ASSUME LibBufferAssumption ==
  /\ Fds \subseteq Nat /\ \A fd \in Fds : fd > 2
  /\ {NULL, MAP_FAILED} \cap Addrs = {}
  /\ buffer_list_inc \in Nat \ {0} /\ MaxResizes \in Nat
  /\ Uninit \subseteq Entries

VARIABLES alive,       \* "yes", "fini" (destructor has run), "dead", or
                       \* "lost": buffer_list is NULL, its next use is fatal
          buffer_list, \* a sequence of [fd, buffer]
          fdt,         \* the descriptor table: fd -> file, 0 for none
          at,          \* the address space: address -> file, 0 for none
          selected,    \* per thread, the entry its transfer call uses, or NULL
          clean,       \* history: every entry gained by realloc was zero
          mmapFailed   \* history: some mmap of this process has failed

libVars == <<alive, buffer_list, fdt, at, selected, clean, mmapFailed>>
vars    == <<bufVars, libVars>>

Empty == [fd |-> 0, buffer |-> NULL]

Init == /\ BufInit
        /\ alive = "dead"
        /\ buffer_list = <<>>
        /\ fdt = [fd \in Fds |-> 0]
        /\ at = [a \in Addrs |-> 0]
        /\ selected = [t \in Threads |-> NULL]
        /\ clean = TRUE /\ mmapFailed = FALSE

\* A process starts: dma_proxy_lib_init makes the first list, by calloc.
LibInit ==
  /\ alive = "dead"
  /\ nfile < MaxFiles
  /\ alive' = "yes"
  /\ buffer_list' = [i \in 1..buffer_list_inc |-> Empty]
  /\ clean' = TRUE /\ mmapFailed' = FALSE
  /\ UNCHANGED <<bufVars, fdt, at, selected>>

-----------------------------------------------------------------------------
(* dmap_alloc_buffer                                                       *)

Idx == {i \in DOMAIN buffer_list : buffer_list[i].fd = 0}

\* The list and the slot in it for a new buffer: the first free one, or the
\* first one gained by resizing a full list.
Slots ==
  IF Idx # {} THEN {[list |-> buffer_list, slot |-> Min(Idx)]}
  ELSE {[list |-> buffer_list \o gained, slot |-> Len(buffer_list) + 1] :
          gained \in [1..buffer_list_inc -> Uninit]}

\* Bound on the resizing; what was gained is remembered.
UseList(list) ==
  /\ Len(list) <= buffer_list_inc * (1 + MaxResizes)
  /\ clean' = (clean /\ \A i \in (Len(buffer_list) + 1)..Len(list) : list[i].fd = 0)

\* realloc fails: the only pointer to the list is overwritten.
ResizeFails ==
  /\ alive = "yes" /\ Idx = {}
  /\ alive' = "lost"
  /\ UNCHANGED <<bufVars, buffer_list, fdt, at, selected, clean, mmapFailed>>

FreeFds == {fd \in Fds : fdt[fd] = 0}

\* open fails; a list that was resized stays so.
AllocNoFile ==
  /\ alive = "yes"
  /\ \E s \in Slots : UseList(s.list) /\ buffer_list' = s.list
  /\ UNCHANGED <<bufVars, alive, fdt, at, selected, mmapFailed>>

\* open and mmap succeed: open returns the lowest free descriptor.
AllocSucceeds ==
  /\ alive = "yes"
  /\ nfile < MaxFiles /\ FreeFds # {}
  /\ nfile' = nfile + 1
  /\ \E s \in Slots, a \in {b \in Addrs : at[b] = 0}, n \in Sizes \ {0} :
       /\ UseList(s.list)
       /\ MmapSucceeds(nfile', n)
       /\ at' = [at EXCEPT ![a] = nfile']
       /\ buffer_list' = [s.list EXCEPT ![s.slot] = [fd |-> Min(FreeFds), buffer |-> a]]
  /\ fdt' = [fdt EXCEPT ![Min(FreeFds)] = nfile']
  /\ UNCHANGED <<alive, selected, mmapFailed>>

\* mmap fails: the entry keeps its descriptor, and the file stays open.
AllocMmapFails ==
  /\ alive = "yes"
  /\ nfile < MaxFiles /\ FreeFds # {}
  /\ nfile' = nfile + 1
  /\ \E s \in Slots, n \in Sizes :
       /\ UseList(s.list)
       /\ \/ n > 0 /\ MmapNoMemory(nfile', n)
          \/ MmapUndone
       /\ buffer_list' = [s.list EXCEPT ![s.slot].buffer = MAP_FAILED]
  /\ fdt' = [fdt EXCEPT ![Min(FreeFds)] = nfile']
  /\ mmapFailed' = TRUE
  /\ UNCHANGED <<alive, at, selected>>

-----------------------------------------------------------------------------
(* dmap_free_buffer and the destructor                                     *)

Active(a) == {i \in DOMAIN buffer_list :
                buffer_list[i].buffer = a /\ buffer_list[i].fd > 0}

\* Mutants: the entry stays active; it is marked in a way the search for a
\* free slot does not know.
FreeProxyBuffers_StillActive(S) ==
  LET as == {buffer_list[i].buffer : i \in S} \cap Addrs
  IN  /\ VmaClose({at[a] : a \in as} \ {0})
      /\ at' = [a \in Addrs |-> IF a \in as THEN 0 ELSE at[a]]
      /\ fdt' = [fd \in Fds |-> IF \E i \in S : buffer_list[i].fd = fd THEN 0 ELSE fdt[fd]]
      /\ UNCHANGED buffer_list

FreeProxyBuffers_MinusOne(S) ==
  LET as == {buffer_list[i].buffer : i \in S} \cap Addrs
  IN  /\ VmaClose({at[a] : a \in as} \ {0})
      /\ at' = [a \in Addrs |-> IF a \in as THEN 0 ELSE at[a]]
      /\ fdt' = [fd \in Fds |-> IF \E i \in S : buffer_list[i].fd = fd THEN 0 ELSE fdt[fd]]
      /\ buffer_list' = [i \in DOMAIN buffer_list |->
                           IF i \in S THEN [buffer_list[i] EXCEPT !.fd = -1] ELSE buffer_list[i]]

\* _free_proxy_buffer for the entries in S: munmap, close, fd = 0.  The
\* driver's release only frees what hangs on the struct file.
FreeProxyBuffers(S) ==
  LET as == {buffer_list[i].buffer : i \in S} \cap Addrs
  IN  /\ VmaClose({at[a] : a \in as} \ {0})
      /\ at' = [a \in Addrs |-> IF a \in as THEN 0 ELSE at[a]]
      /\ fdt' = [fd \in Fds |-> IF \E i \in S : buffer_list[i].fd = fd THEN 0 ELSE fdt[fd]]
      /\ buffer_list' = [i \in DOMAIN buffer_list |->
                           IF i \in S THEN [buffer_list[i] EXCEPT !.fd = 0] ELSE buffer_list[i]]

FreeBuffer(a) ==
  /\ alive = "yes"
  /\ at[a] # 0
  /\ \A t \in Threads : selected[t] # NULL => selected[t].buffer # a
  /\ Active(a) # {}
  /\ FreeProxyBuffers({Min(Active(a))})
  /\ UNCHANGED <<nfile, alive, selected, clean, mmapFailed>>

\* Mutant: the destructor stops before the last entry.
FiniEntries_NoLast == {i \in 1..(Len(buffer_list) - 1) : buffer_list[i].fd > 0}

FiniEntries == {i \in DOMAIN buffer_list : buffer_list[i].fd > 0}

\* dma_proxy_lib_fini, when the program ends by itself.
LibFini ==
  /\ alive = "yes"
  /\ \A t \in Threads : selected[t] = NULL
  /\ alive' = "fini"
  /\ FreeProxyBuffers(FiniEntries)
  /\ UNCHANGED <<nfile, selected, clean, mmapFailed>>

\* The process ends, by itself or killed: the kernel unmaps and closes all.
ProcessExit ==
  /\ alive # "dead"
  /\ alive' = "dead"
  /\ VmaClose(mapped)
  /\ fdt' = [fd \in Fds |-> 0]
  /\ at' = [a \in Addrs |-> 0]
  /\ selected' = [t \in Threads |-> NULL]
  /\ buffer_list' = <<>>
  /\ UNCHANGED <<nfile, clean, mmapFailed>>

-----------------------------------------------------------------------------
(* Transfers                                                               *)

Selectable(a) == {i \in DOMAIN buffer_list :
                    buffer_list[i].fd > 0 /\ buffer_list[i].buffer = a}

\* _buffer_select_helper: the entry is copied.
BufferSelect(t, a) ==
  /\ alive = "yes"
  /\ selected[t] = NULL
  /\ at[a] # 0
  /\ Selectable(a) # {}
  /\ selected' = [selected EXCEPT ![t] = buffer_list[Min(Selectable(a))]]
  /\ UNCHANGED <<bufVars, alive, buffer_list, fdt, at, clean, mmapFailed>>

\* The transfer on selected.fd is over.
IoctlReturn(t) ==
  /\ alive \in {"yes", "lost"}
  /\ selected[t] # NULL
  /\ selected' = [selected EXCEPT ![t] = NULL]
  /\ UNCHANGED <<bufVars, alive, buffer_list, fdt, at, clean, mmapFailed>>

-----------------------------------------------------------------------------
Next == \/ LibInit \/ LibFini \/ ProcessExit
        \/ AllocSucceeds \/ AllocMmapFails \/ AllocNoFile \/ ResizeFails
        \/ \E a \in Addrs : FreeBuffer(a)
        \/ \E t \in Threads, a \in Addrs : BufferSelect(t, a)
        \/ \E t \in Threads : IoctlReturn(t)

Spec == Init /\ [][Next]_vars

-----------------------------------------------------------------------------
(* Properties                                                              *)

\* Type invariant.
TypeOK ==
  /\ BufTypeOK
  /\ alive \in {"yes", "fini", "dead", "lost"}
  /\ buffer_list \in Seq(Entries)
  /\ fdt \in [Fds -> 0..nfile]
  /\ at \in [Addrs -> 0..nfile]
  /\ selected \in [Threads -> Entries \cup {NULL}]
  /\ clean \in BOOLEAN /\ mmapFailed \in BOOLEAN

\* The ioctl of a transfer goes to the file whose buffer the caller named,
\* although the descriptor was copied before and other threads have since
\* opened, closed and resized, provided realloc gave zeroed memory.
SelectedFileIsBuffer ==
  clean => \A t \in Threads : selected[t] # NULL =>
             /\ selected[t].fd \in Fds
             /\ fdt[selected[t].fd] # 0
             /\ fdt[selected[t].fd] = at[selected[t].buffer]

\* Every buffer a program has is found by exactly one entry of the list, so
\* that it can be used and freed (zeroed memory provided).
OneEntryPerBuffer ==
  clean /\ alive = "yes" =>
    \A a \in Addrs : at[a] # 0 => Cardinality(Active(a)) = 1

\* DMA memory that is allocated belongs to a buffer that is mapped: nothing
\* is left by failed calls, by programs that do not free their buffers or by
\* processes that die, provided no mmap has run out of memory.
NoLeak == ~nomem => live = UNION {Segments(f, segs[f]) : f \in mapped}

\* No segment is freed twice, whichever way its mapping goes away.
FreedOnce == ~badFree

\* The segments of a buffer are as large as the mapping, not a page less or
\* more: the user sees exactly the memory that was allocated.
SegmentsFill == \A f \in mapped : Pages(segs[f]) = size[f]

\* The buffer list leads every transfer and every free to the right file.
ListSound == SelectedFileIsBuffer /\ OneEntryPerBuffer

\* The driver's memory is exactly what the mapped buffers need: none is lost,
\* freed twice, or smaller or larger than its mapping.
MemorySound == NoLeak /\ FreedOnce /\ SegmentsFill

\* "Clean up any remaining buffers": after the destructor no buffer is mapped
\* and no file of the device open (zeroed memory provided, and unless an mmap
\* failed, which leaves its file open).
FiniCleans ==
  alive = "fini" /\ clean =>
    /\ \A a \in Addrs : at[a] = 0
    /\ ~mmapFailed => \A fd \in Fds : fdt[fd] = 0
=============================================================================
