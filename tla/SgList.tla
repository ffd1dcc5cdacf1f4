------------------------------- MODULE SgList -------------------------------
(***************************************************************************)
(* How a transfer of user memory becomes a scatter/gather list.  A DMA     *)
(* buffer that is contiguous for the user is, in the kernel, a list of     *)
(* segments; start_transfer turns an offset and a length within the buffer *)
(* into entries (segment, offset within it, length).                       *)
(*                                                                         *)
(* One behaviour is one call: the library's bounds check, then the three   *)
(* loops of start_transfer, one iteration per step.  The buffer is given   *)
(* by the offset base[i] at which segment i starts in the user's view;     *)
(* base[n] is the size of the buffer, so segment i has base[i+1] - base[i] *)
(* bytes.  Buffers are smaller than MAX_DEVICE_MEMORY < 2^32, so that no   *)
(* 32 bit variable of the code wraps and plain integers model them.        *)
(***************************************************************************)
EXTENDS Integers

CONSTANTS MaxSegments, \* bound: segments of a buffer
          MaxSize      \* bound: size of a buffer

ASSUME SgAssumption == MaxSegments \in Nat \ {0} /\ MaxSize \in Nat \ {0}

VARIABLES n, base,             \* the buffer: buffer_list_max_idx + 1 segments
          offset, length,      \* struct dma_proxy_rw_info
          pc,
          start_idx, offset_remaining,      \* the first loop
          end_idx, size_counter, tail_size, \* the second loop
          idx, sg              \* the third loop; sg[k] for k < idx is filled in

input == <<n, base, offset, length>>
vars  == <<input, pc, start_idx, offset_remaining, end_idx, size_counter,
           tail_size, idx, sg>>

Size(i) == base[i + 1] - base[i]

Buffers(k) == {b \in [0..k -> 0..MaxSize] :
                 b[0] = 0 /\ \A i \in 0..(k - 1) : b[i] < b[i + 1]}

\* The caller names a place inside the buffer (the library found the buffer
\* by it) and any length.
Init == /\ n \in 1..MaxSegments
        /\ base \in Buffers(n)
        /\ offset \in 0..(MaxSize - 1) /\ offset < base[n]
        /\ length \in 0..(MaxSize + 1)
        /\ pc = "check"
        /\ start_idx = 0 /\ offset_remaining = 0
        /\ end_idx = 0 /\ size_counter = 0 /\ tail_size = 0
        /\ idx = 0 /\ sg = [k \in {} |-> 0]

\* Mutant: the bounds check is off by one.
InBounds_OffByOne == offset + length <= base[n] + 1

\* _buffer_select_helper: buffer + length > selected->buffer + selected->size
InBounds == offset + length <= base[n]

CheckBounds ==
  /\ pc = "check"
  /\ pc' = IF InBounds THEN "start" ELSE "rejected"
  /\ offset_remaining' = offset
  /\ UNCHANGED <<input, start_idx, end_idx, size_counter, tail_size, idx, sg>>

\* Mutant: the size is not compared with.
StepOver_NoSize == start_idx < n /\ offset_remaining > 0

\* First loop: the segment in which the transfer starts.
StepOver == /\ start_idx < n
            /\ offset_remaining > 0
            /\ offset_remaining >= Size(start_idx)

ScanStart ==
  /\ pc = "start"
  /\ \/ /\ StepOver
        /\ offset_remaining' = offset_remaining - Size(start_idx)
        /\ start_idx' = start_idx + 1
        /\ UNCHANGED <<pc, end_idx>>
     \/ /\ ~StepOver
        /\ pc' = "end"
        /\ end_idx' = start_idx
        /\ UNCHANGED <<start_idx, offset_remaining>>
  /\ UNCHANGED <<input, size_counter, tail_size, idx, sg>>

\* Second loop: the segment in which it ends and how much of it is used.
Counted == IF end_idx = start_idx
           THEN Size(end_idx) - offset_remaining
           ELSE size_counter + Size(end_idx)

\* Mutant: the whole last segment is used.
TailSize_Whole == Size(end_idx)

TailSize == length - (Counted - Size(end_idx))

\* Without a segment left the loop ends with the index one past the last.
ScanEnd ==
  /\ pc = "end"
  /\ size_counter' = IF end_idx < n THEN Counted ELSE size_counter
  /\ \/ /\ end_idx < n /\ Counted < length
        /\ end_idx' = end_idx + 1
        /\ UNCHANGED <<pc, tail_size>>
     \/ /\ ~(end_idx < n /\ Counted < length)
        /\ tail_size' = IF end_idx < n THEN TailSize ELSE tail_size
        /\ pc' = "fill"
        /\ UNCHANGED end_idx
  /\ UNCHANGED <<input, start_idx, offset_remaining, idx, sg>>

\* Third loop: the entries.
num_buffers == (end_idx - start_idx) + 1

Entry(b) == CASE b = start_idx ->
                   [seg |-> b, off |-> offset_remaining,
                    len |-> IF num_buffers > 1 THEN Size(b) - offset_remaining ELSE length]
              [] b > start_idx /\ b < end_idx ->
                   [seg |-> b, off |-> 0, len |-> Size(b)]
              [] OTHER ->
                   [seg |-> b, off |-> 0, len |-> tail_size]

FillEntry ==
  /\ pc = "fill"
  /\ idx < num_buffers
  /\ sg' = [k \in 0..idx |-> IF k = idx THEN Entry(start_idx + idx) ELSE sg[k]]
  /\ idx' = idx + 1
  /\ UNCHANGED <<input, pc, start_idx, offset_remaining, end_idx, size_counter, tail_size>>

\* Mutant: one entry more is waited for than is filled in.
FillDone_OneMore ==
  /\ pc = "fill"
  /\ idx = num_buffers + 1
  /\ pc' = "done"
  /\ UNCHANGED <<input, start_idx, offset_remaining, end_idx, size_counter,
                 tail_size, idx, sg>>

FillDone ==
  /\ pc = "fill"
  /\ idx = num_buffers
  /\ pc' = "done"
  /\ UNCHANGED <<input, start_idx, offset_remaining, end_idx, size_counter,
                 tail_size, idx, sg>>

Next == \/ CheckBounds
        \/ ScanStart \/ ScanEnd
        \/ FillEntry \/ FillDone

Spec == Init /\ [][Next]_vars
FairSpec == Spec /\ WF_vars(Next)

-----------------------------------------------------------------------------
(* Properties                                                              *)

\* Type invariant.
TypeOK ==
  /\ n \in Nat \ {0}
  /\ base \in [0..n -> Nat]
  /\ offset \in Nat /\ length \in Nat
  /\ pc \in {"check", "rejected", "start", "end", "fill", "done"}
  /\ start_idx \in 0..n /\ end_idx \in 0..n
  /\ offset_remaining \in Nat /\ size_counter \in Nat /\ tail_size \in Nat
  /\ idx \in Nat
  /\ sg \in [0..(idx - 1) -> [seg : 0..n, off : Nat, len : Nat]]

\* The place of an entry in the user's view of the buffer.
First(k) == base[sg[k].seg] + sg[k].off
Past(k)  == First(k) + sg[k].len

\* The code never reads a buffer_list entry past the last one in use, not
\* even for a transfer that ends at the very end of the buffer.
SegmentsExist == /\ pc \in {"fill", "done"} => end_idx < n
                 /\ \A k \in 0..(idx - 1) : sg[k].seg < n

\* Every entry stays inside its segment of physical memory: the DMA engine
\* never touches memory that does not belong to the buffer.
EntriesInSegments == \A k \in 0..(idx - 1) : Past(k) <= base[sg[k].seg + 1]

\* The entries, in order, are exactly bytes offset .. offset + length - 1 of
\* the buffer as the user sees it: no byte is skipped, repeated or added.
Covers ==
  pc = "done" =>
    /\ idx > 0
    /\ First(0) = offset
    /\ \A k \in 1..(idx - 1) : First(k) = Past(k - 1)
    /\ Past(idx - 1) = offset + length

\* No entry is empty unless the transfer is: the engine refuses empty ones.
NoEmptyEntry == length > 0 => \A k \in 0..(idx - 1) : sg[k].len > 0

\* The engine is only given real pieces of the buffer's memory.
EntriesSound == SegmentsExist /\ EntriesInSegments /\ NoEmptyEntry

\* The loops end, with a list or with the call refused.
Terminates == <>(pc \in {"done", "rejected"})
=============================================================================
