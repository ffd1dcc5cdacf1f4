---------------------------- MODULE SgList_proof ----------------------------
(***************************************************************************)
(* Proofs about SgList: for every buffer, of any number of segments of any *)
(* sizes, and every offset and length, start_transfer turns the request    *)
(* into exactly the right entries.                                         *)
(***************************************************************************)
EXTENDS SgList, TLAPS

-----------------------------------------------------------------------------
(* The inductive invariant                                                 *)

\* The buffer has segments, none of them empty, and the transfer starts in it.
BufferInv ==
  /\ n \in Nat \ {0}
  /\ base \in [0..n -> Nat]
  /\ base[0] = 0
  /\ \A i \in 0..(n - 1) : base[i] < base[i + 1]
  /\ offset \in Nat /\ length \in Nat
  /\ offset < base[n]

\* What the library's check leaves to be done by the driver.
Accepted == pc \in {"start", "end", "fill", "done"}

\* The first loop counts down from the offset; it stops within a segment.
StartInv ==
  /\ start_idx \in 0..(n - 1)
  /\ offset_remaining \in Nat
  /\ Accepted => /\ offset + length <= base[n]
                 /\ base[start_idx] + offset_remaining = offset
  /\ pc \in {"end", "fill", "done"} => offset < base[start_idx + 1]
  /\ ~Accepted => start_idx = 0 /\ offset_remaining \in {0, offset}

\* The second loop counts the bytes up to the end of the segments it has
\* passed, and all of them are needed; it stops where they suffice.
EndInv ==
  /\ end_idx \in 0..(n - 1)
  /\ size_counter \in Nat /\ tail_size \in Nat
  /\ pc \in {"check", "rejected", "start"} => end_idx = 0
  /\ pc \in {"end", "fill", "done"} =>
       /\ start_idx <= end_idx
       /\ start_idx < end_idx => base[end_idx] < offset + length
  /\ pc = "end" /\ start_idx < end_idx => size_counter = base[end_idx] - offset
  /\ pc \in {"fill", "done"} =>
       /\ tail_size = (offset + length) - base[end_idx]
       /\ offset + length <= base[end_idx + 1]

\* The third loop has filled in the entries below idx.
FillInv ==
  /\ idx \in Nat
  /\ sg \in [0..(idx - 1) -> [seg : 0..n, off : Nat, len : Nat]]
  /\ pc \notin {"fill", "done"} => idx = 0
  /\ pc \in {"fill", "done"} =>
       /\ idx <= num_buffers
       /\ \A k \in 0..(idx - 1) : sg[k] = Entry(start_idx + k)
  /\ pc = "done" => idx = num_buffers

IInv ==
  /\ pc \in {"check", "rejected", "start", "end", "fill", "done"}
  /\ BufferInv /\ StartInv /\ EndInv /\ FillInv

-----------------------------------------------------------------------------
(* The loops                                                               *)

LEMMA InvInit == Init => IInv
<1> SUFFICES ASSUME Init PROVE IInv
  OBVIOUS
<1>1. BufferInv
  BY SgAssumption DEF Init, Buffers, BufferInv
<1>2. StartInv /\ EndInv /\ FillInv
  BY <1>1 DEF Init, BufferInv, StartInv, EndInv, FillInv, Accepted
<1> QED
  BY <1>1, <1>2 DEF Init, IInv

\* The library's check.
LEMMA CheckInv ==
  ASSUME IInv, CheckBounds
  PROVE  IInv'
BY DEF IInv, CheckBounds, InBounds, input, BufferInv, StartInv, EndInv, FillInv,
       Accepted, num_buffers, Entry

\* The first loop never runs out of segments, because the offset lies in the
\* buffer.
LEMMA ScanStartInv ==
  ASSUME IInv, ScanStart
  PROVE  IInv'
<1>1. BufferInv'
  BY DEF IInv, BufferInv, ScanStart, input
<1>2. pc = "start" /\ end_idx = 0 /\ start_idx \in 0..(n - 1) /\ n \in Nat /\ start_idx + 1 \in 0..n
  BY DEF IInv, BufferInv, StartInv, EndInv, ScanStart
<1>3. /\ base[start_idx] \in Nat /\ base[start_idx + 1] \in Nat
      /\ base[start_idx] < base[start_idx + 1]
      /\ base[n] \in Nat /\ offset \in Nat /\ length \in Nat /\ offset < base[n]
  BY <1>2 DEF IInv, BufferInv
<1>4. /\ base[start_idx] + offset_remaining = offset /\ offset_remaining \in Nat
      /\ offset + length <= base[n]
  BY <1>2 DEF IInv, StartInv, Accepted
<1>5. StartInv' /\ EndInv'
  <2>1. CASE StepOver
    <3>1. /\ offset_remaining' = offset - base[start_idx + 1]
          /\ offset_remaining' \in Nat
      BY <1>3, <1>4, <2>1 DEF StepOver, Size, ScanStart
    <3>2. start_idx + 1 # n
      BY <1>3, <3>1
    <3>3. start_idx' = start_idx + 1 /\ pc' = "start" /\ end_idx' = 0
      BY <1>2, <2>1 DEF ScanStart
    <3>4. UNCHANGED <<n, base, offset, length, size_counter, tail_size>>
      BY DEF ScanStart, input
    <3>5. StartInv'
      BY <1>2, <1>3, <1>4, <3>1, <3>2, <3>3, <3>4 DEF StartInv, Accepted
    <3>6. EndInv'
      BY <1>2, <3>3, <3>4 DEF IInv, EndInv, BufferInv
    <3> QED
      BY <3>5, <3>6
  <2>2. CASE ~StepOver
    <3>1. offset < base[start_idx + 1]
      BY <1>2, <1>3, <1>4, <2>2 DEF StepOver, Size
    <3>2. start_idx' = start_idx /\ pc' = "end" /\ end_idx' = start_idx
      BY <2>2 DEF ScanStart
    <3>3. UNCHANGED <<n, base, offset, length, size_counter, tail_size, offset_remaining>>
      BY <2>2 DEF ScanStart, input
    <3>4. StartInv'
      BY <1>2, <1>3, <1>4, <3>1, <3>2, <3>3 DEF StartInv, Accepted
    <3>5. EndInv'
      BY <1>2, <3>2, <3>3 DEF IInv, EndInv, BufferInv
    <3> QED
      BY <3>4, <3>5
  <2> QED
    BY <2>1, <2>2
<1>6. pc' \in {"start", "end"} /\ FillInv'
  BY <1>2 DEF ScanStart, IInv, FillInv, input
<1> QED
  BY <1>1, <1>5, <1>6 DEF IInv

\* The second loop never runs out of segments, because the library has checked
\* that the transfer ends in the buffer.
LEMMA ScanEndInv ==
  ASSUME IInv, ScanEnd
  PROVE  IInv'
<1>1. pc = "end" /\ UNCHANGED <<n, base, offset, length, start_idx, offset_remaining, idx, sg>>
  BY DEF ScanEnd, input
<1>2. /\ n \in Nat /\ end_idx \in 0..(n - 1) /\ end_idx + 1 \in 0..n
      /\ start_idx \in 0..(n - 1) /\ start_idx + 1 \in 0..n /\ start_idx <= end_idx
  BY <1>1 DEF IInv, BufferInv, StartInv, EndInv
<1>3. /\ base[end_idx] \in Nat /\ base[end_idx + 1] \in Nat
      /\ base[end_idx] < base[end_idx + 1]
      /\ base[n] \in Nat /\ offset \in Nat /\ length \in Nat
      /\ base[start_idx] \in Nat /\ offset_remaining \in Nat
      /\ size_counter \in Nat /\ tail_size \in Nat
  BY <1>2 DEF IInv, BufferInv, StartInv, EndInv
<1>4. /\ offset + length <= base[n]
      /\ base[start_idx] + offset_remaining = offset
      /\ offset < base[start_idx + 1]
      /\ start_idx < end_idx => base[end_idx] < offset + length
      /\ start_idx < end_idx => size_counter = base[end_idx] - offset
  BY <1>1 DEF IInv, StartInv, EndInv, Accepted
<1>5. Counted = base[end_idx + 1] - offset
  <2>1. CASE start_idx = end_idx
    BY <1>2, <1>3, <1>4, <2>1 DEF Counted, Size
  <2>2. CASE start_idx # end_idx
    BY <1>2, <1>3, <1>4, <2>2 DEF Counted, Size
  <2> QED
    BY <2>1, <2>2
<1>6. Counted \in Nat
  <2>1. CASE start_idx = end_idx
    BY <1>3, <1>4, <1>5, <2>1
  <2>2. CASE start_idx # end_idx
    BY <1>2, <1>3, <1>4, <2>2 DEF Counted, Size
  <2> QED
    BY <2>1, <2>2
<1>7. size_counter' = Counted
  BY <1>2 DEF ScanEnd
<1>8. BufferInv' /\ StartInv'
  <2>1. pc' \in {"end", "fill"}
    BY <1>1 DEF ScanEnd
  <2> QED
    BY <1>1, <2>1 DEF IInv, BufferInv, StartInv, Accepted
<1>9. EndInv'
  <2>1. CASE Counted < length
    <3>1. end_idx + 1 # n
      BY <1>3, <1>4, <1>5, <2>1
    <3>2. end_idx' = end_idx + 1 /\ pc' = "end" /\ tail_size' = tail_size
      BY <1>1, <1>2, <2>1 DEF ScanEnd
    <3> QED
      BY <1>1, <1>2, <1>3, <1>5, <1>6, <1>7, <2>1, <3>1, <3>2 DEF EndInv
  <2>2. CASE ~(Counted < length)
    <3>1. end_idx' = end_idx /\ pc' = "fill" /\ tail_size' = TailSize
      BY <1>2, <2>2 DEF ScanEnd
    <3>2. TailSize = (offset + length) - base[end_idx]
      BY <1>3, <1>5 DEF TailSize, Size
    <3>3. base[end_idx] <= offset + length
      BY <1>2, <1>3, <1>4
    <3>4. TailSize \in Nat
      BY <1>3, <3>2, <3>3
    <3> QED
      BY <1>1, <1>2, <1>3, <1>4, <1>5, <1>6, <1>7, <2>2, <3>1, <3>2, <3>4 DEF EndInv
  <2> QED
    BY <2>1, <2>2
<1>10. FillInv'
  <2>1. idx = 0 /\ sg \in [0..(idx - 1) -> [seg : 0..n, off : Nat, len : Nat]]
    BY <1>1 DEF IInv, FillInv
  <2>2. pc' \in {"end", "fill"}
    BY <1>1 DEF ScanEnd
  <2>3. num_buffers' \in Nat
    <3>1. end_idx' \in 0..(n - 1) /\ start_idx <= end_idx'
      BY <1>1, <1>9, <2>2 DEF EndInv
    <3>2. \A e \in 0..(n - 1) : start_idx <= e => (e - start_idx) + 1 \in Nat
      BY <1>2
    <3>3. (end_idx' - start_idx) + 1 \in Nat
      BY <3>1, <3>2
    <3> QED
      BY <1>1, <3>3 DEF num_buffers
  <2> QED
    BY <1>1, <2>1, <2>2, <2>3 DEF FillInv
<1> QED
  <2>1. pc' \in {"end", "fill"}
    BY <1>1 DEF ScanEnd
  <2> QED
    BY <2>1, <1>8, <1>9, <1>10 DEF IInv

\* An entry is a piece of its segment, and what lies in the buffer before it,
\* within the transfer, is in the entries before.
LEMMA EntryRight ==
  ASSUME IInv, pc \in {"fill", "done"}, NEW b \in start_idx..end_idx
  PROVE  /\ Entry(b).seg = b /\ Entry(b).off \in Nat /\ Entry(b).len \in Nat
         /\ Entry(b) \in [seg : 0..n, off : Nat, len : Nat]
         /\ base[b] + Entry(b).off = IF b = start_idx THEN offset ELSE base[b]
         /\ base[b] + Entry(b).off + Entry(b).len =
              IF b = end_idx THEN offset + length ELSE base[b + 1]
         /\ base[b] + Entry(b).off + Entry(b).len <= base[b + 1]
         /\ length > 0 => Entry(b).len > 0
<1>1. /\ n \in Nat /\ start_idx \in 0..(n - 1) /\ end_idx \in 0..(n - 1)
      /\ start_idx <= end_idx /\ b \in 0..(n - 1) /\ b \in 0..n /\ b + 1 \in 0..n
      /\ start_idx + 1 \in 0..n /\ end_idx + 1 \in 0..n
  <2>1. n \in Nat /\ start_idx \in 0..(n - 1) /\ end_idx \in 0..(n - 1) /\ start_idx <= end_idx
    BY DEF IInv, BufferInv, StartInv, EndInv
  <2> QED
    BY <2>1
<1>2. /\ base[b] \in Nat /\ base[b + 1] \in Nat /\ base[b] < base[b + 1]
      /\ base[start_idx] \in Nat /\ base[end_idx] \in Nat
      /\ base[start_idx + 1] \in Nat /\ base[end_idx + 1] \in Nat
      /\ offset \in Nat /\ length \in Nat /\ offset_remaining \in Nat
      /\ tail_size \in Nat
  <2>1. /\ base \in [0..n -> Nat] /\ \A i \in 0..(n - 1) : base[i] < base[i + 1]
        /\ offset \in Nat /\ length \in Nat /\ offset_remaining \in Nat /\ tail_size \in Nat
    BY DEF IInv, BufferInv, StartInv, EndInv
  <2> QED
    BY <1>1, <2>1
<1>3. /\ base[start_idx] + offset_remaining = offset
      /\ offset < base[start_idx + 1]
      /\ start_idx < end_idx => base[end_idx] < offset + length
      /\ tail_size = (offset + length) - base[end_idx]
      /\ offset + length <= base[end_idx + 1]
  BY DEF IInv, StartInv, EndInv, Accepted
<1>4. CASE b = start_idx /\ start_idx = end_idx
  <2>1. Entry(b) = [seg |-> b, off |-> offset_remaining, len |-> length]
    BY <1>1, <1>4 DEF Entry, num_buffers
  <2> QED
    BY <1>1, <1>2, <1>3, <1>4, <2>1
<1>5. CASE b = start_idx /\ start_idx # end_idx
  <2>1. Entry(b) = [seg |-> b, off |-> offset_remaining,
                    len |-> (base[b + 1] - base[b]) - offset_remaining]
    BY <1>1, <1>5 DEF Entry, num_buffers, Size
  <2>2. (base[b + 1] - base[b]) - offset_remaining = base[b + 1] - offset
    BY <1>2, <1>3, <1>5
  <2>3. base[b + 1] - offset \in Nat /\ base[b + 1] - offset > 0
    BY <1>2, <1>3, <1>5
  <2> QED
    BY <1>1, <1>2, <1>3, <1>5, <2>1, <2>2, <2>3
<1>6. CASE start_idx < b /\ b < end_idx
  <2>1. Entry(b) = [seg |-> b, off |-> 0, len |-> base[b + 1] - base[b]]
    BY <1>1, <1>6 DEF Entry, Size
  <2> QED
    BY <1>1, <1>2, <1>3, <1>6, <2>1
<1>7. CASE start_idx < b /\ b = end_idx
  <2>1. Entry(b) = [seg |-> b, off |-> 0, len |-> tail_size]
    BY <1>1, <1>7 DEF Entry
  <2> QED
    BY <1>1, <1>2, <1>3, <1>7, <2>1
<1> QED
  BY <1>1, <1>4, <1>5, <1>6, <1>7

\* The third loop fills in the next entry.
LEMMA FillEntryInv ==
  ASSUME IInv, FillEntry
  PROVE  IInv'
<1>1. /\ pc = "fill" /\ idx' = idx + 1
      /\ UNCHANGED <<n, base, offset, length, pc, start_idx, offset_remaining,
                     end_idx, size_counter, tail_size>>
  BY DEF FillEntry, input
<1>2. BufferInv' /\ StartInv' /\ EndInv'
  BY <1>1 DEF IInv, BufferInv, StartInv, EndInv, Accepted
<1>3. /\ idx \in Nat /\ idx < num_buffers
      /\ start_idx \in Nat /\ end_idx \in Nat /\ start_idx <= end_idx
      /\ start_idx + idx \in start_idx..end_idx
  BY <1>1 DEF FillEntry, IInv, BufferInv, FillInv, StartInv, EndInv, num_buffers
<1>4. \A b : Entry(b)' = Entry(b)
  BY <1>1 DEF Entry, num_buffers, Size
<1>5. sg' = [k \in 0..idx |-> IF k = idx THEN Entry(start_idx + idx) ELSE sg[k]]
  BY DEF FillEntry
<1>6. \A k \in 0..idx : sg'[k] = Entry(start_idx + k)
  <2> SUFFICES ASSUME NEW k \in 0..idx PROVE sg'[k] = Entry(start_idx + k)
    OBVIOUS
  <2>1. CASE k = idx
    BY <1>5, <2>1
  <2>2. CASE k # idx
    <3>1. k \in 0..(idx - 1)
      BY <1>3, <2>2
    <3> QED
      BY <1>1, <1>5, <2>2, <3>1 DEF IInv, FillInv
  <2> QED
    BY <2>1, <2>2
<1>7. sg' \in [0..idx -> [seg : 0..n, off : Nat, len : Nat]]
  <2>1. Entry(start_idx + idx) \in [seg : 0..n, off : Nat, len : Nat]
    BY <1>1, <1>3, EntryRight
  <2>2. \A k \in 0..idx : k # idx => sg[k] \in [seg : 0..n, off : Nat, len : Nat]
    BY <1>3 DEF IInv, FillInv
  <2> QED
    BY <1>5, <2>1, <2>2
<1>8. FillInv'
  <2>1. idx' \in Nat /\ idx' - 1 = idx /\ idx' <= num_buffers'
    BY <1>1, <1>3 DEF num_buffers
  <2>2. pc' = "fill" /\ start_idx' = start_idx /\ n' = n
    BY <1>1
  <2>3. \A k \in 0..(idx' - 1) : sg'[k] = Entry(start_idx + k)'
    BY <1>1, <1>4, <1>6, <2>1
  <2> QED
    BY <1>7, <2>1, <2>2, <2>3 DEF FillInv
<1> QED
  BY <1>1, <1>2, <1>8 DEF IInv

LEMMA InvStep == IInv /\ [Next]_vars => IInv'
<1> SUFFICES ASSUME IInv, [Next]_vars PROVE IInv'
  OBVIOUS
<1>1. CASE FillDone
  BY <1>1 DEF FillDone, input, IInv, BufferInv, StartInv, EndInv, FillInv, Accepted,
     num_buffers, Entry, Size
<1>2. CASE UNCHANGED vars
  BY <1>2 DEF vars, input, IInv, BufferInv, StartInv, EndInv, FillInv, Accepted,
     num_buffers, Entry, Size
<1> QED
  BY <1>1, <1>2, CheckInv, ScanStartInv, ScanEndInv, FillEntryInv DEF Next

-----------------------------------------------------------------------------
(* The results                                                             *)

LEMMA InvHolds == Spec => []IInv
BY InvInit, InvStep, PTL DEF Spec

\* No variable of start_transfer leaves its range, for any buffer and request.
THEOREM TypeCorrect == Spec => []TypeOK
<1>1. IInv => TypeOK
  <2> SUFFICES ASSUME IInv PROVE TypeOK
    OBVIOUS
  <2>1. n \in Nat \ {0} /\ start_idx \in 0..(n - 1) /\ end_idx \in 0..(n - 1)
    BY DEF IInv, BufferInv, StartInv, EndInv
  <2>2. start_idx \in 0..n /\ end_idx \in 0..n
    BY <2>1
  <2>3. base \in [0..n -> Nat] /\ offset \in Nat /\ length \in Nat
    BY DEF IInv, BufferInv
  <2>4. offset_remaining \in Nat /\ size_counter \in Nat /\ tail_size \in Nat
    BY DEF IInv, StartInv, EndInv
  <2>5. idx \in Nat /\ sg \in [0..(idx - 1) -> [seg : 0..n, off : Nat, len : Nat]]
    BY DEF IInv, FillInv
  <2> QED
    BY <2>1, <2>2, <2>3, <2>4, <2>5 DEF IInv, TypeOK
<1> QED
  BY <1>1, InvHolds, PTL

\* Every entry start_transfer hands to the engine is a piece of a segment of
\* the buffer that exists, and not an empty one: for any number and sizes of
\* segments and any request the library's bounds check lets pass.
THEOREM EntriesSoundHolds == Spec => []EntriesSound
<1>1. ASSUME IInv PROVE EntriesSound
  <2>1. \A k \in 0..(idx - 1) : /\ pc \in {"fill", "done"}
                                /\ start_idx + k \in start_idx..end_idx
                                /\ sg[k] = Entry(start_idx + k)
    <3> TAKE k \in 0..(idx - 1)
    <3>1. pc \in {"fill", "done"} /\ idx \in Nat
      BY <1>1 DEF IInv, FillInv
    <3>2. /\ start_idx \in Nat /\ end_idx \in Nat
          /\ start_idx <= end_idx /\ idx <= num_buffers
      BY <1>1, <3>1 DEF IInv, BufferInv, StartInv, EndInv, FillInv
    <3> QED
      BY <1>1, <3>1, <3>2 DEF IInv, FillInv, num_buffers
  <2>2. \A k \in 0..(idx - 1) : /\ sg[k].seg < n
                                /\ Past(k) <= base[sg[k].seg + 1]
                                /\ length > 0 => sg[k].len > 0
    <3> SUFFICES ASSUME NEW k \in 0..(idx - 1)
                 PROVE  /\ sg[k].seg < n
                        /\ Past(k) <= base[sg[k].seg + 1]
                        /\ length > 0 => sg[k].len > 0
      OBVIOUS
    <3>1. start_idx + k < n
      BY <1>1, <2>1 DEF IInv, BufferInv, StartInv, EndInv
    <3> QED
      BY <1>1, <2>1, <3>1, EntryRight DEF Past, First
  <2>3. pc \in {"fill", "done"} => end_idx < n
    BY <1>1 DEF IInv, BufferInv, EndInv
  <2> QED
    BY <2>2, <2>3 DEF EntriesSound, SegmentsExist, EntriesInSegments, NoEmptyEntry
<1> QED
  BY <1>1, InvHolds, PTL

\* The scatter/gather list is exactly the request: the entries follow each
\* other in the user's view of the buffer from the offset asked for to its end,
\* without a gap, an overlap or a byte too many.
THEOREM CoversHolds == Spec => []Covers
<1>1. ASSUME IInv PROVE Covers
  <2> SUFFICES ASSUME pc = "done"
               PROVE  /\ idx > 0
                      /\ First(0) = offset
                      /\ \A k \in 1..(idx - 1) : First(k) = Past(k - 1)
                      /\ Past(idx - 1) = offset + length
    BY DEF Covers
  <2>1. /\ start_idx \in Nat /\ end_idx \in Nat /\ start_idx <= end_idx
        /\ idx = (end_idx - start_idx) + 1
    BY <1>1 DEF IInv, BufferInv, StartInv, EndInv, FillInv, num_buffers
  <2>2. \A k \in 0..(idx - 1) : /\ start_idx + k \in start_idx..end_idx
                                /\ sg[k] = Entry(start_idx + k)
    BY <1>1, <2>1 DEF IInv, FillInv
  <2>3. \A k \in 0..(idx - 1) :
          /\ First(k) = IF k = 0 THEN offset ELSE base[start_idx + k]
          /\ Past(k) = IF k = idx - 1 THEN offset + length ELSE base[(start_idx + k) + 1]
    <3> TAKE k \in 0..(idx - 1)
    <3>1. (start_idx + k = start_idx <=> k = 0) /\ (start_idx + k = end_idx <=> k = idx - 1)
      BY <2>1
    <3>2. sg[k].seg = start_idx + k
      BY <1>1, <2>2, EntryRight
    <3> QED
      BY <1>1, <2>2, <3>1, <3>2, EntryRight DEF First, Past
  <2>4. \A k \in 1..(idx - 1) : First(k) = Past(k - 1)
    <3> TAKE k \in 1..(idx - 1)
    <3>1. /\ k \in 0..(idx - 1) /\ k - 1 \in 0..(idx - 1)
          /\ k # 0 /\ k - 1 # idx - 1
          /\ (start_idx + (k - 1)) + 1 = start_idx + k
      BY <2>1
    <3> QED
      BY <2>3, <3>1
  <2> QED
    BY <2>1, <2>3, <2>4
<1> QED
  BY <1>1, InvHolds, PTL
=============================================================================
