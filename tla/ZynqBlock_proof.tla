--------------------------- MODULE ZynqBlock_proof ---------------------------
(***************************************************************************)
(* Proofs about ZynqBlock: for every program, length of the stream, size of *)
(* the stream's buffers, load and cutting of the stream into calls.        *)
(***************************************************************************)
EXTENDS ZynqBlock, SequenceTheorems, TLAPS

-----------------------------------------------------------------------------
(* The inductive invariant                                                 *)

\* A call works on batches that are there, and keeps to them.
CallInv ==
  /\ pc # "idle" => num_iters >= 1 /\ produced + num_iters <= avail
  /\ avail <= produced + N
  /\ pc = "copy" => own
  /\ \A k \in DOMAIN q["tx"] : q["tx"][k] <= avail

\* The program's own buffer has the batch the loop is at, once it is copied.
CopyInv ==
  own => /\ pc \in {"read", "write", "writing", "complete", "next"} => wbuf = Batch
         /\ q["tx"] # <<>> => wbuf # 0

\* A transfer of the current batch is with the engine, or its callback is to
\* come, or its completion has not been used.
Pending(d) == \/ q[d] = <<Batch>> /\ cb[d] = 0 /\ cmp[d] = 0
              \/ q[d] = <<>> /\ cb[d] = 1 /\ cmp[d] = 0
              \/ q[d] = <<>> /\ cb[d] = 0 /\ cmp[d] = 1

\* Nothing of any transfer is left.
Quiet(d) == q[d] = <<>> /\ cb[d] = 0 /\ cmp[d] = 0

\* Until a write has timed out, there is a write during dmap_write only.
TxInv == "tx" \notin timedOut => IF pc = "writing" THEN Pending("tx") ELSE Quiet("tx")

\* Until a read has timed out, there is a read from its start to its
\* completion only, and there is one unless it could not be started.
RxInv ==
  "rx" \notin timedOut =>
    IF pc \in {"write", "writing", "complete"}
    THEN Pending("rx") \/ (failed /\ Quiet("rx"))
    ELSE Quiet("rx")

\* Buffers that are not DMA buffers get no transfers.
NoDmaInv == ~dma => \A d \in Chans : Quiet(d)

\* Reads and results are paired: Aligned, with its two cases told apart.
AlignInv ==
  "tx" \notin timedOut /\ ~failed =>
    /\ pc = "write" => q["rx"] = (fifo \o q["tx"]) \o <<Batch>>
    /\ pc # "write" => q["rx"] = fifo \o q["tx"]

Right == timedOut = {} /\ ~failed /\ ~overrun

\* The result of the current batch is where the read puts it.
Received == (IF own THEN rbuf ELSE out[Slot(Batch)]) = Batch

\* When the completion of the read can be seen the result has arrived.
ReceivedInv ==
  /\ Right /\ pc \in {"write", "writing", "complete"} /\ q["rx"] = <<>> => Received
  /\ Right /\ pc = "next" => Received

\* There is room for the output of the call.
RoomInv == ~overrun /\ pc # "idle" => produced + num_iters <= taken + N

\* The output that the sink may take, and that of the batches the call has
\* done, is right.
Done == IF pc = "idle" THEN 0 ELSE IF step < num_iters THEN step ELSE num_iters

OutInv ==
  Right => /\ ~wrong
           /\ \A i \in (taken + 1)..(produced + Done) : out[Slot(i)] = i

IInv == /\ TypeOK /\ CallInv /\ CopyInv /\ TxInv /\ RxInv /\ NoDmaInv /\ AlignInv
        /\ ReceivedInv /\ RoomInv /\ OutInv

-----------------------------------------------------------------------------
(* Places in the buffers, and sequences                                    *)

\* Batches less than N apart have different places.
LEMMA SlotFacts ==
  ASSUME NEW i \in Nat
  PROVE  /\ Slot(i) \in 0..(N - 1)
         /\ \A j \in Nat : i < j /\ j < i + N => Slot(i) # Slot(j)
<1>1. N \in Nat /\ N > 0
  BY BlockAssumption
<1>2. ASSUME NEW k \in Nat
      PROVE  /\ k = N * (k \div N) + (k % N) /\ k \div N \in Nat
             /\ k % N \in 0..(N - 1)
  BY <1>1
<1>3. ASSUME NEW j \in Nat, i < j, j < i + N, Slot(i) = Slot(j) PROVE FALSE
  <2> DEFINE a == i \div N
             b == j \div N
             r == i % N
  <2>1. /\ i = N * a + r /\ j = N * b + r /\ a \in Nat /\ b \in Nat /\ r \in Nat
    BY <1>2, <1>3 DEF Slot
  <2> HIDE DEF a, b, r
  <2>2. N * a < N * b /\ N * b < N * a + N
    <3> DEFINE x == N * a
               y == N * b
    <3>1. x \in Nat /\ y \in Nat /\ i = x + r /\ j = y + r
      BY <1>1, <2>1
    <3> HIDE DEF x, y
    <3>2. x < y /\ y < x + N
      BY <1>1, <1>3, <2>1, <3>1
    <3> QED
      BY <3>2 DEF x, y
  <2>3. CASE b <= a
    <3>1. N * b <= N * a
      BY <1>1, <2>1, <2>3
    <3> QED
      BY <1>1, <2>1, <2>2, <3>1
  <2>4. CASE a + 1 <= b
    <3>1. N * (a + 1) <= N * b
      BY <1>1, <2>1, <2>4
    <3>2. N * (a + 1) = N * a + N
      BY <1>1, <2>1
    <3> QED
      BY <1>1, <2>1, <2>2, <3>1, <3>2
  <2> QED
    BY <2>1, <2>3, <2>4
<1> QED
  BY <1>2, <1>3 DEF Slot

\* The batch a call is at is one of its batches.
LEMMA BatchFacts ==
  ASSUME TypeOK, CallInv, pc # "idle"
  PROVE  /\ Batch \in (produced + 1)..(produced + num_iters) /\ Batch \in 1..MaxBatches
         /\ Batch <= avail /\ Batch \in Nat
         /\ step < num_iters => Batch = produced + 1 + step
<1>1. /\ num_iters \in Nat /\ num_iters >= 1 /\ step \in Nat /\ produced \in Nat
      /\ avail \in Nat /\ avail <= MaxBatches /\ produced + num_iters <= avail
      /\ MaxBatches \in Nat
  BY BlockAssumption DEF TypeOK, CallInv
<1> DEFINE r == step % num_iters
<1>2. r \in 0..(num_iters - 1) /\ (step < num_iters => r = step)
  BY <1>1
<1>3. Batch = produced + 1 + r
  BY DEF Batch
<1> HIDE DEF r
<1> QED
  BY <1>1, <1>2, <1>3

\* The source has not overwritten the input of the call.
LEMMA InputFacts ==
  ASSUME TypeOK, CallInv
  PROVE  /\ pc # "idle" => InputAt(Batch) = Batch
         /\ \A i \in 1..MaxBatches : i <= avail => InputAt(i) \in 1..MaxBatches
<1>1. /\ N \in Nat /\ N > 0 /\ avail \in Nat /\ avail <= MaxBatches /\ produced \in Nat
      /\ avail <= produced + N /\ MaxBatches \in Nat
  BY BlockAssumption DEF TypeOK, CallInv
<1>2. ASSUME pc # "idle" PROVE InputAt(Batch) = Batch
  <2>1. Batch \in Nat /\ Batch >= produced + 1 /\ Batch <= avail
    BY <1>1, <1>2, BatchFacts DEF TypeOK
  <2> DEFINE b == Batch
             e == avail - b
  <2>2. InputAt(b) = b + N * (e \div N)
    BY DEF InputAt
  <2>3. e \in Nat /\ e < N /\ b \in Nat
    <3> HIDE DEF b
    <3>1. b \in Nat /\ b >= produced + 1 /\ b <= avail
      BY <2>1 DEF b
    <3> QED
      BY <1>1, <3>1
  <2> HIDE DEF e, b
  <2>4. e \div N = 0
    BY <1>1, <2>3
  <2>5. N * (e \div N) = 0
    BY <1>1, <2>4
  <2>6. InputAt(b) = b
    BY <2>2, <2>3, <2>5
  <2> QED
    BY <2>6 DEF b
<1>3. ASSUME NEW i \in 1..MaxBatches, i <= avail PROVE InputAt(i) \in 1..MaxBatches
  <2> DEFINE e == avail - i
             k == e \div N
             x == N * k
  <2>1. e \in Nat
    BY <1>1, <1>3
  <2>2. InputAt(i) = i + x
    BY DEF InputAt
  <2> HIDE DEF e
  <2>3. e = N * k + (e % N) /\ k \in Nat /\ e % N \in Nat
    BY <1>1, <2>1
  <2> HIDE DEF k
  <2>4. x \in Nat
    BY <1>1, <2>3
  <2>5. x <= e
    BY <2>1, <2>3, <2>4
  <2> HIDE DEF x
  <2>6. i + x <= avail
    BY <1>1, <2>1, <2>4, <2>5 DEF e
  <2> QED
    BY <1>1, <2>2, <2>4, <2>6
<1> QED
  BY <1>2, <1>3

\* The first element of a sequence that begins with s, and the rest.
LEMMA HeadTailOfConcat ==
  ASSUME NEW S, NEW s \in Seq(S), NEW t \in Seq(S), s # <<>>
  PROVE  /\ s \o t \in Seq(S) /\ s \o t # <<>>
         /\ Head(s \o t) = Head(s) /\ Tail(s \o t) = Tail(s) \o t
<1>1. /\ s \o t \in Seq(S) /\ Len(s \o t) = Len(s) + Len(t)
      /\ \A i \in 1..(Len(s) + Len(t)) : (s \o t)[i] = IF i <= Len(s) THEN s[i] ELSE t[i - Len(s)]
  BY ConcatProperties
<1>2. Len(s) \in Nat \ {0} /\ Len(t) \in Nat
  BY EmptySeq, LenProperties
<1>3. s \o t # <<>>
  BY <1>1, <1>2, EmptySeq
<1>4. Head(s \o t) = Head(s)
  BY <1>1, <1>2, <1>3
<1>5. /\ Tail(s) \in Seq(S) /\ Len(Tail(s)) = Len(s) - 1
      /\ \A i \in 1..Len(Tail(s)) : Tail(s)[i] = s[i + 1]
  BY HeadTailProperties
<1>6. /\ Tail(s \o t) \in Seq(S) /\ Len(Tail(s \o t)) = Len(s) + Len(t) - 1
      /\ \A i \in 1..(Len(s) + Len(t) - 1) : Tail(s \o t)[i] = (s \o t)[i + 1]
  BY <1>1, <1>3, HeadTailProperties
<1>7. /\ Tail(s) \o t \in Seq(S) /\ Len(Tail(s) \o t) = Len(s) - 1 + Len(t)
      /\ \A i \in 1..(Len(s) - 1 + Len(t)) :
           (Tail(s) \o t)[i] = IF i <= Len(s) - 1 THEN Tail(s)[i] ELSE t[i - (Len(s) - 1)]
  BY <1>5, ConcatProperties
<1> DEFINE m == Len(s) + Len(t) - 1
<1>8. ASSUME NEW i \in 1..m PROVE Tail(s \o t)[i] = (Tail(s) \o t)[i]
  <2>1. i \in 1..(Len(s) - 1 + Len(t)) /\ i + 1 \in 1..(Len(s) + Len(t))
    BY <1>2
  <2>2. Tail(s \o t)[i] = IF i + 1 <= Len(s) THEN s[i + 1] ELSE t[(i + 1) - Len(s)]
    BY <1>1, <1>6, <2>1
  <2>3. CASE i <= Len(s) - 1
    <3>1. i + 1 <= Len(s) /\ i \in 1..Len(Tail(s))
      BY <1>2, <1>5, <2>3
    <3> QED
      BY <1>5, <1>7, <2>1, <2>2, <2>3, <3>1
  <2>4. CASE ~(i <= Len(s) - 1)
    <3>1. ~(i + 1 <= Len(s)) /\ (i + 1) - Len(s) = i - (Len(s) - 1)
      BY <1>2, <2>4
    <3> QED
      BY <1>7, <2>1, <2>2, <2>4, <3>1
  <2> QED
    BY <2>3, <2>4
<1>9. Len(Tail(s \o t)) = m /\ Len(Tail(s) \o t) = m
  BY <1>2, <1>6, <1>7
<1>10. Tail(s \o t) = Tail(s) \o t
  BY <1>6, <1>7, <1>8, <1>9, SeqEqual
<1> QED
  BY <1>1, <1>3, <1>4, <1>10

-----------------------------------------------------------------------------
(* What the steps have in common                                           *)

LEMMA InvInit == Init => IInv
<1> SUFFICES ASSUME Init PROVE IInv
  OBVIOUS
<1>1. PICK p \in Programs : own = p.own /\ byInput = p.byInput /\ dma \in p.dma /\ d_load \in p.load
  BY DEF Init
<1>2. own \in BOOLEAN /\ byInput \in BOOLEAN /\ dma \in BOOLEAN /\ d_load \in Nat \ {0}
  <2>1. Loads \subseteq Nat \ {0} /\ {1} \subseteq Nat \ {0}
    BY BlockAssumption
  <2>2. p \in {loopback, legacy, fft, matrix_inv, TC_decoder, util_file, util_nb}
    BY BlockAssumption DEF ProgramSet
  <2>3. /\ p.own \in BOOLEAN /\ p.byInput \in BOOLEAN /\ p.dma \subseteq BOOLEAN
        /\ p.load = Loads \/ p.load = {1}
    <3>1. CASE p = loopback
      BY <3>1 DEF loopback
    <3>2. CASE p = legacy
      BY <3>2 DEF legacy
    <3>3. CASE p = fft
      BY <3>3 DEF fft
    <3>4. CASE p = matrix_inv
      BY <3>4 DEF matrix_inv
    <3>5. CASE p = TC_decoder
      BY <3>5 DEF TC_decoder
    <3>6. CASE p = util_file
      BY <3>6 DEF util_file
    <3>7. CASE p = util_nb
      BY <3>7 DEF util_nb
    <3> QED
      BY <2>2, <3>1, <3>2, <3>3, <3>4, <3>5, <3>6, <3>7
  <2> QED
    BY <1>1, <2>1, <2>3
<1>3. /\ pc = "idle" /\ num_iters = 0 /\ step = 0 /\ avail = 0 /\ produced = 0 /\ taken = 0
      /\ wrong = FALSE /\ out = [s \in 0..(N - 1) |-> 0] /\ wbuf = 0 /\ rbuf = 0
      /\ q = [d \in Chans |-> <<>>] /\ cmp = [d \in Chans |-> 0] /\ cb = [d \in Chans |-> 0]
      /\ fifo = <<>> /\ timedOut = {} /\ failed = FALSE /\ overrun = FALSE
  BY DEF Init
<1>4. 0 \in 0..MaxBatches /\ N \in Nat /\ <<>> \in Seq(1..MaxBatches) /\ 0 \in Nat
  BY BlockAssumption
<1>5. TypeOK
  <2>1. /\ q \in [Chans -> Seq(1..MaxBatches)] /\ cmp \in [Chans -> Nat] /\ cb \in [Chans -> Nat]
        /\ out \in [0..(N - 1) -> 0..MaxBatches]
    BY <1>3, <1>4
  <2>2. avail \in produced..MaxBatches /\ taken \in 0..produced
    BY <1>3, <1>4
  <2>3. {own, byInput, dma} \subseteq BOOLEAN /\ timedOut \subseteq Chans
    BY <1>2, <1>3
  <2> QED
    BY <1>2, <1>3, <1>4, <2>1, <2>2, <2>3 DEF TypeOK
<1>6. \A d \in Chans : Quiet(d)
  BY <1>3 DEF Quiet
<1>7. "tx" \in Chans /\ "rx" \in Chans
  BY DEF Chans
<1>8. CallInv
  BY <1>3, <1>4, <1>7 DEF CallInv
<1>9. CopyInv /\ TxInv /\ RxInv /\ NoDmaInv
  BY <1>3, <1>6, <1>7 DEF CopyInv, TxInv, RxInv, NoDmaInv
<1>10. AlignInv
  <2>1. q["rx"] = <<>> /\ q["tx"] = <<>>
    BY <1>3, <1>7
  <2>2. <<>> \o <<>> = <<>>
    BY <1>4, ConcatEmptySeq
  <2> QED
    BY <1>3, <2>1, <2>2 DEF AlignInv
<1>11. ReceivedInv /\ RoomInv
  BY <1>3 DEF ReceivedInv, RoomInv
<1>12. OutInv
  BY <1>3 DEF OutInv, Done
<1> QED
  BY <1>5, <1>8, <1>9, <1>10, <1>11, <1>12 DEF IInv

\* The types of what the channels hold.
LEMMA ChanTypes ==
  ASSUME TypeOK
  PROVE  /\ "tx" \in Chans /\ "rx" \in Chans /\ Chans = {"tx", "rx"}
         /\ q \in [Chans -> Seq(1..MaxBatches)] /\ fifo \in Seq(1..MaxBatches)
         /\ cmp \in [Chans -> Nat] /\ cb \in [Chans -> Nat]
         /\ \A d \in Chans : q[d] \in Seq(1..MaxBatches) /\ cmp[d] \in Nat /\ cb[d] \in Nat
  BY DEF TypeOK, Chans

\* Steps that leave the call and the transfers alone.
LEMMA KeptDma ==
  ASSUME IInv, UNCHANGED <<progVars, pc, num_iters, step, produced, wbuf, dmaVars, failed>>
  PROVE  CopyInv' /\ TxInv' /\ RxInv' /\ NoDmaInv' /\ AlignInv'
<1>1. UNCHANGED <<own, dma, pc, num_iters, step, produced, wbuf, q, cmp, cb, fifo, timedOut, failed>>
  BY DEF progVars, dmaVars
<1>2. Batch' = Batch
  BY <1>1 DEF Batch
<1>3. \A d \in Chans : Pending(d)' = Pending(d) /\ Quiet(d)' = Quiet(d)
  BY <1>1, <1>2 DEF Pending, Quiet
<1>4. "tx" \in Chans /\ "rx" \in Chans
  BY DEF Chans
<1>5. CopyInv'
  BY <1>1, <1>2 DEF IInv, CopyInv
<1>6. TxInv' /\ RxInv' /\ NoDmaInv'
  BY <1>1, <1>3, <1>4 DEF IInv, TxInv, RxInv, NoDmaInv
<1>7. AlignInv'
  BY <1>1, <1>2 DEF IInv, AlignInv
<1> QED
  BY <1>5, <1>6, <1>7

\* Steps that leave the output and the place in the call alone.
LEMMA KeptOut ==
  ASSUME IInv, UNCHANGED <<num_iters, step, produced, taken, wrong, out, overrun>>,
         pc' = "idle" <=> pc = "idle", timedOut \subseteq timedOut', failed => failed'
  PROVE  RoomInv' /\ OutInv' /\ (Right' => Right)
<1>1. Right' => Right
  BY DEF Right
<1>2. Done' = Done
  BY DEF Done
<1>3. OutInv'
  BY <1>1, <1>2 DEF IInv, OutInv
<1>4. RoomInv'
  BY DEF IInv, RoomInv
<1> QED
  BY <1>1, <1>3, <1>4

-----------------------------------------------------------------------------
(* The stream                                                              *)

LEMMA SourceInv == IInv /\ Source => IInv'
<1> SUFFICES ASSUME IInv, Source PROVE IInv'
  OBVIOUS
<1>1. /\ avail < MaxBatches /\ avail < produced + N /\ avail' = avail + 1
      /\ UNCHANGED <<callVars, taken, wrong, out, wbuf, rbuf, dmaVars, failed>>
  BY DEF Source
<1>2. UNCHANGED <<own, byInput, dma, d_load, pc, num_iters, step, produced, overrun,
                  q, cmp, cb, fifo, timedOut, taken, wrong, out, wbuf, rbuf, failed>>
  BY <1>1 DEF callVars, progVars, dmaVars
<1>3. /\ avail \in Nat /\ produced \in Nat /\ produced <= avail /\ MaxBatches \in Nat /\ N \in Nat
      /\ num_iters \in Nat
  BY BlockAssumption DEF IInv, TypeOK
<1>4. TypeOK'
  <2>1. avail' \in produced..MaxBatches
    BY <1>1, <1>3
  <2> QED
    BY <1>2, <2>1 DEF IInv, TypeOK
<1>5. CallInv'
  <2>1. \A k \in DOMAIN q["tx"] : q["tx"][k] <= avail + 1
    <3>1. \A k \in DOMAIN q["tx"] : q["tx"][k] \in Nat /\ q["tx"][k] <= avail
      <4>1. q["tx"] \in Seq(1..MaxBatches)
        BY ChanTypes DEF IInv
      <4>2. \A k \in DOMAIN q["tx"] : q["tx"][k] \in 1..MaxBatches
        BY <4>1, ElementOfSeq, LenProperties
      <4>3. \A k \in DOMAIN q["tx"] : q["tx"][k] <= avail
        BY DEF IInv, CallInv
      <4> QED
        BY <1>3, <4>2, <4>3
    <3> QED
      BY <1>3, <3>1
  <2>2. avail' <= produced + N
    BY <1>1, <1>3
  <2>3. pc # "idle" => num_iters >= 1 /\ produced + num_iters <= avail + 1
    BY <1>3 DEF IInv, CallInv
  <2>4. pc = "copy" => own
    BY DEF IInv, CallInv
  <2> QED
    BY <1>1, <1>2, <2>1, <2>2, <2>3, <2>4 DEF CallInv
<1>6. CopyInv' /\ TxInv' /\ RxInv' /\ NoDmaInv' /\ AlignInv'
  BY <1>2, KeptDma DEF progVars, dmaVars
<1>7. RoomInv' /\ OutInv' /\ (Right' => Right)
  BY <1>2, KeptOut
<1>8. ReceivedInv'
  BY <1>2, <1>7 DEF IInv, ReceivedInv, Received, Batch
<1> QED
  BY <1>4, <1>5, <1>6, <1>7, <1>8 DEF IInv

LEMMA SinkInv == IInv /\ Sink => IInv'
<1> SUFFICES ASSUME IInv, Sink PROVE IInv'
  OBVIOUS
<1>1. /\ taken < produced /\ taken' = taken + 1
      /\ wrong' = (wrong \/ out[Slot(taken + 1)] # taken + 1)
      /\ UNCHANGED <<callVars, avail, out, wbuf, rbuf, dmaVars, failed>>
  BY DEF Sink
<1>2. UNCHANGED <<own, byInput, dma, d_load, pc, num_iters, step, produced, overrun,
                  q, cmp, cb, fifo, timedOut, avail, out, wbuf, rbuf, failed>>
  BY <1>1 DEF callVars, progVars, dmaVars
<1>3. taken \in Nat /\ produced \in Nat /\ num_iters \in Nat /\ step \in Nat /\ N \in Nat
  BY BlockAssumption DEF IInv, TypeOK
<1>4. TypeOK'
  <2>1. taken' \in 0..produced
    BY <1>1, <1>3
  <2>2. wrong' \in BOOLEAN
    BY <1>1 DEF IInv, TypeOK
  <2> QED
    BY <1>2, <2>1, <2>2 DEF IInv, TypeOK
<1>5. CallInv'
  BY <1>2 DEF IInv, CallInv
<1>6. CopyInv' /\ TxInv' /\ RxInv' /\ NoDmaInv' /\ AlignInv'
  BY <1>2, KeptDma DEF progVars, dmaVars
<1>7. ReceivedInv'
  BY <1>2 DEF IInv, ReceivedInv, Received, Batch, Right
<1>8. RoomInv'
  <2>1. produced + num_iters <= taken + N => produced + num_iters <= taken + 1 + N
    BY <1>3
  <2> QED
    BY <1>1, <1>2, <2>1 DEF IInv, RoomInv
<1>9. OutInv'
  <2> SUFFICES ASSUME Right' PROVE OutInv'
    BY DEF OutInv
  <2>1. Right /\ Done' = Done
    BY <1>2 DEF Right, Done
  <2>2. Done \in Nat
    BY <1>3 DEF Done
  <2>3. ~wrong /\ \A i \in (taken + 1)..(produced + Done) : out[Slot(i)] = i
    BY <2>1 DEF IInv, OutInv
  <2>4. taken + 1 \in (taken + 1)..(produced + Done)
    BY <1>1, <1>3, <2>2
  <2>5. (taken' + 1)..(produced + Done) \subseteq (taken + 1)..(produced + Done)
    BY <1>1, <1>3, <2>2
  <2> QED
    BY <1>1, <1>2, <2>1, <2>3, <2>4, <2>5 DEF OutInv
<1> QED
  BY <1>4, <1>5, <1>6, <1>7, <1>8, <1>9 DEF IInv

-----------------------------------------------------------------------------
(* general_work                                                            *)

LEMMA WorkInv == IInv /\ Work => IInv'
<1> SUFFICES ASSUME IInv, Work PROVE IInv'
  OBVIOUS
<1>1. PICK noutput \in 1..(N - (produced - taken)) :
        /\ noutput <= avail - produced /\ num_iters' = NumIters(noutput, avail - produced)
  BY DEF Work
<1>2. /\ pc = "idle" /\ step' = 0 /\ pc' = FirstPc
      /\ overrun' = (overrun \/ produced + num_iters' - taken > N)
      /\ UNCHANGED <<progVars, produced, dataVars, dmaVars, failed>>
  BY DEF Work
<1>3. UNCHANGED <<own, byInput, dma, d_load, produced, avail, taken, wrong, out, wbuf, rbuf,
                  q, cmp, cb, fifo, timedOut, failed>>
  BY <1>2 DEF progVars, dataVars, dmaVars
<1>4. /\ taken \in Nat /\ produced \in Nat /\ N \in Nat /\ avail \in Nat /\ avail <= MaxBatches
      /\ MaxBatches \in Nat
  BY BlockAssumption DEF IInv, TypeOK
<1>5. /\ num_iters' \in 0..MaxBatches /\ num_iters' >= 1 /\ produced + num_iters' <= avail
  <2>1. num_iters' \in {noutput, avail - produced}
    BY <1>1 DEF NumIters
  <2>2. noutput \in Nat /\ noutput >= 1 /\ noutput <= avail - produced
    BY <1>1, <1>4
  <2> DEFINE n == num_iters'
  <2>3. n \in Nat /\ n >= 1 /\ n <= avail - produced
    BY <1>4, <2>1, <2>2
  <2> HIDE DEF n
  <2>4. n \in 0..MaxBatches /\ n >= 1 /\ produced + n <= avail
    BY <1>4, <2>3
  <2> QED
    BY <2>4 DEF n
<1>6. pc' \in {"copy", "read"} /\ (pc' = "copy" => own)
  BY <1>2 DEF FirstPc
<1>7. TypeOK'
  <2>1. overrun' \in BOOLEAN
    BY <1>2 DEF IInv, TypeOK
  <2> QED
    BY <1>2, <1>3, <1>5, <1>6, <2>1 DEF IInv, TypeOK
<1>8. CallInv'
  BY <1>3, <1>5, <1>6 DEF IInv, CallInv
<1>9. CopyInv'
  BY <1>2, <1>3 DEF IInv, CopyInv, FirstPc
<1>10. TxInv' /\ RxInv' /\ NoDmaInv'
  BY <1>2, <1>3, <1>6 DEF IInv, TxInv, RxInv, NoDmaInv, Quiet
<1>11. AlignInv'
  BY <1>2, <1>3, <1>6 DEF IInv, AlignInv
<1>12. ReceivedInv'
  BY <1>6 DEF ReceivedInv
<1>13. RoomInv'
  <2> SUFFICES ASSUME ~overrun' PROVE produced + num_iters' <= taken + N
    BY <1>3 DEF RoomInv
  <2> DEFINE n == num_iters'
  <2>1. ~(produced + n - taken > N) /\ n \in Nat
    <3>1. ~(produced + n - taken > N)
      BY <1>2, Zenon
    <3>2. n \in Nat
      BY <1>4, <1>5
    <3> QED
      BY <3>1, <3>2
  <2> HIDE DEF n
  <2>2. produced + n <= taken + N
    BY <1>4, <2>1
  <2> QED
    BY <2>2 DEF n
<1>14. OutInv'
  <2>1. Right' => Right
    <3>1. overrun => overrun'
      BY <1>2
    <3> QED
      BY <1>3, <3>1 DEF Right
  <2>2. Done' = 0 /\ Done = 0
    BY <1>2, <1>5, <1>6 DEF Done
  <2> QED
    BY <1>3, <2>1, <2>2 DEF IInv, OutInv
<1> QED
  BY <1>7, <1>8, <1>9, <1>10, <1>11, <1>12, <1>13, <1>14 DEF IInv

LEMMA CopyInInv == IInv /\ CopyIn => IInv'
<1> SUFFICES ASSUME IInv, CopyIn PROVE IInv'
  OBVIOUS
<1>1. /\ pc = "copy" /\ wbuf' = InputAt(Batch) /\ pc' = "read"
      /\ UNCHANGED <<progVars, num_iters, step, produced, overrun,
                     avail, taken, wrong, out, rbuf, dmaVars, failed>>
  BY DEF CopyIn
<1>2. UNCHANGED <<own, byInput, dma, d_load, num_iters, step, produced, overrun, avail, taken,
                  wrong, out, rbuf, q, cmp, cb, fifo, timedOut, failed>>
  BY <1>1 DEF progVars, dmaVars
<1>3. Batch \in 1..MaxBatches /\ InputAt(Batch) = Batch /\ Batch' = Batch
  <2>1. Batch' = Batch
    BY <1>2 DEF Batch
  <2> QED
    BY <1>1, <2>1, BatchFacts, InputFacts DEF IInv
<1>4. MaxBatches \in Nat
  BY BlockAssumption
<1>5. wbuf' = Batch /\ Batch # 0 /\ wbuf' \in 0..MaxBatches
  BY <1>1, <1>3, <1>4
<1>6. TypeOK'
  BY <1>1, <1>2, <1>5 DEF IInv, TypeOK
<1>7. CallInv'
  BY <1>1, <1>2 DEF IInv, CallInv
<1>8. CopyInv'
  BY <1>1, <1>3, <1>5 DEF CopyInv
<1>9. TxInv' /\ RxInv' /\ NoDmaInv'
  BY <1>1, <1>2 DEF IInv, TxInv, RxInv, NoDmaInv, Quiet
<1>10. AlignInv'
  BY <1>1, <1>2 DEF IInv, AlignInv
<1>11. ReceivedInv'
  BY <1>1 DEF ReceivedInv
<1>12. RoomInv' /\ OutInv'
  BY <1>1, <1>2, KeptOut
<1> QED
  BY <1>6, <1>7, <1>8, <1>9, <1>10, <1>11, <1>12 DEF IInv

-----------------------------------------------------------------------------
(* Transfers are started and waited for                                    *)

\* What the steps that only work on a channel leave alone.
LEMMA ButDma ==
  ASSUME UnchangedButDma
  PROVE  /\ UNCHANGED <<own, byInput, dma, d_load, num_iters, step, produced, overrun,
                        avail, taken, wrong, out, wbuf, rbuf>>
         /\ Batch' = Batch
<1>1. UNCHANGED <<own, byInput, dma, d_load, num_iters, step, produced, overrun,
                  avail, taken, wrong, out, wbuf, rbuf>>
  BY DEF UnchangedButDma, progVars, dataVars
<1> QED
  BY <1>1 DEF Batch

\* start_transfer on channel d, whether it succeeds or fails.
LEMMA StartFacts ==
  ASSUME IInv, pc # "idle", NEW d \in Chans, StartTransfer(d) \/ StartFails(d), UnchangedButDma
  PROVE  /\ q' \in [Chans -> Seq(1..MaxBatches)] /\ cmp' \in [Chans -> Nat]
         /\ UNCHANGED <<cb, fifo, timedOut>> /\ failed' \in BOOLEAN /\ (failed => failed')
         /\ \A e \in Chans \ {d} : /\ q'[e] = q[e]
                                   /\ Quiet(e) => Quiet(e)'
                                   /\ Pending(e) => Pending(e)'
         /\ Quiet(d) => Pending(d)' \/ (failed' /\ Quiet(d)')
         /\ NoDmaInv'
         /\ \/ q'[d] = Append(q[d], Batch) /\ StartTransfer(d) /\ failed' = failed
            \/ q'[d] = q[d] /\ failed' = TRUE /\ StartFails(d)
<1>1. /\ "tx" \in Chans /\ "rx" \in Chans
      /\ q \in [Chans -> Seq(1..MaxBatches)] /\ fifo \in Seq(1..MaxBatches)
      /\ cmp \in [Chans -> Nat] /\ cb \in [Chans -> Nat]
      /\ \A e \in Chans : q[e] \in Seq(1..MaxBatches) /\ cmp[e] \in Nat /\ cb[e] \in Nat
  BY ChanTypes DEF IInv
<1>2. Batch' = Batch /\ dma' = dma /\ Batch \in 1..MaxBatches
  BY ButDma, BatchFacts DEF IInv
<1>3. CASE StartTransfer(d)
  <2>1. /\ dma /\ q' = [q EXCEPT ![d] = Append(q[d], Batch)] /\ cmp' = [cmp EXCEPT ![d] = 0]
        /\ UNCHANGED <<cb, fifo, timedOut, failed>>
    BY <1>3 DEF StartTransfer
  <2>2. Append(q[d], Batch) \in Seq(1..MaxBatches)
    BY <1>1, <1>2, AppendProperties
  <2>3. /\ q' \in [Chans -> Seq(1..MaxBatches)] /\ cmp' \in [Chans -> Nat]
        /\ q'[d] = Append(q[d], Batch) /\ cmp'[d] = 0 /\ cb' = cb
        /\ \A e \in Chans \ {d} : q'[e] = q[e] /\ cmp'[e] = cmp[e]
    BY <1>1, <2>1, <2>2
  <2>4. \A e \in Chans \ {d} : (Quiet(e) => Quiet(e)') /\ (Pending(e) => Pending(e)')
    BY <1>2, <2>3 DEF Quiet, Pending
  <2>5. Quiet(d) => Pending(d)'
    <3> SUFFICES ASSUME Quiet(d) PROVE q'[d] = <<Batch>> /\ cb'[d] = 0 /\ cmp'[d] = 0
      BY <1>2 DEF Pending
    <3>1. q[d] = <<>> /\ cb[d] = 0
      BY DEF Quiet
    <3>2. Append(<<>>, Batch) = <<Batch>>
      OBVIOUS
    <3> QED
      BY <2>3, <3>1, <3>2
  <2>6. NoDmaInv'
    BY <1>2, <2>1 DEF NoDmaInv
  <2>7. failed \in BOOLEAN
    BY DEF IInv, TypeOK
  <2> QED
    BY <1>3, <2>1, <2>3, <2>4, <2>5, <2>6, <2>7
<1>4. CASE StartFails(d)
  <2>1. /\ failed' = TRUE /\ UNCHANGED <<q, cb, fifo, timedOut>>
        /\ \/ dma /\ (cmp' = cmp \/ cmp' = [cmp EXCEPT ![d] = 0])
           \/ ~dma /\ cmp' = cmp
    BY <1>4 DEF StartFails
  <2>2. /\ cmp' \in [Chans -> Nat] /\ (cmp'[d] = cmp[d] \/ cmp'[d] = 0)
        /\ \A e \in Chans \ {d} : cmp'[e] = cmp[e]
    <3>1. CASE cmp' = cmp
      BY <1>1, <3>1
    <3>2. CASE cmp' = [cmp EXCEPT ![d] = 0]
      BY <1>1, <3>2
    <3> QED
      BY <2>1, <3>1, <3>2
  <2>3. \A e \in Chans \ {d} : (Quiet(e) => Quiet(e)') /\ (Pending(e) => Pending(e)')
    BY <1>2, <2>1, <2>2 DEF Quiet, Pending
  <2>4. Quiet(d) => Quiet(d)'
    BY <2>1, <2>2 DEF Quiet
  <2>5. NoDmaInv'
    <3> SUFFICES ASSUME ~dma, NEW e \in Chans PROVE Quiet(e)'
      BY <1>2 DEF NoDmaInv
    <3>1. Quiet(e)
      BY DEF IInv, NoDmaInv
    <3> QED
      BY <2>3, <2>4, <3>1
  <2> QED
    BY <1>1, <1>4, <2>1, <2>2, <2>3, <2>4, <2>5
<1> QED
  BY <1>3, <1>4

LEMMA ReadNbInv == IInv /\ ReadNb => IInv'
<1> SUFFICES ASSUME IInv, ReadNb PROVE IInv'
  OBVIOUS
<1>1. pc = "read" /\ pc' = "write" /\ (StartTransfer("rx") \/ StartFails("rx")) /\ UnchangedButDma
  BY DEF ReadNb
<1>2. /\ UNCHANGED <<own, byInput, dma, d_load, num_iters, step, produced, overrun,
                     avail, taken, wrong, out, wbuf, rbuf>>
      /\ Batch' = Batch
  BY <1>1, ButDma
<1>3. "tx" \in Chans /\ "rx" \in Chans /\ "tx" \in Chans \ {"rx"}
  BY DEF Chans
<1>4. /\ q' \in [Chans -> Seq(1..MaxBatches)] /\ cmp' \in [Chans -> Nat]
      /\ UNCHANGED <<cb, fifo, timedOut>> /\ failed' \in BOOLEAN /\ (failed => failed')
      /\ q'["tx"] = q["tx"] /\ (Quiet("tx") => Quiet("tx")')
      /\ Quiet("rx") => Pending("rx")' \/ (failed' /\ Quiet("rx")')
      /\ NoDmaInv'
      /\ (q'["rx"] = Append(q["rx"], Batch) /\ failed' = failed) \/ failed' = TRUE
  BY <1>1, <1>3, StartFacts
<1>5. TypeOK'
  BY <1>1, <1>2, <1>4 DEF IInv, TypeOK
<1>6. CallInv'
  BY <1>1, <1>2, <1>4 DEF IInv, CallInv
<1>7. CopyInv'
  BY <1>1, <1>2, <1>4 DEF IInv, CopyInv
<1>8. TxInv' /\ RxInv'
  BY <1>1, <1>4 DEF IInv, TxInv, RxInv
<1>9. AlignInv'
  <2> SUFFICES ASSUME "tx" \notin timedOut, ~failed'
               PROVE  q'["rx"] = (fifo \o q["tx"]) \o <<Batch>>
    BY <1>1, <1>2, <1>4 DEF AlignInv
  <2>1. q["rx"] = fifo \o q["tx"] /\ q'["rx"] = Append(q["rx"], Batch)
    BY <1>1, <1>4 DEF IInv, AlignInv
  <2>2. q["rx"] \in Seq(1..MaxBatches) /\ Batch \in 1..MaxBatches
    BY <1>1, <1>3, ChanTypes, BatchFacts DEF IInv
  <2> QED
    BY <2>1, <2>2, AppendIsConcat
<1>10. ReceivedInv'
  <2> SUFFICES ASSUME Right' PROVE q'["rx"] # <<>>
    BY <1>1 DEF ReceivedInv
  <2>1. q'["rx"] = Append(q["rx"], Batch)
    BY <1>4 DEF Right
  <2>2. q["rx"] \in Seq(1..MaxBatches) /\ Batch \in 1..MaxBatches
    BY <1>1, <1>3, ChanTypes, BatchFacts DEF IInv
  <2> QED
    BY <2>1, <2>2, AppendProperties
<1>11. RoomInv' /\ OutInv'
  BY <1>1, <1>2, <1>4, KeptOut
<1> QED
  BY <1>4, <1>5, <1>6, <1>7, <1>8, <1>9, <1>10, <1>11 DEF IInv

LEMMA WriteInv == IInv /\ Write => IInv'
<1> SUFFICES ASSUME IInv, Write PROVE IInv'
  OBVIOUS
<1>1. /\ pc = "write" /\ UnchangedButDma
      /\ \/ StartTransfer("tx") /\ pc' = "writing"
         \/ StartFails("tx") /\ pc' = "complete"
  BY DEF Write
<1>2. /\ UNCHANGED <<own, byInput, dma, d_load, num_iters, step, produced, overrun,
                     avail, taken, wrong, out, wbuf, rbuf>>
      /\ Batch' = Batch
  BY <1>1, ButDma
<1>3. "tx" \in Chans /\ "rx" \in Chans /\ "rx" \in Chans \ {"tx"}
  BY DEF Chans
<1>4. /\ q' \in [Chans -> Seq(1..MaxBatches)] /\ cmp' \in [Chans -> Nat]
      /\ UNCHANGED <<cb, fifo, timedOut>> /\ failed' \in BOOLEAN /\ (failed => failed')
      /\ q'["rx"] = q["rx"] /\ (Quiet("rx") => Quiet("rx")') /\ (Pending("rx") => Pending("rx")')
      /\ Quiet("tx") => Pending("tx")' \/ (failed' /\ Quiet("tx")')
      /\ NoDmaInv'
      /\ \/ q'["tx"] = Append(q["tx"], Batch) /\ StartTransfer("tx") /\ failed' = failed
         \/ q'["tx"] = q["tx"] /\ failed' = TRUE /\ StartFails("tx")
  BY <1>1, <1>3, StartFacts
<1>5. /\ Batch \in 1..MaxBatches /\ Batch <= avail /\ q["tx"] \in Seq(1..MaxBatches)
      /\ fifo \in Seq(1..MaxBatches)
  BY <1>1, <1>3, ChanTypes, BatchFacts DEF IInv
<1>6. TypeOK'
  BY <1>1, <1>2, <1>4 DEF IInv, TypeOK
<1>7. CallInv'
  <2>1. \A k \in DOMAIN q["tx"] : q["tx"][k] <= avail
    BY DEF IInv, CallInv
  <2>2. \A k \in DOMAIN q'["tx"] : q'["tx"][k] <= avail
    <3>1. CASE q'["tx"] = q["tx"]
      BY <2>1, <3>1
    <3>2. CASE q'["tx"] = Append(q["tx"], Batch)
      <4> DEFINE s == q["tx"]
                 t == q'["tx"]
      <4>1. /\ t \in Seq(1..MaxBatches) /\ Len(t) = Len(s) + 1
            /\ \A k \in 1..Len(s) : t[k] = s[k]
            /\ t[Len(s) + 1] = Batch
        BY <1>5, <3>2, AppendProperties
      <4>2. Len(s) \in Nat /\ DOMAIN s = 1..Len(s) /\ DOMAIN t = 1..Len(t)
        BY <1>5, <4>1, LenProperties
      <4>3. \A k \in DOMAIN s : s[k] <= avail
        BY <2>1
      <4> HIDE DEF s, t
      <4>4. \A k \in DOMAIN t : t[k] <= avail
        BY <1>5, <4>1, <4>2, <4>3
      <4> QED
        BY <4>4 DEF t
    <3> QED
      BY <1>4, <3>1, <3>2
  <2> QED
    BY <1>1, <1>2, <2>2 DEF IInv, CallInv
<1>8. CopyInv'
  <2>1. own => wbuf = Batch
    BY <1>1 DEF IInv, CopyInv
  <2>2. Batch # 0
    BY <1>5
  <2> QED
    BY <1>2, <2>1, <2>2 DEF CopyInv
<1>9. RxInv'
  BY <1>1, <1>4 DEF IInv, RxInv
<1>10. TxInv'
  <2> SUFFICES ASSUME "tx" \notin timedOut
               PROVE  IF pc' = "writing" THEN Pending("tx")' ELSE Quiet("tx")'
    BY <1>4 DEF TxInv
  <2>1. Quiet("tx")
    BY <1>1 DEF IInv, TxInv
  <2>2. CASE StartTransfer("tx") /\ pc' = "writing"
    <3>1. q'["tx"] = <<Batch>> /\ cmp'["tx"] = 0
      <4>1. q["tx"] = <<>>
        BY <2>1 DEF Quiet
      <4>2. q'["tx"] = Append(q["tx"], Batch) /\ cmp'["tx"] = 0
        <5>1. q \in [Chans -> Seq(1..MaxBatches)] /\ cmp \in [Chans -> Nat]
          BY ChanTypes DEF IInv
        <5> QED
          BY <1>3, <2>2, <5>1 DEF StartTransfer
      <4>3. Append(<<>>, Batch) = <<Batch>>
        OBVIOUS
      <4> QED
        BY <4>1, <4>2, <4>3
    <3>2. cb'["tx"] = 0
      BY <1>4, <2>1 DEF Quiet
    <3> QED
      BY <1>2, <2>2, <3>1, <3>2 DEF Pending
  <2>3. CASE StartFails("tx") /\ pc' = "complete"
    <3>1. q'["tx"] = <<>> /\ cb'["tx"] = 0 /\ cmp'["tx"] = 0
      <4>1. cmp \in [Chans -> Nat]
        BY ChanTypes DEF IInv
      <4>2. q["tx"] = <<>> /\ cb["tx"] = 0 /\ cmp["tx"] = 0
        BY <2>1 DEF Quiet
      <4>3. /\ q' = q /\ cb' = cb
            /\ cmp' = cmp \/ cmp' = [cmp EXCEPT !["tx"] = 0]
        BY <2>3 DEF StartFails
      <4> QED
        BY <1>3, <4>1, <4>2, <4>3
    <3> QED
      BY <2>3, <3>1 DEF Quiet
  <2> QED
    BY <1>1, <2>2, <2>3
<1>11. AlignInv'
  <2> SUFFICES ASSUME "tx" \notin timedOut, ~failed'
               PROVE  q["rx"] = fifo \o q'["tx"]
    BY <1>1, <1>2, <1>4 DEF AlignInv
  <2>1. q["rx"] = (fifo \o q["tx"]) \o <<Batch>>
    BY <1>1, <1>4 DEF IInv, AlignInv
  <2>2. q["tx"] = <<>>
    BY <1>1 DEF IInv, TxInv, Quiet
  <2>3. q'["tx"] = <<Batch>>
    <3>1. q'["tx"] = Append(q["tx"], Batch)
      BY <1>4
    <3>2. Append(<<>>, Batch) = <<Batch>>
      OBVIOUS
    <3> QED
      BY <2>2, <3>1, <3>2
  <2>4. fifo \o <<>> = fifo
    BY <1>5, ConcatEmptySeq
  <2> QED
    BY <2>1, <2>2, <2>3, <2>4
<1>12. RoomInv' /\ OutInv' /\ (Right' => Right)
  BY <1>1, <1>2, <1>4, KeptOut
<1>13. ReceivedInv'
  <2>1. Received' = Received
    BY <1>2 DEF Received
  <2> QED
    BY <1>1, <1>4, <1>12, <2>1 DEF IInv, ReceivedInv
<1> QED
  BY <1>4, <1>6, <1>7, <1>8, <1>9, <1>10, <1>11, <1>12, <1>13 DEF IInv

\* wait_for_transfer on channel d: unless it times out, the one transfer there
\* may be is over and nothing of it is left.
LEMMA WaitFacts ==
  ASSUME IInv, pc # "idle", NEW d \in Chans, WaitForTransfer(d), UnchangedButDma
  PROVE  /\ UNCHANGED <<q, cb, fifo, failed>> /\ cmp' \in [Chans -> Nat]
         /\ timedOut \subseteq timedOut' /\ timedOut' \subseteq timedOut \cup {d}
         /\ \A e \in Chans \ {d} : (Quiet(e) => Quiet(e)') /\ (Pending(e) => Pending(e)')
         /\ d \notin timedOut' => ~Quiet(d) /\ (Pending(d) => q[d] = <<>> /\ Quiet(d)')
         /\ NoDmaInv'
<1>1. /\ cmp \in [Chans -> Nat] /\ \A e \in Chans : cmp[e] \in Nat /\ cb[e] \in Nat
  BY ChanTypes DEF IInv
<1>2. Batch' = Batch /\ dma' = dma
  BY ButDma
<1>3. UNCHANGED <<q, cb, fifo, failed>>
  BY DEF WaitForTransfer
<1>4. CASE cmp[d] > 0 /\ cmp' = [cmp EXCEPT ![d] = cmp[d] - 1] /\ timedOut' = timedOut
  <2>1. cmp[d] - 1 \in Nat
    BY <1>1, <1>4
  <2>2. /\ cmp' \in [Chans -> Nat] /\ cmp'[d] = cmp[d] - 1
        /\ \A e \in Chans \ {d} : cmp'[e] = cmp[e]
    BY <1>1, <1>4, <2>1
  <2>3. \A e \in Chans \ {d} : (Quiet(e) => Quiet(e)') /\ (Pending(e) => Pending(e)')
    BY <1>2, <1>3, <2>2 DEF Quiet, Pending
  <2>4. ~Quiet(d)
    BY <1>4 DEF Quiet
  <2>5. ASSUME Pending(d) PROVE q[d] = <<>> /\ Quiet(d)'
    <3>1. q[d] = <<>> /\ cb[d] = 0 /\ cmp[d] = 1
      BY <1>4, <2>5 DEF Pending
    <3>2. cmp'[d] = 0
      BY <2>2, <3>1
    <3> QED
      BY <1>3, <3>1, <3>2 DEF Quiet
  <2>6. NoDmaInv'
    BY <1>2, <2>4 DEF IInv, NoDmaInv
  <2> QED
    BY <1>3, <1>4, <2>2, <2>3, <2>4, <2>5, <2>6
<1>5. CASE cmp[d] = 0 /\ timedOut' = timedOut \cup {d} /\ cmp' = cmp
  <2>1. \A e \in Chans : (Quiet(e) => Quiet(e)') /\ (Pending(e) => Pending(e)')
    BY <1>2, <1>3, <1>5 DEF Quiet, Pending
  <2>2. NoDmaInv'
    BY <1>2, <2>1 DEF IInv, NoDmaInv
  <2> QED
    BY <1>1, <1>3, <1>5, <2>1, <2>2
<1> QED
  BY <1>4, <1>5 DEF WaitForTransfer

LEMMA WriteReturnsInv == IInv /\ WriteReturns => IInv'
<1> SUFFICES ASSUME IInv, WriteReturns PROVE IInv'
  OBVIOUS
<1>1. pc = "writing" /\ pc' = "complete" /\ WaitForTransfer("tx") /\ UnchangedButDma
  BY DEF WriteReturns
<1>2. /\ UNCHANGED <<own, byInput, dma, d_load, num_iters, step, produced, overrun,
                     avail, taken, wrong, out, wbuf, rbuf>>
      /\ Batch' = Batch
  BY <1>1, ButDma
<1>3. "tx" \in Chans /\ "rx" \in Chans /\ "rx" \in Chans \ {"tx"}
  BY DEF Chans
<1>4. /\ UNCHANGED <<q, cb, fifo, failed>> /\ cmp' \in [Chans -> Nat]
      /\ timedOut \subseteq timedOut' /\ timedOut' \subseteq timedOut \cup {"tx"}
      /\ (Quiet("rx") => Quiet("rx")') /\ (Pending("rx") => Pending("rx")')
      /\ "tx" \notin timedOut' => (Pending("tx") => q["tx"] = <<>> /\ Quiet("tx")')
      /\ NoDmaInv'
  BY <1>1, <1>3, WaitFacts
<1>5. TypeOK'
  <2>1. timedOut' \subseteq Chans
    BY <1>3, <1>4 DEF IInv, TypeOK
  <2> QED
    BY <1>1, <1>2, <1>4, <2>1 DEF IInv, TypeOK
<1>6. CallInv'
  BY <1>1, <1>2, <1>4 DEF IInv, CallInv
<1>7. CopyInv'
  BY <1>1, <1>2, <1>4 DEF IInv, CopyInv
<1>8. TxInv'
  BY <1>1, <1>4 DEF IInv, TxInv
<1>9. RxInv'
  BY <1>1, <1>4 DEF IInv, RxInv
<1>10. AlignInv'
  BY <1>1, <1>4 DEF IInv, AlignInv
<1>11. RoomInv' /\ OutInv' /\ (Right' => Right)
  BY <1>1, <1>2, <1>4, KeptOut
<1>12. ReceivedInv'
  <2>1. Received' = Received
    BY <1>2 DEF Received
  <2> QED
    BY <1>1, <1>4, <1>11, <2>1 DEF IInv, ReceivedInv
<1> QED
  BY <1>4, <1>5, <1>6, <1>7, <1>8, <1>9, <1>10, <1>11, <1>12 DEF IInv

\* The wait for the read succeeds only when the result has arrived.
LEMMA ReadCompleteInv == IInv /\ ReadComplete => IInv'
<1> SUFFICES ASSUME IInv, ReadComplete PROVE IInv'
  OBVIOUS
<1>1. /\ pc = "complete" /\ pc' = "next" /\ UnchangedButDma
      /\ \/ dma /\ WaitForTransfer("rx")
         \/ ~dma /\ failed' = TRUE /\ UNCHANGED dmaVars
  BY DEF ReadComplete
<1>2. /\ UNCHANGED <<own, byInput, dma, d_load, num_iters, step, produced, overrun,
                     avail, taken, wrong, out, wbuf, rbuf>>
      /\ Batch' = Batch
  BY <1>1, ButDma
<1>3. "tx" \in Chans /\ "rx" \in Chans /\ "tx" \in Chans \ {"rx"}
  BY DEF Chans
<1>4. /\ UNCHANGED <<q, cb, fifo>> /\ cmp' \in [Chans -> Nat]
      /\ failed' \in BOOLEAN /\ (failed => failed')
      /\ timedOut \subseteq timedOut' /\ timedOut' \subseteq timedOut \cup {"rx"}
      /\ (Quiet("tx") => Quiet("tx")')
      /\ "rx" \notin timedOut' /\ (Pending("rx") \/ Quiet("rx")) => Quiet("rx")'
      /\ "rx" \notin timedOut' /\ ~failed' => ~Quiet("rx") /\ (Pending("rx") => q["rx"] = <<>>)
      /\ NoDmaInv'
  <2>1. CASE dma /\ WaitForTransfer("rx")
    <3>1. failed \in BOOLEAN
      BY DEF IInv, TypeOK
    <3> QED
      BY <1>1, <1>3, <2>1, <3>1, WaitFacts
  <2>2. CASE ~dma /\ failed' = TRUE /\ UNCHANGED dmaVars
    <3>1. UNCHANGED <<q, cmp, cb, fifo, timedOut>>
      BY <2>2 DEF dmaVars
    <3>2. \A e \in Chans : Quiet(e)
      BY <2>2 DEF IInv, NoDmaInv
    <3>3. \A e \in Chans : Quiet(e)'
      BY <3>1, <3>2 DEF Quiet
    <3>4. NoDmaInv'
      BY <3>3 DEF NoDmaInv
    <3>5. cmp \in [Chans -> Nat]
      BY ChanTypes DEF IInv
    <3> QED
      BY <1>3, <2>2, <3>1, <3>3, <3>4, <3>5
  <2> QED
    BY <1>1, <2>1, <2>2
<1>5. TypeOK'
  <2>1. timedOut' \subseteq Chans
    BY <1>3, <1>4 DEF IInv, TypeOK
  <2> QED
    BY <1>1, <1>2, <1>4, <2>1 DEF IInv, TypeOK
<1>6. CallInv'
  BY <1>1, <1>2, <1>4 DEF IInv, CallInv
<1>7. CopyInv'
  BY <1>1, <1>2, <1>4 DEF IInv, CopyInv
<1>8. TxInv'
  BY <1>1, <1>4 DEF IInv, TxInv
<1>9. RxInv'
  BY <1>1, <1>4 DEF IInv, RxInv
<1>10. AlignInv'
  BY <1>1, <1>4 DEF IInv, AlignInv
<1>11. RoomInv' /\ OutInv' /\ (Right' => Right)
  BY <1>1, <1>2, <1>4, KeptOut
<1>12. ReceivedInv'
  <2> SUFFICES ASSUME Right' PROVE Received'
    BY <1>1 DEF ReceivedInv
  <2>1. Received' = Received
    BY <1>2 DEF Received
  <2>2. Right /\ "rx" \notin timedOut' /\ "rx" \notin timedOut /\ ~failed' /\ ~failed
    BY <1>4, <1>11 DEF Right
  <2>3. Pending("rx")
    BY <1>1, <2>2 DEF IInv, RxInv
  <2>4. q["rx"] = <<>>
    BY <1>4, <2>2, <2>3
  <2> QED
    BY <1>1, <2>1, <2>2, <2>4 DEF IInv, ReceivedInv
<1> QED
  BY <1>4, <1>5, <1>6, <1>7, <1>8, <1>9, <1>10, <1>11, <1>12 DEF IInv

\* Writing the result of the current batch to its place leaves the results of
\* the others, whose places are different while there is room.
LEMMA OutWrite ==
  ASSUME IInv, pc # "idle", ~overrun, out' = [out EXCEPT ![Slot(Batch)] = Batch]
  PROVE  /\ out'[Slot(Batch)] = Batch
         /\ \A i \in (taken + 1)..(produced + num_iters) :
              out[Slot(i)] = i => out'[Slot(i)] = i
<1>1. /\ Batch \in Nat /\ Batch >= produced + 1 /\ Batch <= produced + num_iters
      /\ Slot(Batch) \in 0..(N - 1)
  <2>1. Batch \in (produced + 1)..(produced + num_iters) /\ Batch \in Nat
    BY BatchFacts DEF IInv
  <2>2. Slot(Batch) \in 0..(N - 1)
    BY <2>1, SlotFacts
  <2>3. produced \in Nat /\ num_iters \in Nat
    BY DEF IInv, TypeOK
  <2> HIDE DEF Batch
  <2> QED
    BY <2>1, <2>2, <2>3
<1>2. /\ out \in [0..(N - 1) -> 0..MaxBatches] /\ taken \in Nat /\ produced \in Nat
      /\ num_iters \in Nat /\ N \in Nat /\ taken <= produced
  BY BlockAssumption DEF IInv, TypeOK
<1>3. produced + num_iters <= taken + N
  BY DEF IInv, RoomInv
<1>4. ASSUME NEW i \in (taken + 1)..(produced + num_iters), out[Slot(i)] = i
      PROVE  out'[Slot(i)] = i
  <2> DEFINE b == Batch
  <2>1. b \in Nat /\ b >= produced + 1 /\ b <= produced + num_iters
    BY <1>1
  <2>2. i \in Nat /\ Slot(i) \in 0..(N - 1)
    BY <1>2, SlotFacts
  <2> HIDE DEF b
  <2>3. CASE i = b
    BY <1>1, <1>2, <2>3 DEF b
  <2>4. CASE i # b
    <3>1. (i < b /\ b < i + N) \/ (b < i /\ i < b + N)
      BY <1>2, <1>3, <2>1, <2>2, <2>4
    <3>2. Slot(i) # Slot(b)
      BY <2>1, <2>2, <3>1, SlotFacts
    <3> QED
      BY <1>2, <1>4, <2>2, <3>2 DEF b
  <2> QED
    BY <2>3, <2>4
<1> QED
  BY <1>1, <1>2, <1>4

LEMMA NextBatchInv == IInv /\ NextBatch => IInv'
<1> SUFFICES ASSUME IInv, NextBatch PROVE IInv'
  OBVIOUS
<1>1. /\ pc = "next" /\ out' = IF own THEN [out EXCEPT ![Slot(Batch)] = rbuf] ELSE out
      /\ step' = step + 1
      /\ \/ pc' = FirstPc /\ produced' = produced
         \/ /\ step' = d_load * num_iters /\ pc' = "idle" /\ produced' = produced + num_iters
      /\ UNCHANGED <<progVars, num_iters, overrun, avail, taken, wrong, wbuf, rbuf, dmaVars, failed>>
  BY DEF NextBatch
<1>2. UNCHANGED <<own, byInput, dma, d_load, num_iters, overrun, avail, taken, wrong, wbuf, rbuf,
                  q, cmp, cb, fifo, timedOut, failed>>
  BY <1>1 DEF progVars, dmaVars
<1>3. /\ produced \in Nat /\ num_iters \in Nat /\ step \in Nat /\ taken \in Nat /\ avail \in Nat
      /\ avail <= MaxBatches /\ MaxBatches \in Nat /\ num_iters >= 1
      /\ produced + num_iters <= avail /\ avail <= produced + N /\ N \in Nat
      /\ taken <= produced /\ d_load \in Nat \ {0}
  BY <1>1, BlockAssumption DEF IInv, TypeOK, CallInv
<1>4. pc' \in {"idle", "copy", "read"} /\ (pc' = "copy" => own) /\ (pc' = "read" => ~own)
  BY <1>1 DEF FirstPc
<1>5. /\ Batch \in (produced + 1)..(produced + num_iters) /\ Batch \in Nat
      /\ step < num_iters => Batch = produced + 1 + step
      /\ Slot(Batch) \in 0..(N - 1)
  BY <1>1, BatchFacts, SlotFacts DEF IInv
<1>6. TypeOK'
  <2>1. out' \in [0..(N - 1) -> 0..MaxBatches]
    <3>1. out \in [0..(N - 1) -> 0..MaxBatches] /\ rbuf \in 0..MaxBatches
      BY DEF IInv, TypeOK
    <3> QED
      BY <1>1, <1>5, <3>1
  <2>2. step' \in Nat
    BY <1>1, <1>3
  <2>3. produced' \in 0..MaxBatches /\ avail \in produced'..MaxBatches /\ taken \in 0..produced'
    BY <1>1, <1>3
  <2> QED
    BY <1>2, <1>4, <2>1, <2>2, <2>3 DEF IInv, TypeOK
<1>7. CallInv'
  <2>1. avail <= produced' + N
    BY <1>1, <1>3
  <2>2. pc' # "idle" => produced' + num_iters <= avail
    BY <1>1, <1>3
  <2>3. \A k \in DOMAIN q["tx"] : q["tx"][k] <= avail
    BY DEF IInv, CallInv
  <2> QED
    BY <1>2, <1>3, <1>4, <2>1, <2>2, <2>3 DEF CallInv
<1>8. CopyInv'
  BY <1>1, <1>2, <1>4 DEF IInv, CopyInv
<1>9. TxInv' /\ RxInv' /\ NoDmaInv'
  BY <1>1, <1>2, <1>4 DEF IInv, TxInv, RxInv, NoDmaInv, Quiet
<1>10. AlignInv'
  BY <1>1, <1>2, <1>4 DEF IInv, AlignInv
<1>11. ReceivedInv'
  BY <1>4 DEF ReceivedInv
<1>12. RoomInv'
  <2>1. pc' # "idle" => produced' = produced
    BY <1>1
  <2> QED
    BY <1>1, <1>2, <2>1 DEF IInv, RoomInv
<1>13. OutInv'
  <2> SUFFICES ASSUME Right' PROVE OutInv'
    BY DEF OutInv
  <2>1. Right /\ Received /\ ~overrun
    BY <1>1, <1>2 DEF Right, IInv, ReceivedInv
  <2>2. ~wrong /\ \A i \in (taken + 1)..(produced + Done) : out[Slot(i)] = i
    BY <2>1 DEF IInv, OutInv
  <2>3. Done = IF step < num_iters THEN step ELSE num_iters
    BY <1>1 DEF Done
  <2>4. /\ out'[Slot(Batch)] = Batch
        /\ \A i \in (taken + 1)..(produced + num_iters) :
             out[Slot(i)] = i => out'[Slot(i)] = i
    <3>1. CASE own
      <4>1. out' = [out EXCEPT ![Slot(Batch)] = Batch]
        BY <1>1, <2>1, <3>1 DEF Received
      <4> QED
        BY <1>1, <2>1, <4>1, OutWrite
    <3>2. CASE ~own
      BY <1>1, <2>1, <3>2 DEF Received
    <3> QED
      BY <3>1, <3>2
  <2> DEFINE b == Batch
             e == produced' + Done'
  <2>5. e \in Nat /\ e <= produced + num_iters
    BY <1>1, <1>2, <1>3, <1>4 DEF Done
  <2> HIDE DEF b, e
  <2>6. ASSUME NEW i \in (taken + 1)..e, i # b
        PROVE  i \in (taken + 1)..(produced + Done)
    <3>1. i \in Nat /\ i >= taken + 1 /\ i <= e /\ i <= produced + num_iters
      BY <1>3, <2>5
    <3>2. CASE ~(step < num_iters)
      BY <1>3, <2>3, <3>1, <3>2
    <3>3. CASE step < num_iters
      <4>1. b = produced + 1 + step /\ Done = step
        BY <1>5, <2>3, <3>3 DEF b
      <4>2. e <= produced + step + 1
        <5>1. CASE pc' = FirstPc /\ produced' = produced
          BY <1>1, <1>2, <1>3, <1>4, <3>3, <5>1 DEF Done, e
        <5>2. CASE step' = d_load * num_iters /\ pc' = "idle" /\ produced' = produced + num_iters
          <6>1. d_load * num_iters >= num_iters
            BY <1>3
          <6>2. Done' = 0
            BY <5>2 DEF Done
          <6>3. num_iters <= step + 1
            BY <1>1, <1>3, <5>2, <6>1
          <6> QED
            BY <1>3, <5>2, <6>2, <6>3 DEF e
        <5> QED
          BY <1>1, <5>1, <5>2
      <4> QED
        BY <1>3, <2>5, <2>6, <3>1, <4>1, <4>2
    <3> QED
      BY <3>2, <3>3
  <2>7. ASSUME NEW i \in (taken + 1)..e PROVE out'[Slot(i)] = i
    <3>1. i \in (taken + 1)..(produced + num_iters)
      BY <1>3, <2>5
    <3>2. CASE i = b
      BY <2>4, <3>2 DEF b
    <3>3. CASE i # b
      BY <2>2, <2>4, <2>6, <3>1, <3>3
    <3> QED
      BY <3>2, <3>3
  <2> QED
    BY <1>2, <2>2, <2>7 DEF OutInv, e
<1> QED
  BY <1>6, <1>7, <1>8, <1>9, <1>10, <1>11, <1>12, <1>13 DEF IInv

-----------------------------------------------------------------------------
(* The engine                                                              *)

LEMMA TxFinishInv == IInv /\ TxFinish => IInv'
<1> SUFFICES ASSUME IInv, TxFinish PROVE IInv'
  OBVIOUS
<1> DEFINE s == q["tx"]
           v == IF own THEN wbuf ELSE InputAt(Head(s))
<1>1. /\ s # <<>> /\ fifo' = Append(fifo, v) /\ q' = [q EXCEPT !["tx"] = Tail(s)]
      /\ cb' = [cb EXCEPT !["tx"] = cb["tx"] + 1]
      /\ UNCHANGED <<callVars, dataVars, cmp, timedOut, failed>>
  BY DEF TxFinish
<1>2. UNCHANGED <<own, byInput, dma, d_load, pc, num_iters, step, produced, overrun,
                  avail, taken, wrong, out, wbuf, rbuf, cmp, timedOut, failed>>
  BY <1>1 DEF callVars, progVars, dataVars
<1>3. /\ "tx" \in Chans /\ "rx" \in Chans /\ q \in [Chans -> Seq(1..MaxBatches)]
      /\ cb \in [Chans -> Nat] /\ fifo \in Seq(1..MaxBatches) /\ s \in Seq(1..MaxBatches)
      /\ cb["tx"] \in Nat /\ MaxBatches \in Nat
  BY ChanTypes, BlockAssumption DEF IInv
<1>4. /\ Head(s) \in 1..MaxBatches /\ Tail(s) \in Seq(1..MaxBatches) /\ Len(Tail(s)) = Len(s) - 1
      /\ \A k \in 1..Len(Tail(s)) : Tail(s)[k] = s[k + 1]
  BY <1>1, <1>3, HeadTailProperties
<1>5. /\ Len(s) \in Nat \ {0} /\ DOMAIN s = 1..Len(s) /\ DOMAIN Tail(s) = 1..Len(Tail(s))
      /\ Head(s) = s[1]
  BY <1>1, <1>3, <1>4, EmptySeq, LenProperties
<1>6. /\ \A k \in DOMAIN s : s[k] <= avail
      /\ own => wbuf # 0 /\ wbuf \in 0..MaxBatches
  BY <1>1 DEF IInv, CallInv, CopyInv, TypeOK
<1>7. v \in 1..MaxBatches
  <2>1. CASE own
    <3>1. wbuf \in 1..MaxBatches
      BY <1>3, <1>6, <2>1
    <3> QED
      BY <2>1, <3>1
  <2>2. CASE ~own
    <3>1. 1 \in DOMAIN s
      BY <1>5
    <3>2. Head(s) <= avail
      BY <1>5, <1>6, <3>1
    <3>3. InputAt(Head(s)) \in 1..MaxBatches
      BY <1>4, <3>2, InputFacts DEF IInv
    <3> QED
      BY <2>2, <3>3
  <2> QED
    BY <2>1, <2>2
<1>8. ASSUME "tx" \notin timedOut
      PROVE  /\ pc = "writing" /\ s = <<Batch>> /\ cb["tx"] = 0 /\ cmp["tx"] = 0
             /\ v = Batch /\ Tail(s) = <<>>
  <2>1. pc = "writing" /\ s = <<Batch>> /\ cb["tx"] = 0 /\ cmp["tx"] = 0
    BY <1>1, <1>8 DEF IInv, TxInv, Pending, Quiet
  <2>2. Head(s) = Batch /\ Tail(s) = <<>>
    BY <2>1
  <2>3. InputAt(Batch) = Batch /\ (own => wbuf = Batch)
    BY <2>1, InputFacts DEF IInv, CopyInv
  <2> QED
    BY <2>1, <2>2, <2>3
<1> HIDE DEF v
<1>9. /\ fifo' \in Seq(1..MaxBatches) /\ q' \in [Chans -> Seq(1..MaxBatches)]
      /\ cb' \in [Chans -> Nat] /\ q'["tx"] = Tail(s) /\ q'["rx"] = q["rx"]
      /\ cb'["tx"] = cb["tx"] + 1 /\ cb'["rx"] = cb["rx"]
  <2>1. Append(fifo, v) \in Seq(1..MaxBatches)
    BY <1>3, <1>7, AppendProperties
  <2>2. cb["tx"] + 1 \in Nat
    BY <1>3
  <2> QED
    BY <1>1, <1>3, <1>4, <2>1, <2>2
<1>10. Batch' = Batch
  BY <1>2 DEF Batch
<1>11. TypeOK'
  BY <1>2, <1>9 DEF IInv, TypeOK
<1>12. CallInv'
  <2>1. \A k \in DOMAIN q'["tx"] : q'["tx"][k] <= avail
    <3> SUFFICES ASSUME NEW k \in DOMAIN Tail(s) PROVE Tail(s)[k] <= avail
      BY <1>9
    <3>1. k \in 1..Len(Tail(s)) /\ k + 1 \in DOMAIN s
      BY <1>4, <1>5
    <3> QED
      BY <1>4, <1>6, <3>1
  <2> QED
    BY <1>2, <2>1 DEF IInv, CallInv
<1>13. CopyInv'
  BY <1>2, <1>6, <1>10 DEF IInv, CopyInv
<1>14. TxInv'
  <2> SUFFICES ASSUME "tx" \notin timedOut PROVE pc' = "writing" /\ Pending("tx")'
    BY <1>2 DEF TxInv
  <2>1. Tail(s) = <<>>
    BY <1>8
  <2>2. cb'["tx"] = 1 /\ cmp'["tx"] = 0
    BY <1>2, <1>8, <1>9
  <2> QED
    BY <1>2, <1>8, <1>9, <2>1, <2>2 DEF Pending
<1>15. RxInv'
  <2>1. (Quiet("rx") => Quiet("rx")') /\ (Pending("rx") => Pending("rx")')
    BY <1>2, <1>9, <1>10 DEF Quiet, Pending
  <2> QED
    BY <1>2, <2>1 DEF IInv, RxInv
<1>16. NoDmaInv'
  BY <1>1, <1>2, <1>3 DEF IInv, NoDmaInv, Quiet
<1>17. AlignInv'
  <2> SUFFICES ASSUME "tx" \notin timedOut, ~failed PROVE q["rx"] = fifo' \o q'["tx"]
    BY <1>2, <1>8, <1>9 DEF AlignInv
  <2>1. q["rx"] = fifo \o <<Batch>> /\ v = Batch /\ Tail(s) = <<>>
    <3>1. pc # "write" /\ q["tx"] = <<Batch>> /\ v = Batch /\ Tail(s) = <<>>
      BY <1>8
    <3>2. q["rx"] = fifo \o q["tx"]
      BY <3>1 DEF IInv, AlignInv
    <3> QED
      BY <3>1, <3>2
  <2>2. fifo' = fifo \o <<Batch>>
    BY <1>1, <1>3, <1>7, <2>1, AppendIsConcat
  <2>3. fifo' \o <<>> = fifo'
    BY <1>9, ConcatEmptySeq
  <2> QED
    BY <1>9, <2>1, <2>2, <2>3
<1>18. RoomInv' /\ OutInv' /\ (Right' => Right)
  BY <1>2, KeptOut
<1>19. ReceivedInv'
  <2>1. Received' = Received
    BY <1>2, <1>10 DEF Received
  <2> QED
    BY <1>2, <1>9, <1>18, <2>1 DEF IInv, ReceivedInv
<1> QED
  BY <1>11, <1>12, <1>13, <1>14, <1>15, <1>16, <1>17, <1>18, <1>19 DEF IInv

\* The result that arrives is that of the batch whose read is first.
LEMMA RxFinishInv == IInv /\ RxFinish => IInv'
<1> SUFFICES ASSUME IInv, RxFinish PROVE IInv'
  OBVIOUS
<1> DEFINE s == q["rx"]
<1>1. /\ s # <<>> /\ fifo # <<>> /\ fifo' = Tail(fifo) /\ q' = [q EXCEPT !["rx"] = Tail(s)]
      /\ cb' = [cb EXCEPT !["rx"] = cb["rx"] + 1]
      /\ IF own THEN rbuf' = Head(fifo) /\ out' = out
         ELSE out' = [out EXCEPT ![Slot(Head(s))] = Head(fifo)] /\ rbuf' = rbuf
      /\ UNCHANGED <<callVars, avail, taken, wrong, wbuf, cmp, timedOut, failed>>
  BY DEF RxFinish
<1>2. UNCHANGED <<own, byInput, dma, d_load, pc, num_iters, step, produced, overrun,
                  avail, taken, wrong, wbuf, cmp, timedOut, failed>>
  BY <1>1 DEF callVars, progVars
<1>3. /\ "tx" \in Chans /\ "rx" \in Chans /\ q \in [Chans -> Seq(1..MaxBatches)]
      /\ cb \in [Chans -> Nat] /\ fifo \in Seq(1..MaxBatches) /\ s \in Seq(1..MaxBatches)
      /\ cb["rx"] \in Nat /\ MaxBatches \in Nat /\ q["tx"] \in Seq(1..MaxBatches)
  BY ChanTypes, BlockAssumption DEF IInv
<1>4. /\ Head(s) \in 1..MaxBatches /\ Tail(s) \in Seq(1..MaxBatches)
      /\ Head(fifo) \in 1..MaxBatches /\ Tail(fifo) \in Seq(1..MaxBatches)
  BY <1>1, <1>3, HeadTailProperties
<1>5. /\ fifo' \in Seq(1..MaxBatches) /\ q' \in [Chans -> Seq(1..MaxBatches)]
      /\ cb' \in [Chans -> Nat] /\ q'["rx"] = Tail(s) /\ q'["tx"] = q["tx"]
      /\ cb'["rx"] = cb["rx"] + 1 /\ cb'["tx"] = cb["tx"]
  <2>1. cb["rx"] + 1 \in Nat
    BY <1>3
  <2> QED
    BY <1>1, <1>3, <1>4, <2>1
<1>6. Batch' = Batch
  BY <1>2 DEF Batch
<1>7. TypeOK'
  <2>1. Slot(Head(s)) \in 0..(N - 1)
    <3>1. Head(s) \in Nat
      BY <1>3, <1>4
    <3> HIDE DEF s
    <3> QED
      BY <3>1, SlotFacts
  <2>2. out \in [0..(N - 1) -> 0..MaxBatches] /\ rbuf \in 0..MaxBatches
    BY DEF IInv, TypeOK
  <2>3. Head(fifo) \in 0..MaxBatches
    BY <1>3, <1>4
  <2>4. out' \in [0..(N - 1) -> 0..MaxBatches] /\ rbuf' \in 0..MaxBatches
    BY <1>1, <2>1, <2>2, <2>3
  <2> QED
    BY <1>2, <1>5, <2>4 DEF IInv, TypeOK
<1>8. CallInv' /\ CopyInv'
  BY <1>2, <1>5, <1>6 DEF IInv, CallInv, CopyInv
<1>9. TxInv'
  <2>1. (Quiet("tx") => Quiet("tx")') /\ (Pending("tx") => Pending("tx")')
    BY <1>2, <1>5, <1>6 DEF Quiet, Pending
  <2> QED
    BY <1>2, <2>1 DEF IInv, TxInv
<1>10. ASSUME "rx" \notin timedOut
       PROVE  /\ pc \in {"write", "writing", "complete"} /\ s = <<Batch>>
              /\ Head(s) = Batch /\ Tail(s) = <<>> /\ Pending("rx")'
  <2>1. /\ pc \in {"write", "writing", "complete"} /\ s = <<Batch>>
        /\ cb["rx"] = 0 /\ cmp["rx"] = 0
    BY <1>1, <1>10 DEF IInv, RxInv, Pending, Quiet
  <2>2. Head(s) = Batch /\ Tail(s) = <<>>
    BY <2>1
  <2>3. q'["rx"] = <<>> /\ cb'["rx"] = 1 /\ cmp'["rx"] = 0
    BY <1>2, <1>5, <2>1, <2>2
  <2>4. Pending("rx")'
    BY <2>3 DEF Pending
  <2> QED
    BY <2>1, <2>2, <2>4
<1>11. RxInv'
  BY <1>2, <1>10 DEF RxInv
<1>12. NoDmaInv'
  BY <1>1, <1>2, <1>3 DEF IInv, NoDmaInv, Quiet
<1>13. ASSUME "tx" \notin timedOut, ~failed
       PROVE  /\ Head(s) = Head(fifo)
              /\ pc = "write" => Tail(s) = (Tail(fifo) \o q["tx"]) \o <<Batch>>
              /\ pc # "write" => Tail(s) = Tail(fifo) \o q["tx"]
  <2> DEFINE u == fifo \o q["tx"]
  <2>1. /\ u \in Seq(1..MaxBatches) /\ u # <<>> /\ Head(u) = Head(fifo)
        /\ Tail(u) = Tail(fifo) \o q["tx"]
    BY <1>1, <1>3, HeadTailOfConcat
  <2>2. CASE pc = "write"
    <3>1. s = u \o <<Batch>>
      BY <1>13, <2>2 DEF IInv, AlignInv
    <3>2. <<Batch>> \in Seq(1..MaxBatches)
      <4>1. Batch \in 1..MaxBatches
        BY <2>2, BatchFacts DEF IInv
      <4> QED
        BY <4>1
    <3> HIDE DEF u
    <3>3. Head(u \o <<Batch>>) = Head(u) /\ Tail(u \o <<Batch>>) = Tail(u) \o <<Batch>>
      BY <2>1, <3>2, HeadTailOfConcat
    <3> QED
      BY <2>1, <2>2, <3>1, <3>3
  <2>3. CASE pc # "write"
    <3>1. s = u
      BY <1>13, <2>3 DEF IInv, AlignInv
    <3> QED
      BY <2>1, <2>3, <3>1
  <2> QED
    BY <2>2, <2>3
<1>14. AlignInv'
  <2> SUFFICES ASSUME "tx" \notin timedOut, ~failed
               PROVE  /\ pc = "write" => q'["rx"] = (fifo' \o q'["tx"]) \o <<Batch>>
                      /\ pc # "write" => q'["rx"] = fifo' \o q'["tx"]
    BY <1>2, <1>6 DEF AlignInv
  <2> QED
    BY <1>1, <1>5, <1>13
<1>15. Right' => Right
  BY <1>2 DEF Right
<1>16. ASSUME Right
       PROVE  /\ pc \in {"write", "writing", "complete"} /\ ~overrun
              /\ IF own THEN rbuf' = Batch /\ out' = out
                 ELSE out' = [out EXCEPT ![Slot(Batch)] = Batch] /\ rbuf' = rbuf
  <2>1. "tx" \notin timedOut /\ "rx" \notin timedOut /\ ~failed /\ ~overrun
    BY <1>16 DEF Right
  <2>2. Head(s) = Batch /\ Head(fifo) = Batch /\ pc \in {"write", "writing", "complete"}
    BY <1>10, <1>13, <2>1
  <2> QED
    BY <1>1, <2>1, <2>2
<1>17. ReceivedInv'
  <2> SUFFICES ASSUME Right PROVE Received'
    BY <1>15 DEF ReceivedInv
  <2>1. CASE own
    BY <1>2, <1>6, <1>16, <2>1 DEF Received
  <2>2. CASE ~own
    <3>1. out'[Slot(Batch)] = Batch
      BY <1>16, <2>2, OutWrite
    <3> QED
      BY <1>2, <1>6, <2>2, <3>1 DEF Received
  <2> QED
    BY <2>1, <2>2
<1>18. RoomInv'
  BY <1>2 DEF IInv, RoomInv
<1>19. OutInv'
  <2> SUFFICES ASSUME Right PROVE OutInv'
    BY <1>15 DEF OutInv
  <2>1. ~wrong /\ \A i \in (taken + 1)..(produced + Done) : out[Slot(i)] = i
    BY DEF IInv, OutInv
  <2>2. Done' = Done
    BY <1>2 DEF Done
  <2>3. CASE own
    BY <1>2, <1>16, <2>1, <2>2, <2>3 DEF OutInv
  <2>4. CASE ~own
    <3>1. \A i \in (taken + 1)..(produced + num_iters) : out[Slot(i)] = i => out'[Slot(i)] = i
      BY <1>16, <2>4, OutWrite
    <3>2. (taken + 1)..(produced + Done) \subseteq (taken + 1)..(produced + num_iters)
      <4>1. taken \in Nat /\ produced \in Nat /\ num_iters \in Nat /\ step \in Nat
        BY DEF IInv, TypeOK
      <4>2. Done \in Nat /\ Done <= num_iters
        BY <4>1 DEF Done
      <4> QED
        BY <4>1, <4>2
    <3>3. \A i \in (taken + 1)..(produced + Done) : out'[Slot(i)] = i
      BY <2>1, <3>1, <3>2
    <3> QED
      BY <1>2, <2>1, <2>2, <3>3 DEF OutInv
  <2> QED
    BY <2>3, <2>4
<1> QED
  BY <1>7, <1>8, <1>9, <1>11, <1>12, <1>14, <1>17, <1>18, <1>19 DEF IInv

LEMMA CallbackInv ==
  ASSUME IInv, NEW d \in Chans, Callback(d)
  PROVE  IInv'
<1>1. /\ cb[d] > 0 /\ cb' = [cb EXCEPT ![d] = cb[d] - 1] /\ cmp' = [cmp EXCEPT ![d] = cmp[d] + 1]
      /\ UNCHANGED <<callVars, dataVars, q, fifo, timedOut, failed>>
  BY DEF Callback
<1>2. UNCHANGED <<own, byInput, dma, d_load, pc, num_iters, step, produced, overrun,
                  avail, taken, wrong, out, wbuf, rbuf, q, fifo, timedOut, failed>>
  BY <1>1 DEF callVars, progVars, dataVars
<1>3. /\ cmp \in [Chans -> Nat] /\ cb \in [Chans -> Nat] /\ cb[d] \in Nat /\ cmp[d] \in Nat
      /\ "tx" \in Chans /\ "rx" \in Chans
  BY ChanTypes DEF IInv
<1>4. /\ cmp' \in [Chans -> Nat] /\ cb' \in [Chans -> Nat]
      /\ cb'[d] = cb[d] - 1 /\ cmp'[d] = cmp[d] + 1
      /\ \A e \in Chans \ {d} : cb'[e] = cb[e] /\ cmp'[e] = cmp[e]
  <2>1. cb[d] - 1 \in Nat /\ cmp[d] + 1 \in Nat
    BY <1>1, <1>3
  <2> QED
    BY <1>1, <1>3, <2>1
<1>5. Batch' = Batch
  BY <1>2 DEF Batch
<1>6. \A e \in Chans : (Quiet(e) => Quiet(e)') /\ (Pending(e) => Pending(e)')
  <2>1. \A e \in Chans \ {d} : (Quiet(e) => Quiet(e)') /\ (Pending(e) => Pending(e)')
    BY <1>2, <1>4, <1>5 DEF Quiet, Pending
  <2>2. ~Quiet(d)
    BY <1>1 DEF Quiet
  <2>3. ASSUME Pending(d) PROVE Pending(d)'
    <3>1. q[d] = <<>> /\ cb[d] = 1 /\ cmp[d] = 0
      BY <1>1, <2>3 DEF Pending
    <3>2. q'[d] = <<>> /\ cb'[d] = 0 /\ cmp'[d] = 1
      BY <1>2, <1>4, <3>1
    <3> QED
      BY <3>2 DEF Pending
  <2> QED
    BY <2>1, <2>2, <2>3
<1>7. TypeOK'
  BY <1>2, <1>4 DEF IInv, TypeOK
<1>8. CallInv' /\ CopyInv'
  BY <1>2, <1>5 DEF IInv, CallInv, CopyInv
<1>9. TxInv' /\ RxInv' /\ NoDmaInv'
  BY <1>2, <1>3, <1>6 DEF IInv, TxInv, RxInv, NoDmaInv
<1>10. AlignInv'
  BY <1>2, <1>5 DEF IInv, AlignInv
<1>11. RoomInv' /\ OutInv' /\ (Right' => Right)
  BY <1>2, KeptOut
<1>12. ReceivedInv'
  <2>1. Received' = Received
    BY <1>2, <1>5 DEF Received
  <2> QED
    BY <1>2, <1>11, <2>1 DEF IInv, ReceivedInv
<1> QED
  BY <1>7, <1>8, <1>9, <1>10, <1>11, <1>12 DEF IInv

-----------------------------------------------------------------------------
(* The theorems                                                            *)

LEMMA InvStep == IInv /\ [Next]_vars => IInv'
<1> SUFFICES ASSUME IInv, [Next]_vars PROVE IInv'
  OBVIOUS
<1>1. CASE Source
  BY <1>1, SourceInv
<1>2. CASE Sink
  BY <1>2, SinkInv
<1>3. CASE Work
  BY <1>3, WorkInv
<1>4. CASE BlockStep
  BY <1>4, CopyInInv, ReadNbInv, WriteInv, WriteReturnsInv, ReadCompleteInv, NextBatchInv
     DEF BlockStep
<1>5. CASE TxFinish
  BY <1>5, TxFinishInv
<1>6. CASE RxFinish
  BY <1>6, RxFinishInv
<1>7. CASE \E d \in Chans : Callback(d)
  BY <1>7, CallbackInv
<1>8. CASE UNCHANGED vars
  <2>1. UNCHANGED <<own, byInput, dma, d_load, pc, num_iters, step, produced, overrun, avail,
                    taken, wrong, out, wbuf, rbuf, q, cmp, cb, fifo, timedOut, failed>>
    BY <1>8 DEF vars, callVars, progVars, dataVars, dmaVars
  <2>2. TypeOK' /\ CallInv'
    BY <2>1 DEF IInv, TypeOK, CallInv
  <2>3. CopyInv' /\ TxInv' /\ RxInv' /\ NoDmaInv' /\ AlignInv'
    BY <2>1, KeptDma DEF progVars, dmaVars
  <2>4. RoomInv' /\ OutInv' /\ (Right' => Right)
    BY <2>1, KeptOut
  <2>5. ReceivedInv'
    BY <2>1, <2>4 DEF IInv, ReceivedInv, Received, Batch
  <2> QED
    BY <2>2, <2>3, <2>4, <2>5 DEF IInv
<1> QED
  BY <1>1, <1>2, <1>3, <1>4, <1>5, <1>6, <1>7, <1>8 DEF Next

LEMMA InvHolds == Spec => []IInv
  BY InvInit, InvStep, PTL DEF Spec

\* The variables of the call, the stream and the engine keep their types: in
\* particular no place outside the stream's buffers is read or written.
THEOREM TypeCorrect == Spec => []TypeOK
<1>1. IInv => TypeOK
  BY DEF IInv
<1> QED
  BY <1>1, InvHolds, PTL

\* The sink gets the results of the batches in their order, however GNU Radio
\* cuts the stream into calls of general_work, as long as no call failed,
\* timed out or had more input than room for output.
THEOREM OutputInOrderHolds == Spec => []OutputInOrder
<1>1. IInv => OutputInOrder
  BY DEF IInv, OutInv, Right, OutputInOrder
<1> QED
  BY <1>1, InvHolds, PTL

\* As long as no dmap_write has timed out and no call has returned an error,
\* every read with the engine is for the batch whose result it will get,
\* however many dmap_read_complete have timed out.  Where a late result is
\* then used is not part of this.
THEOREM AlignedHolds == Spec => []Aligned
<1>1. ASSUME IInv PROVE Aligned
  <2> SUFFICES ASSUME "tx" \notin timedOut, ~failed
               PROVE  q["rx"] = (fifo \o q["tx"]) \o (IF pc = "write" THEN <<Batch>> ELSE <<>>)
    BY DEF Aligned
  <2>1. CASE pc = "write"
    BY <1>1, <2>1 DEF IInv, AlignInv
  <2>2. CASE pc # "write"
    <3>1. fifo \in Seq(1..MaxBatches) /\ q["tx"] \in Seq(1..MaxBatches)
      BY <1>1, ChanTypes DEF IInv
    <3>2. fifo \o q["tx"] \in Seq(1..MaxBatches)
      BY <3>1, ConcatProperties
    <3>3. (fifo \o q["tx"]) \o <<>> = fifo \o q["tx"]
      BY <3>2, ConcatEmptySeq
    <3> QED
      BY <1>1, <2>2, <3>3 DEF IInv, AlignInv
  <2> QED
    BY <2>1, <2>2
<1> QED
  BY <1>1, InvHolds, PTL

\* Until a wait times out, the engine has a transfer only during general_work
\* and only of the batch the loop is at, also when calls fail.
THEOREM DmaInsideCallHolds == Spec => []DmaInsideCall
<1>1. ASSUME IInv PROVE DmaInsideCall
  <2> SUFFICES ASSUME timedOut = {}, NEW d \in Chans, NEW i \in DOMAIN q[d]
               PROVE  pc # "idle" /\ q[d][i] = Batch
    BY DEF DmaInsideCall
  <2>1. d = "tx" \/ d = "rx"
    BY DEF Chans
  <2>2. q[d] # <<>>
    OBVIOUS
  <2>3. pc # "idle" /\ q[d] = <<Batch>>
    BY <1>1, <2>1, <2>2 DEF IInv, TxInv, RxInv, Pending, Quiet
  <2> QED
    BY <2>3
<1> QED
  BY <1>1, InvHolds, PTL

=============================================================================
