------------------------------ MODULE ZynqBlock ------------------------------
(***************************************************************************)
(* general_work of the hardware blocks of gr-zynq, and the programs        *)
(* dma-proxy-util-file and dma-proxy-util-nb, over both DMA channels of a  *)
(* device: for each batch start the read, write the batch, wait for the    *)
(* read.  Every return code is logged and ignored.                         *)
(*                                                                         *)
(* Everything is counted in batches (d_batch_size, d_fft_size, ... items). *)
(* A program has its device for itself, so that it finds the channels free *)
(* (sharing is the subject of DmaProxyLib).  Of the driver there remains   *)
(* what such a caller sees: transfers that a channel does in order, the    *)
(* completion, and the timeout, after which the transfer stays with the    *)
(* engine.  The accelerator answers each batch it is sent by one result:   *)
(* the result of batch i is written i, and 0 is no result at all.          *)
(***************************************************************************)
EXTENDS Integers, FiniteSets, SequencesExt

CONSTANTS MaxBatches,   \* bound: length of the stream
          MaxTransfers, \* bound: transfers on a channel
          N,            \* size of the stream's buffers
          Loads,        \* values of the parameter d_load
          Programs      \* the programs considered

(***************************************************************************)
(* Where the programs differ: own, data is copied to and from the          *)
(* program's own DMA buffers (otherwise the DMA works on the stream's      *)
(* buffers); byInput, the input alone says how many batches are done;      *)
(* dma, may the buffers be DMA buffers, or not; load, the batches of a     *)
(* call are done d_load times.                                             *)
(***************************************************************************)
loopback   == [own |-> FALSE, byInput |-> FALSE, dma |-> {TRUE}, load |-> Loads]
legacy     == [own |-> TRUE,  byInput |-> FALSE, dma |-> {TRUE}, load |-> Loads]
fft        == [own |-> FALSE, byInput |-> FALSE, dma |-> {TRUE}, load |-> {1}]
matrix_inv == [own |-> FALSE, byInput |-> FALSE, dma |-> {TRUE}, load |-> {1}]
\* Its signature does not ask for zynq_buffer: it depends on its neighbours.
\* What it writes of a batch of CW_BITS floats is CW_BITS bytes; which part of
\* the batch the accelerator gets is left out, as is what it makes of it.
TC_decoder == [own |-> FALSE, byInput |-> TRUE, dma |-> BOOLEAN, load |-> {1}]
\* Its loop over the file is taken in parts.
util_file  == [own |-> TRUE,  byInput |-> FALSE, dma |-> {TRUE}, load |-> {1}]
\* Each run of it is one batch: a pattern is written, received and compared.
util_nb    == [own |-> TRUE,  byInput |-> FALSE, dma |-> {TRUE}, load |-> {1}]

ProgramSet == {loopback, legacy, fft, matrix_inv, TC_decoder, util_file,
               util_nb}

ASSUME BlockAssumption == /\ MaxBatches \in Nat /\ MaxTransfers \in Nat
                          /\ N \in Nat \ {0}
                          /\ Loads \subseteq Nat \ {0}
                          /\ Programs \subseteq ProgramSet

VARIABLES own, byInput, dma, d_load,  \* the program, chosen at the start
          pc, num_iters, step, \* the call: step counts over d_load * num_iters
          avail,      \* input batches the source has put into the buffer
          produced,   \* batches the returned calls consumed and produced
          taken,      \* output batches the sink has taken
          wrong,      \* history: one of them was not the result of its batch
          out,        \* output buffer of the stream
          wbuf, rbuf, \* the program's own buffers (own)
          q,          \* per channel, the transfers with the engine, by batch
          cmp,        \* per channel, the completion
          cb,         \* per channel, callbacks that have still to run
          fifo,       \* results in the accelerator
          timedOut,   \* history: channels on which a wait has timed out
          failed,     \* history: some call of the library returned an error
          overrun     \* history: a call has produced more than there was room

progVars == <<own, byInput, dma, d_load>>
callVars == <<progVars, pc, num_iters, step, produced, overrun>>
dataVars == <<avail, taken, wrong, out, wbuf, rbuf>>
dmaVars  == <<q, cmp, cb, fifo, timedOut>>
vars     == <<callVars, dataVars, dmaVars, failed>>

Chans == {"tx", "rx"}

Init == /\ \E p \in Programs : /\ own = p.own /\ byInput = p.byInput
                                /\ dma \in p.dma /\ d_load \in p.load
        /\ pc = "idle" /\ num_iters = 0 /\ step = 0
        /\ avail = 0 /\ produced = 0 /\ taken = 0
        /\ wrong = FALSE
        /\ out = [s \in 0..(N - 1) |-> 0]
        /\ wbuf = 0 /\ rbuf = 0
        /\ q = [d \in Chans |-> <<>>]
        /\ cmp = [d \in Chans |-> 0] /\ cb = [d \in Chans |-> 0]
        /\ fifo = <<>>
        /\ timedOut = {} /\ failed = FALSE /\ overrun = FALSE

\* The source and the sink of the stream, which GNU Radio schedules freely.
Source == /\ avail < MaxBatches /\ avail < produced + N
          /\ avail' = avail + 1
          /\ UNCHANGED <<callVars, taken, wrong, out, wbuf, rbuf, dmaVars, failed>>

\* The place of batch i.  zynq_buffer moves data down to the start of the
\* buffer when it is blocked, which GNU Radio lets it do between calls of the
\* blocks only: short of a timeout no transfer is under way then
\* (DmaInsideCall), so that places that stay make no difference to
\* OutputInOrder.
Slot(i) == i % N

Sink == /\ taken < produced
        /\ taken' = taken + 1
        /\ wrong' = (wrong \/ out[Slot(taken + 1)] # taken + 1)
        /\ UNCHANGED <<callVars, avail, out, wbuf, rbuf, dmaVars, failed>>

\* What the place of input batch i holds now: i, or what came N later.
InputAt(i) == i + N * ((avail - i) \div N)

-----------------------------------------------------------------------------
(* general_work                                                            *)

NumIters(noutput, ninput) == IF byInput THEN ninput ELSE noutput

FirstPc == IF own THEN "copy" ELSE "read"

\* GNU Radio calls with room for noutput batches, and at least as many on
\* the input, which is what forecast asks for.
Work ==
  /\ pc = "idle"
  /\ \E noutput \in 1..(N - (produced - taken)) :
       /\ noutput <= avail - produced
       /\ num_iters' = NumIters(noutput, avail - produced)
  /\ (produced + num_iters') * d_load <= MaxTransfers
  /\ overrun' = (overrun \/ produced + num_iters' - taken > N)
  /\ step' = 0
  /\ pc' = FirstPc
  /\ UNCHANGED <<progVars, produced, dataVars, dmaVars, failed>>

\* Mutant: every batch of a call is done at the place of the first.
Batch_NoOffset == produced + 1

\* The batch the loop is at: iter_idx is step modulo num_iters.
Batch == produced + 1 + (step % num_iters)

\* memcpy, or fread, into the program's buffer.
CopyIn ==
  /\ pc = "copy"
  /\ wbuf' = InputAt(Batch)
  /\ pc' = "read"
  /\ UNCHANGED <<progVars, num_iters, step, produced, overrun,
                 avail, taken, wrong, out, rbuf, dmaVars, failed>>

\* start_transfer on channel d: the completion is initialised and the
\* transfer queued.
StartTransfer(d) ==
  /\ dma
  /\ q' = [q EXCEPT ![d] = Append(@, Batch)]
  /\ cmp' = [cmp EXCEPT ![d] = 0]
  /\ UNCHANGED <<cb, fifo, timedOut, failed>>

\* It fails, before or after the completion is initialised, or the buffer is
\* not one that dmap_alloc_buffer made (DMAP_INVALID_BUF_PTR).
StartFails(d) ==
  /\ \/ dma /\ cmp' \in {cmp, [cmp EXCEPT ![d] = 0]}
     \/ ~dma /\ UNCHANGED cmp
  /\ failed' = TRUE
  /\ UNCHANGED <<q, cb, fifo, timedOut>>

UnchangedButDma == UNCHANGED <<progVars, num_iters, step, produced, overrun, dataVars>>

\* dmap_read_nb
ReadNb == /\ pc = "read"
          /\ pc' = "write"
          /\ StartTransfer("rx") \/ StartFails("rx")
          /\ UnchangedButDma

\* dmap_write, up to the wait
Write == /\ pc = "write"
         /\ \/ StartTransfer("tx") /\ pc' = "writing"
            \/ StartFails("tx") /\ pc' = "complete"
         /\ UnchangedButDma

\* Mutants: the wait has no timeout; the wait is left out.
WaitForTransfer_NoTimeout(d) ==
  /\ cmp[d] > 0 /\ cmp' = [cmp EXCEPT ![d] = @ - 1]
  /\ UNCHANGED <<timedOut, q, cb, fifo, failed>>

WaitForTransfer_NoWait(d) ==
  /\ UNCHANGED <<cmp, timedOut, q, cb, fifo, failed>>

\* wait_for_transfer: a completion, whichever transfer's it is, or the
\* timeout.  The ioctl returns 0 in both cases.
WaitForTransfer(d) ==
  /\ \/ cmp[d] > 0 /\ cmp' = [cmp EXCEPT ![d] = @ - 1] /\ UNCHANGED timedOut
     \/ cmp[d] = 0 /\ timedOut' = timedOut \cup {d} /\ UNCHANGED cmp
  /\ UNCHANGED <<q, cb, fifo, failed>>

\* dmap_write, the rest
WriteReturns == /\ pc = "writing"
                /\ WaitForTransfer("tx")
                /\ pc' = "complete"
                /\ UnchangedButDma

\* What dmap_read_complete returns: 0 or DMAP_INVALID_BUF_PTR.
rc == IF dma THEN 0 ELSE 2

\* dmap_read_complete
ReadComplete == /\ pc = "complete"
                /\ \/ dma /\ WaitForTransfer("rx")
                   \/ ~dma /\ failed' = TRUE /\ UNCHANGED dmaVars
                /\ pc' = "next"
                /\ UnchangedButDma

\* Mutant: batches that are done d_load times are counted as often.
NextBatch_CountsLoads ==
  /\ pc = "next"
  /\ out' = IF own THEN [out EXCEPT ![Slot(Batch)] = rbuf] ELSE out
  /\ step' = step + 1
  /\ \/ /\ step' < d_load * num_iters
        /\ pc' = FirstPc
        /\ UNCHANGED produced
     \/ /\ step' = d_load * num_iters
        /\ pc' = "idle"
        /\ produced' = produced + step'
  /\ UNCHANGED <<progVars, num_iters, overrun,
                 avail, taken, wrong, wbuf, rbuf, dmaVars, failed>>

\* memcpy, or fwrite, out of the program's buffer; the next batch, or the
\* end of the call: consume_each and return.
NextBatch ==
  /\ pc = "next"
  /\ out' = IF own THEN [out EXCEPT ![Slot(Batch)] = rbuf] ELSE out
  /\ step' = step + 1
  /\ \/ /\ step' < d_load * num_iters
        /\ pc' = FirstPc
        /\ UNCHANGED produced
     \/ /\ step' = d_load * num_iters
        /\ pc' = "idle"
        /\ produced' = produced + num_iters
  /\ UNCHANGED <<progVars, num_iters, overrun,
                 avail, taken, wrong, wbuf, rbuf, dmaVars, failed>>

-----------------------------------------------------------------------------
(* The engine and the accelerator                                          *)

TxFinish ==
  /\ q["tx"] # <<>>
  /\ fifo' = Append(fifo, IF own THEN wbuf ELSE InputAt(Head(q["tx"])))
  /\ q' = [q EXCEPT !["tx"] = Tail(@)]
  /\ cb' = [cb EXCEPT !["tx"] = @ + 1]
  /\ UNCHANGED <<callVars, dataVars, cmp, timedOut, failed>>

RxFinish ==
  /\ q["rx"] # <<>> /\ fifo # <<>>
  /\ IF own THEN rbuf' = Head(fifo) /\ UNCHANGED out
     ELSE out' = [out EXCEPT ![Slot(Head(q["rx"]))] = Head(fifo)] /\ UNCHANGED rbuf
  /\ fifo' = Tail(fifo)
  /\ q' = [q EXCEPT !["rx"] = Tail(@)]
  /\ cb' = [cb EXCEPT !["rx"] = @ + 1]
  /\ UNCHANGED <<callVars, avail, taken, wrong, wbuf, cmp, timedOut, failed>>

\* sync_callback
Callback(d) ==
  /\ cb[d] > 0
  /\ cb' = [cb EXCEPT ![d] = @ - 1]
  /\ cmp' = [cmp EXCEPT ![d] = @ + 1]
  /\ UNCHANGED <<callVars, dataVars, q, fifo, timedOut, failed>>

-----------------------------------------------------------------------------
BlockStep == \/ CopyIn \/ ReadNb \/ Write \/ WriteReturns
             \/ ReadComplete \/ NextBatch

Next == \/ Source \/ Sink \/ Work \/ BlockStep
        \/ TxFinish \/ RxFinish \/ \E d \in Chans : Callback(d)

Spec == Init /\ [][Next]_vars

\* The thread of the block is scheduled; nothing is assumed of the device.
FairSpec == Spec /\ WF_vars(BlockStep)

-----------------------------------------------------------------------------
(* Properties                                                              *)

\* Type invariant.
TypeOK ==
  /\ {own, byInput, dma} \subseteq BOOLEAN /\ d_load \in Nat \ {0}
  /\ pc \in {"idle", "copy", "read", "write", "writing", "complete", "next"}
  /\ num_iters \in 0..MaxBatches /\ step \in Nat
  /\ produced \in 0..MaxBatches /\ avail \in produced..MaxBatches
  /\ taken \in 0..produced
  /\ wrong \in BOOLEAN
  /\ out \in [0..(N - 1) -> 0..MaxBatches]
  /\ wbuf \in 0..MaxBatches /\ rbuf \in 0..MaxBatches
  /\ q \in [Chans -> Seq(1..MaxBatches)]
  /\ cmp \in [Chans -> Nat] /\ cb \in [Chans -> Nat]
  /\ fifo \in Seq(1..MaxBatches)
  /\ timedOut \subseteq Chans /\ failed \in BOOLEAN /\ overrun \in BOOLEAN

\* A block is a function of its input: the sink gets the results of the
\* batches, in their order, none missing or doubled, however the calls are
\* cut and whatever the source does to the input buffer, as long as no call
\* failed, timed out or had more input than room for output.
OutputInOrder ==
  timedOut = {} /\ ~failed /\ ~overrun => ~wrong

\* Reads that time out do not shift the stream for good: as long as no write
\* timed out and no call returned an error, the transfers waiting on the read
\* channel are, in order, for the batches whose results are in the
\* accelerator, being sent or about to be sent, so that each read, however
\* late, receives the result of the batch it was started for.  Nothing is
\* said of where that result ends up: a program with one buffer of its own
\* receives it there and copies it out as that of the batch it is at by then,
\* and the place of a batch in the stream's buffer may be another's by then.
Aligned ==
  "tx" \notin timedOut /\ ~failed =>
    q["rx"] = fifo \o q["tx"] \o (IF pc = "write" THEN <<Batch>> ELSE <<>>)

\* The buffers of the stream belong to the block only during general_work,
\* and each batch only during its iteration: short of a timeout, no transfer
\* is left that reads or writes them behind the back of others.
DmaInsideCall ==
  timedOut = {} =>
    \A d \in Chans : \A i \in DOMAIN q[d] : pc # "idle" /\ q[d][i] = Batch

\* "Validate the read/receive buffer data if there were not transfer errors",
\* where the code looks at the result of dmap_read_complete: if no call reports
\* an error the batch was received.
ZeroMeansReceived ==
  pc = "next" /\ rc = 0 /\ ~failed =>
    (IF own THEN rbuf ELSE out[Slot(Batch)]) = Batch

\* general_work returns, whatever the device and the engine do.
WorkReturns == pc # "idle" ~> pc = "idle"
=============================================================================
