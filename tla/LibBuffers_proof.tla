--------------------------- MODULE LibBuffers_proof ---------------------------
(***************************************************************************)
(* Proofs about LibBuffers: for any number of threads, files, descriptors, *)
(* addresses and sizes, and any growth of the list.                        *)
(***************************************************************************)
EXTENDS LibBuffers, FiniteSetTheorems, TLAPS

-----------------------------------------------------------------------------
(* The inductive invariant                                                 *)

\* Files are new when they are opened: no two descriptors and no two addresses
\* lead to one file, and what is mapped has been opened.
FileInv ==
  /\ \A x, y \in Fds : fdt[x] # 0 /\ fdt[x] = fdt[y] => x = y
  /\ \A a, b \in Addrs : at[a] # 0 /\ at[a] = at[b] => a = b
  /\ \A a \in Addrs : at[a] # 0 => at[a] \in mapped
  /\ mapped \subseteq 1..nfile

\* The memory of the mapped files is allocated, and nothing else is.
MemInv ==
  /\ \A f \in mapped : Segments(f, segs[f]) \subseteq live
  /\ NoLeak /\ FreedOnce

\* An entry in use is for a buffer, of which it has the descriptor.
EntryInv == clean =>
  \A i \in DOMAIN buffer_list : buffer_list[i].fd # 0 =>
    /\ buffer_list[i].buffer \in Addrs
    /\ at[buffer_list[i].buffer] # 0
    /\ fdt[buffer_list[i].fd] = at[buffer_list[i].buffer]

\* No buffer has two entries in use, and while the library lives it has one.
UniqueInv == clean =>
  /\ \A i, j \in DOMAIN buffer_list :
       /\ buffer_list[i].fd # 0 /\ buffer_list[j].fd # 0
       /\ buffer_list[i].buffer = buffer_list[j].buffer
       => i = j
  /\ alive \in {"yes", "lost"} => \A a \in Addrs : at[a] # 0 =>
       \E i \in DOMAIN buffer_list : buffer_list[i].fd # 0 /\ buffer_list[i].buffer = a

\* A selected entry is still in the list.
SelectInv ==
  /\ clean => \A t \in Threads : selected[t] # NULL =>
       \E i \in DOMAIN buffer_list : buffer_list[i] = selected[t] /\ buffer_list[i].fd # 0
  /\ alive \in {"fini", "dead"} => \A t \in Threads : selected[t] = NULL

\* Only a failed mmap leaves a descriptor that no entry has.
OpenInv ==
  clean /\ ~mmapFailed /\ alive = "yes" =>
    \A x \in Fds : fdt[x] # 0 => \E i \in DOMAIN buffer_list : buffer_list[i].fd = x

\* A process that has ended has nothing.
DeadInv ==
  alive = "dead" => /\ buffer_list = <<>>
                    /\ \A x \in Fds : fdt[x] = 0
                    /\ \A a \in Addrs : at[a] = 0

IInv == /\ TypeOK /\ FileInv /\ MemInv /\ EntryInv /\ UniqueInv /\ SelectInv
        /\ OpenInv /\ DeadInv /\ FiniCleans

-----------------------------------------------------------------------------
(* Lists, numbers and memory                                               *)

\* A set of numbers has a least element, which Min returns.
LEMMA MinIn ==
  ASSUME NEW S \in SUBSET Nat, S # {}
  PROVE  Min(S) \in S /\ \A y \in S : Min(S) <= y
<1>1. PICK x \in S : \A y \in S : ~(<<y, x>> \in OpToRel(<, Nat))
  BY NatLessThanWellFounded, WFMin
<1>2. \A y \in S : <<y, x>> \in OpToRel(<, Nat) <=> y < x
  BY DEF OpToRel
<1>3. ASSUME NEW y \in S PROVE x <= y
  <2>1. x \in Nat /\ y \in Nat /\ ~(y < x)
    BY <1>1, <1>2
  <2> QED
    BY <2>1
<1> QED
  BY <1>3 DEF Min

\* The place of a buffer in the list, resized or not.
LEMMA SlotFacts ==
  ASSUME TypeOK, NEW s \in Slots, UseList(s.list)
  PROVE  /\ s.list \in Seq(Entries) /\ s.slot \in DOMAIN s.list
         /\ DOMAIN buffer_list \subseteq DOMAIN s.list
         /\ \A i \in DOMAIN buffer_list : s.list[i] = buffer_list[i]
         /\ clean' \in BOOLEAN
         /\ clean' => /\ clean /\ s.list[s.slot].fd = 0
                      /\ \A i \in DOMAIN s.list \ DOMAIN buffer_list : s.list[i].fd = 0
<1>1. buffer_list \in Seq(Entries) /\ clean \in BOOLEAN
  BY DEF TypeOK
<1>2. clean' = (clean /\ \A i \in (Len(buffer_list) + 1)..Len(s.list) : s.list[i].fd = 0)
  BY DEF UseList
<1>3. CASE Idx # {}
  <2>1. s.list = buffer_list /\ s.slot = Min(Idx)
    BY <1>3 DEF Slots
  <2>2. Idx \in SUBSET Nat
    BY <1>1 DEF Idx
  <2>3. s.slot \in DOMAIN buffer_list /\ buffer_list[s.slot].fd = 0
    BY <1>3, <2>1, <2>2, MinIn DEF Idx
  <2> QED
    BY <1>1, <1>2, <2>1, <2>3
<1>4. CASE Idx = {}
  <2>1. PICK gained \in [1..buffer_list_inc -> Uninit] :
          s.list = buffer_list \o gained /\ s.slot = Len(buffer_list) + 1
    BY <1>4 DEF Slots
  <2>2. /\ buffer_list_inc \in Nat \ {0} /\ gained \in Seq(Entries)
        /\ Len(gained) = buffer_list_inc
    BY LibBufferAssumption
  <2>3. /\ s.list \in Seq(Entries) /\ Len(s.list) = Len(buffer_list) + buffer_list_inc
        /\ Len(buffer_list) \in Nat
        /\ DOMAIN buffer_list = 1..Len(buffer_list) /\ DOMAIN s.list = 1..Len(s.list)
    <3>1. buffer_list \o gained \in Seq(Entries)
      BY <1>1, <2>2
    <3>2. Len(buffer_list \o gained) = Len(buffer_list) + Len(gained)
      BY <1>1, <2>2
    <3>3. DOMAIN buffer_list = 1..Len(buffer_list) /\ Len(buffer_list) \in Nat
      BY <1>1
    <3> QED
      BY <2>1, <2>2, <3>1, <3>2, <3>3
  <2>4. \A i \in DOMAIN buffer_list : s.list[i] = buffer_list[i]
    BY <1>1, <2>1, <2>2
  <2>5. s.slot \in (Len(buffer_list) + 1)..Len(s.list)
    BY <2>1, <2>2, <2>3
  <2>6. DOMAIN s.list \ DOMAIN buffer_list \subseteq (Len(buffer_list) + 1)..Len(s.list)
    BY <2>3
  <2>7. DOMAIN buffer_list \subseteq DOMAIN s.list /\ s.slot \in DOMAIN s.list
    BY <2>2, <2>3, <2>5
  <2> QED
    BY <1>1, <1>2, <2>3, <2>4, <2>5, <2>6, <2>7
<1> QED
  BY <1>3, <1>4

\* The lowest free descriptor.
LEMMA FreeFd ==
  ASSUME TypeOK, FreeFds # {}
  PROVE  Min(FreeFds) \in Fds /\ fdt[Min(FreeFds)] = 0
<1>1. FreeFds \in SUBSET Nat
  BY LibBufferAssumption DEF FreeFds
<1>2. Min(FreeFds) \in FreeFds
  BY <1>1, MinIn
<1> QED
  BY <1>2 DEF FreeFds

\* Descriptors in the list are 0 or real ones.
LEMMA EntryTypes ==
  ASSUME TypeOK, NEW i \in DOMAIN buffer_list
  PROVE  /\ buffer_list[i] \in Entries
         /\ buffer_list[i].fd # 0 <=> buffer_list[i].fd > 0
         /\ buffer_list[i].fd # 0 => buffer_list[i].fd \in Fds
<1>1. buffer_list[i] \in Entries
  BY DEF TypeOK
<1>2. buffer_list[i].fd \in {0} \cup Fds
  BY <1>1 DEF Entries
<1> DEFINE fd == buffer_list[i].fd
<1>3. fd = 0 \/ (fd \in Fds /\ fd \in Nat /\ fd > 2)
  BY <1>2, LibBufferAssumption
<1>4. fd # 0 <=> fd > 0
  <2> HIDE DEF fd
  <2> QED
    BY <1>3
<1> QED
  BY <1>1, <1>3, <1>4

\* The mappings of files go away.
LEMMA VmaCloseInv ==
  ASSUME IInv, NEW F \in SUBSET mapped, VmaClose(F), UNCHANGED nfile
  PROVE  BufTypeOK' /\ MemInv' /\ mapped' = mapped \ F
<1>1. /\ live' = live \ UNION {{<<f, k>> : k \in BufferList(f)} : f \in F}
      /\ badFree' = (badFree \/ ~(UNION {{<<f, k>> : k \in BufferList(f)} : f \in F} \subseteq live))
      /\ segs' = [f \in Files |-> IF f \in F THEN <<>> ELSE segs[f]]
      /\ mapped' = mapped \ F
      /\ UNCHANGED <<size, nomem, nfile>>
  BY DEF VmaClose
<1>2. BufTypeOK /\ mapped \subseteq Files /\ F \subseteq Files
  BY DEF IInv, TypeOK, BufTypeOK
<1>3. \A f \in Files : BufferList(f) = DOMAIN segs[f]
  BY <1>2 DEF BufTypeOK, BufferList
<1>4. \A f \in F : {<<f, k>> : k \in BufferList(f)} = Segments(f, segs[f])
  BY <1>2, <1>3 DEF Segments
<1>5. UNION {{<<f, k>> : k \in BufferList(f)} : f \in F} = UNION {Segments(f, segs[f]) : f \in F}
  BY <1>4
<1>6. \A f \in mapped : Segments(f, segs[f]) \subseteq live
  BY DEF IInv, MemInv
<1>7. FreedOnce'
  <2>1. ~badFree
    BY DEF IInv, MemInv, FreedOnce
  <2>2. UNION {Segments(f, segs[f]) : f \in F} \subseteq live
    BY <1>6
  <2> QED
    BY <1>1, <1>5, <2>1, <2>2 DEF FreedOnce
<1>8. ASSUME NEW f \in mapped \ F
      PROVE  /\ segs'[f] = segs[f]
             /\ Segments(f, segs[f]) \cap UNION {Segments(g, segs[g]) : g \in F} = {}
  BY <1>1, <1>2 DEF Segments
<1>9. \A f \in mapped' : Segments(f, segs'[f]) \subseteq live'
  BY <1>1, <1>5, <1>6, <1>8
<1>10. NoLeak'
  <2> SUFFICES ASSUME ~nomem
               PROVE  live' = UNION {Segments(f, segs'[f]) : f \in mapped'}
    BY <1>1 DEF NoLeak
  <2>1. live = UNION {Segments(f, segs[f]) : f \in mapped}
    BY DEF IInv, MemInv, NoLeak
  <2>2. live' = live \ UNION {Segments(f, segs[f]) : f \in F}
    BY <1>1, <1>5
  <2> QED
    BY <1>1, <1>8, <1>9, <2>1, <2>2
<1>11. BufTypeOK'
  BY <1>1, <1>2 DEF BufTypeOK
<1>12. MemInv'
  BY <1>7, <1>9, <1>10 DEF MemInv
<1> QED
  BY <1>1, <1>11, <1>12

-----------------------------------------------------------------------------
(* Processes begin and end                                                 *)

LEMMA InvInit == Init => IInv
<1> SUFFICES ASSUME Init PROVE IInv
  OBVIOUS
<1>1. TypeOK
  <2>1. /\ nfile = 0 /\ segs = [f \in Files |-> <<>>] /\ size = [f \in Files |-> 0]
        /\ mapped = {} /\ live = {} /\ badFree = FALSE /\ nomem = FALSE
    BY DEF Init, BufInit
  <2>2. 0 \in 0..MaxFiles /\ 0 \in 0..nfile /\ <<>> \in Seq(Nat) /\ <<>> \in Seq(Entries)
    BY <2>1, BufferAssumption
  <2>3. BufTypeOK
    BY <2>1, <2>2 DEF BufTypeOK
  <2>4. /\ alive = "dead" /\ buffer_list = <<>> /\ clean = TRUE /\ mmapFailed = FALSE
        /\ fdt = [fd \in Fds |-> 0] /\ at = [a \in Addrs |-> 0]
        /\ selected = [t \in Threads |-> NULL]
    BY DEF Init
  <2>5. /\ fdt \in [Fds -> 0..nfile] /\ at \in [Addrs -> 0..nfile]
        /\ selected \in [Threads -> Entries \cup {NULL}]
    BY <2>2, <2>4
  <2> QED
    BY <2>2, <2>3, <2>4, <2>5 DEF TypeOK
<1>2. MemInv
  BY DEF Init, BufInit, MemInv, NoLeak, FreedOnce
<1>3. FileInv /\ EntryInv /\ UniqueInv
  BY DEF Init, BufInit, FileInv, EntryInv, UniqueInv
<1>4. SelectInv /\ OpenInv /\ DeadInv /\ FiniCleans
  BY DEF Init, BufInit, SelectInv, OpenInv, DeadInv, FiniCleans
<1> QED
  BY <1>1, <1>2, <1>3, <1>4 DEF IInv

LEMMA LibInitInv == IInv /\ LibInit => IInv'
<1> SUFFICES ASSUME IInv, LibInit PROVE IInv'
  OBVIOUS
<1>1. /\ alive = "dead" /\ alive' = "yes" /\ clean' = TRUE /\ mmapFailed' = FALSE
      /\ buffer_list' = [i \in 1..buffer_list_inc |-> Empty]
      /\ UNCHANGED <<bufVars, fdt, at, selected>>
  BY DEF LibInit
<1>2. /\ \A i \in DOMAIN buffer_list' : buffer_list'[i].fd = 0
      /\ buffer_list' \in Seq(Entries)
  <2>1. Empty \in Entries /\ Empty.fd = 0
    BY DEF Empty, Entries
  <2>2. buffer_list_inc \in Nat
    BY LibBufferAssumption
  <2> HIDE DEF Empty
  <2> QED
    BY <1>1, <2>1, <2>2
<1>3. /\ \A x \in Fds : fdt'[x] = 0
      /\ \A a \in Addrs : at'[a] = 0
      /\ \A t \in Threads : selected'[t] = NULL
  BY <1>1 DEF IInv, DeadInv, SelectInv
<1>4. TypeOK'
  BY <1>1, <1>2 DEF IInv, TypeOK, BufTypeOK, bufVars
<1>5. FileInv' /\ MemInv'
  BY <1>1, <1>3 DEF IInv, FileInv, MemInv, NoLeak, FreedOnce, bufVars
<1>6. EntryInv' /\ UniqueInv' /\ SelectInv' /\ OpenInv' /\ DeadInv' /\ FiniCleans'
  BY <1>1, <1>2, <1>3 DEF EntryInv, UniqueInv, SelectInv, OpenInv, DeadInv, FiniCleans
<1> QED
  BY <1>4, <1>5, <1>6 DEF IInv

LEMMA ProcessExitInv == IInv /\ ProcessExit => IInv'
<1> SUFFICES ASSUME IInv, ProcessExit PROVE IInv'
  OBVIOUS
<1>1. /\ alive' = "dead" /\ VmaClose(mapped) /\ fdt' = [fd \in Fds |-> 0]
      /\ at' = [a \in Addrs |-> 0] /\ selected' = [t \in Threads |-> NULL]
      /\ buffer_list' = <<>>
      /\ UNCHANGED <<nfile, clean, mmapFailed>>
  BY DEF ProcessExit
<1>2. BufTypeOK' /\ MemInv' /\ mapped' = {}
  BY <1>1, VmaCloseInv
<1>3. TypeOK'
  <2>1. 0 \in 0..nfile'
    BY <1>2 DEF BufTypeOK
  <2> QED
    BY <1>1, <1>2, <2>1 DEF IInv, TypeOK
<1>4. FileInv' /\ EntryInv' /\ UniqueInv' /\ SelectInv' /\ OpenInv' /\ DeadInv' /\ FiniCleans'
  BY <1>1, <1>2 DEF FileInv, EntryInv, UniqueInv, SelectInv, OpenInv, DeadInv, FiniCleans
<1> QED
  BY <1>2, <1>3, <1>4 DEF IInv

-----------------------------------------------------------------------------
(* dmap_alloc_buffer                                                       *)

\* The entries in use are the same as before.
SameUsed ==
  /\ \A i \in DOMAIN buffer_list' : buffer_list'[i].fd # 0 =>
       i \in DOMAIN buffer_list /\ buffer_list[i] = buffer_list'[i]
  /\ \A i \in DOMAIN buffer_list : buffer_list[i].fd # 0 =>
       i \in DOMAIN buffer_list' /\ buffer_list'[i] = buffer_list[i]

\* Then what the list is for is not disturbed by descriptors that are opened.
LEMMA UsedKept ==
  ASSUME IInv, alive \in {"yes", "lost"}, alive' \in {"yes", "lost"},
         clean' => clean /\ SameUsed,
         at' = at, selected' = selected, \A x \in Fds : fdt[x] # 0 => fdt'[x] = fdt[x]
  PROVE  EntryInv' /\ UniqueInv' /\ SelectInv'
<1>1. EntryInv'
  <2> SUFFICES ASSUME clean', NEW i \in DOMAIN buffer_list', buffer_list'[i].fd # 0
               PROVE  /\ buffer_list'[i].buffer \in Addrs
                      /\ at[buffer_list'[i].buffer] # 0
                      /\ fdt'[buffer_list'[i].fd] = at[buffer_list'[i].buffer]
    BY DEF EntryInv
  <2>1. /\ clean /\ i \in DOMAIN buffer_list /\ buffer_list[i] = buffer_list'[i]
    BY DEF SameUsed
  <2>2. /\ buffer_list[i].buffer \in Addrs /\ at[buffer_list[i].buffer] # 0
        /\ fdt[buffer_list[i].fd] = at[buffer_list[i].buffer]
    BY <2>1 DEF IInv, EntryInv
  <2>3. buffer_list[i].fd \in Fds
    BY <2>1, EntryTypes DEF IInv
  <2> QED
    BY <2>1, <2>2, <2>3
<1>2. UniqueInv'
  BY DEF IInv, UniqueInv, SameUsed
<1>3. SelectInv'
  BY DEF IInv, SelectInv, SameUsed
<1> QED
  BY <1>1, <1>2, <1>3

LEMMA AllocNoFileInv == IInv /\ AllocNoFile => IInv'
<1> SUFFICES ASSUME IInv, AllocNoFile PROVE IInv'
  OBVIOUS
<1>1. PICK s \in Slots : UseList(s.list) /\ buffer_list' = s.list
  BY DEF AllocNoFile
<1>2. alive = "yes" /\ UNCHANGED <<bufVars, alive, fdt, at, selected, mmapFailed>>
  BY DEF AllocNoFile
<1>3. /\ buffer_list' \in Seq(Entries) /\ clean' \in BOOLEAN
      /\ clean' => clean /\ SameUsed
  BY <1>1, SlotFacts DEF IInv, SameUsed
<1>4. EntryInv' /\ UniqueInv' /\ SelectInv'
  BY <1>2, <1>3, UsedKept
<1>5. TypeOK'
  BY <1>2, <1>3 DEF IInv, TypeOK, BufTypeOK, bufVars
<1>6. FileInv' /\ MemInv'
  BY <1>2 DEF IInv, FileInv, MemInv, NoLeak, FreedOnce, bufVars
<1>7. OpenInv'
  <2> SUFFICES ASSUME clean', ~mmapFailed', NEW x \in Fds, fdt'[x] # 0
               PROVE  \E i \in DOMAIN buffer_list' : buffer_list'[i].fd = x
    BY DEF OpenInv
  <2>1. PICK i \in DOMAIN buffer_list : buffer_list[i].fd = x
    BY <1>2, <1>3 DEF IInv, OpenInv
  <2>2. x # 0
    BY LibBufferAssumption
  <2> QED
    BY <1>3, <2>1, <2>2 DEF SameUsed
<1>8. DeadInv' /\ FiniCleans'
  BY <1>2 DEF DeadInv, FiniCleans
<1> QED
  BY <1>4, <1>5, <1>6, <1>7, <1>8 DEF IInv

LEMMA ResizeFailsInv == IInv /\ ResizeFails => IInv'
<1> SUFFICES ASSUME IInv, ResizeFails PROVE IInv'
  OBVIOUS
<1>1. /\ alive = "yes" /\ alive' = "lost"
      /\ UNCHANGED <<bufVars, buffer_list, fdt, at, selected, clean, mmapFailed>>
  BY DEF ResizeFails
<1>2. EntryInv' /\ UniqueInv' /\ SelectInv'
  BY <1>1, UsedKept DEF SameUsed
<1>3. TypeOK'
  BY <1>1 DEF IInv, TypeOK, BufTypeOK, bufVars
<1>4. FileInv' /\ MemInv'
  BY <1>1 DEF IInv, FileInv, MemInv, NoLeak, FreedOnce, bufVars
<1>5. OpenInv' /\ DeadInv' /\ FiniCleans'
  BY <1>1 DEF OpenInv, DeadInv, FiniCleans
<1> QED
  BY <1>2, <1>3, <1>4, <1>5 DEF IInv

\* mmap on a file that has just been opened, with its three outcomes.
LEMMA MmapInv ==
  ASSUME IInv, nfile < MaxFiles, nfile' = nfile + 1, NEW n \in Nat,
         MmapSucceeds(nfile', n) \/ MmapNoMemory(nfile', n) \/ MmapUndone
  PROVE  /\ BufTypeOK' /\ MemInv' /\ mapped \subseteq mapped' /\ mapped' \subseteq 1..nfile'
         /\ MmapSucceeds(nfile', n) => nfile' \in mapped'
<1>1. /\ BufTypeOK /\ mapped \subseteq 1..nfile /\ MaxFiles \in Nat /\ nfile \in Nat
      /\ nfile' \in Files /\ nfile' \notin mapped /\ nfile' \in 0..MaxFiles
  BY BufferAssumption DEF IInv, TypeOK, BufTypeOK, FileInv, Files
<1>2. CASE MmapUndone
  <2>1. UNCHANGED <<segs, size, mapped, live, badFree, nomem>>
    BY <1>2 DEF MmapUndone
  <2>2. BufTypeOK'
    BY <1>1, <2>1 DEF BufTypeOK
  <2>3. MemInv'
    BY <2>1 DEF IInv, MemInv, NoLeak, FreedOnce
  <2>4. ~MmapSucceeds(nfile', n)
    BY <1>1, <2>1 DEF MmapSucceeds
  <2> QED
    BY <1>1, <2>1, <2>2, <2>3, <2>4
<1>3. CASE MmapSucceeds(nfile', n) \/ MmapNoMemory(nfile', n)
  <2>1. PICK s \in Collected(n) :
          /\ segs' = [segs EXCEPT ![nfile'] = s]
          /\ live' = live \cup Segments(nfile', s)
          /\ badFree' = badFree
          /\ \/ /\ mapped' = mapped \cup {nfile'} /\ nomem' = nomem
                /\ size' = [size EXCEPT ![nfile'] = n]
             \/ /\ mapped' = mapped /\ size' = size /\ nomem' = TRUE
                /\ ~MmapSucceeds(nfile', n)
    <3>1. CASE MmapSucceeds(nfile', n)
      BY <3>1 DEF MmapSucceeds
    <3>2. CASE MmapNoMemory(nfile', n) /\ ~MmapSucceeds(nfile', n)
      BY <3>2 DEF MmapNoMemory
    <3> QED
      BY <1>3, <3>1, <3>2
  <2>2. s \in Seq(Nat)
    BY DEF Collected, BoundedSeq, SeqOf
  <2>3. /\ segs'[nfile'] = s /\ \A f \in mapped : segs'[f] = segs[f]
        /\ segs' \in [Files -> Seq(Nat)]
    BY <1>1, <2>1, <2>2 DEF BufTypeOK
  <2>4. Segments(nfile', s) \subseteq Files \X Nat
    BY <1>1, <2>2 DEF Segments
  <2>5. size' \in [Files -> Nat] /\ nomem' \in BOOLEAN
    BY <1>1, <2>1 DEF BufTypeOK
  <2>6. BufTypeOK'
    BY <1>1, <2>1, <2>3, <2>4, <2>5 DEF BufTypeOK
  <2>7. MemInv'
    <3>1. \A f \in mapped' : Segments(f, segs'[f]) \subseteq live'
      BY <2>1, <2>3 DEF IInv, MemInv
    <3>2. FreedOnce'
      BY <2>1 DEF IInv, MemInv, FreedOnce
    <3>3. NoLeak'
      <4> SUFFICES ASSUME ~nomem' PROVE live' = UNION {Segments(f, segs'[f]) : f \in mapped'}
        BY DEF NoLeak
      <4>1. mapped' = mapped \cup {nfile'} /\ ~nomem
        BY <2>1
      <4>2. live = UNION {Segments(f, segs[f]) : f \in mapped}
        BY <4>1 DEF IInv, MemInv, NoLeak
      <4>3. live = UNION {Segments(f, segs'[f]) : f \in mapped}
        BY <2>3, <4>2
      <4> QED
        BY <2>1, <2>3, <4>1, <4>3
    <3> QED
      BY <3>1, <3>2, <3>3 DEF MemInv
  <2>8. mapped \subseteq mapped' /\ mapped' \subseteq 1..nfile'
    <3>1. 1..nfile \subseteq 1..nfile' /\ nfile' \in 1..nfile'
      BY <1>1
    <3> QED
      BY <1>1, <2>1, <3>1
  <2> QED
    BY <2>1, <2>6, <2>7, <2>8
<1> QED
  BY <1>2, <1>3

\* The tables of the process stay within their types when a file is opened.
LEMMA OpenTypes ==
  ASSUME IInv, nfile' = nfile + 1, FreeFds # {},
         fdt' = [fdt EXCEPT ![Min(FreeFds)] = nfile']
  PROVE  /\ fdt' \in [Fds -> 0..nfile'] /\ at \in [Addrs -> 0..nfile'] /\ nfile' # 0
         /\ Min(FreeFds) \in Fds /\ fdt[Min(FreeFds)] = 0 /\ fdt'[Min(FreeFds)] = nfile'
         /\ \A x \in Fds : fdt[x] # nfile' /\ (x # Min(FreeFds) => fdt'[x] = fdt[x])
         /\ \A a \in Addrs : at[a] # nfile'
<1>1. /\ fdt \in [Fds -> 0..nfile] /\ at \in [Addrs -> 0..nfile] /\ nfile \in Nat
  BY DEF IInv, TypeOK, BufTypeOK
<1>2. Min(FreeFds) \in Fds /\ fdt[Min(FreeFds)] = 0
  BY FreeFd DEF IInv
<1>3. nfile' # 0 /\ nfile' \notin 0..nfile /\ nfile' \in 0..nfile' /\ 0..nfile \subseteq 0..nfile'
  BY <1>1
<1> QED
  BY <1>1, <1>2, <1>3

\* open succeeds and mmap fails.
LEMMA AllocMmapFailsInv == IInv /\ AllocMmapFails => IInv'
<1> SUFFICES ASSUME IInv, AllocMmapFails PROVE IInv'
  OBVIOUS
<1>1. /\ alive = "yes" /\ nfile < MaxFiles /\ FreeFds # {} /\ nfile' = nfile + 1
      /\ fdt' = [fdt EXCEPT ![Min(FreeFds)] = nfile'] /\ mmapFailed' = TRUE
      /\ UNCHANGED <<alive, at, selected>>
  BY DEF AllocMmapFails
<1>2. PICK s \in Slots, n \in Sizes :
        /\ UseList(s.list)
        /\ MmapNoMemory(nfile', n) \/ MmapUndone
        /\ buffer_list' = [s.list EXCEPT ![s.slot].buffer = MAP_FAILED]
  <2>1. PICK s \in Slots, n \in Sizes :
          /\ UseList(s.list)
          /\ (n > 0 /\ MmapNoMemory(nfile', n)) \/ MmapUndone
          /\ buffer_list' = [s.list EXCEPT ![s.slot].buffer = MAP_FAILED]
    BY DEF AllocMmapFails
  <2> QED
    BY <2>1
<1>3. BufTypeOK' /\ MemInv' /\ mapped \subseteq mapped' /\ mapped' \subseteq 1..nfile'
  BY <1>1, <1>2, MmapInv, BufferAssumption
<1>4. /\ s.list \in Seq(Entries) /\ s.slot \in DOMAIN s.list
      /\ DOMAIN buffer_list \subseteq DOMAIN s.list
      /\ \A i \in DOMAIN buffer_list : s.list[i] = buffer_list[i]
      /\ clean' \in BOOLEAN
      /\ clean' => /\ clean /\ s.list[s.slot].fd = 0
                   /\ \A i \in DOMAIN s.list \ DOMAIN buffer_list : s.list[i].fd = 0
  BY <1>2, SlotFacts DEF IInv
<1>5. /\ buffer_list' \in Seq(Entries) /\ DOMAIN buffer_list' = DOMAIN s.list
      /\ buffer_list'[s.slot].fd = s.list[s.slot].fd
      /\ \A i \in DOMAIN s.list : i # s.slot => buffer_list'[i] = s.list[i]
  <2>1. s.list[s.slot] \in Entries
    BY <1>4
  <2>2. [s.list[s.slot] EXCEPT !.buffer = MAP_FAILED] \in Entries
    BY <2>1 DEF Entries
  <2> QED
    BY <1>2, <1>4, <2>1, <2>2 DEF Entries
<1>6. clean' => clean /\ SameUsed
  BY <1>4, <1>5 DEF SameUsed
<1>7. /\ fdt' \in [Fds -> 0..nfile'] /\ at \in [Addrs -> 0..nfile'] /\ nfile' # 0
      /\ Min(FreeFds) \in Fds /\ fdt[Min(FreeFds)] = 0 /\ fdt'[Min(FreeFds)] = nfile'
      /\ \A x \in Fds : fdt[x] # nfile' /\ (x # Min(FreeFds) => fdt'[x] = fdt[x])
      /\ \A a \in Addrs : at[a] # nfile'
  BY <1>1, OpenTypes
<1>8. EntryInv' /\ UniqueInv' /\ SelectInv'
  BY <1>1, <1>6, <1>7, UsedKept
<1>9. TypeOK'
  BY <1>1, <1>3, <1>4, <1>5, <1>7 DEF IInv, TypeOK
<1>10. FileInv'
  BY <1>1, <1>3, <1>7 DEF IInv, FileInv
<1>11. OpenInv' /\ DeadInv' /\ FiniCleans'
  BY <1>1 DEF OpenInv, DeadInv, FiniCleans
<1> QED
  BY <1>3, <1>8, <1>9, <1>10, <1>11 DEF IInv

\* open and mmap succeed: the new entry has the new file at both ends.
LEMMA AllocSucceedsInv == IInv /\ AllocSucceeds => IInv'
<1> SUFFICES ASSUME IInv, AllocSucceeds PROVE IInv'
  OBVIOUS
<1>1. /\ alive = "yes" /\ nfile < MaxFiles /\ FreeFds # {} /\ nfile' = nfile + 1
      /\ fdt' = [fdt EXCEPT ![Min(FreeFds)] = nfile']
      /\ UNCHANGED <<alive, selected, mmapFailed>>
  BY DEF AllocSucceeds
<1>2. PICK s \in Slots, a \in {b \in Addrs : at[b] = 0}, n \in Sizes \ {0} :
        /\ UseList(s.list) /\ MmapSucceeds(nfile', n)
        /\ at' = [at EXCEPT ![a] = nfile']
        /\ buffer_list' = [s.list EXCEPT ![s.slot] = [fd |-> Min(FreeFds), buffer |-> a]]
  BY DEF AllocSucceeds
<1>3. /\ BufTypeOK' /\ MemInv' /\ mapped \subseteq mapped' /\ mapped' \subseteq 1..nfile'
      /\ nfile' \in mapped'
  BY <1>1, <1>2, MmapInv, BufferAssumption
<1>4. /\ s.list \in Seq(Entries) /\ s.slot \in DOMAIN s.list
      /\ DOMAIN buffer_list \subseteq DOMAIN s.list
      /\ \A i \in DOMAIN buffer_list : s.list[i] = buffer_list[i]
      /\ clean' \in BOOLEAN
      /\ clean' => /\ clean /\ s.list[s.slot].fd = 0
                   /\ \A i \in DOMAIN s.list \ DOMAIN buffer_list : s.list[i].fd = 0
  BY <1>2, SlotFacts DEF IInv
<1>5. /\ fdt' \in [Fds -> 0..nfile'] /\ at \in [Addrs -> 0..nfile'] /\ nfile' # 0
      /\ Min(FreeFds) \in Fds /\ fdt[Min(FreeFds)] = 0 /\ fdt'[Min(FreeFds)] = nfile'
      /\ \A x \in Fds : fdt[x] # nfile' /\ (x # Min(FreeFds) => fdt'[x] = fdt[x])
      /\ \A b \in Addrs : at[b] # nfile'
  BY <1>1, OpenTypes
<1> DEFINE e == [fd |-> Min(FreeFds), buffer |-> a]
<1>6. /\ buffer_list' \in Seq(Entries) /\ DOMAIN buffer_list' = DOMAIN s.list
      /\ buffer_list'[s.slot] = e /\ e.fd = Min(FreeFds) /\ e.buffer = a /\ e.fd # 0
      /\ \A i \in DOMAIN s.list : i # s.slot => buffer_list'[i] = s.list[i]
  <2>1. e \in Entries /\ Min(FreeFds) # 0
    BY <1>5, LibBufferAssumption DEF Entries
  <2> QED
    BY <1>2, <1>4, <2>1
<1>7. /\ at' \in [Addrs -> 0..nfile'] /\ at'[a] = nfile' /\ a \in Addrs /\ at[a] = 0
      /\ \A b \in Addrs : b # a => at'[b] = at[b]
  <2>1. nfile' \in 0..nfile'
    BY <1>1 DEF IInv, TypeOK, BufTypeOK
  <2> QED
    BY <1>2, <1>5, <2>1
<1> HIDE DEF e
<1>8. ASSUME clean'
      PROVE  /\ clean
             /\ \A i \in DOMAIN buffer_list' : i # s.slot /\ buffer_list'[i].fd # 0 =>
                  i \in DOMAIN buffer_list /\ buffer_list[i] = buffer_list'[i]
             /\ \A i \in DOMAIN buffer_list : buffer_list[i].fd # 0 =>
                  i \in DOMAIN buffer_list' /\ i # s.slot /\ buffer_list'[i] = buffer_list[i]
             /\ \A i \in DOMAIN buffer_list : buffer_list[i].fd # 0 =>
                  /\ buffer_list[i].buffer \in Addrs /\ buffer_list[i].buffer # a
                  /\ at[buffer_list[i].buffer] # 0
                  /\ buffer_list[i].fd \in Fds /\ buffer_list[i].fd # Min(FreeFds)
                  /\ fdt[buffer_list[i].fd] = at[buffer_list[i].buffer]
  <2>1. /\ clean
        /\ \A i \in DOMAIN buffer_list' : i # s.slot /\ buffer_list'[i].fd # 0 =>
             i \in DOMAIN buffer_list /\ buffer_list[i] = buffer_list'[i]
        /\ \A i \in DOMAIN buffer_list : buffer_list[i].fd # 0 =>
             i \in DOMAIN buffer_list' /\ i # s.slot /\ buffer_list'[i] = buffer_list[i]
    BY <1>4, <1>6, <1>8
  <2>2. ASSUME NEW i \in DOMAIN buffer_list, buffer_list[i].fd # 0
        PROVE  /\ buffer_list[i].buffer \in Addrs /\ at[buffer_list[i].buffer] # 0
               /\ buffer_list[i].fd \in Fds
               /\ fdt[buffer_list[i].fd] = at[buffer_list[i].buffer]
    BY <2>1, <2>2, EntryTypes DEF IInv, EntryInv
  <2> QED
    BY <1>5, <1>7, <2>1, <2>2
<1>9. EntryInv'
  <2> SUFFICES ASSUME clean', NEW i \in DOMAIN buffer_list', buffer_list'[i].fd # 0
               PROVE  /\ buffer_list'[i].buffer \in Addrs
                      /\ at'[buffer_list'[i].buffer] # 0
                      /\ fdt'[buffer_list'[i].fd] = at'[buffer_list'[i].buffer]
    BY DEF EntryInv
  <2>1. CASE i = s.slot
    BY <1>5, <1>6, <1>7, <2>1
  <2>2. CASE i # s.slot
    <3>1. i \in DOMAIN buffer_list /\ buffer_list[i] = buffer_list'[i]
      BY <1>8, <2>2
    <3>2. /\ buffer_list[i].buffer \in Addrs /\ buffer_list[i].buffer # a
          /\ at[buffer_list[i].buffer] # 0
          /\ buffer_list[i].fd \in Fds /\ buffer_list[i].fd # Min(FreeFds)
          /\ fdt[buffer_list[i].fd] = at[buffer_list[i].buffer]
      BY <1>8, <3>1
    <3> QED
      BY <1>5, <1>7, <3>1, <3>2
  <2> QED
    BY <2>1, <2>2
<1>10. UniqueInv'
  <2> SUFFICES ASSUME clean' PROVE UniqueInv'
    BY DEF UniqueInv
  <2>1. /\ \A i, j \in DOMAIN buffer_list :
             /\ buffer_list[i].fd # 0 /\ buffer_list[j].fd # 0
             /\ buffer_list[i].buffer = buffer_list[j].buffer
             => i = j
        /\ \A b \in Addrs : at[b] # 0 =>
             \E i \in DOMAIN buffer_list : buffer_list[i].fd # 0 /\ buffer_list[i].buffer = b
    BY <1>1, <1>8 DEF IInv, UniqueInv
  <2>2. ASSUME NEW i \in DOMAIN buffer_list', NEW j \in DOMAIN buffer_list',
               buffer_list'[i].fd # 0, buffer_list'[j].fd # 0,
               buffer_list'[i].buffer = buffer_list'[j].buffer
        PROVE  i = j
    BY <1>6, <1>8, <2>1, <2>2
  <2>3. ASSUME NEW b \in Addrs, at'[b] # 0
        PROVE  \E i \in DOMAIN buffer_list' : buffer_list'[i].fd # 0 /\ buffer_list'[i].buffer = b
    <3>1. CASE b = a
      BY <1>4, <1>6, <3>1
    <3>2. CASE b # a
      BY <1>7, <1>8, <2>1, <2>3, <3>2
    <3> QED
      BY <3>1, <3>2
  <2> QED
    BY <2>2, <2>3 DEF UniqueInv
<1>11. SelectInv'
  BY <1>1, <1>8 DEF IInv, SelectInv
<1>12. OpenInv'
  <2> SUFFICES ASSUME clean', ~mmapFailed', NEW x \in Fds, fdt'[x] # 0
               PROVE  \E i \in DOMAIN buffer_list' : buffer_list'[i].fd = x
    BY DEF OpenInv
  <2>1. CASE x = Min(FreeFds)
    BY <1>4, <1>6, <2>1
  <2>2. CASE x # Min(FreeFds)
    <3>1. PICK i \in DOMAIN buffer_list : buffer_list[i].fd = x
      BY <1>1, <1>5, <1>8, <2>2 DEF IInv, OpenInv
    <3>2. x # 0
      BY LibBufferAssumption
    <3> QED
      BY <1>8, <3>1, <3>2
  <2> QED
    BY <2>1, <2>2
<1>13. TypeOK'
  BY <1>1, <1>3, <1>4, <1>5, <1>6, <1>7 DEF IInv, TypeOK
<1>14. FileInv'
  <2>1. /\ \A x, y \in Fds : fdt[x] # 0 /\ fdt[x] = fdt[y] => x = y
        /\ \A b, c \in Addrs : at[b] # 0 /\ at[b] = at[c] => b = c
        /\ \A b \in Addrs : at[b] # 0 => at[b] \in mapped
    BY DEF IInv, FileInv
  <2>2. \A x, y \in Fds : fdt'[x] # 0 /\ fdt'[x] = fdt'[y] => x = y
    BY <1>5, <2>1
  <2>3. \A b, c \in Addrs : at'[b] # 0 /\ at'[b] = at'[c] => b = c
    BY <1>5, <1>7, <2>1
  <2>4. \A b \in Addrs : at'[b] # 0 => at'[b] \in mapped'
    BY <1>3, <1>7, <2>1
  <2> QED
    BY <1>3, <2>2, <2>3, <2>4 DEF FileInv
<1>15. DeadInv' /\ FiniCleans'
  BY <1>1 DEF DeadInv, FiniCleans
<1> QED
  BY <1>3, <1>9, <1>10, <1>11, <1>12, <1>13, <1>14, <1>15 DEF IInv

-----------------------------------------------------------------------------
(* dmap_free_buffer and the destructor                                     *)

\* Freeing entries in use: the others keep their descriptors and buffers,
\* because no buffer has two entries and no file two descriptors.
LEMMA FreeInv ==
  ASSUME IInv, NEW S \in SUBSET FiniEntries, FreeProxyBuffers(S), alive = "yes",
         alive' \in {"yes", "fini"}, UNCHANGED <<nfile, selected, clean, mmapFailed>>
  PROVE  /\ TypeOK' /\ FileInv' /\ MemInv' /\ EntryInv' /\ UniqueInv' /\ OpenInv'
         /\ DOMAIN buffer_list' = DOMAIN buffer_list
         /\ \A i \in DOMAIN buffer_list \ S : buffer_list'[i] = buffer_list[i]
         /\ \A i \in S : buffer_list'[i].fd = 0
         /\ \A a \in Addrs : at'[a] # 0 =>
              /\ at'[a] = at[a]
              /\ \A i \in S : buffer_list[i].buffer # a
         /\ \A x \in Fds : fdt'[x] # 0 =>
              /\ fdt'[x] = fdt[x]
              /\ \A i \in S : buffer_list[i].fd # x
<1> DEFINE as == {buffer_list[i].buffer : i \in S} \cap Addrs
           F  == {at[a] : a \in as} \ {0}
<1>1. /\ VmaClose(F)
      /\ at' = [a \in Addrs |-> IF a \in as THEN 0 ELSE at[a]]
      /\ fdt' = [fd \in Fds |-> IF \E i \in S : buffer_list[i].fd = fd THEN 0 ELSE fdt[fd]]
      /\ buffer_list' = [i \in DOMAIN buffer_list |->
                           IF i \in S THEN [buffer_list[i] EXCEPT !.fd = 0] ELSE buffer_list[i]]
  BY DEF FreeProxyBuffers
<1>2. F \in SUBSET mapped
  BY DEF IInv, FileInv
<1>3. as \subseteq Addrs /\ S \subseteq DOMAIN buffer_list
  BY DEF FiniEntries
<1>4. \A i \in S : buffer_list[i].buffer \in Addrs => buffer_list[i].buffer \in as
  OBVIOUS
<1>5. \A a \in as : at[a] # 0 => at[a] \in F
  OBVIOUS
<1>6. \A f \in F : \E a \in as : at[a] = f /\ f # 0
  OBVIOUS
<1>7. BufTypeOK' /\ MemInv' /\ mapped' = mapped \ F
  <2> HIDE DEF F, as
  <2> QED
    BY <1>1, <1>2, VmaCloseInv
<1> HIDE DEF as, F
<1>8. \A i \in DOMAIN buffer_list : buffer_list[i] \in Entries
  BY DEF IInv, TypeOK
<1>9. /\ DOMAIN buffer_list' = DOMAIN buffer_list
      /\ \A i \in DOMAIN buffer_list \ S : buffer_list'[i] = buffer_list[i]
      /\ \A i \in S : buffer_list'[i] = [buffer_list[i] EXCEPT !.fd = 0]
  BY <1>1, <1>3
<1>10. \A i \in S : buffer_list'[i].fd = 0 /\ buffer_list'[i] \in Entries
  <2> SUFFICES ASSUME NEW i \in S PROVE buffer_list'[i].fd = 0 /\ buffer_list'[i] \in Entries
    OBVIOUS
  <2>1. buffer_list[i] \in Entries /\ buffer_list'[i] = [buffer_list[i] EXCEPT !.fd = 0]
    BY <1>3, <1>8, <1>9
  <2> QED
    BY <2>1 DEF Entries
<1>11. /\ fdt \in [Fds -> 0..nfile] /\ at \in [Addrs -> 0..nfile] /\ nfile \in Nat
       /\ buffer_list \in Seq(Entries)
  BY DEF IInv, TypeOK, BufTypeOK
<1>12. \A a \in Addrs : at'[a] # 0 =>
              /\ at'[a] = at[a] /\ a \notin as
              /\ \A i \in S : buffer_list[i].buffer # a
  BY <1>1, <1>4
<1>13. \A x \in Fds : fdt'[x] # 0 =>
              /\ fdt'[x] = fdt[x]
              /\ \A i \in S : buffer_list[i].fd # x
  BY <1>1
<1>14. buffer_list' \in Seq(Entries)
  <2>1. \A i \in DOMAIN buffer_list' : buffer_list'[i] \in Entries
    BY <1>8, <1>9, <1>10
  <2>2. Len(buffer_list) \in Nat /\ DOMAIN buffer_list = 1..Len(buffer_list)
    BY <1>11
  <2>3. buffer_list' = [i \in 1..Len(buffer_list) |-> buffer_list'[i]]
    BY <1>1, <2>2
  <2> QED
    BY <1>9, <2>1, <2>2, <2>3
<1>15. TypeOK'
  <2>1. 0 \in 0..nfile
    BY <1>11
  <2>2. fdt' \in [Fds -> 0..nfile] /\ at' \in [Addrs -> 0..nfile]
    BY <1>1, <1>11, <2>1
  <2> QED
    BY <1>7, <1>14, <2>2 DEF IInv, TypeOK
<1>16. FileInv'
  <2>1. /\ \A x, y \in Fds : fdt[x] # 0 /\ fdt[x] = fdt[y] => x = y
        /\ \A a, b \in Addrs : at[a] # 0 /\ at[a] = at[b] => a = b
        /\ \A a \in Addrs : at[a] # 0 => at[a] \in mapped
        /\ mapped \subseteq 1..nfile
    BY DEF IInv, FileInv
  <2>2. \A x, y \in Fds : fdt'[x] # 0 /\ fdt'[x] = fdt'[y] => x = y
    BY <1>13, <2>1
  <2>3. \A a, b \in Addrs : at'[a] # 0 /\ at'[a] = at'[b] => a = b
    BY <1>12, <2>1
  <2>4. ASSUME NEW a \in Addrs, at'[a] # 0 PROVE at'[a] \in mapped'
    <3>1. at'[a] = at[a] /\ a \notin as /\ at[a] \in mapped /\ at[a] # 0
      BY <1>12, <2>1, <2>4
    <3>2. at[a] \notin F
      BY <1>3, <1>6, <2>1, <3>1
    <3> QED
      BY <1>7, <3>1, <3>2
  <2>5. mapped' \subseteq 1..nfile'
    BY <1>7, <2>1
  <2> QED
    BY <2>2, <2>3, <2>4, <2>5 DEF FileInv
<1>17. ASSUME clean
       PROVE  /\ \A i \in DOMAIN buffer_list : buffer_list[i].fd # 0 =>
                   /\ buffer_list[i].buffer \in Addrs /\ buffer_list[i].fd \in Fds
                   /\ at[buffer_list[i].buffer] # 0
                   /\ fdt[buffer_list[i].fd] = at[buffer_list[i].buffer]
              /\ \A i, j \in DOMAIN buffer_list :
                   /\ buffer_list[i].fd # 0 /\ buffer_list[j].fd # 0
                   /\ buffer_list[i].buffer = buffer_list[j].buffer
                   => i = j
              /\ \A i \in S : buffer_list[i].fd # 0
  <2>1. ASSUME NEW i \in DOMAIN buffer_list, buffer_list[i].fd # 0
        PROVE  /\ buffer_list[i].buffer \in Addrs /\ buffer_list[i].fd \in Fds
               /\ at[buffer_list[i].buffer] # 0
               /\ fdt[buffer_list[i].fd] = at[buffer_list[i].buffer]
    BY <1>17, <2>1, EntryTypes DEF IInv, EntryInv
  <2>2. \A i, j \in DOMAIN buffer_list :
          /\ buffer_list[i].fd # 0 /\ buffer_list[j].fd # 0
          /\ buffer_list[i].buffer = buffer_list[j].buffer
          => i = j
    BY <1>17 DEF IInv, UniqueInv
  <2>3. \A i \in S : buffer_list[i].fd # 0
    BY DEF FiniEntries
  <2> QED
    BY <2>1, <2>2, <2>3
<1>18. EntryInv'
  <2> SUFFICES ASSUME clean, NEW i \in DOMAIN buffer_list', buffer_list'[i].fd # 0
               PROVE  /\ buffer_list'[i].buffer \in Addrs
                      /\ at'[buffer_list'[i].buffer] # 0
                      /\ fdt'[buffer_list'[i].fd] = at'[buffer_list'[i].buffer]
    BY DEF EntryInv
  <2>1. i \in DOMAIN buffer_list /\ i \notin S /\ buffer_list'[i] = buffer_list[i]
    BY <1>9, <1>10
  <2>2. /\ buffer_list[i].fd # 0
        /\ buffer_list[i].buffer \in Addrs /\ buffer_list[i].fd \in Fds
        /\ at[buffer_list[i].buffer] # 0
        /\ fdt[buffer_list[i].fd] = at[buffer_list[i].buffer]
    BY <1>17, <2>1
  <2>3. \A j \in S : buffer_list[j].buffer # buffer_list[i].buffer
    BY <1>3, <1>17, <2>1, <2>2
  <2>4. \A j \in S : buffer_list[j].fd # buffer_list[i].fd
    <3> SUFFICES ASSUME NEW j \in S, buffer_list[j].fd = buffer_list[i].fd PROVE FALSE
      OBVIOUS
    <3>1. /\ buffer_list[j].buffer \in Addrs
          /\ fdt[buffer_list[j].fd] = at[buffer_list[j].buffer]
      BY <1>3, <1>17
    <3>2. at[buffer_list[j].buffer] = at[buffer_list[i].buffer]
      BY <2>2, <3>1
    <3>3. buffer_list[j].buffer = buffer_list[i].buffer
      BY <2>2, <3>1, <3>2 DEF IInv, FileInv
    <3> QED
      BY <2>3, <3>3
  <2>5. buffer_list[i].buffer \notin as
    BY <2>3 DEF as
  <2>6. /\ at'[buffer_list[i].buffer] = at[buffer_list[i].buffer]
        /\ fdt'[buffer_list[i].fd] = fdt[buffer_list[i].fd]
    BY <1>1, <2>2, <2>4, <2>5
  <2> QED
    BY <2>1, <2>2, <2>6
<1>19. UniqueInv'
  <2> SUFFICES ASSUME clean PROVE UniqueInv'
    BY DEF UniqueInv
  <2>1. \A i, j \in DOMAIN buffer_list' :
          /\ buffer_list'[i].fd # 0 /\ buffer_list'[j].fd # 0
          /\ buffer_list'[i].buffer = buffer_list'[j].buffer
          => i = j
    BY <1>9, <1>10, <1>17
  <2>2. ASSUME NEW a \in Addrs, at'[a] # 0
        PROVE  \E i \in DOMAIN buffer_list' : buffer_list'[i].fd # 0 /\ buffer_list'[i].buffer = a
    <3>1. PICK i \in DOMAIN buffer_list : buffer_list[i].fd # 0 /\ buffer_list[i].buffer = a
      BY <1>12, <2>2 DEF IInv, UniqueInv
    <3> QED
      BY <1>9, <1>12, <2>2, <3>1
  <2> QED
    BY <2>1, <2>2 DEF UniqueInv
<1>20. OpenInv'
  <2> SUFFICES ASSUME clean, ~mmapFailed, NEW x \in Fds, fdt'[x] # 0
               PROVE  \E i \in DOMAIN buffer_list' : buffer_list'[i].fd = x
    BY DEF OpenInv
  <2>1. PICK i \in DOMAIN buffer_list : buffer_list[i].fd = x
    BY <1>13 DEF IInv, OpenInv
  <2> QED
    BY <1>9, <1>13, <2>1
<1> QED
  BY <1>7, <1>9, <1>10, <1>12, <1>13, <1>15, <1>16, <1>18, <1>19, <1>20

LEMMA FreeBufferInv ==
  ASSUME IInv, NEW a \in Addrs, FreeBuffer(a)
  PROVE  IInv'
<1> DEFINE S == {Min(Active(a))}
<1>1. /\ alive = "yes" /\ alive' = "yes" /\ Active(a) # {} /\ FreeProxyBuffers(S)
      /\ \A t \in Threads : selected[t] # NULL => selected[t].buffer # a
      /\ UNCHANGED <<nfile, selected, clean, mmapFailed>>
  BY DEF FreeBuffer
<1>2. Active(a) \subseteq Nat
  BY DEF IInv, TypeOK, Active
<1>3. Min(Active(a)) \in Active(a)
  BY <1>1, <1>2, MinIn
<1>4. S \in SUBSET FiniEntries /\ \A i \in S : buffer_list[i].buffer = a
  BY <1>3 DEF Active, FiniEntries
<1> HIDE DEF S
<1>5. /\ TypeOK' /\ FileInv' /\ MemInv' /\ EntryInv' /\ UniqueInv' /\ OpenInv'
      /\ DOMAIN buffer_list' = DOMAIN buffer_list
      /\ \A i \in DOMAIN buffer_list \ S : buffer_list'[i] = buffer_list[i]
  BY <1>1, <1>4, FreeInv
<1>6. SelectInv'
  <2> SUFFICES ASSUME clean, NEW t \in Threads, selected[t] # NULL
               PROVE  \E i \in DOMAIN buffer_list' :
                        buffer_list'[i] = selected[t] /\ buffer_list'[i].fd # 0
    BY <1>1 DEF SelectInv
  <2>1. PICK i \in DOMAIN buffer_list : buffer_list[i] = selected[t] /\ buffer_list[i].fd # 0
    BY DEF IInv, SelectInv
  <2>2. i \notin S
    BY <1>1, <1>4, <2>1
  <2> QED
    BY <1>5, <2>1, <2>2
<1>7. DeadInv' /\ FiniCleans'
  BY <1>1 DEF DeadInv, FiniCleans
<1> QED
  BY <1>5, <1>6, <1>7 DEF IInv

\* After the destructor: a buffer that is still mapped would have an entry,
\* and that was freed.
LEMMA LibFiniInv == IInv /\ LibFini => IInv'
<1> SUFFICES ASSUME IInv, LibFini PROVE IInv'
  OBVIOUS
<1> DEFINE S == FiniEntries
<1>1. /\ alive = "yes" /\ alive' = "fini" /\ FreeProxyBuffers(S)
      /\ \A t \in Threads : selected[t] = NULL
      /\ UNCHANGED <<nfile, selected, clean, mmapFailed>>
  BY DEF LibFini
<1>2. \A i \in DOMAIN buffer_list : buffer_list[i].fd # 0 => i \in S
  BY EntryTypes DEF IInv, FiniEntries
<1>3. S \in SUBSET FiniEntries
  OBVIOUS
<1> HIDE DEF S
<1>4. /\ TypeOK' /\ FileInv' /\ MemInv' /\ EntryInv' /\ UniqueInv' /\ OpenInv'
      /\ \A a \in Addrs : at'[a] # 0 =>
           at'[a] = at[a] /\ \A i \in S : buffer_list[i].buffer # a
      /\ \A x \in Fds : fdt'[x] # 0 =>
           fdt'[x] = fdt[x] /\ \A i \in S : buffer_list[i].fd # x
  BY <1>1, <1>3, FreeInv
<1>5. SelectInv'
  BY <1>1 DEF SelectInv
<1>6. DeadInv'
  BY <1>1 DEF DeadInv
<1>7. ASSUME clean PROVE \A a \in Addrs : at'[a] = 0
  <2> SUFFICES ASSUME NEW a \in Addrs, at'[a] # 0 PROVE FALSE
    OBVIOUS
  <2>1. PICK i \in DOMAIN buffer_list : buffer_list[i].fd # 0 /\ buffer_list[i].buffer = a
    BY <1>1, <1>4, <1>7 DEF IInv, UniqueInv
  <2> QED
    BY <1>2, <1>4, <2>1
<1>8. ASSUME clean, ~mmapFailed PROVE \A x \in Fds : fdt'[x] = 0
  <2> SUFFICES ASSUME NEW x \in Fds, fdt'[x] # 0 PROVE FALSE
    OBVIOUS
  <2>1. PICK i \in DOMAIN buffer_list : buffer_list[i].fd = x
    BY <1>1, <1>4, <1>8 DEF IInv, OpenInv
  <2>2. x # 0
    BY LibBufferAssumption
  <2> QED
    BY <1>2, <1>4, <2>1, <2>2
<1>9. FiniCleans'
  BY <1>1, <1>7, <1>8 DEF FiniCleans
<1> QED
  BY <1>4, <1>5, <1>6, <1>9 DEF IInv

-----------------------------------------------------------------------------
(* Transfers                                                               *)

LEMMA BufferSelectInv ==
  ASSUME IInv, NEW t \in Threads, NEW a \in Addrs, BufferSelect(t, a)
  PROVE  IInv'
<1> DEFINE k == Min(Selectable(a))
<1>1. /\ alive = "yes" /\ Selectable(a) # {}
      /\ selected' = [selected EXCEPT ![t] = buffer_list[k]]
      /\ UNCHANGED <<bufVars, alive, buffer_list, fdt, at, clean, mmapFailed>>
  BY DEF BufferSelect
<1>2. Selectable(a) \subseteq Nat
  BY DEF IInv, TypeOK, Selectable
<1>3. k \in Selectable(a)
  BY <1>1, <1>2, MinIn
<1>4. k \in DOMAIN buffer_list /\ buffer_list[k].fd # 0
  BY <1>3 DEF Selectable
<1> HIDE DEF k
<1>5. buffer_list[k] \in Entries
  BY <1>4, EntryTypes DEF IInv
<1>6. selected \in [Threads -> Entries \cup {NULL}]
  BY DEF IInv, TypeOK
<1>7. selected' \in [Threads -> Entries \cup {NULL}]
  BY <1>1, <1>5, <1>6
<1>8. TypeOK'
  BY <1>1, <1>7 DEF IInv, TypeOK, BufTypeOK, bufVars
<1>9. SelectInv'
  BY <1>1, <1>4, <1>6 DEF IInv, SelectInv
<1>10. FileInv' /\ MemInv' /\ EntryInv'
  BY <1>1 DEF IInv, FileInv, MemInv, NoLeak, FreedOnce, EntryInv, bufVars
<1>11. UniqueInv' /\ OpenInv' /\ DeadInv' /\ FiniCleans'
  BY <1>1 DEF IInv, UniqueInv, OpenInv, DeadInv, FiniCleans
<1> QED
  BY <1>8, <1>9, <1>10, <1>11 DEF IInv

LEMMA IoctlReturnInv ==
  ASSUME IInv, NEW t \in Threads, IoctlReturn(t)
  PROVE  IInv'
<1>1. /\ alive \in {"yes", "lost"}
      /\ selected' = [selected EXCEPT ![t] = NULL]
      /\ UNCHANGED <<bufVars, alive, buffer_list, fdt, at, clean, mmapFailed>>
  BY DEF IoctlReturn
<1>2. selected \in [Threads -> Entries \cup {NULL}]
  BY DEF IInv, TypeOK
<1>3. selected' \in [Threads -> Entries \cup {NULL}]
  BY <1>1, <1>2
<1>4. TypeOK'
  BY <1>1, <1>3 DEF IInv, TypeOK, BufTypeOK, bufVars
<1>5. SelectInv'
  BY <1>1, <1>2 DEF IInv, SelectInv
<1>6. FileInv' /\ MemInv' /\ EntryInv'
  BY <1>1 DEF IInv, FileInv, MemInv, NoLeak, FreedOnce, EntryInv, bufVars
<1>7. UniqueInv' /\ OpenInv' /\ DeadInv' /\ FiniCleans'
  BY <1>1 DEF IInv, UniqueInv, OpenInv, DeadInv, FiniCleans
<1> QED
  BY <1>4, <1>5, <1>6, <1>7 DEF IInv

-----------------------------------------------------------------------------
(* The theorems                                                            *)

LEMMA InvStep == IInv /\ [Next]_vars => IInv'
<1> SUFFICES ASSUME IInv, [Next]_vars PROVE IInv'
  OBVIOUS
<1>1. CASE LibInit
  BY <1>1, LibInitInv
<1>2. CASE LibFini
  BY <1>2, LibFiniInv
<1>3. CASE ProcessExit
  BY <1>3, ProcessExitInv
<1>4. CASE AllocSucceeds
  BY <1>4, AllocSucceedsInv
<1>5. CASE AllocMmapFails
  BY <1>5, AllocMmapFailsInv
<1>6. CASE AllocNoFile
  BY <1>6, AllocNoFileInv
<1>7. CASE ResizeFails
  BY <1>7, ResizeFailsInv
<1>8. CASE \E a \in Addrs : FreeBuffer(a)
  BY <1>8, FreeBufferInv
<1>9. CASE \E t \in Threads, a \in Addrs : BufferSelect(t, a)
  BY <1>9, BufferSelectInv
<1>10. CASE \E t \in Threads : IoctlReturn(t)
  BY <1>10, IoctlReturnInv
<1>11. CASE UNCHANGED vars
  <2>1. UNCHANGED <<bufVars, libVars>>
    BY <1>11 DEF vars
  <2>2. TypeOK' /\ FileInv' /\ MemInv'
    BY <2>1 DEF IInv, TypeOK, BufTypeOK, FileInv, MemInv, NoLeak, FreedOnce, bufVars, libVars
  <2>3. EntryInv' /\ UniqueInv' /\ SelectInv' /\ OpenInv' /\ DeadInv' /\ FiniCleans'
    BY <2>1 DEF IInv, EntryInv, UniqueInv, SelectInv, OpenInv, DeadInv, FiniCleans, libVars
  <2> QED
    BY <2>2, <2>3 DEF IInv
<1> QED
  BY <1>1, <1>2, <1>3, <1>4, <1>5, <1>6, <1>7, <1>8, <1>9, <1>10, <1>11 DEF Next

LEMMA InvHolds == Spec => []IInv
  BY InvInit, InvStep, PTL DEF Spec

\* The kernel's tables, the list and the selected entries have their types in
\* every state, whatever realloc leaves in the list and whichever mmap fails.
THEOREM TypeCorrect == Spec => []TypeOK
<1>1. IInv => TypeOK
  BY DEF IInv
<1> QED
  BY <1>1, InvHolds, PTL

\* A transfer's ioctl goes to the file of the buffer its caller named, and
\* every buffer is found by exactly one entry: _buffer_select_helper and
\* dmap_free_buffer lead to the right file, however threads allocate, resize
\* and free in between.
THEOREM ListSoundHolds == Spec => []ListSound
<1>1. ASSUME IInv PROVE SelectedFileIsBuffer
  <2> SUFFICES ASSUME clean, NEW t \in Threads, selected[t] # NULL
               PROVE  /\ selected[t].fd \in Fds /\ fdt[selected[t].fd] # 0
                      /\ fdt[selected[t].fd] = at[selected[t].buffer]
    BY DEF SelectedFileIsBuffer
  <2>1. PICK i \in DOMAIN buffer_list : buffer_list[i] = selected[t] /\ buffer_list[i].fd # 0
    BY <1>1 DEF IInv, SelectInv
  <2>2. buffer_list[i].fd \in Fds
    BY <1>1, <2>1, EntryTypes DEF IInv
  <2>3. /\ at[buffer_list[i].buffer] # 0
        /\ fdt[buffer_list[i].fd] = at[buffer_list[i].buffer]
    BY <1>1, <2>1 DEF IInv, EntryInv
  <2> QED
    BY <2>1, <2>2, <2>3
<1>2. ASSUME IInv PROVE OneEntryPerBuffer
  <2> SUFFICES ASSUME clean, alive = "yes", NEW a \in Addrs, at[a] # 0
               PROVE  Cardinality(Active(a)) = 1
    BY DEF OneEntryPerBuffer
  <2>1. PICK i \in DOMAIN buffer_list : buffer_list[i].fd # 0 /\ buffer_list[i].buffer = a
    BY <1>2 DEF IInv, UniqueInv
  <2>2. \A j \in DOMAIN buffer_list : buffer_list[j].fd # 0 <=> buffer_list[j].fd > 0
    BY <1>2, EntryTypes DEF IInv
  <2>3. \A j \in DOMAIN buffer_list :
          buffer_list[j].fd # 0 /\ buffer_list[j].buffer = a => j = i
    BY <1>2, <2>1 DEF IInv, UniqueInv
  <2>4. Active(a) = {i}
    BY <2>1, <2>2, <2>3 DEF Active
  <2> QED
    BY <2>4, FS_Singleton
<1>3. IInv => ListSound
  BY <1>1, <1>2 DEF ListSound
<1> QED
  BY <1>3, InvHolds, PTL

\* dma_proxy_lib_fini leaves no buffer mapped, and no file open unless an mmap
\* of the process has failed.
THEOREM FiniCleansHolds == Spec => []FiniCleans
<1>1. IInv => FiniCleans
  BY DEF IInv
<1> QED
  BY <1>1, InvHolds, PTL

\* No segment is freed twice, and while no mmap has run out of memory the
\* driver has allocated exactly the segments of the buffers that are mapped:
\* dma_proxy_vma_close, called for a free, a destructor or a process that dies,
\* gives back what dma_proxy_mmap took.
THEOREM MemoryKept == Spec => [](NoLeak /\ FreedOnce)
<1>1. IInv => NoLeak /\ FreedOnce
  BY DEF IInv, MemInv
<1> QED
  BY <1>1, InvHolds, PTL

-----------------------------------------------------------------------------
(* The segments fill the mapping                                           *)

\* What Naturals defines 2^i to be.  The provers do not unfold it, so the
\* theorem below has it as a hypothesis.
PowersOfTwo == 2^0 = 1 /\ \A i \in Nat : 2^i \in Nat /\ 2^(i + 1) = 2 * 2^i

\* A bounded set of numbers has a greatest element, which Max returns.
LEMMA MaxIn ==
  ASSUME NEW S \in SUBSET Nat, S # {}, NEW n \in Nat, \A x \in S : x <= n
  PROVE  Max(S) \in S /\ \A y \in S : y <= Max(S)
<1> DEFINE T == {n - x : x \in S}
<1>1. T \in SUBSET Nat /\ T # {}
  <2>1. \A x \in S : n - x \in Nat
    OBVIOUS
  <2>2. PICK x \in S : TRUE
    OBVIOUS
  <2>3. n - x \in T
    OBVIOUS
  <2> QED
    BY <2>1, <2>3
<1>2. Min(T) \in T /\ \A y \in T : Min(T) <= y
  <2> HIDE DEF T
  <2> QED
    BY <1>1, MinIn
<1>3. PICK x \in S : Min(T) = n - x
  BY <1>2
<1>4. ASSUME NEW y \in S PROVE x >= y
  <2>1. n - x <= n - y
    BY <1>2, <1>3
  <2>2. x \in Nat /\ y \in Nat
    OBVIOUS
  <2> QED
    BY <2>1, <2>2
<1>5. \E z \in S : \A y \in S : z >= y
  BY <1>4
<1>6. Max(S) \in S /\ \A y \in S : Max(S) >= y
  BY <1>5 DEF Max
<1> QED
  BY <1>6

\* Doubling grows.
LEMMA DoublingGrows ==
  ASSUME NEW g \in [Nat -> Nat], g[0] = 1, \A i \in Nat : g[i + 1] = 2 * g[i]
  PROVE  /\ \A i \in Nat : i < g[i]
         /\ \A i, j \in Nat : i <= j => g[i] <= g[j]
<1>1. ASSUME NEW C \in SUBSET Nat, C # {}, 0 \notin C
      PROVE  \E i \in Nat : i \notin C /\ i + 1 \in C /\ \A j \in C : i + 1 <= j
  <2>1. Min(C) \in C /\ \A y \in C : Min(C) <= y
    BY <1>1, MinIn
  <2>2. Min(C) \in Nat /\ Min(C) # 0
    BY <1>1, <2>1
  <2>3. Min(C) - 1 \in Nat /\ (Min(C) - 1) + 1 = Min(C) /\ ~(Min(C) <= Min(C) - 1)
    BY <2>2
  <2>4. Min(C) - 1 \notin C
    BY <2>1, <2>3
  <2> QED
    BY <2>1, <2>3, <2>4
<1>2. \A i \in Nat : i < g[i]
  <2> DEFINE C == {i \in Nat : ~(i < g[i])}
  <2> SUFFICES ASSUME C # {} PROVE FALSE
    OBVIOUS
  <2>1. 0 \notin C /\ C \in SUBSET Nat
    OBVIOUS
  <2>2. PICK i \in Nat : i \notin C /\ i + 1 \in C
    <3> HIDE DEF C
    <3> QED
      BY <1>1, <2>1
  <2>3. i < g[i] /\ ~(i + 1 < g[i + 1]) /\ g[i + 1] = 2 * g[i] /\ g[i] \in Nat
    BY <2>2
  <2> QED
    BY <2>3
<1>3. ASSUME NEW i \in Nat, NEW j \in Nat, i <= j PROVE g[i] <= g[j]
  <2> DEFINE C == {m \in Nat : i <= m /\ ~(g[i] <= g[m])}
  <2> SUFFICES ASSUME C # {} PROVE FALSE
    BY <1>3
  <2>1. 0 \notin C /\ C \in SUBSET Nat
    <3>1. CASE i = 0
      BY <3>1
    <3>2. CASE i # 0
      BY <3>2
    <3> QED
      BY <3>1, <3>2
  <2>2. PICK m \in Nat : m \notin C /\ m + 1 \in C
    <3> HIDE DEF C
    <3> QED
      BY <1>1, <2>1
  <2>3. /\ i <= m + 1 /\ ~(g[i] <= g[m + 1]) /\ (i <= m => g[i] <= g[m])
        /\ g[m + 1] = 2 * g[m] /\ g[m] \in Nat /\ g[i] \in Nat /\ g[m + 1] \in Nat
    BY <2>2
  <2>4. i # m + 1
    BY <2>3
  <2> QED
    BY <2>3, <2>4
<1> QED
  BY <1>2, <1>3

\* A segment is never larger than what remains to be mapped: the size is
\* rounded down to a power of two before its order is taken.
LEMMA SegmentFits ==
  ASSUME PowersOfTwo, NEW r \in Nat, r # 0, NEW z \in SegmentSizes(r)
  PROVE  z \in Nat /\ z <= r
<1> DEFINE P(i) == 2^i
<1>1. /\ P(0) = 1 /\ \A i \in Nat : P(i) \in Nat /\ P(i + 1) = 2 * P(i)
  BY DEF PowersOfTwo
<1>2. PICK o \in 0..FirstOrder(r) : z = P(o)
  BY DEF SegmentSizes
<1> DEFINE p == Min({r, MAX_BUF_SIZE})
           K == {i \in 0..p : P(i) <= p}
           Q == {P(i) : i \in K}
           q == RoundDownPowOfTwo(p)
           B == {i \in 0..q : P(i) >= q}
<1>3. q = Max(Q) /\ FirstOrder(r) = Min(B)
  BY DEF RoundDownPowOfTwo, FirstOrder, OrderBase2
<1>4. MAX_BUF_SIZE = P(MAX_ORDER - 1)
  BY DEF MAX_BUF_SIZE
<1> HIDE DEF P
<1>5. /\ \A i \in Nat : i < P(i)
      /\ \A i, j \in Nat : i <= j => P(i) <= P(j)
  <2> DEFINE g == [i \in Nat |-> P(i)]
  <2>1. g \in [Nat -> Nat] /\ g[0] = 1 /\ \A i \in Nat : g[i + 1] = 2 * g[i]
    BY <1>1
  <2>2. \A i \in Nat : g[i] = P(i)
    OBVIOUS
  <2> HIDE DEF g
  <2>3. /\ \A i \in Nat : i < g[i]
        /\ \A i, j \in Nat : i <= j => g[i] <= g[j]
    BY <2>1, DoublingGrows
  <2> QED
    BY <2>2, <2>3
<1>6. MAX_BUF_SIZE \in Nat /\ MAX_BUF_SIZE # 0
  <2>1. MAX_ORDER - 1 \in Nat
    BY BufferAssumption
  <2>2. P(MAX_ORDER - 1) \in Nat /\ MAX_ORDER - 1 < P(MAX_ORDER - 1)
    BY <1>1, <1>5, <2>1
  <2>3. P(MAX_ORDER - 1) # 0
    BY <2>1, <2>2
  <2> QED
    BY <1>4, <2>2, <2>3
<1>7. p \in Nat /\ p # 0 /\ p <= r
  <2>1. {r, MAX_BUF_SIZE} \in SUBSET Nat /\ {r, MAX_BUF_SIZE} # {}
    BY <1>6
  <2>2. p \in {r, MAX_BUF_SIZE} /\ \A y \in {r, MAX_BUF_SIZE} : p <= y
    BY <2>1, MinIn
  <2> HIDE DEF p
  <2> QED
    BY <1>6, <2>2
<1> HIDE DEF p
<1>8. Q \in SUBSET Nat /\ Q # {} /\ \A x \in Q : x <= p
  <2>1. 0 \in 0..p /\ P(0) <= p
    BY <1>1, <1>7
  <2>2. 0 \in K
    BY <2>1
  <2>3. P(0) \in Q
    BY <2>2
  <2>4. \A i \in K : P(i) \in Nat /\ P(i) <= p
    BY <1>1, <1>7
  <2> QED
    BY <2>3, <2>4
<1>9. q \in Q
  <2> HIDE DEF Q, q
  <2> QED
    BY <1>3, <1>7, <1>8, MaxIn
<1>10. PICK m \in K : q = P(m)
  BY <1>9
<1>11. m \in Nat /\ m <= q /\ q \in Nat /\ q <= p
  <2>1. m \in Nat /\ P(m) \in Nat /\ P(m) <= p /\ m < P(m)
    BY <1>1, <1>5, <1>7, <1>10
  <2> HIDE DEF q
  <2> QED
    BY <1>10, <2>1
<1> HIDE DEF q
<1>12. m \in B
  BY <1>10, <1>11
<1>13. Min(B) \in Nat /\ Min(B) <= m
  <2>1. B \in SUBSET Nat /\ B # {}
    BY <1>11, <1>12
  <2> HIDE DEF B
  <2> QED
    BY <1>12, <2>1, MinIn
<1> HIDE DEF B
<1>14. o \in Nat /\ o <= m
  BY <1>2, <1>3, <1>11, <1>13
<1>15. P(o) \in Nat /\ P(o) <= P(m)
  BY <1>1, <1>5, <1>11, <1>14
<1> QED
  BY <1>2, <1>7, <1>10, <1>11, <1>15

\* A collection of segments that suffices is exactly as large as the mapping.
LEMMA CollectedFills ==
  ASSUME PowersOfTwo, NEW n \in Nat, n # 0, NEW s \in Collected(n), Pages(s) >= n
  PROVE  Pages(s) = n
<1>1. s \in Seq(Nat)
  BY DEF Collected, BoundedSeq, SeqOf
<1>2. \A i \in DOMAIN s : /\ PagesBefore(s, i) < n
                          /\ s[i] - PagesBefore(s, i) \in SegmentSizes(n - PagesBefore(s, i))
  BY DEF Collected
<1> DEFINE k == Len(s)
           b == PagesBefore(s, k)
<1>3. k \in Nat /\ DOMAIN s = 1..k
  BY <1>1
<1>4. k # 0
  <2> SUFFICES ASSUME k = 0 PROVE FALSE
    OBVIOUS
  <2>1. Pages(s) = 0
    BY DEF Pages, PagesBefore
  <2> QED
    BY <2>1
<1>5. Pages(s) = s[k] /\ s[k] \in Nat /\ k \in DOMAIN s
  <2>1. k + 1 # 1 /\ (k + 1) - 1 = k
    BY <1>3, <1>4
  <2>2. k \in DOMAIN s
    BY <1>3, <1>4
  <2>3. Pages(s) = s[k]
    BY <2>1 DEF Pages, PagesBefore
  <2> QED
    BY <1>1, <2>2, <2>3
<1>6. b \in Nat
  <2>1. CASE k = 1
    BY <2>1 DEF PagesBefore
  <2>2. CASE k # 1
    <3>1. k - 1 \in DOMAIN s
      BY <1>3, <1>4, <2>2
    <3> QED
      BY <1>1, <2>2, <3>1 DEF PagesBefore
  <2> QED
    BY <2>1, <2>2
<1>7. b < n /\ s[k] - b \in SegmentSizes(n - b)
  BY <1>2, <1>5
<1> HIDE DEF b
<1>8. n - b \in Nat /\ n - b # 0
  BY <1>6, <1>7
<1>9. s[k] - b \in Nat /\ s[k] - b <= n - b
  BY <1>7, <1>8, SegmentFits
<1> HIDE DEF k
<1> DEFINE e == s[k]
<1>10. e \in Nat /\ e - b <= n - b /\ Pages(s) = e
  BY <1>5, <1>9
<1> HIDE DEF e
<1>11. e <= n /\ e >= n
  BY <1>6, <1>10
<1> QED
  BY <1>10, <1>11

\* No step changes the segments or the size of a buffer that stays mapped.
LEMMA FillStep ==
  PowersOfTwo /\ IInv /\ SegmentsFill /\ [Next]_vars => SegmentsFill'
<1> SUFFICES ASSUME PowersOfTwo, IInv, SegmentsFill, [Next]_vars PROVE SegmentsFill'
  OBVIOUS
<1>1. /\ BufTypeOK /\ mapped \subseteq Files /\ mapped \subseteq 1..nfile /\ nfile \in Nat
      /\ nfile + 1 \notin mapped
  BY DEF IInv, TypeOK, BufTypeOK, FileInv
<1>2. CASE UNCHANGED bufVars
  BY <1>2 DEF SegmentsFill, bufVars
<1>3. ASSUME NEW F, VmaClose(F) PROVE SegmentsFill'
  <2>1. /\ mapped' = mapped \ F /\ size' = size
        /\ segs' = [f \in Files |-> IF f \in F THEN <<>> ELSE segs[f]]
    BY <1>3 DEF VmaClose
  <2>2. \A f \in mapped' : f \in mapped /\ segs'[f] = segs[f]
    BY <1>1, <2>1
  <2> QED
    BY <2>1, <2>2 DEF SegmentsFill
<1>4. CASE AllocMmapFails
  <2>1. PICK n \in Sizes : MmapNoMemory(nfile', n) \/ MmapUndone
    BY <1>4 DEF AllocMmapFails
  <2>2. nfile' = nfile + 1
    BY <1>4 DEF AllocMmapFails
  <2>3. mapped' = mapped /\ size' = size /\ \A f \in mapped : segs'[f] = segs[f]
    <3>1. CASE MmapUndone
      BY <3>1 DEF MmapUndone
    <3>2. CASE MmapNoMemory(nfile', n)
      <4>1. PICK s \in Collected(n) :
              mapped' = mapped /\ size' = size /\ segs' = [segs EXCEPT ![nfile'] = s]
        BY <3>2 DEF MmapNoMemory
      <4> QED
        BY <1>1, <2>2, <4>1 DEF BufTypeOK
    <3> QED
      BY <2>1, <3>1, <3>2
  <2> QED
    BY <2>3 DEF SegmentsFill
<1>5. CASE AllocSucceeds
  <2>1. nfile' = nfile + 1 /\ nfile < MaxFiles
    BY <1>5 DEF AllocSucceeds
  <2>2. PICK n \in Sizes \ {0} : MmapSucceeds(nfile', n)
    BY <1>5 DEF AllocSucceeds
  <2>3. n \in Nat /\ n # 0 /\ nfile' \in Files
    BY <1>1, <2>1, BufferAssumption DEF Files
  <2>4. PICK s \in Collected(n) :
          /\ Pages(s) >= n
          /\ segs' = [segs EXCEPT ![nfile'] = s]
          /\ size' = [size EXCEPT ![nfile'] = n]
          /\ mapped' = mapped \cup {nfile'}
    BY <2>2 DEF MmapSucceeds
  <2>5. Pages(s) = n
    BY <2>3, <2>4, CollectedFills
  <2>6. segs'[nfile'] = s /\ size'[nfile'] = n
    BY <1>1, <2>3, <2>4 DEF BufTypeOK
  <2>7. \A f \in mapped : segs'[f] = segs[f] /\ size'[f] = size[f]
    BY <1>1, <2>1, <2>4 DEF BufTypeOK
  <2> QED
    BY <2>4, <2>5, <2>6, <2>7 DEF SegmentsFill
<1>6. CASE LibFini \/ ProcessExit \/ \E a \in Addrs : FreeBuffer(a)
  <2>1. \E F : VmaClose(F)
    BY <1>6 DEF LibFini, ProcessExit, FreeBuffer, FreeProxyBuffers
  <2> QED
    BY <1>3, <2>1
<1>7. CASE LibInit \/ AllocNoFile \/ ResizeFails
  BY <1>2, <1>7 DEF LibInit, AllocNoFile, ResizeFails
<1>8. CASE \/ \E t \in Threads, a \in Addrs : BufferSelect(t, a)
           \/ \E t \in Threads : IoctlReturn(t)
  BY <1>2, <1>8 DEF BufferSelect, IoctlReturn
<1>9. CASE UNCHANGED vars
  BY <1>2, <1>9 DEF vars
<1> QED
  BY <1>4, <1>5, <1>6, <1>7, <1>8, <1>9 DEF Next

\* The driver's memory is exactly what the mapped buffers need: nothing is
\* lost, freed twice, or smaller or larger than the mapping the user sees.
\* Rounding down before the order is taken makes the loop of dma_proxy_mmap
\* end on the last page and not after it.
THEOREM MemorySoundHolds ==
  ASSUME PowersOfTwo
  PROVE  Spec => []MemorySound
<1>1. Init => SegmentsFill
  BY DEF Init, BufInit, SegmentsFill
<1>2. IInv /\ SegmentsFill /\ [Next]_vars => SegmentsFill'
  BY FillStep
<1>3. IInv /\ SegmentsFill => MemorySound
  BY DEF IInv, MemInv, MemorySound
<1> QED
  BY <1>1, <1>2, <1>3, InvInit, InvStep, PTL DEF Spec

=============================================================================
