----------------------------- MODULE HevcBuffers -----------------------------
(***************************************************************************)
(* The memory that HEVC and VP9 need for every CAPTURE buffer beside the   *)
(* buffer itself (vdec/codec_hevc_common.c): compressed frame buffers,     *)
(* their headers, a map for the MMU; and the table through which the       *)
(* hardware finds a frame by the index of its buffer.  Resuming allocates  *)
(* for the buffers that are ready then and overwrites the addresses of     *)
(* what it allocated before, any allocation may fail, stopping frees what  *)
(* has an address.                                                         *)
(***************************************************************************)
EXTENDS Integers, SequencesExt, FiniteSetsExt

Index == 0 .. 2  \* of CAPTURE buffers

\* A platform, and whether the stream has ten bits, in which case frames are
\* compressed and scaled down in depth (use_fbc, use_downsample), on the newer
\* platforms through the MMU (use_mmu).
Mode == [revision : {"GXBB", "GXL", "G12A"}, tenBit : BOOLEAN]

Compressed(mode) == mode.tenBit
UseMmu(mode)     == mode.revision = "G12A" /\ Compressed(mode)

\* struct codec_hevc_common: what has an address; "leaked" counts the allocations
\* whose address was overwritten
NoMemory == [map |-> FALSE, fbc |-> {}, headers |-> {}, leaked |-> 0]

\* the addresses of the buffers S are overwritten in one of the tables
Overwrite(comm, table, S) ==
  [comm EXCEPT ![table] = @ \cup S, !.leaked = @ + Cardinality(comm[table] \cap S)]

\* codec_hevc_free_mmu_headers
FreeHeaders(comm) == [comm EXCEPT !.headers = {}]

\* codec_hevc_free_fbc_buffers
FreeBuffers(comm) == FreeHeaders([comm EXCEPT !.fbc = {}, !.map = FALSE])

\* The n-th allocation of a resume fails; 0 for none.  The map comes first, then
\* a buffer for each ready CAPTURE buffer, then a header for each.
MapTries(mode) == IF UseMmu(mode) THEN 1 ELSE 0

\* the buffers that get memory before an allocation fails
Served(ready, fails) == IF fails \in 1 .. Len(ready) THEN SubSeq(ready, 1, fails - 1) ELSE ready

\* codec_hevc_alloc_mmu_headers
AllocHeaders(comm, ready, fails) ==
  LET filled == Overwrite(comm, "headers", ToSet(Served(ready, fails)))
  IN  IF Served(ready, fails) = ready THEN [ok |-> TRUE, comm |-> filled]
      ELSE [ok |-> FALSE, comm |-> FreeBuffers(FreeHeaders(filled))]

\* codec_hevc_alloc_fbc_buffers
AllocBuffers(mode, comm, ready, fails) ==
  LET filled == Overwrite(comm, "fbc", ToSet(Served(ready, fails)))
  IN  IF Served(ready, fails) # ready THEN [ok |-> FALSE, comm |-> FreeBuffers(filled)]
      ELSE IF UseMmu(mode)
        THEN AllocHeaders(filled, ready, IF fails > Len(ready) THEN fails - Len(ready) ELSE 0)
      ELSE [ok |-> TRUE, comm |-> filled]

\* codec_hevc_setup_buffers, the memory: the map's address is overwritten even when
\* there is no memory for a new one
SetupBuffers(mode, comm, ready, fails) ==
  LET later  == IF fails > MapTries(mode) THEN fails - MapTries(mode) ELSE 0
      mapped == [comm EXCEPT !.map = fails # 1, !.leaked = @ + IF comm.map THEN 1 ELSE 0]
  IN  IF ~Compressed(mode) THEN [ok |-> TRUE, comm |-> comm]
      ELSE IF ~UseMmu(mode) THEN AllocBuffers(mode, comm, ready, later)
      ELSE IF fails = 1 THEN [ok |-> FALSE, comm |-> mapped]
      ELSE AllocBuffers(mode, mapped, ready, later)

-----------------------------------------------------------------------------
(* The table of frames: an entry for each plane (one if compressed).       *)

Entries(mode) == IF Compressed(mode) THEN 1 ELSE 2

\* the index set_ref_list gives the hardware for the first plane of a buffer
EntryOf(mode, idx) == idx * Entries(mode)

\* setup_buffers_gxbb names the entry of each buffer; to fill the slots that are
\* left it writes the entry of the last one again
TableGxbb(mode, ready) ==
  [e \in 0 .. Entries(mode) * Cardinality(Index) - 1 |->
     IF e \div Entries(mode) \in ToSet(ready) THEN e \div Entries(mode) ELSE -1]

\* setup_buffers_gxl writes them one after the other, in the order of the queue
TableGxl(mode, ready) ==
  [e \in 0 .. Entries(mode) * Len(ready) - 1 |-> ready[e \div Entries(mode) + 1]]

Table(mode, ready) == IF mode.revision = "GXBB" THEN TableGxbb(mode, ready) ELSE TableGxl(mode, ready)

-----------------------------------------------------------------------------
Queues  == {q \in UNION {[1 .. n -> Index] : n \in 1 .. Cardinality(Index)} :
              \A i, j \in DOMAIN q : i # j => q[i] # q[j]}

\* userspace has queued its buffers in the order of their indices
InOrderFromZero(ready) == \A i \in DOMAIN ready : ready[i] = i - 1

\* After any resume every ready buffer has its memory, or the resume has failed and
\* the session is aborted; the first one since the start, if it fails, leaves nothing
\* behind, and stopping then frees all.  A second resume of a compressed stream without
\* a stop - amvdec_src_change resumes in place - leaks what the first has allocated
\* for the same buffers: that nothing leaks is claimed of no stream that does so.
MemoryReturned ==
  \A mode \in Mode, tenBit \in BOOLEAN, first, second \in Queues :
    \A fails \in 0 .. 2 * Len(first) + 1, failsNow \in 0 .. 2 * Len(second) + 1 :
      LET before  == SetupBuffers([mode EXCEPT !.tenBit = tenBit], NoMemory, first, fails)
          resumed == SetupBuffers(mode, before.comm, second, failsNow)
          has     == resumed.comm
      IN  /\ ~before.ok => before.comm = NoMemory
          /\ before.ok /\ resumed.ok /\ Compressed(mode) =>
               /\ ToSet(second) \subseteq has.fbc
               /\ UseMmu(mode) => has.map /\ ToSet(second) \subseteq has.headers
          /\ before.ok => [FreeBuffers(has) EXCEPT !.leaked = 0] = NoMemory
          /\ before.ok /\ ~(tenBit /\ Compressed(mode)) => has.leaked = 0

\* The hardware finds each buffer under its index.  On all but the first platform this
\* is claimed only if the buffers were queued in the order of their indices: the table
\* follows the queue there, and in another order the hardware reads another buffer.
TableFinds ==
  \A mode \in Mode, ready \in Queues :
    mode.revision = "GXBB" \/ InOrderFromZero(ready) =>
      \A idx \in ToSet(ready) : Table(mode, ready)[EntryOf(mode, idx)] = idx
=============================================================================
