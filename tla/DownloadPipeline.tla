------------------------- MODULE DownloadPipeline -------------------------
(***************************************************************************)
(* The pipelined SFTP download of a file whose size is known               *)
(* (core/sftp/pipeline.rs and run_download_pipeline in                     *)
(* core/sftp/transfer.rs).  The file is fetched in windows: a window is    *)
(* planned from the first byte not yet written, one read per chunk is      *)
(* spawned, the answers arrive in any order and may be short, an           *)
(* OrderedChunkBuffer holds back what is early and the rest is appended to *)
(* the local partial file.  A byte is its offset in the remote file.       *)
(***************************************************************************)
EXTENDS Integers, Sequences, FiniteSets, FiniteSetsExt

CONSTANTS
    Totals,        \* sizes the remote metadata may declare
    PacketLens,    \* limits@openssh.com: packet_len, None when not announced
    ReadLens,      \* limits@openssh.com: read_len, None when not announced
    Overhead,      \* SFTP_DATA_PACKET_OVERHEAD
    DefaultChunk,  \* DEFAULT_READ_CHUNK_BYTES
    MaxChunk,      \* MAX_READ_CHUNK_BYTES
    MaxRequests,   \* MAX_PIPELINE_REQUESTS
    MaxBytes       \* MAX_PIPELINE_BYTES

None == -1

ASSUME LimitsAssumption ==
    /\ Totals \subseteq Nat
    /\ PacketLens \subseteq Nat \cup {None}
    /\ ReadLens \subseteq Nat \cup {None}
    /\ {Overhead, DefaultChunk} \subseteq Nat
    /\ {MaxChunk, MaxRequests, MaxBytes} \subseteq Nat \ {0}

VARIABLES
    pc,           \* "plan", "collect", "drain" or "done"
    total,        \* size declared by the remote metadata
    packet,       \* packet_len the server announced
    chunk,        \* chunk_bytes negotiated by open_raw_download
    transferred,  \* bytes appended to the local file
    windowEnd,    \* end of the window planned so far
    reads,        \* the JoinSet: chunks asked for and not yet joined
    buf,          \* OrderedChunkBuffer::chunks
    file,         \* local partial file: the chunks in the order written
    cancelled,    \* the cancellation token
    result        \* what run_download_pipeline returns

session == <<total, packet, chunk>>   \* settled before the loop starts
vars == <<pc, session, transferred, windowEnd, reads, buf, file, cancelled,
          result>>

Chunks == [off : Nat, len : Nat \ {0}]
End(c) == c.off + c.len

-----------------------------------------------------------------------------
(* Negotiated read size.                                                    *)

AtMost(a, b) == IF a <= b THEN a ELSE b

\* packet.saturating_sub(OVERHEAD), dropped when nothing is left of it
PacketData(p) == IF p > Overhead THEN p - Overhead ELSE None

OrElse(a, b) == IF a = None THEN b ELSE a

\* Mutant: the announced read length wins over the packet length.
EffectiveReadChunkAnyPacket(p, r) ==
    LET asked == OrElse(r, OrElse(PacketData(p), DefaultChunk))
    IN  IF asked < 1 THEN 1 ELSE AtMost(asked, MaxChunk)

EffectiveReadChunk(p, r) ==
    LET asked == AtMost(OrElse(r, OrElse(PacketData(p), DefaultChunk)),
                        OrElse(PacketData(p), MaxChunk))
    IN  IF asked < 1 THEN 1 ELSE AtMost(asked, MaxChunk)

-----------------------------------------------------------------------------

Init ==
    /\ pc = "plan"
    /\ total \in Totals
    /\ packet \in PacketLens
    /\ chunk \in {EffectiveReadChunk(packet, r) : r \in ReadLens}
    /\ transferred = 0
    /\ windowEnd = 0
    /\ reads = {}
    /\ buf = {}
    /\ file = <<>>
    /\ cancelled = FALSE
    /\ result = "none"

\* Every early return: abort_all drops the reads that are still out.
Return(r) ==
    /\ pc' = "done"
    /\ result' = r
    /\ reads' = {}
    /\ UNCHANGED <<session, transferred, windowEnd, buf, file, cancelled>>

-----------------------------------------------------------------------------
(* Planning a window (plan_window_from).                                    *)

WindowBytes == windowEnd - transferred

WindowOpen ==
    /\ windowEnd < total
    /\ chunk # 0
    /\ Cardinality(reads) < MaxRequests
    /\ WindowBytes < MaxBytes

NextChunk ==
    [off |-> windowEnd,
     len |-> AtMost(AtMost(total - windowEnd, chunk), MaxBytes - WindowBytes)]

PlanChunk ==
    /\ pc = "plan"
    /\ WindowOpen
    /\ reads' = reads \cup {NextChunk}
    /\ windowEnd' = End(NextChunk)
    /\ UNCHANGED <<pc, session, transferred, buf, file, cancelled, result>>

StartWindow ==
    /\ pc = "plan"
    /\ ~WindowOpen
    /\ transferred < total
    /\ IF reads = {} THEN Return("unplannable")
       ELSE /\ pc' = "collect"
            /\ UNCHANGED <<session, transferred, windowEnd, reads, buf, file,
                           cancelled, result>>

Finish ==
    /\ pc = "plan"
    /\ transferred >= total
    /\ Return("ok")

-----------------------------------------------------------------------------
(* Joining a read: the server answered it with n bytes.                     *)

BufferedBytes(b) == MapThenSumSet(LAMBDA c : c.len, b)

\* OrderedChunkBuffer::insert; its next_offset is the number of bytes written
CanInsert(c) == c.off >= transferred /\ \A d \in buf : d.off # c.off

Remainder(r, n) ==
    IF n < r.len THEN {[off |-> r.off + n, len |-> r.len - n]} ELSE {}

JoinData(r, n) ==
    LET got == [off |-> r.off, len |-> n]
    IN  /\ pc = "collect"
        /\ IF ~CanInsert(got) THEN Return("overlap")
           ELSE IF BufferedBytes(buf \cup {got}) > MaxBytes THEN Return("limit")
           ELSE /\ pc' = "drain"
                /\ reads' = (reads \ {r}) \cup Remainder(r, n)
                /\ buf' = buf \cup {got}
                /\ UNCHANGED <<session, transferred, windowEnd, file,
                               cancelled, result>>

\* The remote file ended early, answered nonsense, or the request failed.
JoinFailure(r) ==
    /\ pc = "collect"
    /\ \E why \in {"eof", "invalid", "transport"} : Return(why)

\* select! in the collecting loop saw the token
CancelCollect ==
    /\ pc = "collect"
    /\ cancelled
    /\ Return("cancelled")

-----------------------------------------------------------------------------
(* drain_ready and the writes it feeds, one chunk at a time.                *)

\* Mutant: the buffer hands out its lowest chunk whether or not it is the next one.
ReadyLowest == {c \in buf : \A d \in buf : c.off <= d.off}

Ready == {c \in buf : c.off = transferred}

WriteChunk ==
    /\ pc = "drain"
    /\ \E c \in Ready :
          /\ buf' = buf \ {c}
          /\ file' = Append(file, c)
          /\ transferred' = transferred + c.len
    /\ UNCHANGED <<pc, session, windowEnd, reads, cancelled, result>>

\* The write, or the progress event after it, fails; or the token is seen.
WriteFails ==
    /\ pc = "drain"
    /\ Ready # {}
    /\ \/ Return("io")
       \/ cancelled /\ Return("cancelled")

\* Mutant: the loop waits for another read even when none is out.
DrainedAlways ==
    /\ pc = "drain"
    /\ Ready = {}
    /\ pc' = "collect"
    /\ UNCHANGED <<session, transferred, windowEnd, reads, buf, file,
                   cancelled, result>>

Drained ==
    /\ pc = "drain"
    /\ Ready = {}
    /\ reads # {}
    /\ pc' = "collect"
    /\ UNCHANGED <<session, transferred, windowEnd, reads, buf, file,
                   cancelled, result>>

WindowDone ==
    /\ pc = "drain"
    /\ Ready = {}
    /\ reads = {}
    /\ IF transferred # windowEnd \/ buf # {} THEN Return("gap")
       ELSE /\ pc' = "plan"
            /\ UNCHANGED <<session, transferred, windowEnd, reads, buf, file,
                           cancelled, result>>

-----------------------------------------------------------------------------

\* The user's cancellation, at any moment of the download.
Cancel ==
    /\ pc # "done"
    /\ ~cancelled
    /\ cancelled' = TRUE
    /\ UNCHANGED <<pc, session, transferred, windowEnd, reads, buf, file,
                   result>>

Join ==
    \E r \in reads : JoinFailure(r) \/ \E n \in 1 .. r.len : JoinData(r, n)

Step ==
    \/ PlanChunk \/ StartWindow \/ Finish
    \/ Join \/ CancelCollect
    \/ WriteChunk \/ WriteFails \/ Drained \/ WindowDone

\* The download has returned.
Returned == pc = "done" /\ UNCHANGED vars

Next == Step \/ Cancel \/ Returned

Spec == Init /\ [][Next]_vars

\* The runtime keeps polling the download and every read is answered or times
\* out (request_timeout_secs of the SFTP session).
FairSpec == Spec /\ WF_vars(Step)

-----------------------------------------------------------------------------

\* Types of the pipeline's state.
TypeOK ==
    /\ pc \in {"plan", "collect", "drain", "done"}
    /\ total \in Nat
    /\ packet \in Nat \cup {None}
    /\ chunk \in 1 .. MaxChunk
    /\ transferred \in Nat
    /\ windowEnd \in Nat
    /\ reads \in SUBSET Chunks
    /\ buf \in SUBSET Chunks
    /\ file \in Seq(Chunks)
    /\ cancelled \in BOOLEAN
    /\ result \in {"none", "ok", "overlap", "limit", "eof", "invalid",
                   "transport", "cancelled", "io", "gap", "unplannable"}

\* The chunks written lie back to back from the first byte of the file, up to
\* the count the progress and the final size check use: whatever the order of
\* the answers, the partial file is always a prefix of the remote file.
InOrder ==
    /\ file = <<>> => transferred = 0
    /\ file # <<>> =>
          file[1].off = 0 /\ transferred = End(file[Len(file)])
    /\ \A i \in 1 .. Len(file) - 1 : file[i + 1].off = End(file[i])

Owed == reads \cup buf

\* While a window is open, each of its bytes that is not written yet is either
\* asked for once or buffered once: nothing is requested twice, lost after a
\* short read, or asked for outside the window.
WindowPartitioned ==
    pc # "done" =>
        /\ transferred <= windowEnd /\ windowEnd <= total
        /\ \A c \in Owed : transferred <= c.off /\ End(c) <= windowEnd
        /\ \A c, d \in Owed : c = d \/ End(c) <= d.off \/ End(d) <= c.off
        /\ reads \cap buf = {}
        /\ \A b \in transferred .. windowEnd - 1 :
              \E c \in Owed : c.off <= b /\ b < End(c)

\* The consistency checks of the loop (no chunk to plan, overlapping block, gap
\* at the end of a window) never reject a download: answers that are merely short or out of
\* order are reassembled, not reported as corruption.
NeverRejectsShortReads == result \notin {"overlap", "gap", "unplannable"}

\* A window never holds more than MAX_PIPELINE_BYTES between the reads in
\* flight and the buffer, nor more reads than MAX_PIPELINE_REQUESTS, so the
\* buffer's own limit check is never what ends a download; and no read asks
\* for more than fits in a packet the server said it can send.
WithinLimits ==
    /\ BufferedBytes(Owed) <= MaxBytes
    /\ Cardinality(reads) <= MaxRequests
    /\ result # "limit"
    /\ PacketData(packet) # None => \A r \in reads : r.len <= PacketData(packet)

\* Success means the whole file, to the byte the metadata declared.
OkIsComplete == result = "ok" => transferred = total

\* Every download returns.
Terminates == <>(pc = "done")
=============================================================================
