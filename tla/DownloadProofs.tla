--------------------------- MODULE DownloadProofs ---------------------------
(***************************************************************************)
(* Proofs about the two halves of a download, for any constants.           *)
(* DownloadPipeline: what the pipelined download has written is a prefix   *)
(* of the remote file, short and reordered answers never make it fail, and *)
(* success means the whole file.  SftpDownload: calls side by side leave   *)
(* no partial file without an owner, and a file that one call alone opened *)
(* and renamed is what it verified.                                        *)
(***************************************************************************)
EXTENDS DownloadPipeline, SftpDownload, FiniteSetTheorems, TLAPS

\* The chunk size every server's limits lead to is usable.
LEMMA ChunkType ==
    ASSUME NEW p \in PacketLens, NEW r \in ReadLens
    PROVE  EffectiveReadChunk(p, r) \in 1 .. MaxChunk
<1> DEFINE pd == PacketData(p)
<1>1. pd \in Nat \cup {None}
  BY LimitsAssumption DEF PacketData, None
<1>2. OrElse(pd, DefaultChunk) \in Nat /\ OrElse(pd, MaxChunk) \in Nat
  BY <1>1, LimitsAssumption DEF OrElse, None
<1>3. OrElse(r, OrElse(pd, DefaultChunk)) \in Nat
  BY <1>2, LimitsAssumption DEF OrElse, None
<1>4. QED
  BY <1>2, <1>3, LimitsAssumption DEF EffectiveReadChunk, AtMost

\* What holds where: no chunk is left over between two windows, the loop waits
\* for a read only while one is out, and there is no verdict before the end.
Boundary ==
    /\ pc = "plan" => buf = {}
    /\ pc = "collect" => reads # {} /\ Ready = {}
    /\ pc # "done" => result = "none"

\* The inductive invariant: the written prefix, the partition of the window's
\* remaining bytes, and the verdicts that only a complete file can have.
PipeInv ==
    /\ TypeOK
    /\ InOrder
    /\ WindowPartitioned
    /\ Boundary
    /\ NeverRejectsShortReads
    /\ OkIsComplete

LEMMA InitPipe == Init => PipeInv
<1> SUFFICES ASSUME Init PROVE PipeInv
  OBVIOUS
<1>1. TypeOK
  <2>1. chunk \in 1 .. MaxChunk
    BY ChunkType DEF Init
  <2>2. packet \in Nat \cup {None} /\ total \in Nat
    BY LimitsAssumption DEF Init
  <2>3. file \in Seq(Chunks)
    BY DEF Init
  <2>4. transferred \in Nat /\ windowEnd \in Nat
    BY DEF Init
  <2>5. QED
    BY <2>1, <2>2, <2>3, <2>4 DEF Init, TypeOK
<1>2. InOrder
  BY DEF Init, InOrder
<1>3. WindowPartitioned
  BY LimitsAssumption DEF Init, WindowPartitioned, Owed
<1>4. Boundary /\ NeverRejectsShortReads /\ OkIsComplete
  BY DEF Init, Boundary, NeverRejectsShortReads, OkIsComplete
<1>5. QED
  BY <1>1, <1>2, <1>3, <1>4 DEF PipeInv

\* An early return keeps what was written; its verdict is the caller's matter.
LEMMA ReturnStep ==
    ASSUME PipeInv, NEW r, Return(r),
           r \in {"ok", "limit", "eof", "invalid", "transport", "cancelled", "io"},
           r = "ok" => transferred = total
    PROVE  PipeInv'
  BY DEF PipeInv, TypeOK, Return, session, InOrder, WindowPartitioned, Boundary,
     NeverRejectsShortReads, OkIsComplete, End

LEMMA PlanChunkStep == PipeInv /\ PlanChunk => PipeInv'
<1> SUFFICES ASSUME PipeInv, PlanChunk PROVE PipeInv'
  OBVIOUS
<1> DEFINE n == NextChunk
<1>1. /\ n \in Chunks /\ n.off = windowEnd /\ n.len > 0
      /\ End(n) <= total /\ windowEnd < End(n) /\ End(n) \in Nat
  BY LimitsAssumption DEF PipeInv, TypeOK, PlanChunk, WindowOpen, NextChunk,
     WindowBytes, AtMost, End, Chunks, WindowPartitioned
<1>2. reads' = reads \cup {n} /\ windowEnd' = End(n) /\ buf' = buf /\ buf = {}
      /\ transferred' = transferred /\ file' = file /\ total' = total
      /\ pc = "plan" /\ pc' = pc /\ result' = result
  BY DEF PlanChunk, session, PipeInv, Boundary
<1> HIDE DEF n
<1>3. TypeOK'
  BY <1>1, <1>2 DEF PipeInv, TypeOK, PlanChunk, session
<1>4. InOrder'
  BY <1>2 DEF PipeInv, InOrder, End
<1>5. WindowPartitioned'
  <2>1. \A c \in Owed' : c \in Owed \/ c = n
    BY <1>2 DEF Owed
  <2>2. Owed \subseteq Owed' /\ n \in Owed'
    BY <1>2 DEF Owed
  <2>3. \A c \in Owed : c \in Chunks
    BY DEF Owed, PipeInv, TypeOK
  <2>4. ASSUME NEW b \in transferred' .. windowEnd' - 1
        PROVE  \E c \in Owed' : c.off <= b /\ b < End(c)
    <3>1. CASE b < windowEnd
      BY <3>1, <1>2, <2>2 DEF PipeInv, WindowPartitioned, TypeOK
    <3>2. CASE b >= windowEnd
      BY <3>2, <1>1, <1>2, <2>2 DEF PipeInv, TypeOK
    <3>3. QED
      BY <3>1, <3>2, <1>2 DEF PipeInv, TypeOK
  <2>5. \A c \in Owed' : transferred' <= c.off /\ End(c) <= windowEnd'
    BY <1>1, <1>2, <2>1, <2>3 DEF PipeInv, WindowPartitioned, TypeOK, Chunks, End
  <2>6. \A c, d \in Owed' : c = d \/ End(c) <= d.off \/ End(d) <= c.off
    BY <1>1, <1>2, <2>1, <2>3 DEF PipeInv, WindowPartitioned, TypeOK, Chunks, End
  <2>7. transferred' <= windowEnd' /\ windowEnd' <= total' /\ reads' \cap buf' = {}
    BY <1>1, <1>2 DEF PipeInv, WindowPartitioned, TypeOK
  <2>8. QED
    BY <2>4, <2>5, <2>6, <2>7 DEF WindowPartitioned
<1>6. Boundary' /\ NeverRejectsShortReads' /\ OkIsComplete'
  BY <1>2 DEF PipeInv, Boundary, NeverRejectsShortReads, OkIsComplete
<1>7. QED
  BY <1>3, <1>4, <1>5, <1>6 DEF PipeInv

\* A window that is not complete always has a chunk to ask for.
LEMMA StartWindowStep == PipeInv /\ StartWindow => PipeInv'
<1> SUFFICES ASSUME PipeInv, StartWindow PROVE PipeInv'
  OBVIOUS
<1>1. reads # {}
  <2>1. CASE windowEnd > transferred
    <3>1. transferred \in transferred .. windowEnd - 1
      BY <2>1 DEF PipeInv, TypeOK
    <3>2. PICK c \in Owed : c.off <= transferred
      BY <3>1 DEF PipeInv, WindowPartitioned, StartWindow
    <3>3. QED
      BY <3>2 DEF Owed, PipeInv, Boundary, StartWindow
  <2>2. CASE windowEnd = transferred
    <3>1. reads = {} => Cardinality(reads) = 0
      BY FS_EmptySet
    <3>2. QED
      BY <2>2, <3>1, LimitsAssumption
      DEF StartWindow, WindowOpen, WindowBytes, PipeInv, TypeOK
  <2>3. QED
    BY <2>1, <2>2 DEF PipeInv, WindowPartitioned, TypeOK, StartWindow
<1>2. Ready = {}
  BY DEF Ready, PipeInv, Boundary, StartWindow
<1>3. QED
  BY <1>1, <1>2 DEF StartWindow, session, PipeInv, TypeOK, InOrder,
     WindowPartitioned, Boundary, NeverRejectsShortReads, OkIsComplete, Owed,
     End, Ready

\* A joined read moves its bytes to the buffer and its rest back to the reads.
LEMMA JoinDataStep ==
    ASSUME PipeInv, NEW r \in reads, NEW n \in 1 .. r.len, JoinData(r, n)
    PROVE  PipeInv'
<1> DEFINE got == [off |-> r.off, len |-> n]
           rest == Remainder(r, n)
<1>1. /\ r \in Chunks /\ r \in Owed /\ got \in Chunks
      /\ got.off = r.off /\ got.len = n /\ r.off \in Nat /\ r.len \in Nat
      /\ n \in Nat /\ n > 0 /\ n <= r.len
  BY DEF PipeInv, TypeOK, Chunks, Owed
<1>2. /\ \A c \in Owed : /\ c \in Chunks /\ c.off \in Nat /\ c.len \in Nat /\ c.len > 0
                          /\ transferred <= c.off /\ End(c) <= windowEnd
      /\ transferred \in Nat /\ windowEnd \in Nat
      /\ \A c, d \in Owed : c = d \/ End(c) <= d.off \/ End(d) <= c.off
      /\ reads \cap buf = {}
      /\ transferred <= windowEnd /\ windowEnd <= total
  BY DEF PipeInv, TypeOK, Chunks, Owed, WindowPartitioned, JoinData
<1>3. CanInsert(got)
  <2>1. \A d \in buf : d \in Owed /\ d # r
    BY <1>2 DEF Owed
  <2>2. \A d \in buf : d.off # r.off
    BY <1>1, <1>2, <2>1 DEF End
  <2>3. QED
    BY <1>1, <1>2, <2>2 DEF CanInsert
<1>4. CASE BufferedBytes(buf \cup {got}) > MaxBytes
  <2>1. Return("limit")
    BY <1>3, <1>4 DEF JoinData
  <2>2. QED
    BY <2>1, ReturnStep
<1>5. CASE ~(BufferedBytes(buf \cup {got}) > MaxBytes)
  <2>1. /\ pc = "collect" /\ pc' = "drain"
        /\ reads' = (reads \ {r}) \cup rest
        /\ buf' = buf \cup {got}
        /\ UNCHANGED <<session, transferred, windowEnd, file, cancelled, result>>
    BY <1>3, <1>5 DEF JoinData
  <2>2. \A c \in rest : /\ c \in Chunks /\ c.off = r.off + n
                        /\ c.len = r.len - n /\ End(c) = End(r)
    BY <1>1 DEF Remainder, Chunks, End
  <2>3. n < r.len => rest # {}
    BY DEF Remainder
  <2>4. End(got) = r.off + n /\ End(r) = r.off + r.len
    BY <1>1 DEF End
  <2> HIDE DEF got, rest
  <2>5. TypeOK'
    BY <2>1, <2>2, <1>1 DEF PipeInv, TypeOK, session
  <2>6. InOrder'
    BY <2>1 DEF PipeInv, InOrder, End
  <2>7. \A c \in Owed' : (c \in Owed /\ c # r) \/ c = got \/ c \in rest
    BY <2>1, <1>2 DEF Owed
  <2>8. /\ \A c \in Owed : c = r \/ c \in Owed'
        /\ got \in Owed' /\ rest \subseteq Owed'
    BY <2>1 DEF Owed
  <2>9. ASSUME NEW c \in Owed'
        PROVE  transferred' <= c.off /\ End(c) <= windowEnd'
    <3>1. CASE c \in Owed
      BY <3>1, <2>1, <1>2
    <3>2. CASE c = got
      BY <3>2, <2>1, <2>4, <1>1, <1>2
    <3>3. CASE c \in rest
      BY <3>3, <2>1, <2>2, <2>4, <1>1, <1>2
    <3>4. QED
      BY <3>1, <3>2, <3>3, <2>7
  <2>10. \A c \in Owed : c # r => End(c) <= r.off \/ r.off + r.len <= c.off
    BY <1>1, <1>2, <2>4
  <2>11. \A c, d \in Owed' : c = d \/ End(c) <= d.off \/ End(d) <= c.off
    <3>1. \A c \in Owed :
             c # r => End(c) <= r.off \/ (r.off + n <= c.off /\ End(r) <= c.off)
      BY <2>10, <2>4, <1>1, <1>2
    <3>2. \A c \in Owed : c # r => End(c) <= got.off \/ End(got) <= c.off
      BY <3>1, <2>4, <1>1
    <3>3. \A c \in Owed, d \in rest : c # r => End(c) <= d.off \/ End(d) <= c.off
      <4> SUFFICES ASSUME NEW c \in Owed, NEW d \in rest, c # r
                   PROVE  End(c) <= d.off \/ End(d) <= c.off
        OBVIOUS
      <4>1. End(c) \in Nat
        BY <1>2 DEF End
      <4>2. QED
        BY <4>1, <3>1, <2>2, <1>1
    <3>4. \A d \in rest : End(got) <= d.off
      BY <2>2, <2>4, <1>1
    <3>5. \A c, d \in rest : c = d
      BY DEF rest, Remainder
    <3>6. QED
      BY <3>2, <3>3, <3>4, <3>5, <2>7, <1>2
  <2>12. reads' \cap buf' = {}
    <3>1. \A c \in reads : c # r => c # got
      BY <2>10, <1>1, <1>2 DEF Owed, End
    <3>2. \A c \in rest : c # got /\ c \notin buf
      <4>1. \A c \in rest : c # got
        BY <2>2, <1>1
      <4>2. \A d \in buf : d \in Owed /\ d # r
        BY <1>2 DEF Owed
      <4>3. \A c \in rest : c.len \in Nat /\ c.len > 0 /\ c.off \in Nat
        BY <2>2 DEF Chunks
      <4>4. \A c \in rest : c \notin buf
        BY <4>2, <4>3, <2>10, <2>2, <2>4, <1>1 DEF End
      <4>5. QED
        BY <4>1, <4>4
    <3>3. QED
      BY <3>1, <3>2, <2>1, <1>2
  <2>13. ASSUME NEW b \in transferred' .. windowEnd' - 1
         PROVE  \E c \in Owed' : c.off <= b /\ b < End(c)
    <3>1. PICK c \in Owed : c.off <= b /\ b < End(c)
      BY <2>1 DEF PipeInv, WindowPartitioned
    <3>2. CASE c # r
      BY <3>1, <3>2, <2>8
    <3>3. CASE c = r /\ b < r.off + n
      BY <3>1, <3>3, <2>8, <2>4, <1>1
    <3>4. CASE c = r /\ ~(b < r.off + n)
      <4>1. n < r.len
        BY <3>1, <3>4, <2>4, <1>1, <1>2, <2>1
      <4>2. PICK d : d \in rest
        BY <4>1, <2>3
      <4>3. d.off <= b /\ b < End(d)
        BY <4>2, <3>1, <3>4, <2>2, <1>1, <1>2, <2>1
      <4>4. QED
        BY <4>2, <4>3, <2>8
    <3>5. QED
      BY <3>2, <3>3, <3>4
  <2>14. WindowPartitioned'
    BY <2>9, <2>11, <2>12, <2>13, <2>1, <1>2
    DEF WindowPartitioned, session
  <2>15. Boundary' /\ NeverRejectsShortReads' /\ OkIsComplete'
    BY <2>1 DEF PipeInv, Boundary, NeverRejectsShortReads, OkIsComplete, session
  <2>16. QED
    BY <2>5, <2>6, <2>14, <2>15 DEF PipeInv
<1>6. QED
  BY <1>4, <1>5

\* Writing the chunk at the front of the buffer extends the prefix by it.
LEMMA WriteChunkStep == PipeInv /\ WriteChunk => PipeInv'
<1> SUFFICES ASSUME PipeInv, WriteChunk PROVE PipeInv'
  OBVIOUS
<1>1. PICK c \in buf : /\ c.off = transferred
                       /\ buf' = buf \ {c}
                       /\ file' = Append(file, c)
                       /\ transferred' = transferred + c.len
  BY DEF WriteChunk, Ready
<1>2. /\ pc = "drain" /\ pc' = pc /\ reads' = reads /\ windowEnd' = windowEnd
      /\ UNCHANGED <<session, cancelled, result>> /\ total' = total
  BY DEF WriteChunk, session
<1>3. /\ c \in Chunks /\ c \in Owed /\ c.off \in Nat /\ c.len \in Nat /\ c.len > 0
      /\ transferred' = End(c) /\ End(c) \in Nat /\ file \in Seq(Chunks)
  BY <1>1 DEF PipeInv, TypeOK, Chunks, Owed, End
<1>4. TypeOK'
  BY <1>1, <1>2, <1>3 DEF PipeInv, TypeOK, session
<1>5. InOrder'
  <2>1. file' # <<>> /\ Len(file') = Len(file) + 1 /\ file'[Len(file')] = c
        /\ \A i \in 1 .. Len(file) : file'[i] = file[i]
    BY <1>1, <1>3
  <2>2. file'[1].off = 0
    <3>1. CASE file = <<>>
      BY <3>1, <2>1, <1>1 DEF PipeInv, InOrder
    <3>2. CASE file # <<>>
      <4>1. 1 \in 1 .. Len(file)
        BY <3>2, <1>3
      <4>2. QED
        BY <4>1, <3>2, <2>1 DEF PipeInv, InOrder
    <3>3. QED
      BY <3>1, <3>2
  <2>3. ASSUME NEW i \in 1 .. Len(file') - 1
        PROVE  file'[i + 1].off = End(file'[i])
    <3>1. CASE i = Len(file)
      <4>1. file # <<>> /\ transferred = End(file[i]) /\ file'[i] = file[i]
        BY <3>1, <2>1, <1>3 DEF PipeInv, InOrder
      <4>2. file'[i + 1] = c
        BY <3>1, <2>1, <1>3
      <4>3. QED
        BY <4>1, <4>2, <1>1
    <3>2. CASE i # Len(file)
      <4>1. i \in 1 .. Len(file) - 1 /\ i \in 1 .. Len(file) /\ i + 1 \in 1 .. Len(file)
        BY <3>2, <2>1, <1>3
      <4>2. file[i + 1].off = End(file[i])
        BY <4>1 DEF PipeInv, InOrder
      <4>3. QED
        BY <4>1, <4>2, <2>1
    <3>3. QED
      BY <3>1, <3>2
  <2>4. QED
    BY <2>1, <2>2, <2>3, <1>3 DEF InOrder, End
<1>6. WindowPartitioned'
  <2>1. /\ \A d \in Owed : /\ d.off \in Nat /\ d.len \in Nat /\ d.len > 0
                            /\ transferred <= d.off /\ End(d) <= windowEnd
        /\ \A d, e \in Owed : d = e \/ End(d) <= e.off \/ End(e) <= d.off
        /\ reads \cap buf = {} /\ transferred \in Nat /\ windowEnd \in Nat
        /\ windowEnd <= total
        /\ \A b \in transferred .. windowEnd - 1 :
              \E d \in Owed : d.off <= b /\ b < End(d)
    BY <1>2 DEF PipeInv, WindowPartitioned, TypeOK, Owed, Chunks
  <2>2. \A d \in Owed' : d \in Owed /\ d # c
    BY <1>1, <1>2, <2>1 DEF Owed
  <2>3. \A d \in Owed : d = c \/ d \in Owed'
    BY <1>1, <1>2 DEF Owed
  <2>4. \A d \in Owed' : transferred' <= d.off /\ End(d) <= windowEnd'
    <3> SUFFICES ASSUME NEW d \in Owed' PROVE transferred' <= d.off /\ End(d) <= windowEnd'
      OBVIOUS
    <3>1. ~(End(d) <= c.off)
      BY <2>1, <2>2, <1>1 DEF End
    <3>2. QED
      BY <3>1, <2>1, <2>2, <1>2, <1>3
  <2>5. \A d, e \in Owed' : d = e \/ End(d) <= e.off \/ End(e) <= d.off
    BY <2>1, <2>2
  <2>6. ASSUME NEW b \in transferred' .. windowEnd' - 1
        PROVE  \E d \in Owed' : d.off <= b /\ b < End(d)
    <3>1. b \in transferred .. windowEnd - 1 /\ b >= End(c)
      BY <2>1, <1>1, <1>2, <1>3
    <3>2. PICK d \in Owed : d.off <= b /\ b < End(d)
      BY <3>1, <2>1
    <3>3. d # c
      BY <3>1, <3>2, <1>3
    <3>4. QED
      BY <3>2, <3>3, <2>3
  <2>7. transferred' <= windowEnd' /\ windowEnd' <= total' /\ reads' \cap buf' = {}
    BY <2>1, <1>1, <1>2, <1>3
  <2>8. QED
    BY <2>4, <2>5, <2>6, <2>7 DEF WindowPartitioned
<1>7. Boundary' /\ NeverRejectsShortReads' /\ OkIsComplete'
  <2>1. result # "ok"
    BY <1>2 DEF PipeInv, Boundary
  <2>2. QED
    BY <2>1, <1>2 DEF PipeInv, Boundary, NeverRejectsShortReads, OkIsComplete
<1>8. QED
  BY <1>4, <1>5, <1>6, <1>7 DEF PipeInv

\* The end of a window finds nothing missing and nothing left over.
LEMMA WindowDoneStep == PipeInv /\ WindowDone => PipeInv'
<1> SUFFICES ASSUME PipeInv, WindowDone PROVE PipeInv'
  OBVIOUS
<1>1. Owed = buf /\ pc = "drain" /\ Ready = {} /\ reads = {}
  BY DEF WindowDone, Owed
<1>2. transferred = windowEnd
  <2> SUFFICES ASSUME transferred # windowEnd PROVE FALSE
    OBVIOUS
  <2>1. transferred \in transferred .. windowEnd - 1
    BY <1>1 DEF PipeInv, TypeOK, WindowPartitioned
  <2>2. PICK c \in buf : c.off <= transferred
    BY <2>1, <1>1 DEF PipeInv, WindowPartitioned
  <2>3. c.off = transferred
    BY <2>2, <1>1 DEF PipeInv, WindowPartitioned, TypeOK, Chunks
  <2>4. QED
    BY <2>2, <2>3, <1>1 DEF Ready
<1>3. buf = {}
  <2> SUFFICES ASSUME NEW c \in buf PROVE FALSE
    OBVIOUS
  <2>1. c.off \in Nat /\ c.len \in Nat /\ c.len > 0
    BY DEF PipeInv, TypeOK, Chunks
  <2>2. transferred <= c.off /\ End(c) <= windowEnd
    BY <1>1 DEF PipeInv, WindowPartitioned
  <2>3. QED
    BY <2>1, <2>2, <1>2 DEF End, PipeInv, TypeOK
<1>4. QED
  BY <1>1, <1>2, <1>3 DEF WindowDone, session, PipeInv, TypeOK, InOrder,
     WindowPartitioned, Boundary, NeverRejectsShortReads, OkIsComplete, Owed, End

LEMMA NextPipe == PipeInv /\ [Next]_vars => PipeInv'
<1> SUFFICES ASSUME PipeInv, [Next]_vars PROVE PipeInv'
  OBVIOUS
<1>1. CASE PlanChunk
  BY <1>1, PlanChunkStep
<1>2. CASE StartWindow
  BY <1>2, StartWindowStep
<1>3. CASE Finish
  <2>1. transferred = total
    BY <1>3 DEF Finish, PipeInv, TypeOK, WindowPartitioned
  <2>2. Return("ok")
    BY <1>3 DEF Finish
  <2>3. QED
    BY <2>1, <2>2, ReturnStep
<1>4. CASE Join
  <2>1. PICK r \in reads : JoinFailure(r) \/ \E n \in 1 .. r.len : JoinData(r, n)
    BY <1>4 DEF Join
  <2>2. CASE JoinFailure(r)
    BY <2>2, ReturnStep DEF JoinFailure
  <2>3. CASE \E n \in 1 .. r.len : JoinData(r, n)
    BY <2>3, JoinDataStep
  <2>4. QED
    BY <2>1, <2>2, <2>3
<1>5. CASE CancelCollect
  BY <1>5, ReturnStep DEF CancelCollect
<1>6. CASE WriteChunk
  BY <1>6, WriteChunkStep
<1>7. CASE WriteFails
  BY <1>7, ReturnStep DEF WriteFails
<1>8. CASE Drained
  BY <1>8 DEF Drained, session, PipeInv, TypeOK, InOrder, WindowPartitioned,
     Boundary, NeverRejectsShortReads, OkIsComplete, Owed, End, Ready
<1>9. CASE WindowDone
  BY <1>9, WindowDoneStep
<1>10. CASE Cancel
  BY <1>10 DEF Cancel, session, PipeInv, TypeOK, InOrder, WindowPartitioned,
     Boundary, NeverRejectsShortReads, OkIsComplete, Owed, End, Ready
<1>11. CASE UNCHANGED vars
  BY <1>11 DEF vars, session, PipeInv, TypeOK, InOrder, WindowPartitioned,
     Boundary, NeverRejectsShortReads, OkIsComplete, Owed, End, Ready
<1>12. QED
  BY <1>1, <1>2, <1>3, <1>4, <1>5, <1>6, <1>7, <1>8, <1>9, <1>10, <1>11
  DEF Next, Step, Returned

LEMMA PipeInvariant == Spec => []PipeInv
  BY InitPipe, NextPipe, PTL DEF Spec

\* Whatever the order and the length of the answers, the local partial file is
\* at every moment a prefix of the remote file (write_download_chunk).
THEOREM PrefixWritten == Spec => []InOrder
<1>1. PipeInv => InOrder
  BY DEF PipeInv
<1>2. QED
  BY <1>1, PipeInvariant, PTL

\* Every unwritten byte of the open window is owed by exactly one read or one
\* buffered chunk (run_download_pipeline, OrderedChunkBuffer).
THEOREM BytesOwedOnce == Spec => []WindowPartitioned
<1>1. PipeInv => WindowPartitioned
  BY DEF PipeInv
<1>2. QED
  BY <1>1, PipeInvariant, PTL

\* Short or reordered answers never trip the loop's overlap, gap and planning
\* checks.
THEOREM NoFalseIntegrityError == Spec => []NeverRejectsShortReads
<1>1. PipeInv => NeverRejectsShortReads
  BY DEF PipeInv
<1>2. QED
  BY <1>1, PipeInvariant, PTL

\* run_download_pipeline returns Ok only with the whole file written.
THEOREM SuccessIsWhole == Spec => []OkIsComplete
<1>1. PipeInv => OkIsComplete
  BY DEF PipeInv
<1>2. QED
  BY <1>1, PipeInvariant, PTL
\* Reads in flight: not too many, none larger than what was negotiated, and no
\* more bytes ahead of the file than a window may hold.
Modest ==
    /\ IsFiniteSet(reads) /\ Cardinality(reads) <= MaxRequests
    /\ \A r \in reads : r.len <= chunk
    /\ windowEnd - transferred <= MaxBytes
    /\ PacketData(packet) # None => chunk <= PacketData(packet)

\* effective_read_chunk_len: what is negotiated fits in a packet.
LEMMA ChunkFits ==
    ASSUME NEW p \in PacketLens, NEW r \in ReadLens, PacketData(p) # None
    PROVE  EffectiveReadChunk(p, r) <= PacketData(p)
<1> DEFINE room == PacketData(p)
           asked == AtMost(OrElse(r, room), room)
<1>1. room \in Nat \ {0}
  BY LimitsAssumption DEF PacketData, None
<1>2. OrElse(r, room) \in Nat
  BY <1>1, LimitsAssumption DEF OrElse, None
<1>3. asked \in Nat /\ asked <= room
  BY <1>1, <1>2 DEF AtMost
<1>4. EffectiveReadChunk(p, r) = IF asked < 1 THEN 1 ELSE AtMost(asked, MaxChunk)
  BY DEF EffectiveReadChunk, OrElse
<1> HIDE DEF room, asked
<1>5. EffectiveReadChunk(p, r) <= room
  BY <1>1, <1>3, <1>4, LimitsAssumption DEF AtMost
<1> QED  BY <1>5 DEF room

\* Only planning asks for more, and it asks for no more than is left.
LEMMA ModestStep ==
    ASSUME TypeOK, Modest, [Next]_vars
    PROVE  Modest'
<1> USE DEF session
<1>1. \A s : s \in SUBSET reads => IsFiniteSet(s) /\ Cardinality(s) <= MaxRequests
  <2> TAKE s
  <2> HAVE s \in SUBSET reads
  <2>1. IsFiniteSet(s) /\ Cardinality(s) <= Cardinality(reads)
    BY FS_Subset DEF Modest
  <2>2. Cardinality(s) \in Nat /\ Cardinality(reads) \in Nat /\ MaxRequests \in Nat
    BY <2>1, FS_CardinalityType, LimitsAssumption DEF Modest
  <2> QED  BY <2>1, <2>2 DEF Modest
<1>2. ASSUME reads' \in SUBSET reads, UNCHANGED session,
             windowEnd' - transferred' <= MaxBytes
      PROVE  Modest'
  BY <1>1, <1>2 DEF Modest
<1>3. ASSUME NEW r, Return(r)
      PROVE  Modest'
  BY <1>2, <1>3 DEF Return, Modest
<1>4. CASE PlanChunk
  <2>1. /\ IsFiniteSet(reads) /\ Cardinality(reads) \in Nat /\ Cardinality(reads) < MaxRequests
        /\ MaxRequests \in Nat /\ MaxBytes \in Nat
    BY <1>4, FS_CardinalityType, LimitsAssumption DEF PlanChunk, WindowOpen, Modest
  <2>2. reads' = reads \cup {NextChunk} /\ UNCHANGED <<session, transferred>>
        /\ windowEnd' = windowEnd + NextChunk.len
    BY <1>4 DEF PlanChunk, End, NextChunk
  <2>3. IsFiniteSet(reads') /\ Cardinality(reads') <= MaxRequests
    <3>1. /\ IsFiniteSet(reads \cup {NextChunk})
          /\ \/ Cardinality(reads \cup {NextChunk}) = Cardinality(reads)
             \/ Cardinality(reads \cup {NextChunk}) = Cardinality(reads) + 1
      BY <2>1, FS_AddElement
    <3> HIDE DEF NextChunk
    <3> QED  BY <2>1, <2>2, <3>1
  <2>4. NextChunk.len <= chunk /\ NextChunk.len <= MaxBytes - (windowEnd - transferred)
    BY <2>1 DEF NextChunk, AtMost, WindowBytes, TypeOK
  <2>5. windowEnd' - transferred' <= MaxBytes
    <3>1. NextChunk.len \in Int
      BY <2>1 DEF NextChunk, AtMost, WindowBytes, TypeOK
    <3> QED  BY <2>1, <2>2, <2>4, <3>1 DEF TypeOK
  <2> QED  BY <2>2, <2>3, <2>4, <2>5 DEF Modest
<1>5. CASE Join
  <2>1. PICK r \in reads : JoinFailure(r) \/ \E n \in 1 .. r.len : JoinData(r, n)
    BY <1>5 DEF Join
  <2>2. CASE JoinFailure(r)
    BY <1>3, <2>2 DEF JoinFailure
  <2>3. ASSUME NEW n \in 1 .. r.len, JoinData(r, n),
               reads' = (reads \ {r}) \cup Remainder(r, n),
               UNCHANGED <<session, transferred, windowEnd>>
        PROVE  Modest'
    <3>1. r \in Chunks /\ IsFiniteSet(reads \ {r}) /\ Cardinality(reads \ {r}) = Cardinality(reads) - 1
      BY FS_RemoveElement DEF Modest, TypeOK
    <3>2. Cardinality(reads) \in Nat /\ MaxRequests \in Nat /\ Cardinality(reads) <= MaxRequests
      BY FS_CardinalityType, LimitsAssumption DEF Modest
    <3> DEFINE rest == [off |-> r.off + n, len |-> r.len - n]
    <3>3. rest.len <= r.len
      BY <3>1 DEF Chunks
    <3>4. Remainder(r, n) = {} \/ Remainder(r, n) = {rest}
      BY DEF Remainder
    <3>5. IsFiniteSet(reads') /\ Cardinality(reads') <= MaxRequests
      <4>1. CASE Remainder(r, n) = {}
        <5>1. reads' = reads \ {r}
          BY <2>3, <4>1
        <5> QED  BY <3>1, <3>2, <5>1
      <4>2. CASE Remainder(r, n) = {rest}
        <5>1. reads' = (reads \ {r}) \cup {rest}
          BY <2>3, <4>2
        <5> HIDE DEF rest
        <5>2. /\ IsFiniteSet((reads \ {r}) \cup {rest})
              /\ \/ Cardinality((reads \ {r}) \cup {rest}) = Cardinality(reads \ {r})
                 \/ Cardinality((reads \ {r}) \cup {rest}) = Cardinality(reads \ {r}) + 1
          BY <3>1, FS_AddElement
        <5> QED  BY <3>1, <3>2, <5>1, <5>2
      <4> QED  BY <3>4, <4>1, <4>2
    <3>6. \A s \in reads' : s.len <= chunk
      <4>1. r.len <= chunk /\ rest.len \in Int /\ r.len \in Int /\ chunk \in Int
        BY <3>1 DEF Modest, Chunks, TypeOK
      <4>2. rest.len <= chunk
        BY <3>3, <4>1
      <4> HIDE DEF rest
      <4> QED  BY <2>3, <3>4, <4>2 DEF Modest
    <3> QED  BY <2>3, <3>5, <3>6 DEF Modest
  <2> QED  BY <1>3, <2>1, <2>2, <2>3 DEF JoinData
<1>6. CASE WriteChunk
  <2>1. PICK c \in Ready : transferred' = transferred + c.len
    BY <1>6 DEF WriteChunk
  <2>2. c.len \in Nat
    BY DEF Ready, TypeOK, Chunks
  <2>3. windowEnd' = windowEnd /\ UNCHANGED <<session, reads>> /\ MaxBytes \in Nat
    BY <1>6, LimitsAssumption DEF WriteChunk
  <2>4. windowEnd' - transferred' <= MaxBytes
    BY <2>1, <2>2, <2>3 DEF Modest, TypeOK
  <2> QED  BY <1>2, <2>3, <2>4
<1>7. CASE StartWindow \/ Finish \/ CancelCollect \/ WriteFails \/ Drained \/ WindowDone
  BY <1>2, <1>3, <1>7 DEF StartWindow, Finish, CancelCollect, WriteFails, Drained, WindowDone, Modest
<1>8. CASE Cancel \/ UNCHANGED vars
  BY <1>2, <1>8 DEF Cancel, vars, Modest
<1> QED  BY <1>4, <1>5, <1>6, <1>7, <1>8 DEF Next, Step, Returned

\* plan_window_from: whatever the size of the file, the limits of the server and
\* the answers, no more reads are in flight than MAX_PIPELINE_REQUESTS, the
\* window is no more than MAX_PIPELINE_BYTES ahead of the file, and no read
\* asks for more than fits in a packet the server said it can send.
THEOREM RequestsWithinLimits ==
    Spec => [](/\ Cardinality(reads) <= MaxRequests
               /\ windowEnd - transferred <= MaxBytes
               /\ PacketData(packet) # None => \A r \in reads : r.len <= PacketData(packet))
<1>1. Init => Modest
  <2> SUFFICES ASSUME Init
               PROVE  Modest
    OBVIOUS
  <2>1. IsFiniteSet(reads) /\ Cardinality(reads) = 0 /\ reads = {}
    BY FS_EmptySet DEF Init
  <2>2. PacketData(packet) # None => chunk <= PacketData(packet)
    BY ChunkFits DEF Init
  <2>3. windowEnd = 0 /\ transferred = 0 /\ MaxRequests \in Nat /\ MaxBytes \in Nat
    BY LimitsAssumption DEF Init
  <2> QED  BY <2>1, <2>2, <2>3 DEF Modest
<1>2. PipeInv /\ Modest /\ [Next]_vars => Modest'
  BY ModestStep DEF PipeInv
<1>3. PipeInv /\ Modest =>
         /\ Cardinality(reads) <= MaxRequests
         /\ windowEnd - transferred <= MaxBytes
         /\ PacketData(packet) # None => \A r \in reads : r.len <= PacketData(packet)
  <2> SUFFICES ASSUME PipeInv, Modest, PacketData(packet) # None, NEW r \in reads
               PROVE  r.len <= PacketData(packet)
    BY DEF Modest
  <2>1. r.len \in Int /\ chunk \in Int /\ PacketData(packet) \in Int
    BY LimitsAssumption DEF PipeInv, TypeOK, Chunks, PacketData, None
  <2> QED  BY <2>1 DEF Modest
<1> QED  BY <1>1, <1>2, <1>3, PipeInvariant, PTL DEF Spec

-----------------------------------------------------------------------------
(* SftpDownload: calls for one destination.                                *)

\* Types, with the domain of the inodes.
DownloadTyped == DownloadTypeOK /\ data \in [Inodes -> Seq(Download \cup {Hole})]

\* What a call has written after n blocks.
SentBy(d, n) == [i \in 1 .. n |-> d]

\* Before it creates its partial file a call has written nothing, and no path
\* and no handle leads to an inode of its own.
Fresh ==
    \A d \in Download : at[d] \in {"idle", "clear", "hash", "create"} =>
        /\ sent[d] = 0
        /\ partial # d /\ dest # d
        /\ \A e \in Download : handle[e] # d

\* Who else has an inode open has made it shared; the partial path leads to
\* an inode its maker has open, and one that is not shared holds what its
\* maker has written.
Private ==
    /\ \A d, e \in Download : handle[e] = d => e = d \/ d \in shared
    /\ \A d \in Download : partial = d => handle[d] = d
    /\ \A d \in Download : handle[d] = d => d \in shared \/ data[d] = SentBy(d, sent[d])

\* A call renames what it has accepted.
Accepted == \A d \in Download : at[d] \in {"replace", "rename"} => Accepts(d)

\* The destination, unless it is shared, belongs to a call that ended well.
Delivered ==
    dest \in Download =>
        \/ dest \in shared
        \/ /\ at[dest] = "done" /\ verdict[dest] = "ok"
           /\ handle[dest] = dest /\ Accepts(dest)

UnsharedInv == DownloadTyped /\ Fresh /\ Private /\ Accepted /\ Delivered

\* A partial file has an owner, and a call that was cut off does nothing more.
Tended == NoLitter /\ \A d \in Download : verdict[d] = "exit" => at[d] = "done"

-----------------------------------------------------------------------------

\* write_all leaves a sequence of blocks that ends with the block it wrote.
LEMMA WrittenBlocks ==
    ASSUME NEW old \in Seq(Download \cup {Hole}), NEW n \in Nat, NEW d \in Download
    PROVE  /\ Written(old, n, d) \in Seq(Download \cup {Hole})
           /\ Len(Written(old, n, d)) = IF n + 1 > Len(old) THEN n + 1 ELSE Len(old)
<1> DEFINE l == IF n + 1 > Len(old) THEN n + 1 ELSE Len(old)
<1>1. l \in Nat /\ Written(old, n, d) = [i \in 1 .. l |-> IF i = n + 1 THEN d
                                                       ELSE IF i <= Len(old) THEN old[i] ELSE Hole]
  BY DEF Written
<1>2. \A i \in 1 .. l : (IF i = n + 1 THEN d ELSE IF i <= Len(old) THEN old[i] ELSE Hole)
                           \in Download \cup {Hole}
  OBVIOUS
<1> HIDE DEF l
<1>3. Written(old, n, d) \in Seq(Download \cup {Hole}) /\ Len(Written(old, n, d)) = l
  BY <1>1, <1>2
<1> QED  BY <1>3 DEF l

\* A block written at the end of what a call wrote before extends it.
LEMMA WrittenNext ==
    ASSUME NEW n \in Nat, NEW d \in Download
    PROVE  Written(SentBy(d, n), n, d) = SentBy(d, n + 1)
<1>1. Len(SentBy(d, n)) = n
  BY DEF SentBy
<1> QED  BY <1>1 DEF Written, SentBy

\* Every step keeps the types, whatever number of calls run side by side.
LEMMA DownloadTypedStep ==
    ASSUME DownloadTyped, [DownloadNext]_downloadVars
    PROVE  DownloadTyped'
<1> USE DownloadAssumption DEF DownloadTyped, DownloadTypeOK, Inodes
<1>1. ASSUME NEW d \in Download, Proceed(d) \/ TransferFails(d) \/ CancelDownload(d)
      PROVE  DownloadTyped'
  <2>1. CASE CheckDestination(d)
    BY <2>1 DEF CheckDestination, Goto, ReturnEarly
  <2>2. CASE ClearPartial(d)
    BY <2>2 DEF ClearPartial, Goto, ReturnEarly
  <2>3. CASE HashRemote(d)
    BY <2>3 DEF HashRemote, Goto, ReturnEarly
  <2>4. CASE CreatePartial(d)
    BY <2>4 DEF CreatePartial, Goto
  <2>5. CASE WriteBlock(d)
    <3>1. /\ data' = [data EXCEPT ![handle[d]] = Written(data[handle[d]], sent[d], d)]
          /\ sent' = [sent EXCEPT ![d] = sent[d] + 1] /\ sent[d] < Blocks /\ sent[d] \in 0 .. Blocks
          /\ UNCHANGED <<dest, partial, request, good, at, verdict, handle, flagged, exits, shared>>
      BY <2>5 DEF WriteBlock
    <3>2. sent' \in [Download -> 0 .. Blocks]
      BY <3>1
    <3>3. data' \in [Inodes -> Seq(Download \cup {Hole})] /\ \A i \in Inodes : Len(data'[i]) <= Blocks
      <4>1. CASE handle[d] \in Inodes
        <5> DEFINE w == Written(data[handle[d]], sent[d], d)
        <5>1. data[handle[d]] \in Seq(Download \cup {Hole}) /\ Len(data[handle[d]]) <= Blocks /\ sent[d] \in Nat
          BY <3>1, <4>1
        <5>2. w \in Seq(Download \cup {Hole}) /\ Len(w) <= Blocks
          <6>1. /\ w \in Seq(Download \cup {Hole})
                /\ Len(w) = IF sent[d] + 1 > Len(data[handle[d]]) THEN sent[d] + 1 ELSE Len(data[handle[d]])
            BY <5>1, WrittenBlocks
          <6>2. sent[d] + 1 <= Blocks
            BY <3>1
          <6> HIDE DEF w
          <6> QED  BY <5>1, <6>1, <6>2
        <5> HIDE DEF w
        <5>3. data' = [data EXCEPT ![handle[d]] = w]
          BY <3>1 DEF w
        <5> QED  BY <5>2, <5>3
      <4>2. CASE handle[d] \notin Inodes
        <5>1. data' = data
          BY <3>1, <4>2
        <5> QED  BY <5>1
      <4> QED  BY <4>1, <4>2
    <3>4. /\ data' \in [Inodes -> Seq(Download \cup {Hole})]
          /\ \A i \in Inodes : data'[i] \in Seq(Download \cup {Hole})
      BY <3>3
    <3> QED  BY <3>1, <3>2, <3>3, <3>4
  <2>6. CASE CancelSeen(d)
    BY <2>6 DEF CancelSeen, Goto, Fail
  <2>7. CASE Verify(d)
    BY <2>7 DEF Verify, Goto, Fail
  <2>8. CASE RemoveDestination(d)
    BY <2>8 DEF RemoveDestination, Goto
  <2>9. CASE Rename(d)
    <3>1. CASE partial = Absent
      BY <2>9, <3>1 DEF Rename, Goto, Fail
    <3>2. CASE partial # Absent
      <4>1. /\ dest' = partial /\ partial' = Absent /\ shared' \in {shared, shared \cup {partial}}
            /\ at' = [at EXCEPT ![d] = "done"] /\ verdict' = [verdict EXCEPT ![d] = "ok"]
            /\ UNCHANGED <<data, request, good, sent, handle, flagged, exits>>
        BY <2>9, <3>2 DEF Rename, Goto, ReturnEarly
      <4>2. /\ dest' \in Inodes \cup {Absent} /\ partial' \in Download \cup {Absent}
            /\ shared' \in SUBSET Download
        BY <3>2, <4>1
      <4> QED  BY <4>1, <4>2
    <3> QED  BY <3>1, <3>2
  <2>10. CASE Cleanup(d)
    BY <2>10 DEF Cleanup, Goto
  <2>11. CASE TransferFails(d)
    BY <2>11 DEF TransferFails, Goto, Fail
  <2>12. CASE CancelDownload(d)
    BY <2>12 DEF CancelDownload
  <2> QED  BY <1>1, <2>1, <2>2, <2>3, <2>4, <2>5, <2>6, <2>7, <2>8, <2>9, <2>10, <2>11, <2>12 DEF Proceed
<1>2. CASE Exit
  BY <1>2 DEF Exit
<1>3. CASE UNCHANGED downloadVars
  BY <1>3 DEF downloadVars
<1> QED  BY <1>1, <1>2, <1>3 DEF DownloadNext, AllDone

\* Only Rename and Cleanup take the partial path away from a call, and both end it.
LEMMA TendedStep ==
    ASSUME DownloadTyped, Tended, [DownloadNext]_downloadVars
    PROVE  Tended'
<1> USE DownloadAssumption DEF DownloadTyped, DownloadTypeOK, Tended, NoLitter, Active
<1>1. ASSUME NEW d \in Download, Proceed(d) \/ TransferFails(d) \/ CancelDownload(d)
      PROVE  Tended'
  <2>1. CASE CheckDestination(d)
    BY <2>1 DEF CheckDestination, Goto, ReturnEarly
  <2>2. CASE ClearPartial(d)
    BY <2>2 DEF ClearPartial, Goto, ReturnEarly
  <2>3. CASE HashRemote(d)
    BY <2>3 DEF HashRemote, Goto, ReturnEarly
  <2>4. CASE CreatePartial(d)
    BY <2>4 DEF CreatePartial, Goto
  <2>5. CASE WriteBlock(d)
    BY <2>5 DEF WriteBlock
  <2>6. CASE CancelSeen(d)
    BY <2>6 DEF CancelSeen, Goto, Fail
  <2>7. CASE Verify(d)
    BY <2>7 DEF Verify, Goto, Fail
  <2>8. CASE RemoveDestination(d)
    BY <2>8 DEF RemoveDestination, Goto
  <2>9. CASE Rename(d)
    BY <2>9 DEF Rename, Goto, Fail, ReturnEarly
  <2>10. CASE Cleanup(d)
    BY <2>10 DEF Cleanup, Goto
  <2>11. CASE TransferFails(d)
    BY <2>11 DEF TransferFails, Goto, Fail
  <2>12. CASE CancelDownload(d)
    BY <2>12 DEF CancelDownload
  <2> QED  BY <1>1, <2>1, <2>2, <2>3, <2>4, <2>5, <2>6, <2>7, <2>8, <2>9, <2>10, <2>11, <2>12 DEF Proceed
<1>2. CASE Exit
  BY <1>2, DownloadAssumption DEF Exit
<1>3. CASE UNCHANGED downloadVars
  BY <1>3 DEF downloadVars
<1> QED  BY <1>1, <1>2, <1>3 DEF DownloadNext, AllDone

\* An inode one call alone has opened and renamed is never written, shown or
\* renamed by another.
LEMMA UnsharedStep ==
    ASSUME DownloadTyped, Fresh, Private, Accepted, Delivered, [DownloadNext]_downloadVars
    PROVE  (Fresh /\ Private /\ Accepted /\ Delivered)'
<1> USE DownloadAssumption DEF DownloadTyped, DownloadTypeOK, Inodes
<1>1. ASSUME NEW d \in Download, Proceed(d) \/ TransferFails(d) \/ CancelDownload(d)
      PROVE  (Fresh /\ Private /\ Accepted /\ Delivered)'
  <2>1. CASE CheckDestination(d)
    BY <2>1 DEF CheckDestination, Goto, ReturnEarly, Fresh, Private, Accepted, Delivered, Accepts
  <2>2. CASE ClearPartial(d)
    BY <2>2 DEF ClearPartial, Goto, ReturnEarly, Fresh, Private, Accepted, Delivered, Accepts
  <2>3. CASE HashRemote(d)
    BY <2>3 DEF HashRemote, Goto, ReturnEarly, Fresh, Private, Accepted, Delivered, Accepts
  <2>4. CASE CreatePartial(d)
    <3> DEFINE inode == IF partial = Absent THEN d ELSE partial
    <3>1. /\ at[d] = "create" /\ partial' = inode /\ handle' = [handle EXCEPT ![d] = inode]
          /\ data' = [data EXCEPT ![inode] = <<>>]
          /\ shared' = shared \cup ({partial} \ {Absent}) /\ at' = [at EXCEPT ![d] = "write"]
          /\ UNCHANGED <<dest, request, good, verdict, sent>>
      BY <2>4 DEF CreatePartial, Goto
    <3>2. /\ sent[d] = 0 /\ partial # d /\ dest # d /\ \A e \in Download : handle[e] # d
      BY <3>1 DEF Fresh
    <3>3. inode \in Download /\ (inode = d \/ inode \in shared')
      BY <3>1
    <3>4. SentBy(d, 0) = <<>>
      BY DEF SentBy
    <3>5. Fresh'
      BY <3>1, <3>2 DEF Fresh
    <3>6. Accepted' /\ Delivered'
      BY <3>1, <3>2 DEF Accepted, Delivered, Accepts
    <3>7. \A e, f \in Download : handle'[f] = e => f = e \/ e \in shared'
      BY <3>1, <3>3 DEF Private
    <3>8. \A e \in Download : partial' = e => handle'[e] = e
      BY <3>1, <3>2 DEF Private
    <3>9. \A e \in Download : handle'[e] = e => e \in shared' \/ data'[e] = SentBy(e, sent'[e])
      BY <3>1, <3>2, <3>4 DEF Private
    <3> QED  BY <3>5, <3>6, <3>7, <3>8, <3>9 DEF Private
  <2>5. CASE WriteBlock(d)
    <3>1. /\ at[d] = "write" /\ sent' = [sent EXCEPT ![d] = sent[d] + 1] /\ sent[d] \in Nat
          /\ data' = [data EXCEPT ![handle[d]] = Written(data[handle[d]], sent[d], d)]
          /\ UNCHANGED <<dest, partial, request, good, at, verdict, handle, shared>>
      BY <2>5 DEF WriteBlock
    <3>2. Fresh' /\ Accepted' /\ Delivered'
      BY <3>1 DEF Fresh, Accepted, Delivered, Accepts
    <3>3. ASSUME NEW e \in Download, handle[e] = e, e \notin shared
          PROVE  data'[e] = SentBy(e, sent'[e])
      <4>1. data[e] = SentBy(e, sent[e])
        BY <3>3 DEF Private
      <4>2. CASE e = d
        <5>1. data'[d] = Written(data[d], sent[d], d) /\ sent'[d] = sent[d] + 1
          BY <3>1, <3>3, <4>2
        <5>2. Written(SentBy(d, sent[d]), sent[d], d) = SentBy(d, sent[d] + 1)
          BY <3>1, WrittenNext
        <5> QED  BY <4>1, <4>2, <5>1, <5>2
      <4>3. CASE e # d
        <5>1. handle[d] # e
          BY <3>3, <4>3 DEF Private
        <5> QED  BY <3>1, <4>1, <4>3, <5>1
      <4> QED  BY <4>2, <4>3
    <3>4. Private'
      BY <3>1, <3>3 DEF Private
    <3> QED  BY <3>2, <3>4
  <2>6. CASE CancelSeen(d)
    BY <2>6 DEF CancelSeen, Goto, Fail, Fresh, Private, Accepted, Delivered, Accepts
  <2>7. CASE Verify(d)
    BY <2>7 DEF Verify, Goto, Fail, Fresh, Private, Accepted, Delivered, Accepts
  <2>8. CASE RemoveDestination(d)
    BY <2>8 DEF RemoveDestination, Goto, Fresh, Private, Accepted, Delivered, Accepts
  <2>9. CASE Rename(d)
    <3>1. CASE partial = Absent
      BY <2>9, <3>1 DEF Rename, Goto, Fail, Fresh, Private, Accepted, Delivered, Accepts
    <3>2. CASE partial # Absent
      <4>1. /\ at[d] = "rename" /\ dest' = partial /\ partial' = Absent
            /\ shared' = (IF handle[d] = partial THEN shared ELSE shared \cup {partial})
            /\ at' = [at EXCEPT ![d] = "done"] /\ verdict' = [verdict EXCEPT ![d] = "ok"]
            /\ UNCHANGED <<data, request, good, sent, handle>>
        BY <2>9, <3>2 DEF Rename, Goto, ReturnEarly
      <4>2. Fresh' /\ Private' /\ Accepted'
        BY <3>2, <4>1 DEF Fresh, Private, Accepted, Accepts
      <4>3. Delivered'
        <5>1. partial \in Download /\ Accepts(d)
          BY <3>2, <4>1 DEF Accepted
        <5>2. partial \notin shared' => handle[d] = partial /\ partial = d
          BY <4>1, <5>1 DEF Private
        <5> QED  BY <4>1, <5>1, <5>2 DEF Delivered, Accepts
      <4> QED  BY <4>2, <4>3
    <3> QED  BY <3>1, <3>2
  <2>10. CASE Cleanup(d)
    BY <2>10 DEF Cleanup, Goto, Fresh, Private, Accepted, Delivered, Accepts
  <2>11. CASE TransferFails(d)
    BY <2>11 DEF TransferFails, Goto, Fail, Fresh, Private, Accepted, Delivered, Accepts
  <2>12. CASE CancelDownload(d)
    BY <2>12 DEF CancelDownload, Fresh, Private, Accepted, Delivered, Accepts
  <2> QED  BY <1>1, <2>1, <2>2, <2>3, <2>4, <2>5, <2>6, <2>7, <2>8, <2>9, <2>10, <2>11, <2>12 DEF Proceed
<1>2. CASE Exit
  BY <1>2 DEF Exit, Active, Fresh, Private, Accepted, Delivered, Accepts
<1>3. CASE UNCHANGED downloadVars
  BY <1>3 DEF downloadVars, Fresh, Private, Accepted, Delivered, Accepts
<1> QED  BY <1>1, <1>2, <1>3 DEF DownloadNext, AllDone

-----------------------------------------------------------------------------

LEMMA DownloadInitInv == DownloadInit => UnsharedInv /\ Tended
<1> SUFFICES ASSUME DownloadInit
             PROVE  UnsharedInv /\ Tended
  OBVIOUS
<1> USE DownloadAssumption DEF DownloadInit
<1>1. DownloadTyped
  <2>1. data \in [Inodes -> Seq(Download \cup {Hole})] /\ \A i \in Inodes : Len(data[i]) = 0
    OBVIOUS
  <2> QED  BY <2>1 DEF DownloadTyped, DownloadTypeOK, Inodes
<1>2. Fresh /\ Private /\ Accepted /\ Delivered
  BY DEF Fresh, Private, Accepted, Delivered
<1>3. Tended
  BY DEF Tended, NoLitter
<1> QED  BY <1>1, <1>2, <1>3 DEF UnsharedInv

\* Types of the paths, the inodes and the calls, with any number of them side
\* by side.
THEOREM DownloadTypes == DownloadSpec => []DownloadTypeOK
<1>1. DownloadTyped /\ [DownloadNext]_downloadVars => DownloadTyped'
  BY DownloadTypedStep
<1>2. DownloadTyped => DownloadTypeOK
  BY DEF DownloadTyped
<1> QED  BY <1>1, <1>2, DownloadInitInv, PTL DEF DownloadSpec, UnsharedInv

\* download and its cleanup: with any number of calls side by side, each
\* clearing, truncating, renaming and cleaning up what the others left at the
\* path, a partial file has a call that will rename or remove it, unless an
\* exit cut that call off.
THEOREM NoDownloadLitter == DownloadSpec => []NoLitter
<1>1. DownloadTyped /\ Tended /\ [DownloadNext]_downloadVars => (DownloadTyped /\ Tended)'
  BY DownloadTypedStep, TendedStep
<1>2. Tended => NoLitter
  BY DEF Tended
<1> QED  BY <1>1, <1>2, DownloadInitInv, PTL DEF DownloadSpec, UnsharedInv

\* download_to_partial: with any number of calls side by side, a file at the
\* destination that one call alone opened and renamed is what that call
\* received whole and verified.
THEOREM UnsharedAreVerified == DownloadSpec => []UnsharedIsVerified
<1>1. UnsharedInv /\ [DownloadNext]_downloadVars => UnsharedInv'
  BY DownloadTypedStep, UnsharedStep DEF UnsharedInv
<1>2. UnsharedInv => UnsharedIsVerified
  BY DownloadAssumption
     DEF UnsharedInv, Private, Delivered, Accepts, UnsharedIsVerified, Image, SentBy
<1> QED  BY <1>1, <1>2, DownloadInitInv, PTL DEF DownloadSpec
=============================================================================
