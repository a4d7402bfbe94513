--------------------------- MODULE ByteQueueProofs ---------------------------
(***************************************************************************)
(* Theorems about ByteQueue, for every buffer length, set of threads and   *)
(* set of payloads.                                                        *)
(***************************************************************************)
EXTENDS ByteQueue, SequenceTheorems, TLAPS

\* The index arithmetic of read and write: an index that ran past the end of
\* mBuffer once wraps to an index.
LEMMA WrapIsIndex ==
    ASSUME NEW i \in 0..(2 * BufferLength - 1)
    PROVE  Wrap(i) \in Index
  BY LengthsAssumption DEF Wrap, Index

\* The way from one index round to another is shorter than the buffer.
LEMMA AheadInRange ==
    ASSUME NEW h \in Index, NEW i \in Index
    PROVE  Ahead(h, i) \in 0..(BufferLength - 1)
  BY LengthsAssumption DEF Ahead, Index

\* What notify leaves waiting was waiting.
LEMMA NotifiedShrinks ==
    ASSUME NEW waiting, NEW left \in Notified(waiting)
    PROVE  left \subseteq waiting
  BY DEF Notified

\* Joining and cutting sequences, as the history variables are.
LEMMA CutIsSeq ==
    ASSUME NEW S, NEW s \in Seq(S), NEW n \in 0..Len(s)
    PROVE  /\ SubSeq(s, 1, n) \in Seq(S)
           /\ SubSeq(s, n + 1, Len(s)) \in Seq(S)
  OBVIOUS

\* Moving the first n bytes of what is stored to what was received leaves their
\* concatenation as it is.
LEMMA Regroup ==
    ASSUME NEW S, NEW r \in Seq(S), NEW whole \in Seq(S), NEW n \in 0..Len(whole)
    PROVE  (r \o SubSeq(whole, 1, n)) \o SubSeq(whole, n + 1, Len(whole)) = r \o whole
  <1> DEFINE front == SubSeq(whole, 1, n)
             rest == SubSeq(whole, n + 1, Len(whole))
  <1>1. front \in Seq(S) /\ rest \in Seq(S)
    BY CutIsSeq
  <1>2. front \o rest = whole
    <2>1. front \o rest = SubSeq(whole, 1, Len(whole))
      <3>1. Len(whole) \in Nat /\ 1 \in 1..(Len(whole) + 1) /\ n \in (1 - 1)..Len(whole)
            /\ Len(whole) \in n..Len(whole)
        OBVIOUS
      <3>2. QED
        BY <3>1, ConcatAdjacentSubSeq
    <2>2. SubSeq(whole, 1, Len(whole)) = whole
      OBVIOUS
    <2>3. QED
      BY <2>1, <2>2
  <1> HIDE DEF front, rest
  <1>3. (r \o front) \o rest = r \o (front \o rest)
    BY <1>1, ConcatAssociative
  <1>4. (r \o front) \o rest = r \o whole
    BY <1>2, <1>3, Zenon
  <1>5. QED
    BY <1>4 DEF front, rest

\* The amount a chunk or a read moves.
LEMMA ChunkSize ==
    ASSUME NEW a \in Nat, NEW b \in Nat
    PROVE  /\ SmallerOf(a, b) \in Nat
           /\ SmallerOf(a, b) <= a
           /\ SmallerOf(a, b) <= b
           /\ SmallerOf(a, b) = a \/ SmallerOf(a, b) = b
  BY DEF SmallerOf

\* The stored bytes form a sequence of mStoredBytes bytes, wherever it wraps.
LEMMA ContentsType ==
    ASSUME TypeOK
    PROVE  /\ Contents \in Seq(Byte)
           /\ Len(Contents) = mStoredBytes
           /\ \A k \in 1..mStoredBytes : Contents[k] = mBuffer[Wrap(mHead + k - 1)]
  <1>1. \A k \in 1..mStoredBytes : mBuffer[Wrap(mHead + k - 1)] \in Byte
    <2> TAKE k \in 1..mStoredBytes
    <2>1. mHead + k - 1 \in 0..(2 * BufferLength - 1)
      BY LengthsAssumption DEF TypeOK, Index
    <2>2. QED
      BY <2>1, WrapIsIndex DEF TypeOK
  <1>2. QED
    BY <1>1, LengthsAssumption DEF Contents, TypeOK

\* The fields, the wait set, the calls in progress and the histories keep
\* their types: mHead is always an index of mBuffer and mStoredBytes never
\* negative nor above its length.
THEOREM TypeCorrect == SafeSpec => []TypeOK
  <1>1. Init => TypeOK
    BY PayloadsAssumption, LengthsAssumption DEF Init, TypeOK, Index
  <1>2. TypeOK /\ [Next]_vars => TypeOK'
    <2> SUFFICES ASSUME TypeOK, [Next]_vars
                 PROVE  TypeOK'
      OBVIOUS
    <2>1. ASSUME NEW p \in Producers, NEW data \in Payloads, CallWrite(p, data)
          PROVE  TypeOK'
      BY <2>1, PayloadsAssumption DEF CallWrite, TypeOK
    <2>2. ASSUME NEW p \in Producers, WaitForSpace(p)
          PROVE  TypeOK'
      BY <2>2 DEF WaitForSpace, TypeOK
    <2>3. ASSUME NEW p \in Producers, WriteToClosed(p)
          PROVE  TypeOK'
      BY <2>3 DEF WriteToClosed, TypeOK
    <2>4. ASSUME NEW p \in Producers, WriteChunk(p)
          PROVE  TypeOK'
      <3> DEFINE data == pending[p]
                 n == SmallerOf(Len(data), BufferLength - mStoredBytes)
                 tail == Wrap(mHead + mStoredBytes)
      <3>1. /\ data \in Seq(Byte) /\ Len(data) \in Nat
            /\ BufferLength - mStoredBytes \in Nat
        BY LengthsAssumption DEF TypeOK
      <3>2. /\ n \in Nat /\ n <= Len(data) /\ n <= BufferLength - mStoredBytes
        BY <3>1, ChunkSize
      <3>3. tail \in Index
        <4>1. mHead + mStoredBytes \in 0..(2 * BufferLength - 1)
          BY LengthsAssumption DEF TypeOK, Index
        <4>2. QED
          BY <4>1, WrapIsIndex
      <3>4. CopyIn(data, n) \in [Index -> Byte]
        <4>1. ASSUME NEW i \in Index, Ahead(tail, i) < n
              PROVE  data[Ahead(tail, i) + 1] \in Byte
          BY <4>1, <3>1, <3>2, <3>3, AheadInRange
        <4>2. QED
          BY <4>1 DEF CopyIn, TypeOK
      <3>5. mBuffer' \in [Index -> Byte]
        BY <2>4, <3>4 DEF WriteChunk
      <3>6. mStoredBytes' \in 0..BufferLength
        BY <2>4, <3>1, <3>2, LengthsAssumption DEF WriteChunk, TypeOK
      <3>7. sent' \in Seq(Byte)
        BY <2>4, <3>1, <3>2, CutIsSeq DEF WriteChunk, TypeOK
      <3>8. pending' \in [Producers -> Seq(Byte)]
        BY <2>4, <3>1, <3>2, CutIsSeq DEF WriteChunk, TypeOK
      <3>9. waitSet' \subseteq Producers \cup Consumers
        <4>1. PICK waiting \in IF mStoredBytes = 0 THEN Notified(waitSet) ELSE {waitSet} :
                 waitSet' = IF n < Len(data) THEN waiting \cup {p} ELSE waiting
          BY <2>4 DEF WriteChunk
        <4>2. waiting \subseteq waitSet
          BY <4>1, NotifiedShrinks
        <4>3. QED
          BY <4>1, <4>2 DEF TypeOK
      <3>10. QED
        BY <2>4, <3>5, <3>6, <3>7, <3>8, <3>9 DEF WriteChunk, TypeOK
    <2>5. ASSUME NEW c \in Consumers, NEW kind \in {"blocking", "polling"},
                 CallRead(c, kind)
          PROVE  TypeOK'
      BY <2>5 DEF CallRead, TypeOK
    <2>6. ASSUME NEW c \in Consumers, WaitForBytes(c)
          PROVE  TypeOK'
      BY <2>6 DEF WaitForBytes, TypeOK
    <2>7. ASSUME NEW c \in Consumers, ReadNothing(c)
          PROVE  TypeOK'
      BY <2>7 DEF ReadNothing, TypeOK
    <2>8. ASSUME NEW c \in Consumers, ReadBytes(c)
          PROVE  TypeOK'
      <3> DEFINE n == SmallerOf(ReadLength, mStoredBytes)
      <3>1. n \in Nat /\ n <= mStoredBytes
        <4>1. ReadLength \in Nat /\ mStoredBytes \in Nat
          BY LengthsAssumption DEF TypeOK
        <4>2. QED
          BY <4>1, ChunkSize
      <3>2. mHead' \in Index
        <4>1. mHead + n \in 0..(2 * BufferLength - 1)
          BY <3>1, LengthsAssumption DEF TypeOK, Index
        <4>2. QED
          BY <2>8, <4>1, WrapIsIndex DEF ReadBytes
      <3>3. mStoredBytes' \in 0..BufferLength
        BY <2>8, <3>1, LengthsAssumption DEF ReadBytes, TypeOK
      <3>4. received' \in Seq(Byte)
        BY <2>8, <3>1, ContentsType, CutIsSeq DEF ReadBytes, TypeOK
      <3>5. waitSet' \subseteq waitSet
        BY <2>8, NotifiedShrinks DEF ReadBytes
      <3>6. QED
        BY <2>8, <3>2, <3>3, <3>4, <3>5 DEF ReadBytes, TypeOK
    <2>9. CASE close
      BY <2>9, NotifiedShrinks DEF close, TypeOK
    <2>10. ASSUME NEW t \in Producers \cup Consumers, Interrupt(t)
           PROVE  TypeOK'
      BY <2>10 DEF Interrupt, TypeOK
    <2>11. CASE UNCHANGED vars
      BY <2>11 DEF vars, TypeOK
    <2>12. QED
      BY <2>1, <2>2, <2>3, <2>4, <2>5, <2>6, <2>7, <2>8, <2>9, <2>10, <2>11
         DEF Next, write, read
  <1>3. QED
    BY <1>1, <1>2, PTL DEF SafeSpec

------------------------------------------------------------------------------
\* Where the k-th byte of the queue lies, seen from the free index behind the
\* m stored ones.
LEMMA AheadOfTail ==
    ASSUME NEW h \in Index, NEW m \in 0..BufferLength, NEW k \in 0..(BufferLength - 1)
    PROVE  Ahead(Wrap(h + m), Wrap(h + k)) = IF k < m THEN k - m + BufferLength ELSE k - m
  BY LengthsAssumption DEF Ahead, Wrap, Index

\* The n bytes a chunk moves, whatever mHead is and whether or not the copy
\* goes round the end of mBuffer, end up behind the stored ones.
LEMMA WriteChunkAppends ==
    ASSUME TypeOK, NEW p \in Producers, WriteChunk(p)
    PROVE  \E n \in 1..BufferLength :
              /\ n <= Len(pending[p])
              /\ mStoredBytes + n <= BufferLength
              /\ Contents' = Contents \o SubSeq(pending[p], 1, n)
              /\ sent' = sent \o SubSeq(pending[p], 1, n)
              /\ pending' = [pending EXCEPT ![p] = SubSeq(@, n + 1, Len(@))]
  <1> DEFINE data == pending[p]
             n == SmallerOf(Len(data), BufferLength - mStoredBytes)
             tail == Wrap(mHead + mStoredBytes)
             added == SubSeq(data, 1, n)
  <1>1. /\ data \in Seq(Byte) /\ Len(data) \in Nat /\ Len(data) > 0
        /\ BufferLength - mStoredBytes \in Nat /\ BufferLength - mStoredBytes > 0
    BY LengthsAssumption DEF TypeOK, WriteChunk, Writing, Full
  <1>2. /\ n \in Nat /\ n <= Len(data) /\ n <= BufferLength - mStoredBytes /\ n > 0
    BY <1>1, ChunkSize
  <1>3. /\ mStoredBytes \in Nat /\ BufferLength \in Nat
        /\ mHead \in Index /\ mStoredBytes \in 0..BufferLength
    BY LengthsAssumption DEF TypeOK
  <1>4. /\ mBuffer' = CopyIn(data, n)
        /\ mStoredBytes' = mStoredBytes + n
        /\ mHead' = mHead
        /\ sent' = sent \o added
        /\ pending' = [pending EXCEPT ![p] = SubSeq(data, n + 1, Len(data))]
    BY DEF WriteChunk
  <1>5. added \in Seq(Byte) /\ Len(added) = n
        /\ \A k \in 1..n : added[k] = data[k]
    BY <1>1, <1>2
  <1>6. ASSUME NEW k \in 1..(mStoredBytes + n)
        PROVE  mBuffer'[Wrap(mHead + k - 1)] =
                  IF k <= mStoredBytes THEN mBuffer[Wrap(mHead + k - 1)]
                                       ELSE added[k - mStoredBytes]
    <2>1. k - 1 \in 0..(BufferLength - 1) /\ mHead + (k - 1) = mHead + k - 1
      BY <1>2, <1>3 DEF Index
    <2>2. Wrap(mHead + (k - 1)) \in Index
      <3>1. mHead + (k - 1) \in 0..(2 * BufferLength - 1)
        BY <2>1, <1>3 DEF Index
      <3>2. QED
        BY <3>1, WrapIsIndex
    <2>3. Ahead(tail, Wrap(mHead + (k - 1))) =
             IF k - 1 < mStoredBytes THEN k - 1 - mStoredBytes + BufferLength
                                     ELSE k - 1 - mStoredBytes
      BY <2>1, <1>3, AheadOfTail
    <2>4. mBuffer'[Wrap(mHead + (k - 1))] =
             IF Ahead(tail, Wrap(mHead + (k - 1))) < n
             THEN data[Ahead(tail, Wrap(mHead + (k - 1))) + 1]
             ELSE mBuffer[Wrap(mHead + (k - 1))]
      BY <2>2, <1>4 DEF CopyIn
    <2>5. CASE k <= mStoredBytes
      <3>1. ~(Ahead(tail, Wrap(mHead + (k - 1))) < n)
        BY <2>5, <2>3, <1>2, <1>3
      <3>2. QED
        BY <3>1, <2>1, <2>4, <2>5
    <2>6. CASE k > mStoredBytes
      <3>1. /\ Ahead(tail, Wrap(mHead + (k - 1))) = k - 1 - mStoredBytes
            /\ k - 1 - mStoredBytes < n
            /\ k - mStoredBytes \in 1..n
            /\ k - 1 - mStoredBytes + 1 = k - mStoredBytes
        BY <2>6, <2>3, <1>2, <1>3
      <3>2. mBuffer'[Wrap(mHead + (k - 1))] = data[k - mStoredBytes]
        BY <3>1, <2>4
      <3>3. QED
        BY <3>1, <3>2, <1>5, <2>1, <2>6, <1>3
    <2>7. QED
      BY <2>5, <2>6, <1>2, <1>3
  <1>7. Contents' = Contents \o added
    <2>1. Contents' = [k \in 1..(mStoredBytes + n) |-> mBuffer'[Wrap(mHead + k - 1)]]
      BY <1>4 DEF Contents, Wrap
    <2>2. Contents' = [k \in 1..(mStoredBytes + n) |->
                          IF k <= mStoredBytes THEN mBuffer[Wrap(mHead + k - 1)]
                                               ELSE added[k - mStoredBytes]]
      BY <2>1, <1>6
    <2>3. Contents \in Seq(Byte) /\ Len(Contents) = mStoredBytes
          /\ \A k \in 1..mStoredBytes : Contents[k] = mBuffer[Wrap(mHead + k - 1)]
      BY ContentsType
    <2>4. Contents \o added = [k \in 1..(mStoredBytes + n) |->
                                 IF k <= mStoredBytes THEN Contents[k]
                                                      ELSE added[k - mStoredBytes]]
      BY <2>3, <1>5, <1>2, <1>3
    <2>5. ASSUME NEW k \in 1..(mStoredBytes + n)
          PROVE  (IF k <= mStoredBytes THEN mBuffer[Wrap(mHead + k - 1)]
                                       ELSE added[k - mStoredBytes])
                 = IF k <= mStoredBytes THEN Contents[k] ELSE added[k - mStoredBytes]
      BY <2>3, <1>2, <1>3
    <2>6. QED
      BY <2>2, <2>4, <2>5
  <1>8. n \in 1..BufferLength /\ mStoredBytes + n <= BufferLength
    BY <1>2, <1>3
  <1>9. QED
    BY <1>2, <1>4, <1>7, <1>8

\* A read takes its bytes off the front of the queue.
LEMMA ReadBytesCuts ==
    ASSUME TypeOK, NEW c \in Consumers, ReadBytes(c)
    PROVE  \E n \in 1..BufferLength :
              /\ n <= Len(Contents)
              /\ received' = received \o SubSeq(Contents, 1, n)
              /\ Contents' = SubSeq(Contents, n + 1, Len(Contents))
  <1> DEFINE n == SmallerOf(ReadLength, mStoredBytes)
  <1>1. /\ ReadLength \in Nat /\ ReadLength > 0
        /\ mStoredBytes \in Nat /\ mStoredBytes > 0 /\ mStoredBytes <= BufferLength
        /\ mHead \in Index /\ BufferLength \in Nat
    BY LengthsAssumption DEF TypeOK, ReadBytes
  <1>2. n \in Nat /\ n <= mStoredBytes /\ n > 0 /\ n \in 1..BufferLength
    <2>1. n \in Nat /\ n <= mStoredBytes /\ (n = ReadLength \/ n = mStoredBytes)
      BY <1>1, ChunkSize
    <2>2. QED
      BY <2>1, <1>1
  <1>3. /\ mHead' = Wrap(mHead + n)
        /\ mStoredBytes' = mStoredBytes - n
        /\ mBuffer' = mBuffer
        /\ received' = received \o SubSeq(Contents, 1, n)
    BY DEF ReadBytes
  <1>4. /\ Contents \in Seq(Byte) /\ Len(Contents) = mStoredBytes
        /\ \A k \in 1..mStoredBytes : Contents[k] = mBuffer[Wrap(mHead + k - 1)]
    BY ContentsType
  <1>5. ASSUME NEW k \in 1..(mStoredBytes - n)
        PROVE  Wrap(Wrap(mHead + n) + k - 1) = Wrap(mHead + (n + k) - 1)
    BY <1>1, <1>2 DEF Wrap, Index
  <1>6. Contents' = [k \in 1..(mStoredBytes - n) |-> Contents[n + k]]
    <2>1. Contents' = [k \in 1..(mStoredBytes - n) |-> mBuffer[Wrap(Wrap(mHead + n) + k - 1)]]
      BY <1>3 DEF Contents, Wrap
    <2>2. ASSUME NEW k \in 1..(mStoredBytes - n)
          PROVE  mBuffer[Wrap(Wrap(mHead + n) + k - 1)] = Contents[n + k]
      <3>1. n + k \in 1..mStoredBytes
        BY <1>1, <1>2
      <3>2. QED
        BY <3>1, <1>4, <1>5
    <2>3. QED
      BY <2>1, <2>2
  <1>7. SubSeq(Contents, n + 1, Len(Contents)) =
           [k \in 1..(mStoredBytes - n) |-> Contents[n + k]]
    BY <1>1, <1>2, <1>4
  <1>8. QED
    BY <1>2, <1>3, <1>4, <1>6, <1>7

\* The steps that move no byte.
LEMMA OthersKeepContents ==
    ASSUME UNCHANGED <<mBuffer, mHead, mStoredBytes>>
    PROVE  Contents' = Contents
  BY DEF Contents, Wrap

------------------------------------------------------------------------------
\* First in, first out: in every reachable state what was read followed by
\* what is stored is exactly what was written, for any number of producers and
\* consumers, and whatever close and interrupts do.
THEOREM FifoCorrect == SafeSpec => []Fifo
  <1>1. Init => Fifo
    <2> SUFFICES ASSUME Init
                 PROVE  Fifo
      OBVIOUS
    <2>1. Contents = <<>>
      BY DEF Init, Contents
    <2>2. QED
      BY <2>1 DEF Init, Fifo
  <1>2. TypeOK /\ Fifo /\ [Next]_vars => Fifo'
    <2> SUFFICES ASSUME TypeOK, Fifo, [Next]_vars
                 PROVE  Fifo'
      OBVIOUS
    <2>1. ASSUME NEW p \in Producers, WriteChunk(p)
          PROVE  Fifo'
      <3>1. PICK n \in 1..BufferLength :
               /\ n <= Len(pending[p])
               /\ Contents' = Contents \o SubSeq(pending[p], 1, n)
               /\ sent' = sent \o SubSeq(pending[p], 1, n)
        BY <2>1, WriteChunkAppends
      <3>2. received' = received
        BY <2>1 DEF WriteChunk
      <3>3. /\ received \in Seq(Byte) /\ Contents \in Seq(Byte)
            /\ SubSeq(pending[p], 1, n) \in Seq(Byte)
        <4>1. pending[p] \in Seq(Byte) /\ n \in 0..Len(pending[p])
          BY <3>1 DEF TypeOK
        <4>2. QED
          BY <4>1, CutIsSeq, ContentsType DEF TypeOK
      <3>4. (received \o Contents) \o SubSeq(pending[p], 1, n)
               = received \o (Contents \o SubSeq(pending[p], 1, n))
        BY <3>3, ConcatAssociative
      <3>5. QED
        BY <3>1, <3>2, <3>4 DEF Fifo
    <2>2. ASSUME NEW c \in Consumers, ReadBytes(c)
          PROVE  Fifo'
      <3>1. PICK n \in 1..BufferLength :
               /\ n <= Len(Contents)
               /\ received' = received \o SubSeq(Contents, 1, n)
               /\ Contents' = SubSeq(Contents, n + 1, Len(Contents))
        BY <2>2, ReadBytesCuts
      <3>2. sent' = sent
        BY <2>2 DEF ReadBytes
      <3>3. Contents \in Seq(Byte) /\ n \in 0..Len(Contents) /\ received \in Seq(Byte)
        BY <3>1, ContentsType DEF TypeOK
      <3>4. (received \o SubSeq(Contents, 1, n)) \o SubSeq(Contents, n + 1, Len(Contents))
               = received \o Contents
        BY <3>3, Regroup
      <3>5. QED
        BY <3>1, <3>2, <3>4 DEF Fifo
    <2>3. ASSUME UNCHANGED <<mBuffer, mHead, mStoredBytes, sent, received>>
          PROVE  Fifo'
      BY <2>3, OthersKeepContents DEF Fifo
    <2>4. QED
      BY <2>1, <2>2, <2>3 DEF Next, vars, CallWrite, write, WaitForSpace, WriteToClosed,
         CallRead, read, WaitForBytes, ReadNothing, close, Interrupt
  <1>3. QED
    BY <1>1, <1>2, TypeCorrect, PTL DEF SafeSpec

\* With one producer and one consumer no thread is left in wait() once its
\* reason to wait is gone: the queue never owes anyone a notify.
THEOREM WakeupCorrect ==
    ASSUME NEW p, NEW c, Producers = {p}, Consumers = {c}
    PROVE  SafeSpec => []NoMissedWakeup
  <1>1. Init => NoMissedWakeup
    BY DEF Init, NoMissedWakeup
  <1>2. TypeOK /\ NoMissedWakeup /\ [Next]_vars => NoMissedWakeup'
    <2> SUFFICES ASSUME TypeOK, NoMissedWakeup, [Next]_vars
                 PROVE  NoMissedWakeup'
      OBVIOUS
    <2>a. p # c
      BY ThreadsAssumption
    <2>b. waitSet \subseteq {p, c}
      BY DEF TypeOK
    <2>1. CASE WaitForSpace(p)
      BY <2>1, <2>a, <2>b DEF WaitForSpace, NoMissedWakeup, Full
    <2>2. CASE WriteChunk(p)
      <3> DEFINE data == pending[p]
                 n == SmallerOf(Len(data), BufferLength - mStoredBytes)
      <3>1. n < Len(data) => mStoredBytes' = BufferLength
        <4>1. data \in Seq(Byte) /\ Len(data) \in Nat /\ mStoredBytes \in Nat /\ BufferLength \in Nat
          BY LengthsAssumption DEF TypeOK
        <4>2. QED
          BY <2>2, <4>1 DEF WriteChunk, SmallerOf
      <3>2. PICK waiting \in IF mStoredBytes = 0 THEN Notified(waitSet) ELSE {waitSet} :
               waitSet' = IF n < Len(data) THEN waiting \cup {p} ELSE waiting
        BY <2>2 DEF WriteChunk
      <3>3. p \notin waitSet
        BY <2>2 DEF WriteChunk, Writing
      <3>4. waiting = {}
        <4>1. CASE mStoredBytes = 0
          BY <4>1, <3>2, <3>3, <2>b DEF Notified
        <4>2. CASE mStoredBytes # 0
          BY <4>2, <3>2, <3>3, <2>b DEF NoMissedWakeup
        <4>3. QED
          BY <4>1, <4>2
      <3>5. waitSet' = IF n < Len(data) THEN {p} ELSE {}
        BY <3>2, <3>4
      <3>6. mOpen' /\ mOpen
        BY <2>2 DEF WriteChunk
      <3>7. QED
        BY <3>1, <3>5, <3>6, <2>a DEF NoMissedWakeup, Full
    <2>3. CASE WaitForBytes(c)
      BY <2>3, <2>a, <2>b DEF WaitForBytes, NoMissedWakeup, Full
    <2>4. CASE ReadBytes(c)
      <3>1. waitSet' = {}
        <4>1. c \notin waitSet
          BY <2>4 DEF ReadBytes, Reading
        <4>2. CASE Full
          BY <4>1, <4>2, <2>4, <2>b DEF ReadBytes, Notified
        <4>3. CASE ~Full
          BY <4>1, <4>3, <2>4, <2>b DEF ReadBytes, NoMissedWakeup
        <4>4. QED
          BY <4>2, <4>3
      <3>2. QED
        BY <3>1 DEF NoMissedWakeup
    <2>5. CASE close
      <3>1. ~(p \in waitSet /\ c \in waitSet)
        BY LengthsAssumption DEF NoMissedWakeup, Full
      <3>2. waitSet' = {}
        BY <2>5, <2>b, <3>1 DEF close, Notified
      <3>3. QED
        BY <3>2 DEF NoMissedWakeup
    <2>6. ASSUME UNCHANGED <<mStoredBytes, mOpen>>, waitSet' \subseteq waitSet
          PROVE  NoMissedWakeup'
      BY <2>6 DEF NoMissedWakeup, Full
    <2>7. CASE WriteToClosed(p)
      BY <2>7, <2>6 DEF WriteToClosed
    <2>8. CASE ReadNothing(c)
      BY <2>8, <2>6 DEF ReadNothing
    <2>9. CASE \E t \in Producers \cup Consumers : Interrupt(t)
      BY <2>9, <2>6 DEF Interrupt
    <2>10. CASE \E data \in Payloads : CallWrite(p, data)
      BY <2>10, <2>6 DEF CallWrite
    <2>11. CASE \E kind \in {"blocking", "polling"} : CallRead(c, kind)
      BY <2>11, <2>6 DEF CallRead
    <2>12. CASE UNCHANGED vars
      BY <2>12, <2>6 DEF vars
    <2>13. QED
      BY <2>1, <2>2, <2>3, <2>4, <2>5, <2>7, <2>8, <2>9, <2>10, <2>11, <2>12
         DEF Next, write, read
  <1>3. QED
    BY <1>1, <1>2, TypeCorrect, PTL DEF SafeSpec

------------------------------------------------------------------------------
\* Every step of the monitor is a step of the bounded FIFO channel or leaves
\* the channel alone: waiting, notifying, interrupts, the indices and the
\* copying in two runs are invisible from outside.
THEOREM RefinesChannel == SafeSpec => Channel!SafeSpec
  <1>1. Init => Channel!Init
    <2>1. Init => Contents = <<>>
      BY DEF Init, Contents
    <2>2. QED
      BY <2>1 DEF Init, Channel!Init
  <1>2. TypeOK /\ [Next]_vars => [Channel!Next]_Channel!vars
    <2> SUFFICES ASSUME TypeOK, [Next]_vars
                 PROVE  [Channel!Next]_Channel!vars
      OBVIOUS
    <2>1. ASSUME NEW p \in Producers, NEW data \in Payloads, CallWrite(p, data)
          PROVE  Channel!Offer(p, data)
      BY <2>1, OthersKeepContents DEF CallWrite, Channel!Offer
    <2>2. ASSUME NEW p \in Producers, WriteToClosed(p)
          PROVE  Channel!Refuse(p)
      BY <2>2, OthersKeepContents DEF WriteToClosed, Writing, Channel!Refuse
    <2>3. ASSUME NEW p \in Producers, WriteChunk(p)
          PROVE  Channel!AcceptSome(p)
      <3>1. PICK n \in 1..BufferLength :
               /\ n <= Len(pending[p])
               /\ mStoredBytes + n <= BufferLength
               /\ Contents' = Contents \o SubSeq(pending[p], 1, n)
               /\ pending' = [pending EXCEPT ![p] = SubSeq(@, n + 1, Len(@))]
        BY <2>3, WriteChunkAppends
      <3>2. Len(Contents) = mStoredBytes
        BY ContentsType
      <3>3. mOpen /\ UNCHANGED <<mOpen, received>>
        BY <2>3 DEF WriteChunk
      <3>4. Channel!Accept(p, n)
        BY <3>1, <3>2, <3>3 DEF Channel!Accept
      <3>5. QED
        BY <3>4 DEF Channel!AcceptSome
    <2>4. ASSUME NEW c \in Consumers, ReadBytes(c)
          PROVE  Channel!ReceiveSome
      <3>1. PICK n \in 1..BufferLength :
               /\ n <= Len(Contents)
               /\ received' = received \o SubSeq(Contents, 1, n)
               /\ Contents' = SubSeq(Contents, n + 1, Len(Contents))
        BY <2>4, ReadBytesCuts
      <3>2. mOpen /\ UNCHANGED <<mOpen, pending>>
        BY <2>4 DEF ReadBytes
      <3>3. Channel!Receive(n)
        BY <3>1, <3>2 DEF Channel!Receive
      <3>4. QED
        BY <3>3 DEF Channel!ReceiveSome
    <2>5. CASE close
      BY <2>5, OthersKeepContents DEF close, Channel!Next, Channel!Shut
    <2>6. ASSUME UNCHANGED <<mBuffer, mHead, mStoredBytes, mOpen, pending, received>>
          PROVE  UNCHANGED Channel!vars
      BY <2>6, OthersKeepContents DEF Channel!vars
    <2>7. QED
      BY <2>1, <2>2, <2>3, <2>4, <2>5, <2>6 DEF Next, vars, write, read, WaitForSpace,
         CallRead, WaitForBytes, ReadNothing, Interrupt, Channel!Next
  <1>3. QED
    BY <1>1, <1>2, TypeCorrect, PTL DEF SafeSpec, Channel!SafeSpec
==============================================================================
