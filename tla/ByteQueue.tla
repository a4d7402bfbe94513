------------------------------ MODULE ByteQueue ------------------------------
(***************************************************************************)
(* com.termux.terminal.ByteQueue: the circular byte buffer between two     *)
(* threads, with its Java monitor.  A session owns two of them, one to the *)
(* shell process and one from it.                                          *)
(*                                                                         *)
(* The methods are synchronized, and the monitor is released only by       *)
(* wait() and on return, so one action is what a thread does from taking   *)
(* the monitor to giving it up.  A notified thread is simply no longer in  *)
(* waitSet; it evaluates its loop condition again when it runs next.       *)
(***************************************************************************)
EXTENDS Integers, Sequences

CONSTANTS
    Producers,     \* threads that call write
    Consumers,     \* threads that call read
    Byte,          \* the bytes
    Payloads,      \* the arguments of write
    BufferLength,  \* mBuffer.length (4096 in TerminalSession)
    ReadLength,    \* length of the readers' buffers (4096 in TerminalSession)
    MaxBytes       \* bound: no write call starts that would send more bytes

ASSUME ThreadsAssumption == Producers \cap Consumers = {}
\* write throws IllegalArgumentException on an empty payload.
ASSUME PayloadsAssumption ==
    /\ 0 \in Byte
    /\ \A data \in Payloads : data \in Seq(Byte) /\ data # <<>>
ASSUME LengthsAssumption ==
    /\ BufferLength \in Nat \ {0}
    /\ ReadLength \in Nat \ {0}
    /\ MaxBytes \in Nat

VARIABLES
    mBuffer, mHead, mStoredBytes, mOpen,  \* the fields of the class
    waitSet,   \* the threads in wait() on the monitor
    pending,   \* per producer, the bytes its write call has yet to copy
    reading,   \* per consumer, the kind of read call it is in
    sent,      \* history: every byte copied into mBuffer
    received   \* history: every byte copied out of mBuffer

vars == <<mBuffer, mHead, mStoredBytes, mOpen, waitSet, pending, reading,
          sent, received>>

Index == 0..(BufferLength - 1)

\* Mutant of Wrap: the index equal to the length is taken for one inside.
WrapLate(i) == IF i > BufferLength THEN i - BufferLength ELSE i

\* An index that ran off the end of mBuffer continues at its start.
Wrap(i) == IF i >= BufferLength THEN i - BufferLength ELSE i

\* How far ahead of index "from" the index i lies, going round.
Ahead(from, i) == IF i >= from THEN i - from ELSE i - from + BufferLength

SmallerOf(a, b) == IF a <= b THEN a ELSE b

\* The stored bytes, oldest first.
Contents == [k \in 1..mStoredBytes |-> mBuffer[Wrap(mHead + k - 1)]]

Full == mStoredBytes = BufferLength

\* Mutant of Notified: the notify() is left out.
NotifiedNobody(waiting) == {waiting}

\* notify(): one waiting thread, if there is one, stops waiting.
Notified(waiting) ==
    IF waiting = {} THEN {{}} ELSE {waiting \ {t} : t \in waiting}

Init ==
    /\ mBuffer = [i \in Index |-> 0]
    /\ mHead = 0
    /\ mStoredBytes = 0
    /\ mOpen = TRUE
    /\ waitSet = {}
    /\ pending = [p \in Producers |-> <<>>]
    /\ reading = [c \in Consumers |-> "no"]
    /\ sent = <<>>
    /\ received = <<>>

------------------------------------------------------------------------------
(* write *)

CallWrite(p, data) ==
    /\ pending[p] = <<>>
    /\ Len(sent) + Len(data) <= MaxBytes
    /\ pending' = [pending EXCEPT ![p] = data]
    /\ UNCHANGED <<mBuffer, mHead, mStoredBytes, mOpen, waitSet, reading,
                   sent, received>>

Writing(p) == pending[p] # <<>> /\ p \notin waitSet

\* Mutant of WaitForSpace: the loop condition does not look at mOpen.
WaitForSpaceThoughClosed(p) ==
    /\ Writing(p)
    /\ Full
    /\ waitSet' = waitSet \cup {p}
    /\ UNCHANGED <<mBuffer, mHead, mStoredBytes, mOpen, pending, reading,
                   sent, received>>

WaitForSpace(p) ==
    /\ Writing(p)
    /\ mOpen /\ Full
    /\ waitSet' = waitSet \cup {p}
    /\ UNCHANGED <<mBuffer, mHead, mStoredBytes, mOpen, pending, reading,
                   sent, received>>

\* Mutant of WriteToClosed: write also gives up on a full buffer.
WriteToClosedOrFull(p) ==
    /\ Writing(p)
    /\ ~mOpen \/ Full
    /\ pending' = [pending EXCEPT ![p] = <<>>]
    /\ UNCHANGED <<mBuffer, mHead, mStoredBytes, mOpen, waitSet, reading,
                   sent, received>>

\* write returns false and what it had not copied is dropped.
WriteToClosed(p) ==
    /\ Writing(p)
    /\ ~mOpen
    /\ pending' = [pending EXCEPT ![p] = <<>>]
    /\ UNCHANGED <<mBuffer, mHead, mStoredBytes, mOpen, waitSet, reading,
                   sent, received>>

\* Mutant of CopyIn: the second run, at the start of mBuffer, is left out.
CopyInFirstRun(data, n) ==
    LET tail == Wrap(mHead + mStoredBytes)
    IN [i \in Index |-> IF i >= tail /\ i - tail < n
                        THEN data[i - tail + 1]
                        ELSE mBuffer[i]]

\* As many bytes as fit are copied behind the stored ones, in one run or,
\* round the end of mBuffer, in two.  If some are left the buffer is now full
\* and the same thread, still holding the monitor, waits.
CopyIn(data, n) ==
    LET tail == Wrap(mHead + mStoredBytes)
    IN [i \in Index |-> IF Ahead(tail, i) < n
                        THEN data[Ahead(tail, i) + 1]
                        ELSE mBuffer[i]]

WriteChunk(p) ==
    LET data == pending[p]
        n == SmallerOf(Len(data), BufferLength - mStoredBytes)
        notified == IF mStoredBytes = 0 THEN Notified(waitSet) ELSE {waitSet}
    IN /\ Writing(p)
       /\ mOpen /\ ~Full
       /\ mBuffer' = CopyIn(data, n)
       /\ mStoredBytes' = mStoredBytes + n
       /\ sent' = sent \o SubSeq(data, 1, n)
       /\ pending' = [pending EXCEPT ![p] = SubSeq(data, n + 1, Len(data))]
       /\ \E waiting \in notified :
             waitSet' = IF n < Len(data) THEN waiting \cup {p} ELSE waiting
       /\ UNCHANGED <<mHead, mOpen, reading, received>>

------------------------------------------------------------------------------
(* read *)

CallRead(c, kind) ==
    /\ reading[c] = "no"
    /\ reading' = [reading EXCEPT ![c] = kind]
    /\ UNCHANGED <<mBuffer, mHead, mStoredBytes, mOpen, waitSet, pending,
                   sent, received>>

Reading(c) == reading[c] # "no" /\ c \notin waitSet

WaitForBytes(c) ==
    /\ Reading(c)
    /\ mOpen /\ mStoredBytes = 0 /\ reading[c] = "blocking"
    /\ waitSet' = waitSet \cup {c}
    /\ UNCHANGED <<mBuffer, mHead, mStoredBytes, mOpen, pending, reading,
                   sent, received>>

\* read returns 0 (nothing there, and not to block) or -1 (closed, whether or
\* not bytes are stored).
ReadNothing(c) ==
    /\ Reading(c)
    /\ ~mOpen \/ (mStoredBytes = 0 /\ reading[c] = "polling")
    /\ reading' = [reading EXCEPT ![c] = "no"]
    /\ UNCHANGED <<mBuffer, mHead, mStoredBytes, mOpen, waitSet, pending,
                   sent, received>>

\* The oldest bytes are copied out, in one run or two.
ReadBytes(c) ==
    LET n == SmallerOf(ReadLength, mStoredBytes)
    IN /\ Reading(c)
       /\ mOpen /\ mStoredBytes > 0
       /\ received' = received \o SubSeq(Contents, 1, n)
       /\ mHead' = Wrap(mHead + n)
       /\ mStoredBytes' = mStoredBytes - n
       /\ waitSet' \in IF Full THEN Notified(waitSet) ELSE {waitSet}
       /\ reading' = [reading EXCEPT ![c] = "no"]
       /\ UNCHANGED <<mBuffer, mOpen, pending, sent>>

------------------------------------------------------------------------------

\* Mutant of close: without its notify().
CloseSilently ==
    /\ mOpen
    /\ mOpen' = FALSE
    /\ UNCHANGED <<mBuffer, mHead, mStoredBytes, waitSet, pending, reading, sent,
                   received>>

close ==
    /\ mOpen
    /\ mOpen' = FALSE
    /\ waitSet' \in Notified(waitSet)
    /\ UNCHANGED <<mBuffer, mHead, mStoredBytes, pending, reading, sent,
                   received>>

\* A waiting thread is interrupted or wakes spuriously: the exception is
\* ignored and the loop condition evaluated again.
Interrupt(t) ==
    /\ t \in waitSet
    /\ waitSet' = waitSet \ {t}
    /\ UNCHANGED <<mBuffer, mHead, mStoredBytes, mOpen, pending, reading,
                   sent, received>>

write(p) == WaitForSpace(p) \/ WriteToClosed(p) \/ WriteChunk(p)

read(c) == WaitForBytes(c) \/ ReadNothing(c) \/ ReadBytes(c)

Next ==
    \/ \E p \in Producers : \/ \E data \in Payloads : CallWrite(p, data)
                            \/ write(p)
    \/ \E c \in Consumers : \/ \E kind \in {"blocking", "polling"} : CallRead(c, kind)
                            \/ read(c)
    \/ close
    \/ \E t \in Producers \cup Consumers : Interrupt(t)

SafeSpec == Init /\ [][Next]_vars

\* A runnable thread runs, and a reader, whose code is a loop around read,
\* calls read again.  Nobody has to write, close or interrupt.
Fairness ==
    /\ \A p \in Producers : WF_vars(write(p))
    /\ \A c \in Consumers :
          /\ WF_vars(read(c))
          /\ WF_vars(\E kind \in {"blocking", "polling"} : CallRead(c, kind))

Spec == SafeSpec /\ Fairness

------------------------------------------------------------------------------
(* Properties *)

TypeOK ==
    /\ mBuffer \in [Index -> Byte]
    /\ mHead \in Index
    /\ mStoredBytes \in 0..BufferLength
    /\ mOpen \in BOOLEAN
    /\ waitSet \subseteq Producers \cup Consumers
    /\ pending \in [Producers -> Seq(Byte)]
    /\ reading \in [Consumers -> {"no", "blocking", "polling"}]
    /\ sent \in Seq(Byte)
    /\ received \in Seq(Byte)

\* What was read followed by what is stored is what was written, in order: the
\* index arithmetic of read and write loses, repeats and reorders no byte,
\* wherever mHead stands and however the chunks fall.
Fifo == received \o Contents = sent

\* A thread is in wait() only as long as its loop condition holds: the notify
\* of the other thread, sent only on the transitions from empty and from full
\* and by close, reaches every thread that has to go on.
NoMissedWakeup ==
    \A t \in waitSet :
        /\ mOpen
        /\ t \in Producers => Full
        /\ t \in Consumers => mStoredBytes = 0

\* Every call of write returns, also one longer than the buffer and one that
\* close overtakes.
WriteReturns == \A p \in Producers : pending[p] # <<>> ~> pending[p] = <<>>

\* close lets a thread out of a blocking read ("Stop the reader and writer
\* threads", cleanupResources).
CloseEndsReads == \A c \in Consumers : ~mOpen ~> reading[c] = "no"

\* With one thread at each end the queue is a bounded FIFO channel.
Channel == INSTANCE ByteChannel WITH
    Writers <- Producers, Offers <- Payloads, Capacity <- BufferLength,
    open <- mOpen, unsent <- pending, content <- Contents

ImplementsChannel == Channel!Spec
==============================================================================
