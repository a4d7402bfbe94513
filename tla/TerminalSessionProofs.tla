------------------------ MODULE TerminalSessionProofs ------------------------
(***************************************************************************)
(* What holds of TerminalSession for any number of sessions, descriptors   *)
(* and bytes and for any size of the queues, the pty and the buffers.      *)
(*                                                                         *)
(* The bytes of a session are conserved because its threads use its own    *)
(* pty until it is cleaned up, which happens once; that takes the          *)
(* invariants ExitInv, DescriptorInv and ThreadInv.                        *)
(***************************************************************************)
EXTENDS TerminalSession, FiniteSets, FiniteSetTheorems, TLAPS

USE SizesAssumption, SessionsAssumption

------------------------------------------------------------------------------
(* The operators *)

\* The smaller of two numbers is one of them and no more than either.
LEMMA Smaller ==
    ASSUME NEW a \in Int, NEW b \in Int
    PROVE  /\ SmallerOf(a, b) \in Int
           /\ SmallerOf(a, b) \in {a, b}
           /\ SmallerOf(a, b) <= a /\ SmallerOf(a, b) <= b
BY DEF SmallerOf

\* The messages the looper may hold.
Messages == [what : {"NEW_INPUT", "PROCESS_EXITED"}, session : Sessions]

\* The first message of a queue is one, and the rest is a queue of them, each
\* one place further ahead.
LEMMA FirstAndRest ==
    ASSUME NEW S, NEW q \in Seq(S), q # <<>>
    PROVE  /\ Head(q) \in S /\ Head(q) = q[1]
           /\ Tail(q) \in Seq(S)
           /\ Len(q) \in Nat \ {0} /\ Len(Tail(q)) = Len(q) - 1
           /\ \A i \in 1..(Len(q) - 1) : Tail(q)[i] = q[i + 1]
OBVIOUS

\* What is appended to a queue comes last, and what was there keeps its place.
LEMMA Appended ==
    ASSUME NEW S, NEW q \in Seq(S), NEW e \in S
    PROVE  /\ Append(q, e) \in Seq(S)
           /\ Len(q) \in Nat /\ Len(Append(q, e)) = Len(q) + 1
           /\ Append(q, e)[Len(q) + 1] = e
           /\ \A i \in 1..Len(q) : Append(q, e)[i] = q[i]
OBVIOUS

\* The states of a thread that can be at some places.  In a system call it is on
\* the pty of some session.
Threads(places) ==
    {t \in [at : places, bytes : 0..ReadLength, on : Sessions \cup {NoSession}] :
        t.at = "syscall" => t.on \in Sessions}

Readers == Threads({"none", "file", "syscall", "queue", "post", "ended"})
Writers == Threads({"none", "file", "syscall", "queue", "ended"})

TypeInv ==
    /\ TypeOK
    /\ reader \in [Sessions -> Readers]
    /\ writer \in [Sessions -> Writers]

\* What a call of write copies fits into the queue (and no more than was asked).
LEMMA FitsFits ==
    ASSUME TypeOK, NEW s \in Sessions, NEW n \in Nat
    PROVE  /\ Fits(s, n) \in 0..n
           /\ toProcess[s] + Fits(s, n) \in 0..QueueSize
           /\ Fits(s, n) < n => toProcess[s] + Fits(s, n) = QueueSize
BY DEF TypeOK, Fits, SmallerOf

\* What a message takes was in the queue.
LEMMA PolledHeld ==
    ASSUME TypeOK, NEW s \in Sessions
    PROVE  /\ Polled(s) \in 0..toTerminal[s]
           /\ Polled(s) <= ReadLength
           /\ ~Closed(s) => Polled(s) = toTerminal[s] \/ Polled(s) = ReadLength
           /\ Closed(s) => Polled(s) = 0
BY DEF TypeOK, Polled, SmallerOf

\* Enqueue keeps the type of what it changes.
LEMMA EnqueueTypes ==
    ASSUME TypeOK, NEW s \in Sessions, NEW n \in Nat, Enqueue(s, Fits(s, n))
    PROVE  toProcess' \in [Sessions -> 0..QueueSize] /\ typed' \in [Sessions -> Nat]
<1>1. /\ Fits(s, n) \in Nat
      /\ toProcess[s] + Fits(s, n) \in 0..QueueSize
  BY FitsFits
<1>2. QED  BY <1>1 DEF TypeOK, Enqueue

\* The clean-up keeps the type of what it changes.
LEMMA CleanupTypes ==
    ASSUME TypeOK, NEW s \in Sessions, cleanupResources(s)
    PROVE  /\ mShellPid' \in [Sessions -> {-1, 0, 1}]
           /\ owner' \in [Descriptors -> Sessions \cup {NoSession}]
BY DEF TypeOK, cleanupResources

\* Every action keeps the type of what it changes.
LEMMA MessageTypes ==
    ASSUME TypeInv, handleMessage
    PROVE  TypeInv'
<1>. DEFINE s == Head(messages).session
            exited == Head(messages).what = "PROCESS_EXITED"
<1>1. Head(messages) \in Messages /\ messages' \in Seq(Messages)
  <2>1. messages \in Seq(Messages) /\ messages # <<>> /\ messages' = Tail(messages)
    BY DEF TypeInv, TypeOK, handleMessage, Messages
  <2>2. QED  BY <2>1, FirstAndRest
<1>2. s \in Sessions /\ exited \in BOOLEAN
  BY <1>1 DEF Messages
<1>3. Polled(s) \in 0..toTerminal[s]
  BY <1>2, PolledHeld DEF TypeInv
<1>4. /\ toTerminal' \in [Sessions -> 0..QueueSize]
      /\ displayed' \in [Sessions -> Nat]
  <2>1. /\ toTerminal' = [toTerminal EXCEPT ![s] = @ - Polled(s)]
        /\ displayed' = [displayed EXCEPT ![s] = @ + Polled(s)]
    BY DEF handleMessage
  <2>2. toTerminal \in [Sessions -> 0..QueueSize] /\ displayed \in [Sessions -> Nat]
    BY DEF TypeInv, TypeOK
  <2>. HIDE DEF s
  <2>3. /\ toTerminal[s] \in 0..QueueSize /\ displayed[s] \in Nat
        /\ toTerminal[s] - Polled(s) \in 0..QueueSize
        /\ displayed[s] + Polled(s) \in Nat
    BY <1>2, <1>3, <2>2
  <2>4. QED  BY <2>1, <2>2, <2>3, <1>2
<1>5. PICK answer \in {0, 1} :
         /\ Enqueue(s, Fits(s, answer))
         /\ IF Fits(s, answer) < answer
            THEN /\ main' = [session |-> s, left |-> answer, exiting |-> exited]
                 /\ UNCHANGED <<mShellPid, owner>>
            ELSE /\ main' = Idle
                 /\ IF exited THEN cleanupResources(s)
                              ELSE UNCHANGED <<mShellPid, owner>>
  BY DEF handleMessage
<1>6. toProcess' \in [Sessions -> 0..QueueSize] /\ typed' \in [Sessions -> Nat]
  BY <1>2, <1>5, EnqueueTypes DEF TypeInv
<1>7. main' \in {Idle} \cup [session : Sessions, left : Nat \ {0}, exiting : BOOLEAN]
  <2>1. CASE Fits(s, answer) < answer
    <3>1. answer = 1
      BY <1>2, <2>1, FitsFits DEF TypeInv
    <3>2. main' = [session |-> s, left |-> 1, exiting |-> exited]
      BY <1>5, <2>1, <3>1
    <3>. HIDE DEF s, exited
    <3>3. QED  BY <3>2, <1>2
  <2>2. CASE ~(Fits(s, answer) < answer)
    BY <1>5, <2>2
  <2>3. QED  BY <2>1, <2>2
<1>8. /\ mShellPid' \in [Sessions -> {-1, 0, 1}]
      /\ owner' \in [Descriptors -> Sessions \cup {NoSession}]
  BY <1>2, <1>5, CleanupTypes DEF TypeInv, TypeOK
<1>9. UNCHANGED <<alive, shell, mTerminalFileDescriptor, ptyIn, ptyOut, reader,
                  writer, consumed, printed, crossed>>
  BY DEF handleMessage
<1>10. QED
  BY <1>1, <1>4, <1>6, <1>7, <1>8, <1>9 DEF TypeInv, TypeOK, Messages

\* The same of the write that goes on.
LEMMA ContinueTypes ==
    ASSUME TypeInv, continueWrite
    PROVE  TypeInv'
<1>. DEFINE s == main.session
            n == Fits(s, main.left)
<1>1. main \in [session : Sessions, left : Nat \ {0}, exiting : BOOLEAN]
  BY DEF TypeInv, TypeOK, continueWrite
<1>2. s \in Sessions /\ main.left \in Nat
  BY <1>1
<1>3. n \in 0..main.left
  BY <1>2, FitsFits DEF TypeInv
<1>4. toProcess' \in [Sessions -> 0..QueueSize] /\ typed' \in [Sessions -> Nat]
  BY <1>2, EnqueueTypes DEF TypeInv, continueWrite
<1>5. main' \in {Idle} \cup [session : Sessions, left : Nat \ {0}, exiting : BOOLEAN]
  BY <1>1, <1>3 DEF continueWrite
<1>6. /\ mShellPid' \in [Sessions -> {-1, 0, 1}]
      /\ owner' \in [Descriptors -> Sessions \cup {NoSession}]
  BY <1>2, CleanupTypes DEF TypeInv, TypeOK, continueWrite
<1>7. UNCHANGED <<alive, messages, shell, mTerminalFileDescriptor, toTerminal,
                  ptyIn, ptyOut, reader, writer, consumed, printed, displayed, crossed>>
  BY DEF continueWrite
<1>8. QED
  BY <1>4, <1>5, <1>6, <1>7 DEF TypeInv, TypeOK

\* The same of a write.
LEMMA WriteTypes ==
    ASSUME TypeInv, NEW s \in Sessions, NEW n \in WriteLengths, write(s, n)
    PROVE  TypeInv'
<1>1. n \in Nat \ {0}
  OBVIOUS
<1>2. Fits(s, n) \in 0..n
  BY <1>1, FitsFits DEF TypeInv
<1>3. toProcess' \in [Sessions -> 0..QueueSize] /\ typed' \in [Sessions -> Nat]
  BY <1>1, EnqueueTypes DEF TypeInv, write
<1>4. main' \in {Idle} \cup [session : Sessions, left : Nat \ {0}, exiting : BOOLEAN]
  BY <1>1, <1>2 DEF write
<1>5. QED
  BY <1>3, <1>4 DEF TypeInv, TypeOK, write

\* The same of the start of a session and of the kill.
LEMMA StartTypes ==
    ASSUME TypeInv, NEW s \in Sessions, initializeEmulator(s) \/ finishIfRunning(s)
    PROVE  TypeInv'
<1>1. CASE initializeEmulator(s)
  <2>1. /\ Thread("file", 0, NoSession) \in Readers
        /\ Thread("queue", 0, NoSession) \in Writers
    BY DEF Readers, Writers, Threads, Thread
  <2>2. reader' \in [Sessions -> Readers] /\ writer' \in [Sessions -> Writers]
    BY <1>1, <2>1 DEF TypeInv, initializeEmulator
  <2>3. /\ mShellPid' \in [Sessions -> {-1, 0, 1}]
        /\ shell' \in [Sessions -> {"none", "running", "zombie", "reaped"}]
        /\ owner' \in [Descriptors -> Sessions \cup {NoSession}]
        /\ mTerminalFileDescriptor' \in [Sessions -> Descriptors]
    BY <1>1 DEF TypeInv, TypeOK, initializeEmulator
  <2>4. UNCHANGED <<alive, messages, main, queues, histories>>
    BY <1>1 DEF initializeEmulator
  <2>5. QED
    BY <2>2, <2>3, <2>4 DEF TypeInv, TypeOK, Readers, Writers, Threads, queues, histories
<1>2. CASE finishIfRunning(s)
  <2>1. /\ alive' \in BOOLEAN
        /\ shell' \in [Sessions -> {"none", "running", "zombie", "reaped"}]
    BY <1>2 DEF TypeInv, TypeOK, finishIfRunning
  <2>2. UNCHANGED <<messages, main, mShellPid, owner, mTerminalFileDescriptor,
                    queues, reader, writer, histories>>
    BY <1>2 DEF finishIfRunning
  <2>3. QED
    BY <2>1, <2>2 DEF TypeInv, TypeOK, queues, histories
<1>3. QED  BY <1>1, <1>2

\* The same of the reader.
LEMMA ReaderTypes ==
    ASSUME TypeInv, NEW s \in Sessions, Reader(s)
    PROVE  TypeInv'
<1>1. ReaderUnchanged
  BY DEF Reader, ReaderOpensFile, ReaderReads, ReaderEnqueues, ReaderPosts
<1>2. \A t \in Readers : Move(reader, s, t) => reader' \in [Sessions -> Readers]
  BY DEF TypeInv, Move
<1>3. reader' \in [Sessions -> Readers] =>
         (reader' \in [Sessions -> [at : {"none", "file", "syscall", "queue", "post", "ended"},
                                    bytes : 0..ReadLength, on : Sessions \cup {NoSession}]])
  BY DEF Readers, Threads
<1>4. Ended \in Readers
  BY DEF Readers, Threads, Thread, Ended
<1>5. SUFFICES /\ reader' \in [Sessions -> Readers]
               /\ messages' \in Seq(Messages)
               /\ toTerminal' \in [Sessions -> 0..QueueSize]
               /\ ptyOut' \in [Sessions -> 0..PtyOutSize]
               /\ crossed' \subseteq Sessions
  BY <1>1, <1>3 DEF TypeInv, TypeOK, ReaderUnchanged, Messages
<1>6. /\ messages \in Seq(Messages)
      /\ toTerminal \in [Sessions -> 0..QueueSize]
      /\ ptyOut \in [Sessions -> 0..PtyOutSize]
      /\ crossed \subseteq Sessions
  BY DEF TypeInv, TypeOK, Messages
<1>7. reader[s] \in Readers /\ Reached(s) \in Sessions \cup {NoSession}
  BY DEF TypeInv, TypeOK, Reached
<1>8. CASE ReaderOpensFile(s)
  <2>1. Reached(s) # NoSession => Thread("syscall", 0, Reached(s)) \in Readers
    BY <1>7 DEF Readers, Threads, Thread
  <2>2. reader' \in [Sessions -> Readers]
    BY <1>2, <1>4, <1>8, <2>1 DEF ReaderOpensFile
  <2>3. crossed' \subseteq Sessions
    BY <1>6, <1>7, <1>8 DEF ReaderOpensFile
  <2>4. QED  BY <1>6, <1>8, <2>2, <2>3 DEF ReaderOpensFile
<1>9. CASE ReaderReads(s)
  <2>. DEFINE o == reader[s].on
              n == SmallerOf(ReadLength, ptyOut[o])
  <2>1. o \in Sessions /\ ptyOut[o] \in 0..PtyOutSize
    BY <1>6, <1>7, <1>9 DEF ReaderReads, Readers, Threads
  <2>2. n \in 0..ReadLength /\ n <= ptyOut[o]
    BY <2>1 DEF SmallerOf
  <2>3. Thread("queue", n, o) \in Readers
    BY <2>1, <2>2 DEF Readers, Threads, Thread
  <2>4. reader' \in [Sessions -> Readers]
    BY <1>2, <1>4, <1>9, <2>3 DEF ReaderReads
  <2>5. ptyOut' \in [Sessions -> 0..PtyOutSize]
    <3>1. \/ ptyOut' = [ptyOut EXCEPT ![o] = @ - n]
          \/ UNCHANGED ptyOut
      BY <1>9 DEF ReaderReads
    <3>. HIDE DEF n, o
    <3>2. QED  BY <1>6, <2>1, <2>2, <3>1
  <2>6. QED  BY <1>6, <1>9, <2>4, <2>5 DEF ReaderReads
<1>10. CASE ReaderEnqueues(s)
  <2>. DEFINE n == SmallerOf(reader[s].bytes, QueueSize - toTerminal[s])
  <2>1. reader[s].bytes \in 0..ReadLength /\ toTerminal[s] \in 0..QueueSize
    BY <1>6, <1>7 DEF Readers, Threads
  <2>2. n \in Int /\ n <= reader[s].bytes /\ toTerminal[s] + n <= QueueSize
    BY <2>1 DEF SmallerOf
  <2>3. n > 0 => Rest(reader[s], n, Thread("post", 0, NoSession)) \in Readers
    BY <1>7, <2>1, <2>2 DEF Rest, Readers, Threads, Thread
  <2>4. reader' \in [Sessions -> Readers]
    BY <1>2, <1>4, <1>10, <2>3 DEF ReaderEnqueues
  <2>5. toTerminal' \in [Sessions -> 0..QueueSize]
    <3>1. \/ n > 0 /\ toTerminal' = [toTerminal EXCEPT ![s] = @ + n]
          \/ UNCHANGED toTerminal
      BY <1>10 DEF ReaderEnqueues
    <3>. HIDE DEF n
    <3>2. QED  BY <1>6, <2>1, <2>2, <3>1
  <2>6. QED  BY <1>6, <1>10, <2>4, <2>5 DEF ReaderEnqueues
<1>11. CASE ReaderPosts(s)
  <2>1. Thread("file", 0, NoSession) \in Readers
    BY DEF Readers, Threads, Thread
  <2>2. reader' \in [Sessions -> Readers]
    BY <1>2, <1>11, <2>1 DEF ReaderPosts
  <2>3. messages' \in Seq(Messages)
    BY <1>6, <1>11 DEF ReaderPosts, Messages
  <2>4. QED  BY <1>6, <1>11, <2>2, <2>3 DEF ReaderPosts
<1>12. QED  BY <1>8, <1>9, <1>10, <1>11 DEF Reader

\* The same of the writer.
LEMMA WriterTypes ==
    ASSUME TypeInv, NEW s \in Sessions, Writer(s)
    PROVE  TypeInv'
<1>1. WriterUnchanged
  BY DEF Writer, WriterDequeues, WriterOpensFile, WriterWrites
<1>2. \A t \in Writers : Move(writer, s, t) => writer' \in [Sessions -> Writers]
  BY DEF TypeInv, Move
<1>3. writer' \in [Sessions -> Writers] =>
         (writer' \in [Sessions -> [at : {"none", "file", "syscall", "queue", "ended"},
                                    bytes : 0..ReadLength, on : Sessions \cup {NoSession}]])
  BY DEF Writers, Threads
<1>4. Ended \in Writers
  BY DEF Writers, Threads, Thread, Ended
<1>5. SUFFICES /\ writer' \in [Sessions -> Writers]
               /\ toProcess' \in [Sessions -> 0..QueueSize]
               /\ ptyIn' \in [Sessions -> 0..PtyInSize]
               /\ crossed' \subseteq Sessions
  BY <1>1, <1>3 DEF TypeInv, TypeOK, WriterUnchanged
<1>6. /\ toProcess \in [Sessions -> 0..QueueSize]
      /\ ptyIn \in [Sessions -> 0..PtyInSize]
      /\ crossed \subseteq Sessions
  BY DEF TypeInv, TypeOK
<1>7. writer[s] \in Writers /\ Reached(s) \in Sessions \cup {NoSession}
  BY DEF TypeInv, TypeOK, Reached
<1>8. CASE WriterDequeues(s)
  <2>. DEFINE n == SmallerOf(ReadLength, toProcess[s])
  <2>1. toProcess[s] \in 0..QueueSize
    BY <1>6
  <2>2. n \in 0..ReadLength /\ n <= toProcess[s]
    BY <2>1 DEF SmallerOf
  <2>3. Thread("file", n, NoSession) \in Writers
    BY <2>2 DEF Writers, Threads, Thread
  <2>4. writer' \in [Sessions -> Writers]
    BY <1>2, <1>4, <1>8, <2>3 DEF WriterDequeues
  <2>5. toProcess' \in [Sessions -> 0..QueueSize]
    <3>1. \/ toProcess' = [toProcess EXCEPT ![s] = @ - n]
          \/ UNCHANGED toProcess
      BY <1>8 DEF WriterDequeues
    <3>. HIDE DEF n
    <3>2. QED  BY <1>6, <2>1, <2>2, <3>1
  <2>6. QED  BY <1>6, <1>8, <2>4, <2>5 DEF WriterDequeues
<1>9. CASE WriterOpensFile(s)
  <2>1. Reached(s) # NoSession =>
           [writer[s] EXCEPT !.at = "syscall", !.on = Reached(s)] \in Writers
    BY <1>7 DEF Writers, Threads
  <2>2. writer' \in [Sessions -> Writers]
    BY <1>2, <1>4, <1>9, <2>1 DEF WriterOpensFile
  <2>3. crossed' \subseteq Sessions
    BY <1>6, <1>7, <1>9 DEF WriterOpensFile
  <2>4. QED  BY <1>6, <1>9, <2>2, <2>3 DEF WriterOpensFile
<1>10. CASE WriterWrites(s)
  <2>. DEFINE o == writer[s].on
              n == SmallerOf(writer[s].bytes, PtyInSize - ptyIn[o])
  <2>1. o \in Sessions /\ ptyIn[o] \in 0..PtyInSize /\ writer[s].bytes \in 0..ReadLength
    BY <1>6, <1>7, <1>10 DEF WriterWrites, Writers, Threads
  <2>2. n \in Int /\ n <= writer[s].bytes /\ ptyIn[o] + n <= PtyInSize
    BY <2>1 DEF SmallerOf
  <2>3. n > 0 => Rest(writer[s], n, Thread("queue", 0, NoSession)) \in Writers
    <3>. HIDE DEF n
    <3>1. QED  BY <1>7, <2>1, <2>2 DEF Rest, Writers, Threads, Thread
  <2>4. writer' \in [Sessions -> Writers]
    BY <1>2, <1>4, <1>10, <2>3 DEF WriterWrites
  <2>5. ptyIn' \in [Sessions -> 0..PtyInSize]
    <3>1. \/ n > 0 /\ ptyIn' = [ptyIn EXCEPT ![o] = @ + n]
          \/ UNCHANGED ptyIn
      BY <1>10 DEF WriterWrites
    <3>. HIDE DEF n, o
    <3>2. QED  BY <1>6, <2>1, <2>2, <3>1
  <2>6. QED  BY <1>6, <1>10, <2>4, <2>5 DEF WriterWrites
<1>11. QED  BY <1>8, <1>9, <1>10 DEF Writer

\* The same of the shell and of the thread that waits for it.
LEMMA ShellTypes ==
    ASSUME TypeInv, NEW s \in Sessions,
           Waiter(s) \/ ShellEchoes(s) \/ ShellPrints(s) \/ ShellExits(s)
    PROVE  TypeInv'
<1>1. /\ messages \in Seq(Messages)
      /\ shell \in [Sessions -> {"none", "running", "zombie", "reaped"}]
      /\ ptyIn \in [Sessions -> 0..PtyInSize]
      /\ ptyOut \in [Sessions -> 0..PtyOutSize]
      /\ consumed \in [Sessions -> Nat] /\ printed \in [Sessions -> Nat]
  BY DEF TypeInv, TypeOK, Messages
<1>2. UNCHANGED <<alive, main, mShellPid, owner, mTerminalFileDescriptor,
                  toProcess, toTerminal, reader, writer, typed, displayed, crossed>>
  BY DEF Waiter, ShellEchoes, ShellPrints, ShellExits, ShellUnchanged, queues, histories
<1>3. SUFFICES /\ messages' \in Seq(Messages)
               /\ shell' \in [Sessions -> {"none", "running", "zombie", "reaped"}]
               /\ ptyIn' \in [Sessions -> 0..PtyInSize]
               /\ ptyOut' \in [Sessions -> 0..PtyOutSize]
               /\ consumed' \in [Sessions -> Nat] /\ printed' \in [Sessions -> Nat]
  BY <1>2 DEF TypeInv, TypeOK, Messages
<1>4. CASE Waiter(s)
  <2>1. messages' \in Seq(Messages)
    BY <1>1, <1>4 DEF Waiter, Messages
  <2>2. QED  BY <1>1, <1>4, <2>1 DEF Waiter, queues, histories
<1>5. CASE ShellEchoes(s)
  BY <1>1, <1>5 DEF ShellEchoes, ShellUnchanged
<1>6. CASE ShellPrints(s)
  BY <1>1, <1>6 DEF ShellPrints, ShellUnchanged
<1>7. CASE ShellExits(s)
  BY <1>1, <1>7 DEF ShellExits, ShellUnchanged
<1>8. QED  BY <1>4, <1>5, <1>6, <1>7

------------------------------------------------------------------------------
(* Types *)

\* The types hold, and a thread is never in a system call on no pty: what the
\* code calls read and write on.
THEOREM TypeInvariant == SafeSpec => []TypeInv
<1>1. Init => TypeInv
  BY DescriptorsAssumption DEF Init, TypeInv, TypeOK, Idle, Thread, Readers, Writers, Threads
<1>2. ASSUME TypeInv, [Next]_vars
      PROVE  TypeInv'
  <2>1. CASE Next
    BY <1>2, <2>1, MessageTypes, ContinueTypes, WriteTypes, StartTypes,
       ReaderTypes, WriterTypes, ShellTypes DEF Next
  <2>2. CASE UNCHANGED vars
    BY <1>2, <2>2 DEF TypeInv, TypeOK, vars, queues, histories
  <2>3. QED  BY <1>2, <2>1, <2>2
<1>3. QED  BY <1>1, <1>2, PTL DEF SafeSpec

\* The type invariant of the runs.
THEOREM TypeCorrect == SafeSpec => []TypeOK
<1>1. TypeInv => TypeOK
  BY DEF TypeInv
<1>2. QED  BY <1>1, TypeInvariant, PTL

------------------------------------------------------------------------------
(* A session is cleaned up once *)

Exited(i) == messages[i].what = "PROCESS_EXITED"

\* The pid tells whether the shell was started, and is -1 only after it was
\* waited for.
PidInv ==
    \A s \in Sessions :
        /\ mShellPid[s] = 0 <=> shell[s] = "none"
        /\ mShellPid[s] = -1 => shell[s] = "reaped"

\* The exit is reported once, of a session that is not cleaned up yet.
ReportInv ==
    /\ \A i \in 1..Len(messages) :
          Exited(i) => /\ mShellPid[messages[i].session] = 1
                       /\ shell[messages[i].session] = "reaped"
    /\ \A i, j \in 1..Len(messages) :
          Exited(i) /\ Exited(j) /\ messages[i].session = messages[j].session => i = j

\* While the main thread waits in a write its session is not cleaned up, and
\* if it has the clean-up before it, no message asks for it as well.
BlockedInv ==
    main # Idle =>
        /\ mShellPid[main.session] = 1
        /\ main.exiting =>
              /\ shell[main.session] = "reaped"
              /\ \A i \in 1..Len(messages) :
                    Exited(i) => messages[i].session # main.session

ExitInv == PidInv /\ ReportInv /\ BlockedInv

\* What the looper holds are messages of sessions.
LEMMA MessagesKnown ==
    ASSUME TypeInv
    PROVE  messages \in Seq(Messages) /\ \A i \in 1..Len(messages) : messages[i] \in Messages
<1>1. messages \in Seq(Messages)
  BY DEF TypeInv, TypeOK, Messages
<1>2. QED  BY <1>1

\* A message is handled: the exit it reports is no longer reported.
LEMMA MessageExits ==
    ASSUME TypeInv, ExitInv, handleMessage
    PROVE  ExitInv'
<1>. DEFINE s == Head(messages).session
            exited == Head(messages).what = "PROCESS_EXITED"
<1>1. messages \in Seq(Messages) /\ messages # <<>> /\ messages' = Tail(messages)
  BY DEF TypeInv, TypeOK, handleMessage, Messages
<1>2. /\ Head(messages) \in Messages /\ Head(messages) = messages[1]
      /\ Len(messages) \in Nat \ {0} /\ Len(messages') = Len(messages) - 1
      /\ \A i \in 1..(Len(messages) - 1) : messages'[i] = messages[i + 1]
  BY <1>1, FirstAndRest
<1>3. s \in Sessions /\ exited \in BOOLEAN
  BY <1>2 DEF Messages
<1>4. PICK answer \in IF Polled(s) > 0 /\ mShellPid[s] > 0 /\ typed[s] < MaxInput
                      THEN {0, 1} ELSE {0} :
         IF Fits(s, answer) < answer
         THEN /\ main' = [session |-> s, left |-> answer, exiting |-> exited]
              /\ UNCHANGED <<mShellPid, owner>>
         ELSE /\ main' = Idle
              /\ IF exited THEN cleanupResources(s)
                           ELSE UNCHANGED <<mShellPid, owner>>
  BY DEF handleMessage
<1>5. UNCHANGED shell /\ mShellPid \in [Sessions -> {-1, 0, 1}]
  BY DEF handleMessage, TypeInv, TypeOK
<1>6. exited => /\ mShellPid[s] = 1 /\ shell[s] = "reaped"
                /\ \A i \in 1..(Len(messages) - 1) :
                      messages'[i].what = "PROCESS_EXITED" => messages'[i].session # s
  <2>1. exited => Exited(1)
    BY <1>2 DEF Exited
  <2>2. \A i \in 1..(Len(messages) - 1) : i + 1 \in 1..Len(messages) /\ i + 1 # 1
    BY <1>2
  <2>3. QED  BY <1>2, <2>1, <2>2 DEF ExitInv, ReportInv, Exited
<1>7. /\ \A i \in 1..Len(messages') :
            Exited(i)' => /\ mShellPid[messages'[i].session] = 1
                          /\ shell[messages'[i].session] = "reaped"
      /\ \A i, j \in 1..Len(messages') :
            Exited(i)' /\ Exited(j)' /\ messages'[i].session = messages'[j].session => i = j
  <2>1. \A i \in 1..Len(messages') : i + 1 \in 1..Len(messages) /\ messages'[i] = messages[i + 1]
    BY <1>2
  <2>2. \A i, j \in 1..Len(messages') : i + 1 = j + 1 => i = j
    BY <1>2
  <2>3. ASSUME NEW i \in 1..Len(messages'), messages'[i].what = "PROCESS_EXITED"
        PROVE  /\ mShellPid[messages'[i].session] = 1
               /\ shell[messages'[i].session] = "reaped"
               /\ \A j \in 1..Len(messages') :
                     messages'[j].what = "PROCESS_EXITED"
                     /\ messages'[i].session = messages'[j].session => i = j
    <3>1. i + 1 \in 1..Len(messages) /\ Exited(i + 1) /\ messages'[i] = messages[i + 1]
      BY <2>1, <2>3 DEF Exited
    <3>2. ASSUME NEW j \in 1..Len(messages'), messages'[j].what = "PROCESS_EXITED",
                 messages'[i].session = messages'[j].session
          PROVE  i = j
      <4>1. j + 1 \in 1..Len(messages) /\ Exited(j + 1) /\ messages'[j] = messages[j + 1]
        BY <2>1, <3>2 DEF Exited
      <4>2. i + 1 = j + 1
        BY <3>1, <3>2, <4>1 DEF ExitInv, ReportInv
      <4>3. QED  BY <2>2, <4>2
    <3>3. QED  BY <3>1, <3>2 DEF ExitInv, ReportInv
  <2>4. QED  BY <2>3 DEF Exited
<1>8. \A i \in 1..Len(messages') : messages'[i] \in Messages
  BY <1>1, FirstAndRest
<1>9. CASE Fits(s, answer) < answer
  <2>1. mShellPid[s] = 1
    BY <1>3, <1>4, <1>5, <1>9, FitsFits DEF TypeInv
  <2>2. UNCHANGED mShellPid /\ main' = [session |-> s, left |-> answer, exiting |-> exited]
    BY <1>4, <1>9
  <2>3. PidInv' /\ ReportInv'
    BY <1>5, <1>7, <2>2 DEF ExitInv, PidInv, ReportInv
  <2>4. BlockedInv'
    <3>. HIDE DEF s, exited
    <3>1. QED  BY <1>2, <1>5, <1>6, <2>1, <2>2 DEF BlockedInv, Exited
  <2>5. QED  BY <2>3, <2>4 DEF ExitInv
<1>10. CASE ~(Fits(s, answer) < answer)
  <2>1. main' = Idle
    BY <1>4, <1>10
  <2>2. CASE exited
    <3>1. mShellPid' = [mShellPid EXCEPT ![s] = -1]
      BY <1>4, <1>10, <2>2 DEF cleanupResources
    <3>2. PidInv'
      BY <1>3, <1>5, <1>6, <2>2, <3>1 DEF ExitInv, PidInv
    <3>3. ReportInv'
      <4>1. \A i \in 1..Len(messages') :
               Exited(i)' => messages'[i].session \in Sessions /\ messages'[i].session # s
        BY <1>2, <1>6, <1>8, <2>2 DEF Exited, Messages
      <4>. HIDE DEF s, exited
      <4>2. QED  BY <1>3, <1>5, <1>7, <3>1, <4>1 DEF ReportInv
    <3>4. QED  BY <2>1, <3>2, <3>3 DEF ExitInv, BlockedInv, Idle
  <2>3. CASE ~exited
    <3>1. UNCHANGED mShellPid
      BY <1>4, <1>10, <2>3
    <3>2. QED  BY <1>5, <1>7, <2>1, <3>1 DEF ExitInv, PidInv, ReportInv, BlockedInv, Idle
  <2>4. QED  BY <2>2, <2>3
<1>11. QED  BY <1>9, <1>10

\* The write goes on: what it still had to clean up was reported by no message.
LEMMA ContinueExits ==
    ASSUME TypeInv, ExitInv, continueWrite
    PROVE  ExitInv'
<1>. DEFINE s == main.session
<1>1. /\ main # Idle /\ s \in Sessions /\ mShellPid[s] = 1
      /\ mShellPid \in [Sessions -> {-1, 0, 1}]
      /\ main.exiting => shell[s] = "reaped"
  BY DEF TypeInv, TypeOK, continueWrite, ExitInv, BlockedInv
<1>2. UNCHANGED <<shell, messages>>
  BY DEF continueWrite
<1>3. CASE Fits(s, main.left) < main.left
  <2>1. main' = [main EXCEPT !.left = @ - Fits(s, main.left)] /\ UNCHANGED mShellPid
    BY <1>3 DEF continueWrite
  <2>2. main'.session = s /\ main'.exiting = main.exiting
    BY <1>1, <2>1 DEF TypeInv, TypeOK
  <2>3. QED
    BY <1>1, <1>2, <2>1, <2>2 DEF ExitInv, PidInv, ReportInv, BlockedInv, Exited
<1>4. CASE ~(Fits(s, main.left) < main.left)
  <2>1. main' = Idle
    BY <1>4 DEF continueWrite
  <2>2. CASE main.exiting
    <3>1. mShellPid' = [mShellPid EXCEPT ![s] = -1]
      BY <1>4, <2>2 DEF continueWrite, cleanupResources
    <3>2. PidInv'
      BY <1>1, <1>2, <2>2, <3>1 DEF ExitInv, PidInv
    <3>3. ReportInv'
      <4>1. \A i \in 1..Len(messages) : messages[i].session \in Sessions
        BY MessagesKnown DEF Messages
      <4>2. \A i \in 1..Len(messages) : Exited(i) => messages[i].session # s
        BY <1>1, <2>2 DEF ExitInv, BlockedInv
      <4>. HIDE DEF s
      <4>3. QED  BY <1>1, <1>2, <3>1, <4>1, <4>2 DEF ExitInv, ReportInv, Exited
    <3>4. QED  BY <2>1, <3>2, <3>3 DEF ExitInv, BlockedInv, Idle
  <2>3. CASE ~main.exiting
    <3>1. UNCHANGED mShellPid
      BY <1>4, <2>3 DEF continueWrite
    <3>2. QED  BY <1>2, <2>1, <3>1 DEF ExitInv, PidInv, ReportInv, BlockedInv, Idle, Exited
  <2>4. QED  BY <2>2, <2>3
<1>5. QED  BY <1>3, <1>4

\* The exit is reported when the shell is waited for, which happens once.
LEMMA WaiterExits ==
    ASSUME TypeInv, ExitInv, NEW s \in Sessions, Waiter(s)
    PROVE  ExitInv'
<1>. DEFINE e == [what |-> "PROCESS_EXITED", session |-> s]
<1>1. /\ shell[s] = "zombie" /\ shell' = [shell EXCEPT ![s] = "reaped"]
      /\ messages' = Append(messages, e)
      /\ UNCHANGED <<main, mShellPid>>
  BY DEF Waiter
<1>2. /\ messages \in Seq(Messages) /\ e \in Messages
      /\ mShellPid \in [Sessions -> {-1, 0, 1}]
      /\ shell \in [Sessions -> {"none", "running", "zombie", "reaped"}]
  BY DEF TypeInv, TypeOK, Messages
<1>3. /\ Len(messages) \in Nat /\ Len(messages') = Len(messages) + 1
      /\ messages'[Len(messages) + 1] = e
      /\ \A i \in 1..Len(messages) : messages'[i] = messages[i] /\ messages[i] \in Messages
  BY <1>1, <1>2, Appended
<1>4. mShellPid[s] = 1
  BY <1>1, <1>2 DEF ExitInv, PidInv
<1>5. PidInv'
  BY <1>1, <1>2, <1>4 DEF ExitInv, PidInv
<1>6. \A i \in 1..Len(messages) : Exited(i) => messages[i].session # s
  BY <1>1 DEF ExitInv, ReportInv
<1>7. \A i \in 1..Len(messages') :
         \/ i \in 1..Len(messages) /\ messages'[i] = messages[i]
            /\ messages[i].session \in Sessions
         \/ i = Len(messages) + 1 /\ messages'[i].session = s
  BY <1>3 DEF Messages
<1>8. ReportInv'
  <2>. HIDE DEF e
  <2>1. \A i \in 1..Len(messages') :
           Exited(i)' => /\ mShellPid'[messages'[i].session] = 1
                         /\ shell'[messages'[i].session] = "reaped"
    BY <1>1, <1>2, <1>4, <1>7 DEF ExitInv, ReportInv, Exited
  <2>2. \A i, j \in 1..Len(messages') :
           Exited(i)' /\ Exited(j)' /\ messages'[i].session = messages'[j].session => i = j
    BY <1>6, <1>7 DEF ExitInv, ReportInv, Exited
  <2>3. QED  BY <2>1, <2>2 DEF ReportInv
<1>9. BlockedInv'
  <2>1. CASE main = Idle
    BY <1>1, <2>1 DEF BlockedInv, Idle
  <2>2. CASE main # Idle
    <3>1. main.session \in Sessions
      BY <2>2 DEF TypeInv, TypeOK
    <3>2. main.exiting => shell'[main.session] = "reaped" /\ main.session # s
      BY <1>1, <1>2, <2>2, <3>1 DEF ExitInv, BlockedInv
    <3>. HIDE DEF e
    <3>3. QED  BY <1>1, <1>7, <2>2, <3>2 DEF ExitInv, BlockedInv, Exited
  <2>3. QED  BY <2>1, <2>2
<1>10. QED  BY <1>5, <1>8, <1>9 DEF ExitInv

\* A message of the reader reports no exit.
LEMMA ReaderExits ==
    ASSUME TypeInv, ExitInv, NEW s \in Sessions, Reader(s)
    PROVE  ExitInv'
<1>1. UNCHANGED <<main, mShellPid, shell>>
  BY DEF Reader, ReaderOpensFile, ReaderReads, ReaderEnqueues, ReaderPosts, ReaderUnchanged
<1>2. CASE UNCHANGED messages
  BY <1>1, <1>2 DEF ExitInv, PidInv, ReportInv, BlockedInv, Exited
<1>3. CASE messages' = Append(messages, [what |-> "NEW_INPUT", session |-> s])
  <2>1. messages \in Seq(Messages) /\ [what |-> "NEW_INPUT", session |-> s] \in Messages
    BY DEF TypeInv, TypeOK, Messages
  <2>2. \A i \in 1..Len(messages') :
           messages'[i].what = "PROCESS_EXITED" =>
               i \in 1..Len(messages) /\ messages'[i] = messages[i]
    <3>1. /\ Len(messages) \in Nat /\ Len(messages') = Len(messages) + 1
          /\ messages'[Len(messages) + 1] = [what |-> "NEW_INPUT", session |-> s]
          /\ \A i \in 1..Len(messages) : messages'[i] = messages[i]
      BY <1>3, <2>1, Appended
    <3>2. messages'[Len(messages) + 1].what = "NEW_INPUT"
      BY <3>1
    <3>3. \A i \in 1..Len(messages') : i \in 1..Len(messages) \/ i = Len(messages) + 1
      BY <3>1
    <3>4. QED  BY <3>1, <3>2, <3>3
  <2>3. QED
    BY <1>1, <2>2 DEF ExitInv, PidInv, ReportInv, BlockedInv, Exited
<1>4. QED
  BY <1>2, <1>3 DEF Reader, ReaderOpensFile, ReaderReads, ReaderEnqueues, ReaderPosts

\* The other steps report nothing and clean nothing up.
LEMMA OtherExits ==
    ASSUME TypeInv, ExitInv, NEW s \in Sessions,
           \/ initializeEmulator(s)
           \/ \E n \in WriteLengths : write(s, n)
           \/ finishIfRunning(s)
           \/ Writer(s)
           \/ ShellEchoes(s) \/ ShellPrints(s) \/ ShellExits(s)
    PROVE  ExitInv'
<1>1. UNCHANGED messages
  BY DEF initializeEmulator, write, finishIfRunning, Writer, WriterDequeues, WriterOpensFile,
     WriterWrites, WriterUnchanged, ShellEchoes, ShellPrints, ShellExits, ShellUnchanged
<1>2. /\ \A i \in 1..Len(messages) : messages[i].session \in Sessions
      /\ mShellPid \in [Sessions -> {-1, 0, 1}]
      /\ shell \in [Sessions -> {"none", "running", "zombie", "reaped"}]
      /\ main # Idle => main.session \in Sessions
  <2>1. \A i \in 1..Len(messages) : messages[i].session \in Sessions
    BY MessagesKnown DEF Messages
  <2>2. QED  BY <2>1 DEF TypeInv, TypeOK
<1>3. CASE initializeEmulator(s)
  <2>1. /\ main = Idle /\ UNCHANGED main
        /\ shell[s] = "none"
        /\ mShellPid' = [mShellPid EXCEPT ![s] = 1]
        /\ shell' = [shell EXCEPT ![s] = "running"]
    BY <1>3 DEF initializeEmulator
  <2>2. QED
    BY <1>1, <1>2, <2>1 DEF ExitInv, PidInv, ReportInv, BlockedInv, Exited
<1>4. CASE \E n \in WriteLengths : write(s, n)
  <2>1. /\ UNCHANGED <<mShellPid, shell>>
        /\ mShellPid[s] > 0
        /\ \/ main' = Idle
           \/ main'.session = s /\ main'.exiting = FALSE
    <3>1. PICK n \in WriteLengths : write(s, n)
      BY <1>4
    <3>2. \/ main' = Idle
          \/ main' = [session |-> s, left |-> n - Fits(s, n), exiting |-> FALSE]
      BY <3>1 DEF write
    <3>3. UNCHANGED <<mShellPid, shell>> /\ mShellPid[s] > 0
      BY <3>1 DEF write
    <3>4. QED  BY <3>2, <3>3
  <2>2. QED
    BY <1>1, <1>2, <2>1 DEF ExitInv, PidInv, ReportInv, BlockedInv, Exited
<1>5. CASE finishIfRunning(s) \/ ShellExits(s)
  <2>1. /\ UNCHANGED <<main, mShellPid>>
        /\ \/ UNCHANGED shell
           \/ shell[s] = "running" /\ shell' = [shell EXCEPT ![s] = "zombie"]
    BY <1>5 DEF finishIfRunning, ShellExits, ShellUnchanged
  <2>2. QED
    BY <1>1, <1>2, <2>1 DEF ExitInv, PidInv, ReportInv, BlockedInv, Exited
<1>6. CASE Writer(s) \/ ShellEchoes(s) \/ ShellPrints(s)
  <2>1. UNCHANGED <<main, mShellPid, shell>>
    BY <1>6 DEF Writer, WriterDequeues, WriterOpensFile, WriterWrites, WriterUnchanged,
       ShellEchoes, ShellPrints, ShellUnchanged
  <2>2. QED
    BY <1>1, <2>1 DEF ExitInv, PidInv, ReportInv, BlockedInv, Exited
<1>7. QED  BY <1>3, <1>4, <1>5, <1>6

\* The end of a shell is reported once, and nothing is done twice about it: a
\* second clean-up would close a descriptor that may be another session's by then.
THEOREM ExitInvariant == SafeSpec => []ExitInv
<1>1. Init => ExitInv
  BY DEF Init, ExitInv, PidInv, ReportInv, BlockedInv
<1>2. ASSUME TypeInv, ExitInv, [Next]_vars
      PROVE  ExitInv'
  <2>1. CASE Next
    BY <1>2, <2>1, MessageExits, ContinueExits, WaiterExits, ReaderExits, OtherExits DEF Next
  <2>2. CASE UNCHANGED vars
    BY <1>2, <2>2 DEF ExitInv, PidInv, ReportInv, BlockedInv, Exited, vars
  <2>3. QED  BY <1>2, <2>1, <2>2
<1>3. QED  BY <1>1, <1>2, TypeInvariant, PTL DEF SafeSpec

------------------------------------------------------------------------------
(* Descriptors and threads *)

\* Until it is cleaned up a session's descriptor is its own, and nobody else's.
DescriptorInv ==
    /\ \A s \in Sessions : mShellPid[s] = 1 => Reached(s) = s
    /\ \A d \in Descriptors :
          owner[d] # NoSession => /\ mShellPid[owner[d]] = 1
                                  /\ mTerminalFileDescriptor[owner[d]] = d

\* What the main thread does about a message cleans up one session, whose shell
\* was waited for, or none.
LEMMA CleanupOnce ==
    ASSUME TypeInv, ExitInv, handleMessage \/ continueWrite
    PROVE  \/ UNCHANGED <<mShellPid, owner>>
           \/ \E s \in Sessions :
                 mShellPid[s] = 1 /\ shell[s] = "reaped" /\ cleanupResources(s)
<1>1. CASE handleMessage
  <2>1. /\ Head(messages) \in Messages /\ Head(messages) = messages[1]
        /\ 1 \in 1..Len(messages)
    <3>1. messages \in Seq(Messages) /\ messages # <<>>
      BY <1>1, MessagesKnown DEF handleMessage
    <3>2. QED  BY <3>1, FirstAndRest
  <2>2. \/ UNCHANGED <<mShellPid, owner>>
        \/ Head(messages).what = "PROCESS_EXITED" /\ cleanupResources(Head(messages).session)
    BY <1>1 DEF handleMessage
  <2>3. QED
    BY <2>1, <2>2 DEF ExitInv, ReportInv, Exited, Messages
<1>2. CASE continueWrite
  <2>1. \/ UNCHANGED <<mShellPid, owner>>
        \/ main.exiting /\ cleanupResources(main.session)
    BY <1>2 DEF continueWrite
  <2>2. main # Idle /\ main.session \in Sessions
    BY <1>2 DEF continueWrite, TypeInv, TypeOK
  <2>3. QED  BY <2>1, <2>2 DEF ExitInv, BlockedInv
<1>3. QED  BY <1>1, <1>2

\* Descriptors are given out when they are free and freed by their owner.
THEOREM DescriptorInvariant == SafeSpec => []DescriptorInv
<1>1. Init => DescriptorInv
  BY DEF Init, DescriptorInv
<1>2. ASSUME TypeInv, ExitInv, DescriptorInv, [Next]_vars
      PROVE  DescriptorInv'
  <2>1. /\ mShellPid \in [Sessions -> {-1, 0, 1}]
        /\ owner \in [Descriptors -> Sessions \cup {NoSession}]
        /\ mTerminalFileDescriptor \in [Sessions -> Descriptors]
    BY <1>2 DEF TypeInv, TypeOK
  <2>2. ASSUME NEW s \in Sessions, mShellPid[s] = 1, cleanupResources(s),
               UNCHANGED mTerminalFileDescriptor
        PROVE  DescriptorInv'
    <3>1. owner[mTerminalFileDescriptor[s]] = s
      BY <1>2, <2>2 DEF DescriptorInv, Reached
    <3>2. /\ mShellPid' = [mShellPid EXCEPT ![s] = -1]
          /\ owner' = [owner EXCEPT ![mTerminalFileDescriptor[s]] = NoSession]
      BY <2>2 DEF cleanupResources
    <3>3. QED  BY <1>2, <2>1, <2>2, <3>1, <3>2 DEF DescriptorInv, Reached
  <2>3. CASE handleMessage \/ continueWrite
    <3>1. UNCHANGED mTerminalFileDescriptor
      BY <2>3 DEF handleMessage, continueWrite
    <3>2. \/ UNCHANGED <<mShellPid, owner>>
          \/ \E s \in Sessions :
                mShellPid[s] = 1 /\ shell[s] = "reaped" /\ cleanupResources(s)
      BY <1>2, <2>3, CleanupOnce
    <3>3. QED  BY <1>2, <2>2, <3>1, <3>2 DEF DescriptorInv, Reached
  <2>4. ASSUME NEW s \in Sessions, initializeEmulator(s)
        PROVE  DescriptorInv'
    <3>1. mShellPid[s] = 0
      BY <1>2, <2>4 DEF initializeEmulator, ExitInv, PidInv
    <3>2. PICK d \in Descriptors :
             /\ owner[d] = NoSession
             /\ owner' = [owner EXCEPT ![d] = s]
             /\ mTerminalFileDescriptor' = [mTerminalFileDescriptor EXCEPT ![s] = d]
      BY <2>4 DEF initializeEmulator
    <3>3. mShellPid' = [mShellPid EXCEPT ![s] = 1]
      BY <2>4 DEF initializeEmulator
    <3>4. QED  BY <1>2, <2>1, <3>1, <3>2, <3>3 DEF DescriptorInv, Reached
  <2>5. CASE UNCHANGED <<mShellPid, owner, mTerminalFileDescriptor>>
    BY <1>2, <2>5 DEF DescriptorInv, Reached
  <2>6. CASE UNCHANGED vars
    BY <2>5, <2>6 DEF vars
  <2>7. ASSUME NEW s \in Sessions,
               (\E n \in WriteLengths : write(s, n)) \/ finishIfRunning(s) \/ Waiter(s)
        PROVE  DescriptorInv'
    BY <2>5, <2>7 DEF write, finishIfRunning, Waiter
  <2>8. ASSUME NEW s \in Sessions, Reader(s) \/ Writer(s)
        PROVE  DescriptorInv'
    BY <2>5, <2>8 DEF Reader, ReaderOpensFile, ReaderReads, ReaderEnqueues, ReaderPosts,
       ReaderUnchanged, Writer, WriterDequeues, WriterOpensFile, WriterWrites, WriterUnchanged
  <2>9. ASSUME NEW s \in Sessions, ShellEchoes(s) \/ ShellPrints(s) \/ ShellExits(s)
        PROVE  DescriptorInv'
    BY <2>5, <2>9 DEF ShellEchoes, ShellPrints, ShellExits, ShellUnchanged
  <2>10. QED
    BY <1>2, <2>3, <2>4, <2>6, <2>7, <2>8, <2>9 DEF Next
<1>3. QED  BY <1>1, <1>2, TypeInvariant, ExitInvariant, PTL DEF SafeSpec

\* A thread has bytes only between taking and passing them on.
BytesInv ==
    \A s \in Sessions :
        /\ reader[s].at # "queue" => reader[s].bytes = 0
        /\ writer[s].at \notin {"file", "syscall"} => writer[s].bytes = 0

\* A thread is on the pty of its own session, or that session is cleaned up and
\* the other one counts as crossed.
MayBeOn(s, thread, others) ==
    thread.on # NoSession =>
        /\ thread.on \in Sessions
        /\ shell[thread.on] # "none"
        /\ thread.on # s => Closed(s) /\ thread.on \in others

PtyInv ==
    \A s \in Sessions : MayBeOn(s, reader[s], crossed) /\ MayBeOn(s, writer[s], crossed)

\* Before a session is started there is nothing of it.
StartInv ==
    \A s \in Sessions : shell[s] = "none" =>
        /\ toProcess[s] = 0 /\ toTerminal[s] = 0 /\ ptyIn[s] = 0 /\ ptyOut[s] = 0
        /\ typed[s] = 0 /\ consumed[s] = 0 /\ printed[s] = 0 /\ displayed[s] = 0
        /\ reader[s].at = "none" /\ writer[s].at = "none"

ThreadInv == BytesInv /\ PtyInv /\ StartInv

\* The main thread's steps about a started session leave its threads alone.
LEMMA MainThreads ==
    ASSUME TypeInv, ExitInv, ThreadInv,
           handleMessage \/ continueWrite \/ \E s \in Sessions, n \in WriteLengths : write(s, n)
    PROVE  ThreadInv'
<1>1. UNCHANGED <<shell, ptyIn, ptyOut, reader, writer, consumed, printed, crossed>>
  BY DEF handleMessage, continueWrite, write
<1>2. \A s \in Sessions : Closed(s) => Closed(s)'
  <2>1. CASE \E s \in Sessions, n \in WriteLengths : write(s, n)
    BY <2>1 DEF write, Closed
  <2>2. CASE handleMessage \/ continueWrite
    <3>1. mShellPid \in [Sessions -> {-1, 0, 1}]
      BY DEF TypeInv, TypeOK
    <3>2. QED  BY <2>2, <3>1, CleanupOnce DEF Closed, cleanupResources
  <2>3. QED  BY <2>1, <2>2
<1>3. BytesInv' /\ PtyInv'
  BY <1>1, <1>2 DEF ThreadInv, BytesInv, PtyInv, MayBeOn
<1>4. \A s \in Sessions : shell[s] = "none" =>
         toProcess'[s] = 0 /\ toTerminal'[s] = 0 /\ typed'[s] = 0 /\ displayed'[s] = 0
  <2>1. /\ toProcess \in [Sessions -> 0..QueueSize] /\ toTerminal \in [Sessions -> 0..QueueSize]
        /\ typed \in [Sessions -> Nat] /\ displayed \in [Sessions -> Nat]
    BY DEF TypeInv, TypeOK
  <2>2. \A s \in Sessions : shell[s] = "none" =>
           toProcess[s] = 0 /\ toTerminal[s] = 0 /\ typed[s] = 0 /\ displayed[s] = 0
    BY DEF ThreadInv, StartInv
  <2>3. ASSUME NEW s \in Sessions, NEW n, Enqueue(s, n), n = 0 \/ shell[s] # "none"
        PROVE  \A t \in Sessions : shell[t] = "none" => toProcess'[t] = 0 /\ typed'[t] = 0
    <3>1. /\ toProcess' = [toProcess EXCEPT ![s] = @ + n]
          /\ typed' = [typed EXCEPT ![s] = @ + n]
      BY <2>3 DEF Enqueue
    <3>2. QED  BY <2>1, <2>2, <2>3, <3>1
  <2>4. CASE handleMessage
    <3>. DEFINE s == Head(messages).session
    <3>1. s \in Sessions
      BY <2>4, MessagesKnown, FirstAndRest DEF handleMessage, Messages
    <3>2. PICK answer \in IF Polled(s) > 0 /\ mShellPid[s] > 0 /\ typed[s] < MaxInput
                          THEN {0, 1} ELSE {0} : Enqueue(s, Fits(s, answer))
      BY <2>4 DEF handleMessage
    <3>3. Fits(s, answer) = 0 \/ shell[s] # "none"
      <4>1. CASE answer = 0
        BY <3>1, <4>1, FitsFits DEF TypeInv
      <4>2. CASE answer # 0
        BY <3>1, <3>2, <4>2 DEF ExitInv, PidInv
      <4>3. QED  BY <4>1, <4>2
    <3>4. \A t \in Sessions : shell[t] = "none" => toProcess'[t] = 0 /\ typed'[t] = 0
      <4>. HIDE DEF s
      <4>1. QED  BY <2>3, <3>1, <3>2, <3>3
    <3>5. shell[s] = "none" => Polled(s) = 0
      BY <2>2, <3>1, PolledHeld DEF TypeInv
    <3>6. /\ toTerminal' = [toTerminal EXCEPT ![s] = @ - Polled(s)]
          /\ displayed' = [displayed EXCEPT ![s] = @ + Polled(s)]
      BY <2>4 DEF handleMessage
    <3>. HIDE DEF s
    <3>7. \A t \in Sessions : shell[t] = "none" => toTerminal'[t] = 0 /\ displayed'[t] = 0
      BY <2>1, <2>2, <3>1, <3>5, <3>6
    <3>8. QED  BY <3>4, <3>7
  <2>5. CASE continueWrite
    <3>1. main.session \in Sessions /\ shell[main.session] # "none"
      BY <2>5 DEF continueWrite, TypeInv, TypeOK, ExitInv, BlockedInv, PidInv
    <3>2. Enqueue(main.session, Fits(main.session, main.left))
      BY <2>5 DEF continueWrite
    <3>3. UNCHANGED <<toTerminal, displayed>>
      BY <2>5 DEF continueWrite
    <3>4. QED  BY <2>2, <2>3, <3>1, <3>2, <3>3
  <2>6. ASSUME NEW s \in Sessions, NEW n \in WriteLengths, write(s, n)
        PROVE  \A t \in Sessions : shell[t] = "none" =>
                  toProcess'[t] = 0 /\ toTerminal'[t] = 0 /\ typed'[t] = 0 /\ displayed'[t] = 0
    <3>1. shell[s] # "none"
      BY <2>6 DEF write, ExitInv, PidInv
    <3>2. Enqueue(s, Fits(s, n)) /\ UNCHANGED <<toTerminal, displayed>>
      BY <2>6 DEF write
    <3>3. QED  BY <2>2, <2>3, <3>1, <3>2
  <2>7. QED  BY <2>4, <2>5, <2>6
<1>5. StartInv'
  BY <1>1, <1>4 DEF ThreadInv, StartInv
<1>6. QED  BY <1>3, <1>5 DEF ThreadInv

\* A session starts with new threads, which are on no pty yet.
LEMMA StartThreads ==
    ASSUME TypeInv, ExitInv, ThreadInv, NEW s \in Sessions, initializeEmulator(s)
    PROVE  ThreadInv'
<1>1. /\ shell[s] = "none" /\ mShellPid[s] = 0
      /\ shell' = [shell EXCEPT ![s] = "running"]
      /\ mShellPid' = [mShellPid EXCEPT ![s] = 1]
      /\ reader' = [reader EXCEPT ![s] = Thread("file", 0, NoSession)]
      /\ writer' = [writer EXCEPT ![s] = Thread("queue", 0, NoSession)]
      /\ UNCHANGED <<queues, histories>>
  BY DEF initializeEmulator, ExitInv, PidInv
<1>2. /\ shell \in [Sessions -> {"none", "running", "zombie", "reaped"}]
      /\ mShellPid \in [Sessions -> {-1, 0, 1}]
      /\ reader \in [Sessions -> Readers] /\ writer \in [Sessions -> Writers]
  BY DEF TypeInv, TypeOK
<1>3. BytesInv'
  BY <1>1, <1>2 DEF ThreadInv, BytesInv, Thread
<1>4. PtyInv'
  <2>1. ASSUME NEW t \in Sessions, NEW thread, MayBeOn(t, thread, crossed), t # s
        PROVE  MayBeOn(t, thread, crossed)'
    BY <1>1, <1>2, <2>1 DEF MayBeOn, Closed, histories
  <2>2. /\ MayBeOn(s, Thread("file", 0, NoSession), crossed)'
        /\ MayBeOn(s, Thread("queue", 0, NoSession), crossed)'
    BY DEF MayBeOn, Thread
  <2>3. QED  BY <1>1, <1>2, <2>1, <2>2 DEF ThreadInv, PtyInv
<1>5. StartInv'
  BY <1>1, <1>2 DEF ThreadInv, StartInv, queues, histories
<1>6. QED  BY <1>3, <1>4, <1>5 DEF ThreadInv

\* The processes' steps are about sessions that are started.
LEMMA ShellThreads ==
    ASSUME TypeInv, ThreadInv, NEW s \in Sessions,
           \/ finishIfRunning(s) \/ Waiter(s)
           \/ ShellEchoes(s) \/ ShellPrints(s) \/ ShellExits(s)
    PROVE  ThreadInv'
<1>1. /\ UNCHANGED <<mShellPid, toProcess, toTerminal, reader, writer, typed, displayed, crossed>>
      /\ shell \in [Sessions -> {"none", "running", "zombie", "reaped"}]
  BY DEF finishIfRunning, Waiter, ShellEchoes, ShellPrints, ShellExits, ShellUnchanged,
     queues, histories, TypeInv, TypeOK
<1>2. \A t \in Sessions : shell'[t] = "none" <=> shell[t] = "none"
  BY <1>1 DEF finishIfRunning, Waiter, ShellEchoes, ShellPrints, ShellExits
<1>3. BytesInv' /\ PtyInv'
  BY <1>1, <1>2 DEF ThreadInv, BytesInv, PtyInv, MayBeOn, Closed
<1>4. \A t \in Sessions : shell[t] = "none" =>
         ptyIn'[t] = 0 /\ ptyOut'[t] = 0 /\ consumed'[t] = 0 /\ printed'[t] = 0
  <2>1. \A t \in Sessions : shell[t] = "none" =>
           ptyIn[t] = 0 /\ ptyOut[t] = 0 /\ consumed[t] = 0 /\ printed[t] = 0
    BY DEF ThreadInv, StartInv
  <2>2. /\ ptyIn \in [Sessions -> 0..PtyInSize] /\ ptyOut \in [Sessions -> 0..PtyOutSize]
        /\ consumed \in [Sessions -> Nat] /\ printed \in [Sessions -> Nat]
    BY DEF TypeInv, TypeOK
  <2>3. CASE ShellEchoes(s) \/ ShellPrints(s)
    BY <2>1, <2>2, <2>3 DEF ShellEchoes, ShellPrints
  <2>4. CASE finishIfRunning(s) \/ Waiter(s) \/ ShellExits(s)
    BY <2>1, <2>4 DEF finishIfRunning, Waiter, ShellExits, queues, histories
  <2>5. QED  BY <2>3, <2>4
<1>5. StartInv'
  BY <1>1, <1>2, <1>4 DEF ThreadInv, StartInv
<1>6. QED  BY <1>3, <1>5 DEF ThreadInv

\* What a thread finds behind its descriptor, it may be on.
LEMMA MayBeOnReached ==
    ASSUME TypeInv, ExitInv, DescriptorInv, NEW s \in Sessions, shell[s] # "none",
           Reached(s) # NoSession
    PROVE  /\ Reached(s) \in Sessions /\ shell[Reached(s)] # "none"
           /\ Reached(s) # s => Closed(s)
<1>1. /\ mTerminalFileDescriptor[s] \in Descriptors
      /\ Reached(s) \in Sessions
      /\ mShellPid[s] \in {-1, 0, 1}
  BY DEF TypeInv, TypeOK, Reached
<1>2. mShellPid[Reached(s)] = 1
  BY <1>1 DEF DescriptorInv, Reached
<1>3. QED  BY <1>1, <1>2 DEF DescriptorInv, ExitInv, PidInv, Closed

\* The reader keeps them.
LEMMA ReaderThreads ==
    ASSUME TypeInv, ExitInv, DescriptorInv, ThreadInv, NEW s \in Sessions, Reader(s)
    PROVE  ThreadInv'
<1>1. /\ ReaderUnchanged /\ crossed \subseteq crossed'
      /\ reader[s].at # "none"
  BY DEF Reader, ReaderOpensFile, ReaderReads, ReaderEnqueues, ReaderPosts
<1>2. UNCHANGED <<mShellPid, shell, toProcess, ptyIn, writer, typed, consumed, printed, displayed>>
  BY <1>1 DEF ReaderUnchanged
<1>3. /\ reader \in [Sessions -> Readers] /\ reader[s] \in Readers
      /\ toTerminal \in [Sessions -> 0..QueueSize]
      /\ ptyOut \in [Sessions -> 0..PtyOutSize]
  BY DEF TypeInv, TypeOK
<1>4. shell[s] # "none"
  BY <1>1 DEF ThreadInv, StartInv
<1>5. PICK t : /\ Move(reader, s, t)
               /\ t.at # "queue" => t.bytes = 0
               /\ MayBeOn(s, t, crossed')
  <2>1. MayBeOn(s, Ended, crossed') /\ (Ended.at # "queue" => Ended.bytes = 0)
    BY DEF MayBeOn, Ended, Thread
  <2>2. CASE ReaderOpensFile(s)
    <3>1. CASE Reached(s) = NoSession
      BY <2>1, <2>2, <3>1 DEF ReaderOpensFile
    <3>2. CASE Reached(s) # NoSession
      <4>. DEFINE t == Thread("syscall", 0, Reached(s))
      <4>1. Move(reader, s, t) /\ crossed' = crossed \cup ({Reached(s)} \ {s, NoSession})
        BY <2>2, <3>2 DEF ReaderOpensFile
      <4>2. t.at = "syscall" /\ t.bytes = 0 /\ t.on = Reached(s)
        BY DEF Thread
      <4>3. MayBeOn(s, t, crossed')
        BY <1>2, <1>4, <3>2, <4>1, <4>2, MayBeOnReached DEF MayBeOn, Closed
      <4>. HIDE DEF t
      <4>4. QED  BY <4>1, <4>2, <4>3
    <3>3. QED  BY <3>1, <3>2
  <2>3. ASSUME NEW t, t.on \in {reader[s].on, NoSession}
        PROVE  MayBeOn(s, t, crossed')
    BY <1>1, <1>2, <2>3 DEF ThreadInv, PtyInv, MayBeOn, Closed
  <2>4. CASE ReaderReads(s)
    <3>. DEFINE t == Thread("queue", SmallerOf(ReadLength, ptyOut[reader[s].on]), reader[s].on)
    <3>1. Move(reader, s, t) \/ Move(reader, s, Ended)
      BY <2>4 DEF ReaderReads
    <3>2. t.at = "queue" /\ t.on = reader[s].on
      BY DEF Thread
    <3>. HIDE DEF t
    <3>3. QED  BY <2>1, <2>3, <3>1, <3>2
  <2>5. CASE ReaderEnqueues(s)
    <3>. DEFINE n == SmallerOf(reader[s].bytes, QueueSize - toTerminal[s])
                t == Rest(reader[s], n, Thread("post", 0, NoSession))
    <3>1. Move(reader, s, t) \/ Move(reader, s, Ended)
      BY <2>5 DEF ReaderEnqueues
    <3>2. reader[s].at = "queue"
      BY <2>5 DEF ReaderEnqueues
    <3>3. t = Thread("post", 0, NoSession) \/ t = [reader[s] EXCEPT !.bytes = @ - n]
      BY DEF Rest
    <3>4. /\ t.at # "queue" => t.bytes = 0
          /\ t.on \in {reader[s].on, NoSession}
      <4>. HIDE DEF t, n
      <4>1. QED  BY <1>3, <3>2, <3>3 DEF Thread, Readers, Threads
    <3>. HIDE DEF t
    <3>5. QED  BY <2>1, <2>3, <3>1, <3>4
  <2>6. CASE ReaderPosts(s)
    <3>. DEFINE t == Thread("file", 0, NoSession)
    <3>1. Move(reader, s, t) /\ t.bytes = 0 /\ t.on = NoSession
      BY <2>6 DEF ReaderPosts, Thread
    <3>. HIDE DEF t
    <3>2. QED  BY <2>3, <3>1
  <2>7. QED  BY <2>2, <2>4, <2>5, <2>6 DEF Reader
<1>6. reader' = [reader EXCEPT ![s] = t]
  BY <1>5 DEF Move
<1>7. BytesInv'
  BY <1>2, <1>3, <1>5, <1>6 DEF ThreadInv, BytesInv
<1>8. PtyInv'
  <2>1. ASSUME NEW u \in Sessions, NEW thread, MayBeOn(u, thread, crossed)
        PROVE  MayBeOn(u, thread, crossed')
    BY <1>1, <2>1 DEF MayBeOn
  <2>2. \A u \in Sessions : MayBeOn(u, reader'[u], crossed') /\ MayBeOn(u, writer'[u], crossed')
    BY <1>2, <1>3, <1>5, <1>6, <2>1 DEF ThreadInv, PtyInv
  <2>3. QED  BY <1>2, <2>2 DEF PtyInv, MayBeOn, Closed
<1>9. \A u \in Sessions : shell[u] = "none" => toTerminal'[u] = 0 /\ ptyOut'[u] = 0
  <2>1. \A u \in Sessions : shell[u] = "none" => toTerminal[u] = 0 /\ ptyOut[u] = 0
    BY DEF ThreadInv, StartInv
  <2>2. CASE ReaderReads(s)
    <3>1. reader[s].on \in Sessions
      BY <1>3, <2>2 DEF ReaderReads, Readers, Threads
    <3>2. shell[reader[s].on] # "none"
      BY <3>1 DEF ThreadInv, PtyInv, MayBeOn
    <3>3. QED  BY <1>3, <2>1, <2>2, <3>1, <3>2 DEF ReaderReads
  <2>3. CASE ReaderEnqueues(s)
    BY <1>3, <1>4, <2>1, <2>3 DEF ReaderEnqueues
  <2>4. CASE ReaderOpensFile(s) \/ ReaderPosts(s)
    BY <2>1, <2>4 DEF ReaderOpensFile, ReaderPosts
  <2>5. QED  BY <2>2, <2>3, <2>4 DEF Reader
<1>10. StartInv'
  BY <1>2, <1>3, <1>4, <1>6, <1>9 DEF ThreadInv, StartInv
<1>11. QED  BY <1>7, <1>8, <1>10 DEF ThreadInv

\* And so does the writer.
LEMMA WriterThreads ==
    ASSUME TypeInv, ExitInv, DescriptorInv, ThreadInv, NEW s \in Sessions, Writer(s)
    PROVE  ThreadInv'
<1>1. /\ WriterUnchanged /\ crossed \subseteq crossed'
      /\ writer[s].at # "none"
  BY DEF Writer, WriterDequeues, WriterOpensFile, WriterWrites
<1>2. UNCHANGED <<mShellPid, shell, toTerminal, ptyOut, reader, typed, consumed, printed, displayed>>
  BY <1>1 DEF WriterUnchanged
<1>3. /\ writer \in [Sessions -> Writers] /\ writer[s] \in Writers
      /\ toProcess \in [Sessions -> 0..QueueSize]
      /\ ptyIn \in [Sessions -> 0..PtyInSize]
  BY DEF TypeInv, TypeOK
<1>4. shell[s] # "none"
  BY <1>1 DEF ThreadInv, StartInv
<1>5. PICK t : /\ Move(writer, s, t)
               /\ t.at \notin {"file", "syscall"} => t.bytes = 0
               /\ MayBeOn(s, t, crossed')
  <2>1. MayBeOn(s, Ended, crossed') /\ Ended.bytes = 0
    BY DEF MayBeOn, Ended, Thread
  <2>2. CASE WriterOpensFile(s)
    <3>1. CASE Reached(s) = NoSession
      BY <2>1, <2>2, <3>1 DEF WriterOpensFile
    <3>2. CASE Reached(s) # NoSession
      <4>. DEFINE t == [writer[s] EXCEPT !.at = "syscall", !.on = Reached(s)]
      <4>1. Move(writer, s, t) /\ crossed' = crossed \cup ({Reached(s)} \ {s, NoSession})
        BY <2>2, <3>2 DEF WriterOpensFile
      <4>2. t.at = "syscall" /\ t.on = Reached(s)
        BY <1>3 DEF Writers, Threads
      <4>3. MayBeOn(s, t, crossed')
        BY <1>2, <1>4, <3>2, <4>1, <4>2, MayBeOnReached DEF MayBeOn, Closed
      <4>. HIDE DEF t
      <4>4. QED  BY <4>1, <4>2, <4>3
    <3>3. QED  BY <3>1, <3>2
  <2>3. ASSUME NEW t, t.on \in {writer[s].on, NoSession}
        PROVE  MayBeOn(s, t, crossed')
    BY <1>1, <1>2, <2>3 DEF ThreadInv, PtyInv, MayBeOn, Closed
  <2>4. CASE WriterDequeues(s)
    <3>. DEFINE t == Thread("file", SmallerOf(ReadLength, toProcess[s]), NoSession)
    <3>1. Move(writer, s, t) \/ Move(writer, s, Ended)
      BY <2>4 DEF WriterDequeues
    <3>2. t.at = "file" /\ t.on = NoSession
      BY DEF Thread
    <3>. HIDE DEF t
    <3>3. QED  BY <2>1, <2>3, <3>1, <3>2
  <2>5. CASE WriterWrites(s)
    <3>. DEFINE n == SmallerOf(writer[s].bytes, PtyInSize - ptyIn[writer[s].on])
                t == Rest(writer[s], n, Thread("queue", 0, NoSession))
    <3>1. Move(writer, s, t) \/ Move(writer, s, Ended)
      BY <2>5 DEF WriterWrites
    <3>2. writer[s].at = "syscall"
      BY <2>5 DEF WriterWrites
    <3>3. t = Thread("queue", 0, NoSession) \/ t = [writer[s] EXCEPT !.bytes = @ - n]
      BY DEF Rest
    <3>4. /\ t.at \notin {"file", "syscall"} => t.bytes = 0
          /\ t.on \in {writer[s].on, NoSession}
      <4>. HIDE DEF t, n
      <4>1. QED  BY <1>3, <3>2, <3>3 DEF Thread, Writers, Threads
    <3>. HIDE DEF t
    <3>5. QED  BY <2>1, <2>3, <3>1, <3>4
  <2>6. QED  BY <2>2, <2>4, <2>5 DEF Writer
<1>6. writer' = [writer EXCEPT ![s] = t]
  BY <1>5 DEF Move
<1>7. BytesInv'
  BY <1>2, <1>3, <1>5, <1>6 DEF ThreadInv, BytesInv
<1>8. PtyInv'
  <2>1. ASSUME NEW u \in Sessions, NEW thread, MayBeOn(u, thread, crossed)
        PROVE  MayBeOn(u, thread, crossed')
    BY <1>1, <2>1 DEF MayBeOn
  <2>2. \A u \in Sessions : MayBeOn(u, reader'[u], crossed') /\ MayBeOn(u, writer'[u], crossed')
    BY <1>2, <1>3, <1>5, <1>6, <2>1 DEF ThreadInv, PtyInv
  <2>3. QED  BY <1>2, <2>2 DEF PtyInv, MayBeOn, Closed
<1>9. \A u \in Sessions : shell[u] = "none" => toProcess'[u] = 0 /\ ptyIn'[u] = 0
  <2>1. \A u \in Sessions : shell[u] = "none" => toProcess[u] = 0 /\ ptyIn[u] = 0
    BY DEF ThreadInv, StartInv
  <2>2. CASE WriterWrites(s)
    <3>1. writer[s].on \in Sessions
      BY <1>3, <2>2 DEF WriterWrites, Writers, Threads
    <3>2. shell[writer[s].on] # "none"
      BY <3>1 DEF ThreadInv, PtyInv, MayBeOn
    <3>3. QED  BY <1>3, <2>1, <2>2, <3>1, <3>2 DEF WriterWrites
  <2>3. CASE WriterDequeues(s)
    BY <1>3, <1>4, <2>1, <2>3 DEF WriterDequeues
  <2>4. CASE WriterOpensFile(s)
    BY <2>1, <2>4 DEF WriterOpensFile
  <2>5. QED  BY <2>2, <2>3, <2>4 DEF Writer
<1>10. StartInv'
  BY <1>2, <1>3, <1>4, <1>6, <1>9 DEF ThreadInv, StartInv
<1>11. QED  BY <1>7, <1>8, <1>10 DEF ThreadInv

\* A thread reaches another session's pty only after the clean-up of its own
\* (the descriptor it still holds may be given out again), and a session whose
\* pty it reaches counts as crossed.
THEOREM ThreadInvariant == SafeSpec => []ThreadInv
<1>1. Init => ThreadInv
  BY DEF Init, ThreadInv, BytesInv, PtyInv, MayBeOn, StartInv, Thread
<1>2. ASSUME TypeInv, ExitInv, DescriptorInv, ThreadInv, [Next]_vars
      PROVE  ThreadInv'
  <2>1. CASE Next
    BY <1>2, <2>1, MainThreads, StartThreads, ShellThreads, ReaderThreads, WriterThreads DEF Next
  <2>2. CASE UNCHANGED vars
    BY <1>2, <2>2 DEF ThreadInv, BytesInv, PtyInv, MayBeOn, StartInv, Closed,
       vars, queues, histories
  <2>3. QED  BY <1>2, <2>1, <2>2
<1>3. QED
  BY <1>1, <1>2, TypeInvariant, ExitInvariant, DescriptorInvariant, PTL DEF SafeSpec

------------------------------------------------------------------------------
(* No byte is lost or shown twice *)

\* All that is counted of a session are numbers.
LEMMA Counts ==
    ASSUME TypeInv, NEW s \in Sessions
    PROVE  /\ toProcess[s] \in Nat /\ toTerminal[s] \in Nat
           /\ ptyIn[s] \in Nat /\ ptyOut[s] \in Nat
           /\ typed[s] \in Nat /\ consumed[s] \in Nat
           /\ printed[s] \in Nat /\ displayed[s] \in Nat
           /\ reader[s] \in Readers /\ reader[s].bytes \in Nat
           /\ writer[s] \in Writers /\ writer[s].bytes \in Nat
<1>1. /\ toProcess[s] \in 0..QueueSize /\ toTerminal[s] \in 0..QueueSize
      /\ ptyIn[s] \in 0..PtyInSize /\ ptyOut[s] \in 0..PtyOutSize
  BY DEF TypeInv, TypeOK
<1>2. /\ typed[s] \in Nat /\ consumed[s] \in Nat
      /\ printed[s] \in Nat /\ displayed[s] \in Nat
  BY DEF TypeInv, TypeOK
<1>3. reader[s] \in Readers /\ writer[s] \in Writers
  BY DEF TypeInv
<1>4. reader[s].bytes \in 0..ReadLength /\ writer[s].bytes \in 0..ReadLength
  BY <1>3 DEF Readers, Writers, Threads
<1>5. QED  BY <1>1, <1>2, <1>3, <1>4

\* The same after a step.
LEMMA CountsAfter ==
    ASSUME TypeInv', NEW s \in Sessions
    PROVE  /\ toProcess'[s] \in Nat /\ toTerminal'[s] \in Nat
           /\ ptyIn'[s] \in Nat /\ ptyOut'[s] \in Nat
           /\ typed'[s] \in Nat /\ consumed'[s] \in Nat
           /\ printed'[s] \in Nat /\ displayed'[s] \in Nat
           /\ reader'[s] \in Readers /\ reader'[s].bytes \in Nat
           /\ writer'[s] \in Writers /\ writer'[s].bytes \in Nat
<1>1. /\ toProcess'[s] \in 0..QueueSize /\ toTerminal'[s] \in 0..QueueSize
      /\ ptyIn'[s] \in 0..PtyInSize /\ ptyOut'[s] \in 0..PtyOutSize
  BY DEF TypeInv, TypeOK
<1>2. /\ typed'[s] \in Nat /\ consumed'[s] \in Nat
      /\ printed'[s] \in Nat /\ displayed'[s] \in Nat
  BY DEF TypeInv, TypeOK
<1>3. reader'[s] \in Readers /\ writer'[s] \in Writers
  BY DEF TypeInv
<1>4. reader'[s].bytes \in 0..ReadLength /\ writer'[s].bytes \in 0..ReadLength
  BY <1>3 DEF Readers, Writers, Threads
<1>5. QED  BY <1>1, <1>2, <1>3, <1>4

\* What the main thread takes from or puts into a session's queues is counted.
LEMMA MainCounts ==
    ASSUME TypeInv, ExitInv, NEW s \in Sessions,
           handleMessage \/ continueWrite \/ \E t \in Sessions, n \in WriteLengths : write(t, n)
    PROVE  /\ toTerminal'[s] + displayed'[s] = toTerminal[s] + displayed[s]
           /\ typed'[s] - toProcess'[s] = typed[s] - toProcess[s]
           /\ typed'[s] \in Nat /\ toProcess'[s] \in Nat
           /\ toTerminal'[s] \in Nat /\ displayed'[s] \in Nat
<1>1. /\ toProcess \in [Sessions -> 0..QueueSize] /\ toTerminal \in [Sessions -> 0..QueueSize]
      /\ typed \in [Sessions -> Nat] /\ displayed \in [Sessions -> Nat]
  BY DEF TypeInv, TypeOK
<1>2. TypeInv'
  BY MessageTypes, ContinueTypes, WriteTypes
<1>3. typed'[s] \in Nat /\ toProcess'[s] \in Nat /\ toTerminal'[s] \in Nat /\ displayed'[s] \in Nat
  BY <1>2 DEF TypeInv, TypeOK
<1>4. ASSUME NEW u \in Sessions, NEW n \in Nat, Enqueue(u, Fits(u, n))
      PROVE  typed'[s] - toProcess'[s] = typed[s] - toProcess[s]
  <2>1. Fits(u, n) \in Nat
    BY FitsFits DEF TypeInv
  <2>2. /\ toProcess' = [toProcess EXCEPT ![u] = @ + Fits(u, n)]
        /\ typed' = [typed EXCEPT ![u] = @ + Fits(u, n)]
    BY <1>4 DEF Enqueue
  <2>3. QED  BY <1>1, <2>1, <2>2
<1>5. CASE handleMessage
  <2>. DEFINE u == Head(messages).session
  <2>1. u \in Sessions
    BY <1>5, MessagesKnown, FirstAndRest DEF handleMessage, Messages
  <2>2. PICK answer \in {0, 1} : Enqueue(u, Fits(u, answer))
    BY <1>5 DEF handleMessage
  <2>3. /\ toTerminal' = [toTerminal EXCEPT ![u] = @ - Polled(u)]
        /\ displayed' = [displayed EXCEPT ![u] = @ + Polled(u)]
    BY <1>5 DEF handleMessage
  <2>4. Polled(u) \in Nat
    BY <2>1, PolledHeld, <1>1 DEF TypeInv
  <2>. HIDE DEF u
  <2>5. QED  BY <1>1, <1>3, <1>4, <2>1, <2>2, <2>3, <2>4
<1>6. CASE continueWrite
  <2>1. /\ main.session \in Sessions /\ main.left \in Nat
        /\ Enqueue(main.session, Fits(main.session, main.left))
        /\ UNCHANGED <<toTerminal, displayed>>
    BY <1>6 DEF continueWrite, TypeInv, TypeOK
  <2>2. QED  BY <1>3, <1>4, <2>1
<1>7. ASSUME NEW t \in Sessions, NEW n \in WriteLengths, write(t, n)
      PROVE  /\ toTerminal'[s] + displayed'[s] = toTerminal[s] + displayed[s]
             /\ typed'[s] - toProcess'[s] = typed[s] - toProcess[s]
  <2>1. Enqueue(t, Fits(t, n)) /\ UNCHANGED <<toTerminal, displayed>> /\ n \in Nat
    BY <1>7 DEF write
  <2>2. QED  BY <1>4, <2>1
<1>8. QED  BY <1>3, <1>5, <1>6, <1>7

\* Bytes of a session that nothing but its own threads and shell touch: a step
\* of another session's thread is about another pty.
LEMMA ReaderCounts ==
    ASSUME TypeInv, ThreadInv, NEW s \in Sessions \ crossed', ~Closed(s),
           NEW u \in Sessions, Reader(u)
    PROVE  /\ ptyOut'[s] + reader'[s].bytes + toTerminal'[s]
                 = ptyOut[s] + reader[s].bytes + toTerminal[s]
           /\ s \notin crossed
           /\ UNCHANGED <<shell, mShellPid, printed, displayed>>
<1>1. ReaderUnchanged /\ s \notin crossed
  BY DEF Reader, ReaderOpensFile, ReaderReads, ReaderEnqueues, ReaderPosts
<1>2. UNCHANGED <<shell, mShellPid, printed, displayed>>
  BY <1>1 DEF ReaderUnchanged
<1>3. /\ reader \in [Sessions -> Readers] /\ reader[u] \in Readers /\ reader[s] \in Readers
      /\ toTerminal \in [Sessions -> 0..QueueSize] /\ toTerminal[s] \in Nat
      /\ ptyOut \in [Sessions -> 0..PtyOutSize] /\ ptyOut[s] \in Nat
      /\ reader[s].bytes \in Nat /\ reader[u].bytes \in Nat /\ toTerminal[u] \in Nat
      /\ \A o \in Sessions : ptyOut[o] \in Nat
  <2>1. /\ reader \in [Sessions -> Readers]
        /\ toTerminal \in [Sessions -> 0..QueueSize]
        /\ ptyOut \in [Sessions -> 0..PtyOutSize]
    BY DEF TypeInv, TypeOK
  <2>2. QED  BY <2>1, Counts
<1>4. CASE ReaderOpensFile(u)
  <2>1. reader[u].bytes = 0
    BY <1>4 DEF ReaderOpensFile, ThreadInv, BytesInv
  <2>2. PICK t : t.bytes = 0 /\ reader' = [reader EXCEPT ![u] = t]
    <3>1. \/ reader' = [reader EXCEPT ![u] = Ended]
          \/ reader' = [reader EXCEPT ![u] = Thread("syscall", 0, Reached(u))]
      BY <1>4 DEF ReaderOpensFile, Move
    <3>2. Ended.bytes = 0 /\ Thread("syscall", 0, Reached(u)).bytes = 0
      BY DEF Ended, Thread
    <3>3. QED  BY <3>1, <3>2
  <2>3. UNCHANGED <<toTerminal, ptyOut>>
    BY <1>4 DEF ReaderOpensFile
  <2>4. QED  BY <1>1, <1>2, <1>3, <2>1, <2>2, <2>3
<1>5. CASE ReaderReads(u)
  <2>. DEFINE o == reader[u].on
              n == SmallerOf(ReadLength, ptyOut[o])
  <2>1. reader[u].bytes = 0 /\ o \in Sessions
    BY <1>3, <1>5 DEF ReaderReads, ThreadInv, BytesInv, Readers, Threads
  <2>2. o = u \/ (o # s /\ u # s)
    BY <1>1, <2>1 DEF ThreadInv, PtyInv, MayBeOn
  <2>3. n \in Nat
    BY <1>3, <2>1 DEF SmallerOf
  <2>4. UNCHANGED toTerminal
    BY <1>5 DEF ReaderReads
  <2>5. CASE reader' = [reader EXCEPT ![u] = Thread("queue", n, o)]
             /\ ptyOut' = [ptyOut EXCEPT ![o] = @ - n]
    <3>1. PICK t : t.bytes = n /\ reader' = [reader EXCEPT ![u] = t]
      BY <2>5 DEF Thread
    <3>2. ptyOut' = [ptyOut EXCEPT ![o] = @ - n]
      BY <2>5
    <3>. HIDE DEF n, o
    <3>3. CASE u = s
      <4>1. ptyOut'[s] = ptyOut[s] - n
        BY <1>3, <2>2, <3>2, <3>3
      <4>2. reader'[s].bytes = n /\ reader[s].bytes = 0
        BY <1>3, <2>1, <3>1, <3>3
      <4>3. QED  BY <1>1, <1>2, <1>3, <2>3, <2>4, <4>1, <4>2
    <3>4. CASE u # s
      <4>1. ptyOut'[s] = ptyOut[s] /\ reader'[s] = reader[s]
        BY <1>3, <2>2, <3>1, <3>2, <3>4
      <4>2. QED  BY <1>1, <1>2, <2>4, <4>1
    <3>5. QED  BY <3>3, <3>4
  <2>6. CASE reader' = [reader EXCEPT ![u] = Ended] /\ UNCHANGED ptyOut
    BY <1>1, <1>2, <1>3, <2>1, <2>4, <2>6 DEF Ended, Thread
  <2>7. QED  BY <1>5, <2>5, <2>6 DEF ReaderReads, Move
<1>6. CASE ReaderEnqueues(u)
  <2>. DEFINE n == SmallerOf(reader[u].bytes, QueueSize - toTerminal[u])
              t == Rest(reader[u], n, Thread("post", 0, NoSession))
  <2>1. UNCHANGED ptyOut
    BY <1>6 DEF ReaderEnqueues
  <2>2. n \in Int
    BY <1>3 DEF SmallerOf
  <2>3. t.bytes = reader[u].bytes - n
    <3>. HIDE DEF n
    <3>1. QED  BY <1>3, <2>2 DEF Rest, Thread, Readers, Threads
  <2>4. CASE /\ toTerminal' = [toTerminal EXCEPT ![u] = @ + n]
             /\ reader' = [reader EXCEPT ![u] = t]
    <3>1. /\ toTerminal' = [toTerminal EXCEPT ![u] = @ + n]
          /\ reader' = [reader EXCEPT ![u] = t]
      BY <2>4
    <3>. HIDE DEF n, t
    <3>2. QED  BY <1>1, <1>2, <1>3, <2>1, <2>2, <2>3, <3>1
  <2>5. CASE Closed(u) /\ reader' = [reader EXCEPT ![u] = Ended] /\ UNCHANGED toTerminal
    BY <1>1, <1>2, <1>3, <2>1, <2>5
  <2>6. QED  BY <1>6, <2>4, <2>5 DEF ReaderEnqueues, Move
<1>7. CASE ReaderPosts(u)
  <2>1. reader[u].bytes = 0 /\ UNCHANGED <<toTerminal, ptyOut>>
    BY <1>7 DEF ReaderPosts, ThreadInv, BytesInv
  <2>2. PICK t : t.bytes = 0 /\ reader' = [reader EXCEPT ![u] = t]
    BY <1>7 DEF ReaderPosts, Move, Thread
  <2>3. QED  BY <1>1, <1>2, <1>3, <2>1, <2>2
<1>8. QED  BY <1>4, <1>5, <1>6, <1>7 DEF Reader

\* The same of the writer, whose bytes are dropped only when the shell they
\* were meant for has ended.
LEMMA WriterCounts ==
    ASSUME TypeInv, ExitInv, DescriptorInv, ThreadInv,
           NEW s \in Sessions \ crossed', shell[s] = "running",
           NEW u \in Sessions, Writer(u)
    PROVE  /\ toProcess'[s] + writer'[s].bytes + ptyIn'[s]
                 = toProcess[s] + writer[s].bytes + ptyIn[s]
           /\ s \notin crossed
           /\ UNCHANGED <<shell, typed, consumed>>
<1>1. WriterUnchanged /\ s \notin crossed
  BY DEF Writer, WriterDequeues, WriterOpensFile, WriterWrites
<1>2. UNCHANGED <<shell, typed, consumed>>
  BY <1>1 DEF WriterUnchanged
<1>3. /\ writer \in [Sessions -> Writers] /\ writer[u] \in Writers /\ writer[s] \in Writers
      /\ toProcess \in [Sessions -> 0..QueueSize] /\ toProcess[s] \in Nat /\ toProcess[u] \in Nat
      /\ ptyIn \in [Sessions -> 0..PtyInSize] /\ ptyIn[s] \in Nat
      /\ writer[s].bytes \in Nat /\ writer[u].bytes \in Nat
      /\ \A o \in Sessions : ptyIn[o] \in Nat
  <2>1. /\ writer \in [Sessions -> Writers]
        /\ toProcess \in [Sessions -> 0..QueueSize]
        /\ ptyIn \in [Sessions -> 0..PtyInSize]
    BY DEF TypeInv, TypeOK
  <2>2. QED  BY <2>1, Counts
<1>4. mShellPid[s] = 1 /\ ~Closed(s) /\ Reached(s) = s
  <2>1. mShellPid[s] \in {-1, 0, 1}
    BY DEF TypeInv, TypeOK
  <2>2. QED  BY <2>1 DEF ExitInv, PidInv, DescriptorInv, Closed
<1>5. CASE WriterOpensFile(u)
  <2>1. UNCHANGED <<toProcess, ptyIn>>
    BY <1>5 DEF WriterOpensFile
  <2>2. CASE u = s
    <3>1. writer' = [writer EXCEPT ![s] = [writer[s] EXCEPT !.at = "syscall", !.on = s]]
      BY <1>4, <1>5, <2>2, SessionsAssumption DEF WriterOpensFile, Move
    <3>2. writer'[s].bytes = writer[s].bytes
      BY <1>3, <3>1 DEF Writers, Threads
    <3>3. QED  BY <1>1, <1>2, <2>1, <3>2
  <2>3. CASE u # s
    <3>1. writer'[s] = writer[s]
      BY <1>3, <1>5, <2>3 DEF WriterOpensFile, Move
    <3>2. QED  BY <1>1, <1>2, <2>1, <3>1
  <2>4. QED  BY <2>2, <2>3
<1>6. CASE WriterDequeues(u)
  <2>. DEFINE n == SmallerOf(ReadLength, toProcess[u])
  <2>1. writer[u].bytes = 0 /\ UNCHANGED ptyIn
    BY <1>6 DEF WriterDequeues, ThreadInv, BytesInv
  <2>2. n \in Nat
    BY <1>3 DEF SmallerOf
  <2>3. CASE /\ toProcess' = [toProcess EXCEPT ![u] = @ - n]
             /\ writer' = [writer EXCEPT ![u] = Thread("file", n, NoSession)]
    <3>1. PICK t : t.bytes = n /\ writer' = [writer EXCEPT ![u] = t]
      BY <2>3 DEF Thread
    <3>2. toProcess' = [toProcess EXCEPT ![u] = @ - n]
      BY <2>3
    <3>. HIDE DEF n
    <3>3. QED  BY <1>1, <1>2, <1>3, <2>1, <2>2, <3>1, <3>2
  <2>4. CASE writer' = [writer EXCEPT ![u] = Ended] /\ UNCHANGED toProcess
    BY <1>1, <1>2, <1>3, <2>1, <2>4 DEF Ended, Thread
  <2>5. QED  BY <1>6, <2>3, <2>4 DEF WriterDequeues, Move
<1>7. CASE WriterWrites(u)
  <2>. DEFINE o == writer[u].on
              n == SmallerOf(writer[u].bytes, PtyInSize - ptyIn[o])
              t == Rest(writer[u], n, Thread("queue", 0, NoSession))
  <2>1. o \in Sessions /\ UNCHANGED toProcess /\ ptyIn[o] \in Int
    BY <1>3, <1>7 DEF WriterWrites, Writers, Threads
  <2>2. o = u \/ (o # s /\ u # s)
    BY <1>1, <1>4, <2>1 DEF ThreadInv, PtyInv, MayBeOn
  <2>3. n \in Int
    BY <1>3, <2>1 DEF SmallerOf
  <2>4. t.bytes = writer[u].bytes - n
    <3>. HIDE DEF n
    <3>1. QED  BY <1>3, <2>3 DEF Rest, Thread, Writers, Threads
  <2>5. CASE ptyIn' = [ptyIn EXCEPT ![o] = @ + n] /\ writer' = [writer EXCEPT ![u] = t]
    <3>1. ptyIn' = [ptyIn EXCEPT ![o] = @ + n] /\ writer' = [writer EXCEPT ![u] = t]
      BY <2>5
    <3>. HIDE DEF n, t, o
    <3>2. CASE u = s
      <4>1. ptyIn'[s] = ptyIn[s] + n
        BY <1>3, <2>2, <3>1, <3>2
      <4>2. writer'[s].bytes = writer[s].bytes - n
        BY <1>3, <2>4, <3>1, <3>2
      <4>3. QED  BY <1>1, <1>2, <1>3, <2>1, <2>3, <4>1, <4>2
    <3>3. CASE u # s
      <4>1. ptyIn'[s] = ptyIn[s] /\ writer'[s] = writer[s]
        BY <1>3, <2>2, <3>1, <3>3
      <4>2. QED  BY <1>1, <1>2, <2>1, <4>1
    <3>4. QED  BY <3>2, <3>3
  <2>6. CASE shell[o] # "running" /\ UNCHANGED ptyIn /\ writer' = [writer EXCEPT ![u] = Ended]
    <3>1. u # s
      BY <2>2, <2>6
    <3>2. QED  BY <1>1, <1>2, <1>3, <2>1, <2>6, <3>1
  <2>7. QED  BY <1>7, <2>5, <2>6 DEF WriterWrites, Move
<1>8. QED  BY <1>5, <1>6, <1>7 DEF Writer

\* While a session is not cleaned up, every byte its shell printed is in the
\* pty, in the reader, in the queue or displayed.
THEOREM OutputConservedHolds == SafeSpec => []OutputConserved
<1>1. Init => OutputConserved
  BY DEF Init, OutputConserved, Closed, Thread
<1>2. ASSUME TypeInv, TypeInv', ExitInv, ThreadInv, OutputConserved, [Next]_vars
      PROVE  OutputConserved'
  <2>1. SUFFICES ASSUME NEW s \in Sessions \ crossed', ~Closed(s)'
                 PROVE  printed'[s] = ptyOut'[s] + reader'[s].bytes + toTerminal'[s] + displayed'[s]
    BY DEF OutputConserved
  <2>2. /\ printed[s] \in Nat /\ ptyOut[s] \in Nat /\ reader[s].bytes \in Nat
        /\ toTerminal[s] \in Nat /\ displayed[s] \in Nat
        /\ printed'[s] \in Nat /\ ptyOut'[s] \in Nat /\ reader'[s].bytes \in Nat
        /\ toTerminal'[s] \in Nat /\ displayed'[s] \in Nat
    BY <1>2, Counts, CountsAfter
  <2>3. ~Closed(s) /\ s \notin crossed =>
           printed[s] = ptyOut[s] + reader[s].bytes + toTerminal[s] + displayed[s]
    BY <1>2 DEF OutputConserved
  <2>4. CASE handleMessage \/ continueWrite \/ \E u \in Sessions, n \in WriteLengths : write(u, n)
    <3>1. ~Closed(s) /\ UNCHANGED <<printed, ptyOut, reader, crossed>>
      <4>1. UNCHANGED <<printed, ptyOut, reader, crossed>>
        BY <2>4 DEF handleMessage, continueWrite, write
      <4>2. CASE \E u \in Sessions, n \in WriteLengths : write(u, n)
        BY <2>1, <4>1, <4>2 DEF write, Closed
      <4>3. CASE handleMessage \/ continueWrite
        <5>1. mShellPid \in [Sessions -> {-1, 0, 1}]
          BY <1>2 DEF TypeInv, TypeOK
        <5>2. QED  BY <1>2, <2>1, <4>1, <4>3, <5>1, CleanupOnce DEF cleanupResources, Closed
      <4>4. QED  BY <2>4, <4>2, <4>3, <4>1
    <3>2. toTerminal'[s] + displayed'[s] = toTerminal[s] + displayed[s]
      BY <1>2, <2>1, <2>4, MainCounts
    <3>3. QED  BY <2>1, <2>2, <2>3, <3>1, <3>2
  <2>5. ASSUME NEW u \in Sessions, initializeEmulator(u)
        PROVE  printed'[s] = ptyOut'[s] + reader'[s].bytes + toTerminal'[s] + displayed'[s]
    <3>1. /\ UNCHANGED <<toTerminal, ptyOut, printed, displayed, crossed>>
          /\ mShellPid' = [mShellPid EXCEPT ![u] = 1]
          /\ reader' = [reader EXCEPT ![u] = Thread("file", 0, NoSession)]
          /\ shell[u] = "none"
      BY <2>5 DEF initializeEmulator, queues, histories
    <3>2. reader \in [Sessions -> Readers] /\ mShellPid \in [Sessions -> {-1, 0, 1}]
      BY <1>2 DEF TypeInv, TypeOK
    <3>3. CASE u = s
      <4>1. reader'[s].bytes = 0 /\ printed[s] = 0 /\ ptyOut[s] = 0 /\ toTerminal[s] = 0 /\ displayed[s] = 0
        BY <1>2, <3>1, <3>2, <3>3 DEF Thread, ThreadInv, StartInv
      <4>2. QED  BY <3>1, <4>1
    <3>4. CASE u # s
      BY <2>1, <2>3, <3>1, <3>2, <3>4 DEF Closed
    <3>5. QED  BY <3>3, <3>4
  <2>6. ASSUME NEW u \in Sessions, Reader(u)
        PROVE  printed'[s] = ptyOut'[s] + reader'[s].bytes + toTerminal'[s] + displayed'[s]
    <3>1. ~Closed(s)
      BY <2>1, <2>6 DEF Closed, Reader, ReaderOpensFile, ReaderReads, ReaderEnqueues,
         ReaderPosts, ReaderUnchanged
    <3>2. QED  BY <1>2, <2>1, <2>2, <2>3, <2>6, <3>1, ReaderCounts
  <2>7. ASSUME NEW u \in Sessions, Writer(u)
        PROVE  printed'[s] = ptyOut'[s] + reader'[s].bytes + toTerminal'[s] + displayed'[s]
    <3>1. /\ UNCHANGED <<printed, ptyOut, reader, toTerminal, displayed, mShellPid>>
          /\ s \notin crossed
      BY <2>1, <2>7 DEF Writer, WriterDequeues, WriterOpensFile, WriterWrites, WriterUnchanged
    <3>2. QED  BY <2>1, <2>3, <3>1 DEF Closed
  <2>8. ASSUME NEW u \in Sessions, ShellEchoes(u) \/ ShellPrints(u)
        PROVE  printed'[s] = ptyOut'[s] + reader'[s].bytes + toTerminal'[s] + displayed'[s]
    <3>1. /\ ptyOut' = [ptyOut EXCEPT ![u] = @ + 1] /\ printed' = [printed EXCEPT ![u] = @ + 1]
          /\ UNCHANGED <<reader, toTerminal, displayed, mShellPid, crossed>>
      BY <2>8 DEF ShellEchoes, ShellPrints, ShellUnchanged
    <3>2. ptyOut \in [Sessions -> 0..PtyOutSize] /\ printed \in [Sessions -> Nat]
      BY <1>2 DEF TypeInv, TypeOK
    <3>3. QED  BY <2>1, <2>2, <2>3, <3>1, <3>2 DEF Closed
  <2>9. ASSUME NEW u \in Sessions, ShellExits(u) \/ finishIfRunning(u) \/ Waiter(u)
        PROVE  printed'[s] = ptyOut'[s] + reader'[s].bytes + toTerminal'[s] + displayed'[s]
    <3>1. UNCHANGED <<printed, ptyOut, reader, toTerminal, displayed, mShellPid, crossed>>
      BY <2>9 DEF ShellExits, ShellUnchanged, finishIfRunning, Waiter, queues, histories
    <3>2. QED  BY <2>1, <2>3, <3>1 DEF Closed
  <2>10. CASE UNCHANGED vars
    BY <2>1, <2>3, <2>10 DEF vars, queues, histories, Closed
  <2>11. QED
    BY <1>2, <2>4, <2>5, <2>6, <2>7, <2>8, <2>9, <2>10 DEF Next
<1>3. QED
  BY <1>1, <1>2, TypeInvariant, ExitInvariant, ThreadInvariant, PTL DEF SafeSpec

\* While its shell runs, every byte written to a session is in the queue, in
\* the writer, in the pty or was read by the shell.
THEOREM InputConservedHolds == SafeSpec => []InputConserved
<1>1. Init => InputConserved
  BY DEF Init, InputConserved
<1>2. ASSUME TypeInv, TypeInv', ExitInv, DescriptorInv, ThreadInv, InputConserved, [Next]_vars
      PROVE  InputConserved'
  <2>1. SUFFICES ASSUME NEW s \in Sessions \ crossed', shell'[s] = "running"
                 PROVE  typed'[s] = toProcess'[s] + writer'[s].bytes + ptyIn'[s] + consumed'[s]
    BY DEF InputConserved
  <2>2. /\ typed[s] \in Nat /\ toProcess[s] \in Nat /\ writer[s].bytes \in Nat
        /\ ptyIn[s] \in Nat /\ consumed[s] \in Nat
        /\ typed'[s] \in Nat /\ toProcess'[s] \in Nat /\ writer'[s].bytes \in Nat
        /\ ptyIn'[s] \in Nat /\ consumed'[s] \in Nat
    BY <1>2, Counts, CountsAfter
  <2>3. shell[s] = "running" /\ s \notin crossed =>
           typed[s] = toProcess[s] + writer[s].bytes + ptyIn[s] + consumed[s]
    BY <1>2 DEF InputConserved
  <2>4. CASE handleMessage \/ continueWrite \/ \E u \in Sessions, n \in WriteLengths : write(u, n)
    <3>1. UNCHANGED <<shell, ptyIn, writer, consumed, crossed>>
      BY <2>4 DEF handleMessage, continueWrite, write
    <3>2. typed'[s] - toProcess'[s] = typed[s] - toProcess[s]
      BY <1>2, <2>1, <2>4, MainCounts
    <3>3. QED  BY <2>1, <2>2, <2>3, <3>1, <3>2
  <2>5. ASSUME NEW u \in Sessions, initializeEmulator(u)
        PROVE  typed'[s] = toProcess'[s] + writer'[s].bytes + ptyIn'[s] + consumed'[s]
    <3>1. /\ UNCHANGED <<toProcess, ptyIn, typed, consumed, crossed>>
          /\ shell' = [shell EXCEPT ![u] = "running"]
          /\ writer' = [writer EXCEPT ![u] = Thread("queue", 0, NoSession)]
          /\ shell[u] = "none"
      BY <2>5 DEF initializeEmulator, queues, histories
    <3>2. /\ writer \in [Sessions -> Writers]
          /\ shell \in [Sessions -> {"none", "running", "zombie", "reaped"}]
      BY <1>2 DEF TypeInv, TypeOK
    <3>3. CASE u = s
      <4>1. writer'[s].bytes = 0 /\ typed[s] = 0 /\ toProcess[s] = 0 /\ ptyIn[s] = 0 /\ consumed[s] = 0
        BY <1>2, <3>1, <3>2, <3>3 DEF Thread, ThreadInv, StartInv
      <4>2. QED  BY <3>1, <4>1
    <3>4. CASE u # s
      BY <2>1, <2>3, <3>1, <3>2, <3>4
    <3>5. QED  BY <3>3, <3>4
  <2>6. ASSUME NEW u \in Sessions, Writer(u)
        PROVE  typed'[s] = toProcess'[s] + writer'[s].bytes + ptyIn'[s] + consumed'[s]
    <3>1. shell[s] = "running"
      BY <2>1, <2>6 DEF Writer, WriterDequeues, WriterOpensFile, WriterWrites, WriterUnchanged
    <3>2. QED  BY <1>2, <2>1, <2>2, <2>3, <2>6, <3>1, WriterCounts
  <2>7. ASSUME NEW u \in Sessions, Reader(u)
        PROVE  typed'[s] = toProcess'[s] + writer'[s].bytes + ptyIn'[s] + consumed'[s]
    <3>1. /\ UNCHANGED <<typed, toProcess, writer, ptyIn, consumed, shell>>
          /\ s \notin crossed
      BY <2>1, <2>7 DEF Reader, ReaderOpensFile, ReaderReads, ReaderEnqueues, ReaderPosts,
         ReaderUnchanged
    <3>2. QED  BY <2>1, <2>3, <3>1
  <2>8. ASSUME NEW u \in Sessions, ShellEchoes(u)
        PROVE  typed'[s] = toProcess'[s] + writer'[s].bytes + ptyIn'[s] + consumed'[s]
    <3>1. /\ ptyIn' = [ptyIn EXCEPT ![u] = @ - 1] /\ consumed' = [consumed EXCEPT ![u] = @ + 1]
          /\ UNCHANGED <<typed, toProcess, writer, shell, crossed>>
      BY <2>8 DEF ShellEchoes, ShellUnchanged
    <3>2. ptyIn \in [Sessions -> 0..PtyInSize] /\ consumed \in [Sessions -> Nat]
      BY <1>2 DEF TypeInv, TypeOK
    <3>3. QED  BY <2>1, <2>2, <2>3, <3>1, <3>2
  <2>9. ASSUME NEW u \in Sessions,
               ShellPrints(u) \/ ShellExits(u) \/ finishIfRunning(u) \/ Waiter(u)
        PROVE  typed'[s] = toProcess'[s] + writer'[s].bytes + ptyIn'[s] + consumed'[s]
    <3>1. UNCHANGED <<typed, toProcess, writer, ptyIn, consumed, crossed>>
      BY <2>9 DEF ShellPrints, ShellExits, ShellUnchanged, finishIfRunning, Waiter, queues, histories
    <3>2. shell[s] = "running"
      <4>1. shell \in [Sessions -> {"none", "running", "zombie", "reaped"}]
        BY <1>2 DEF TypeInv, TypeOK
      <4>2. QED  BY <2>1, <2>9, <4>1 DEF ShellPrints, ShellExits, finishIfRunning, Waiter
    <3>3. QED  BY <2>1, <2>3, <3>1, <3>2
  <2>10. CASE UNCHANGED vars
    BY <2>1, <2>3, <2>10 DEF vars, queues, histories
  <2>11. QED
    BY <1>2, <2>4, <2>5, <2>6, <2>7, <2>8, <2>9, <2>10 DEF Next
<1>3. QED
  BY <1>1, <1>2, TypeInvariant, ExitInvariant, DescriptorInvariant, ThreadInvariant, PTL
     DEF SafeSpec

\* Nothing is displayed after a session is finished, although messages of its
\* reader are still handled: its queue is closed.
THEOREM NothingAfterFinishedHolds == SafeSpec => NothingAfterFinished
<1>1. ASSUME TypeInv, [Next]_vars
      PROVE  [\A s \in Sessions : Closed(s) => displayed'[s] = displayed[s]]_vars
  <2>1. CASE handleMessage
    <3>. DEFINE u == Head(messages).session
    <3>1. u \in Sessions
      BY <1>1, <2>1, MessagesKnown, FirstAndRest DEF handleMessage, Messages
    <3>2. displayed' = [displayed EXCEPT ![u] = @ + Polled(u)]
      BY <2>1 DEF handleMessage
    <3>3. Closed(u) => Polled(u) = 0
      BY DEF Polled
    <3>4. displayed \in [Sessions -> Nat]
      BY <1>1 DEF TypeInv, TypeOK
    <3>. HIDE DEF u
    <3>5. QED  BY <3>1, <3>2, <3>3, <3>4
  <2>2. CASE UNCHANGED displayed
    BY <2>2
  <2>3. ASSUME NEW u \in Sessions, Reader(u) \/ Writer(u)
        PROVE  UNCHANGED displayed
    BY <2>3 DEF Reader, ReaderOpensFile, ReaderReads, ReaderEnqueues, ReaderPosts,
       ReaderUnchanged, Writer, WriterDequeues, WriterOpensFile, WriterWrites, WriterUnchanged
  <2>4. ASSUME NEW u \in Sessions,
               \/ initializeEmulator(u) \/ finishIfRunning(u) \/ Waiter(u)
               \/ \E n \in WriteLengths : write(u, n)
               \/ ShellEchoes(u) \/ ShellPrints(u) \/ ShellExits(u)
        PROVE  UNCHANGED displayed
    BY <2>4 DEF initializeEmulator, finishIfRunning, Waiter, write, ShellEchoes, ShellPrints,
       ShellExits, ShellUnchanged, histories
  <2>5. CASE continueWrite
    BY <2>2, <2>5 DEF continueWrite
  <2>6. QED
    BY <1>1, <2>1, <2>2, <2>3, <2>4, <2>5 DEF Next
<1>2. QED  BY <1>1, TypeInvariant, PTL DEF SafeSpec, NothingAfterFinished

------------------------------------------------------------------------------
(* No output stays behind unannounced *)

\* The messages of a session.
Pending(s) == {i \in 1..Len(messages) : messages[i].session = s}

\* The bytes in the queue that a reader still has to send a message for.
Unannounced(thread) ==
    IF thread.at = "queue" THEN ReadLength - thread.bytes
    ELSE IF thread.at = "post" THEN ReadLength
    ELSE 0

\* A message takes a buffer of bytes, and for every buffer in the queue there is
\* a message on its way or a reader about to send one.
AnnouncedInv ==
    \A s \in Sessions :
        ~Closed(s) =>
            toTerminal[s] <= ReadLength * Cardinality(Pending(s)) + Unannounced(reader[s])

\* There are finitely many messages.
LEMMA PendingFinite ==
    ASSUME TypeInv, NEW s \in Sessions
    PROVE  IsFiniteSet(Pending(s)) /\ Cardinality(Pending(s)) \in Nat
<1>1. Len(messages) \in Nat
  BY MessagesKnown
<1>2. IsFiniteSet(1..Len(messages))
  BY <1>1, FS_Interval
<1>3. Pending(s) \in SUBSET (1..Len(messages))
  BY DEF Pending
<1>4. QED  BY <1>2, <1>3, FS_Subset, FS_CardinalityType

\* Handling a message leaves one less of its session; the others move up.
LEMMA PendingHandled ==
    ASSUME TypeInv, messages # <<>>, messages' = Tail(messages), NEW s \in Sessions
    PROVE  Cardinality(Pending(s)') =
              IF Head(messages).session = s THEN Cardinality(Pending(s)) - 1
                                            ELSE Cardinality(Pending(s))
<1>. DEFINE rest == Pending(s) \ {1}
            f == [i \in rest |-> i - 1]
<1>1. /\ Len(messages) \in Nat \ {0} /\ Len(messages') = Len(messages) - 1
      /\ Head(messages) = messages[1]
      /\ \A i \in 1..(Len(messages) - 1) : messages'[i] = messages[i + 1]
  BY MessagesKnown, FirstAndRest
<1>2. IsFiniteSet(Pending(s)) /\ Cardinality(Pending(s)) \in Nat
  BY PendingFinite
<1>3. 1 \in Pending(s) <=> Head(messages).session = s
  BY <1>1 DEF Pending
<1>4. /\ IsFiniteSet(rest)
      /\ Cardinality(rest) = IF Head(messages).session = s THEN Cardinality(Pending(s)) - 1
                                                           ELSE Cardinality(Pending(s))
  BY <1>2, <1>3, FS_RemoveElement
<1>5. \A i \in rest : i \in 2..Len(messages) /\ messages[i].session = s
  BY <1>1 DEF Pending
<1>6. \A j : j \in Pending(s)' <=> j \in 1..(Len(messages) - 1) /\ messages[j + 1].session = s
  BY <1>1 DEF Pending
<1>7. \A i \in rest : i - 1 \in Pending(s)'
  <2>1. \A i \in rest : i - 1 \in 1..(Len(messages) - 1) /\ (i - 1) + 1 = i
    BY <1>1, <1>5
  <2>2. QED  BY <1>5, <1>6, <2>1
<1>8. \A j \in Pending(s)' : j + 1 \in rest /\ f[j + 1] = j
  <2>1. \A j \in Pending(s)' : j \in 1..(Len(messages) - 1) /\ messages[j + 1].session = s
    BY <1>6
  <2>2. \A j \in Pending(s)' : j + 1 \in rest
    BY <1>1, <2>1 DEF Pending
  <2>3. \A j \in Pending(s)' : (j + 1) - 1 = j
    BY <1>1, <2>1
  <2>4. QED  BY <2>2, <2>3
<1>9. f \in Bijection(rest, Pending(s)')
  <2>1. f \in [rest -> Pending(s)']
    BY <1>7
  <2>2. \A i, k \in rest : f[i] = f[k] => i = k
    BY <1>5
  <2>3. \A j \in Pending(s)' : \E i \in rest : f[i] = j
    BY <1>8
  <2>4. QED  BY <2>1, <2>2, <2>3 DEF Bijection, Injection, IsInjective, Surjection
<1>10. Cardinality(Pending(s)') = Cardinality(rest)
  BY <1>4, <1>9, FS_Bijection DEF ExistsBijection
<1>11. QED  BY <1>4, <1>10

\* Sending a message makes one more of its session.
LEMMA PendingSent ==
    ASSUME TypeInv, NEW e \in Messages, messages' = Append(messages, e), NEW s \in Sessions
    PROVE  Cardinality(Pending(s)') =
              IF e.session = s THEN Cardinality(Pending(s)) + 1 ELSE Cardinality(Pending(s))
<1>1. /\ Len(messages) \in Nat /\ Len(messages') = Len(messages) + 1
      /\ messages'[Len(messages) + 1] = e
      /\ \A i \in 1..Len(messages) : messages'[i] = messages[i]
  BY MessagesKnown, Appended
<1>2. CASE e.session = s
  <2>1. Pending(s)' = Pending(s) \cup {Len(messages) + 1}
    BY <1>1, <1>2 DEF Pending
  <2>2. Len(messages) + 1 \notin Pending(s)
    BY <1>1 DEF Pending
  <2>3. QED  BY <1>2, <2>1, <2>2, PendingFinite, FS_AddElement
<1>3. CASE e.session # s
  <2>1. Pending(s)' = Pending(s)
    BY <1>1, <1>3 DEF Pending
  <2>2. QED  BY <1>3, <2>1
<1>4. QED  BY <1>2, <1>3

\* The invariant that is kept.
THEOREM AnnouncedInvariant == SafeSpec => []AnnouncedInv
<1>1. Init => AnnouncedInv
  <2>1. SUFFICES ASSUME Init, NEW s \in Sessions
                 PROVE  toTerminal[s] <= ReadLength * Cardinality(Pending(s)) + Unannounced(reader[s])
    BY DEF AnnouncedInv
  <2>2. messages = <<>> /\ toTerminal[s] = 0 /\ reader[s].at = "none"
    BY <2>1 DEF Init, Thread
  <2>3. Pending(s) = {}
    BY <2>2 DEF Pending
  <2>4. Cardinality(Pending(s)) = 0 /\ Unannounced(reader[s]) = 0
    BY <2>2, <2>3, FS_EmptySet DEF Unannounced
  <2>5. ReadLength * 0 = 0
    OBVIOUS
  <2>6. QED  BY <2>2, <2>4, <2>5
<1>2. ASSUME TypeInv, TypeInv', ExitInv, ThreadInv, AnnouncedInv, [Next]_vars
      PROVE  AnnouncedInv'
  <2>1. SUFFICES ASSUME NEW s \in Sessions, ~Closed(s)'
                 PROVE  toTerminal'[s] <= ReadLength * Cardinality(Pending(s)') + Unannounced(reader'[s])
    BY DEF AnnouncedInv
  <2>. DEFINE Goal == toTerminal'[s] <= ReadLength * Cardinality(Pending(s)') + Unannounced(reader'[s])
              c == Cardinality(Pending(s))
  <2>2. /\ toTerminal[s] \in Nat /\ toTerminal'[s] \in Nat
        /\ reader[s].bytes \in 0..ReadLength /\ reader'[s].bytes \in 0..ReadLength
        /\ c \in Nat /\ Cardinality(Pending(s)') \in Nat
    <3>1. reader[s].bytes \in 0..ReadLength /\ reader'[s].bytes \in 0..ReadLength
      BY <1>2, Counts, CountsAfter DEF Readers, Threads
    <3>2. c \in Nat
      BY <1>2, PendingFinite
    <3>3. Cardinality(Pending(s)') \in Nat
      <4>1. messages' \in Seq(Messages)
        BY <1>2 DEF TypeInv, TypeOK, Messages
      <4>2. Len(messages') \in Nat
        BY <4>1
      <4>3. IsFiniteSet(1..Len(messages')) /\ Pending(s)' \in SUBSET (1..Len(messages'))
        BY <4>2, FS_Interval DEF Pending
      <4>4. QED  BY <4>3, FS_Subset, FS_CardinalityType
    <3>4. QED  BY <1>2, <3>1, <3>2, <3>3, Counts, CountsAfter
  <2>3. /\ ReadLength * c \in Nat
        /\ ReadLength * (c + 1) = ReadLength * c + ReadLength
        /\ ReadLength * Cardinality(Pending(s)') \in Nat
    BY <2>2
  <2>4. Unannounced(reader[s]) \in Nat /\ Unannounced(reader'[s]) \in Nat
    BY <2>2 DEF Unannounced
  <2>5. ~Closed(s) => toTerminal[s] <= ReadLength * c + Unannounced(reader[s])
    BY <1>2 DEF AnnouncedInv
  <2>6. ASSUME ~Closed(s), UNCHANGED <<toTerminal, messages>>, UNCHANGED reader[s]
        PROVE  Goal
    BY <2>5, <2>6 DEF Pending
  <2>7. CASE handleMessage
    <3>. DEFINE u == Head(messages).session
    <3>1. messages # <<>> /\ messages' = Tail(messages) /\ UNCHANGED reader
      BY <2>7 DEF handleMessage
    <3>2. u \in Sessions
      BY <1>2, <3>1, MessagesKnown, FirstAndRest DEF Messages
    <3>3. toTerminal' = [toTerminal EXCEPT ![u] = @ - Polled(u)]
      BY <2>7 DEF handleMessage
    <3>4. ~Closed(s)
      <4>1. mShellPid \in [Sessions -> {-1, 0, 1}]
        BY <1>2 DEF TypeInv, TypeOK
      <4>2. QED  BY <1>2, <2>1, <2>7, <4>1, CleanupOnce DEF cleanupResources, Closed
    <3>5. Cardinality(Pending(s)') = IF u = s THEN c - 1 ELSE c
      BY <1>2, <3>1, PendingHandled
    <3>6. toTerminal \in [Sessions -> 0..QueueSize]
      BY <1>2 DEF TypeInv, TypeOK
    <3>7. CASE u = s
      <4>1. toTerminal'[s] = toTerminal[s] - Polled(s)
        BY <3>2, <3>3, <3>6, <3>7
      <4>2. Polled(s) = toTerminal[s] \/ Polled(s) = ReadLength
        BY <1>2, <3>4, PolledHeld DEF TypeInv
      <4>3. CASE Polled(s) = toTerminal[s]
        BY <2>2, <2>3, <2>4, <4>1, <4>3
      <4>4. CASE Polled(s) = ReadLength
        <5>1. ReadLength * (c - 1) = ReadLength * c - ReadLength
          BY <2>2
        <5>. HIDE DEF c, u
        <5>2. Cardinality(Pending(s)') = c - 1
          BY <3>5, <3>7
        <5>3. UNCHANGED Unannounced(reader[s])
          BY <3>1
        <5>4. QED  BY <2>2, <2>3, <2>4, <2>5, <3>4, <4>1, <4>4, <5>1, <5>2, <5>3
      <4>5. QED  BY <4>2, <4>3, <4>4
    <3>8. CASE u # s
      <4>1. toTerminal'[s] = toTerminal[s]
        BY <3>2, <3>3, <3>6, <3>8
      <4>2. QED  BY <2>5, <3>1, <3>4, <3>5, <3>8, <4>1
    <3>9. QED  BY <3>7, <3>8
  <2>8. CASE continueWrite
    <3>1. UNCHANGED <<toTerminal, messages, reader>>
      BY <2>8 DEF continueWrite
    <3>2. mShellPid \in [Sessions -> {-1, 0, 1}]
      BY <1>2 DEF TypeInv, TypeOK
    <3>3. ~Closed(s)
      BY <1>2, <2>1, <2>8, <3>2, CleanupOnce DEF cleanupResources, Closed
    <3>4. QED  BY <2>6, <3>1, <3>3
  <2>9. ASSUME NEW u \in Sessions, initializeEmulator(u)
        PROVE  Goal
    <3>1. /\ UNCHANGED <<toTerminal, messages>>
          /\ mShellPid' = [mShellPid EXCEPT ![u] = 1]
          /\ reader' = [reader EXCEPT ![u] = Thread("file", 0, NoSession)]
          /\ shell[u] = "none"
      BY <2>9 DEF initializeEmulator, queues
    <3>2. reader \in [Sessions -> Readers] /\ mShellPid \in [Sessions -> {-1, 0, 1}]
      BY <1>2 DEF TypeInv, TypeOK
    <3>3. CASE u = s
      <4>1. toTerminal'[s] = 0
        BY <1>2, <3>1, <3>3 DEF ThreadInv, StartInv
      <4>2. QED  BY <2>3, <2>4, <4>1
    <3>4. CASE u # s
      BY <2>1, <2>6, <3>1, <3>2, <3>4 DEF Closed
    <3>5. QED  BY <3>3, <3>4
  <2>10. ASSUME NEW u \in Sessions, Reader(u)
         PROVE  Goal
    <3>1. ~Closed(s)
      BY <2>1, <2>10 DEF Closed, Reader, ReaderOpensFile, ReaderReads, ReaderEnqueues,
         ReaderPosts, ReaderUnchanged
    <3>2. /\ reader \in [Sessions -> Readers]
          /\ toTerminal \in [Sessions -> 0..QueueSize]
      BY <1>2 DEF TypeInv, TypeOK
    <3>3. CASE u # s
      <4>1. UNCHANGED reader[s] /\ UNCHANGED toTerminal[s]
        BY <2>10, <3>2, <3>3 DEF Reader, ReaderOpensFile, ReaderReads, ReaderEnqueues,
           ReaderPosts, Move
      <4>2. CASE UNCHANGED messages
        BY <2>5, <3>1, <4>1, <4>2 DEF Pending
      <4>3. CASE messages' = Append(messages, [what |-> "NEW_INPUT", session |-> u])
        <5>1. Cardinality(Pending(s)') = c
          BY <1>2, <3>3, <4>3, PendingSent DEF Messages
        <5>2. QED  BY <2>5, <3>1, <4>1, <5>1
      <4>4. QED
        BY <2>10, <4>2, <4>3 DEF Reader, ReaderOpensFile, ReaderReads, ReaderEnqueues, ReaderPosts
    <3>4. CASE u = s
      <4>1. CASE ReaderOpensFile(s)
        <5>1. /\ UNCHANGED <<toTerminal, messages>> /\ Unannounced(reader[s]) = 0
          BY <4>1 DEF ReaderOpensFile, Unannounced
        <5>2. QED  BY <2>2, <2>3, <2>4, <2>5, <3>1, <5>1 DEF Pending
      <4>2. CASE ReaderReads(s)
        <5>1. /\ UNCHANGED <<toTerminal, messages>> /\ Unannounced(reader[s]) = 0
          BY <4>2 DEF ReaderReads, Unannounced
        <5>2. QED  BY <2>2, <2>3, <2>4, <2>5, <3>1, <5>1 DEF Pending
      <4>3. CASE ReaderEnqueues(s)
        <5>. DEFINE n == SmallerOf(reader[s].bytes, QueueSize - toTerminal[s])
        <5>1. /\ reader[s].at = "queue" /\ UNCHANGED messages
              /\ toTerminal' = [toTerminal EXCEPT ![s] = @ + n]
              /\ reader' = [reader EXCEPT ![s] = Rest(reader[s], n, Thread("post", 0, NoSession))]
          BY <3>1, <4>3 DEF ReaderEnqueues, Move
        <5>2. n \in Int
          BY <2>2, <3>2 DEF SmallerOf
        <5>. HIDE DEF n
        <5>3. toTerminal'[s] = toTerminal[s] + n
          BY <3>2, <5>1
        <5>4. Unannounced(reader'[s]) = Unannounced(reader[s]) + n
          <6>1. reader'[s] = Rest(reader[s], n, Thread("post", 0, NoSession))
            BY <3>2, <5>1
          <6>2. CASE n = reader[s].bytes
            BY <2>2, <5>1, <6>1, <6>2 DEF Rest, Thread, Unannounced
          <6>3. CASE n # reader[s].bytes
            <7>1. reader'[s] = [reader[s] EXCEPT !.bytes = @ - n]
              BY <6>1, <6>3 DEF Rest
            <7>2. reader'[s].at = "queue" /\ reader'[s].bytes = reader[s].bytes - n
              BY <3>2, <5>1, <7>1 DEF Readers, Threads
            <7>3. QED  BY <2>2, <5>1, <5>2, <7>2 DEF Unannounced
          <6>4. QED  BY <6>2, <6>3
        <5>5. UNCHANGED Pending(s)
          BY <5>1 DEF Pending
        <5>. HIDE DEF c
        <5>6. UNCHANGED c
          BY <5>5 DEF c
        <5>7. QED  BY <2>2, <2>3, <2>4, <2>5, <3>1, <5>2, <5>3, <5>4, <5>6 DEF c
      <4>4. CASE ReaderPosts(s)
        <5>1. /\ messages' = Append(messages, [what |-> "NEW_INPUT", session |-> s])
              /\ UNCHANGED toTerminal /\ Unannounced(reader[s]) = ReadLength
          BY <4>4 DEF ReaderPosts, Unannounced
        <5>2. Cardinality(Pending(s)') = c + 1
          BY <1>2, <5>1, PendingSent DEF Messages
        <5>. HIDE DEF c
        <5>3. QED  BY <2>2, <2>3, <2>4, <2>5, <3>1, <5>1, <5>2
      <4>5. QED  BY <2>10, <3>4, <4>1, <4>2, <4>3, <4>4 DEF Reader
    <3>5. QED  BY <3>3, <3>4
  <2>11. ASSUME NEW u \in Sessions, Waiter(u)
         PROVE  Goal
    <3>1. /\ messages' = Append(messages, [what |-> "PROCESS_EXITED", session |-> u])
          /\ UNCHANGED <<toTerminal, reader>>
          /\ ~Closed(s)
      BY <2>1, <2>11 DEF Waiter, queues, Closed
    <3>2. Cardinality(Pending(s)') = IF u = s THEN c + 1 ELSE c
      BY <1>2, <3>1, PendingSent DEF Messages
    <3>. HIDE DEF c
    <3>3. CASE u = s
      BY <2>2, <2>3, <2>4, <2>5, <3>1, <3>2, <3>3
    <3>4. CASE u # s
      BY <2>5, <3>1, <3>2, <3>4
    <3>5. QED  BY <3>3, <3>4
  <2>12. ASSUME NEW u \in Sessions,
                \/ \E n \in WriteLengths : write(u, n)
                \/ finishIfRunning(u) \/ Writer(u)
                \/ ShellEchoes(u) \/ ShellPrints(u) \/ ShellExits(u)
         PROVE  Goal
    <3>1. UNCHANGED <<toTerminal, messages, reader, mShellPid>>
      BY <2>12 DEF write, finishIfRunning, Writer, WriterDequeues, WriterOpensFile, WriterWrites,
         WriterUnchanged, ShellEchoes, ShellPrints, ShellExits, ShellUnchanged, queues
    <3>2. QED  BY <2>1, <2>6, <3>1 DEF Closed
  <2>13. CASE UNCHANGED vars
    BY <2>1, <2>6, <2>13 DEF vars, queues, Closed
  <2>14. QED
    BY <1>2, <2>7, <2>8, <2>9, <2>10, <2>11, <2>12, <2>13 DEF Next
<1>3. QED
  BY <1>1, <1>2, TypeInvariant, ExitInvariant, ThreadInvariant, PTL DEF SafeSpec

\* Bytes in the queue of a session that is not finished have a message on its
\* way, or the reader is about to send one.
THEOREM OutputAnnouncedHolds == SafeSpec => []OutputAnnounced
<1>1. ASSUME TypeInv, AnnouncedInv
      PROVE  OutputAnnounced
  <2>1. SUFFICES ASSUME NEW s \in Sessions, toTerminal[s] > 0, ~Closed(s),
                        reader[s].at \notin {"queue", "post"}
                 PROVE  \E i \in DOMAIN messages : messages[i].session = s
    BY DEF OutputAnnounced
  <2>2. toTerminal[s] \in Nat /\ Cardinality(Pending(s)) \in Nat
    BY <1>1, Counts, PendingFinite
  <2>3. toTerminal[s] <= ReadLength * Cardinality(Pending(s))
    BY <1>1, <2>1, <2>2 DEF AnnouncedInv, Unannounced
  <2>4. Cardinality(Pending(s)) # 0
    BY <2>1, <2>2, <2>3
  <2>5. Pending(s) # {}
    BY <2>4, FS_EmptySet
  <2>6. DOMAIN messages = 1..Len(messages)
    BY <1>1, MessagesKnown
  <2>7. QED  BY <2>5, <2>6 DEF Pending
<1>2. QED  BY <1>1, TypeInvariant, AnnouncedInvariant, PTL

==============================================================================
