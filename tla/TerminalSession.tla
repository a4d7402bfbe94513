--------------------------- MODULE TerminalSession ---------------------------
(***************************************************************************)
(* com.termux.terminal.TerminalSession: a shell process behind a           *)
(* pseudo-terminal, with the three threads and the main thread that serve  *)
(* it.                                                                     *)
(*                                                                         *)
(*   main --mTerminalToProcessIOQueue--> writer --pty--> shell             *)
(*   main <--mProcessToTerminalIOQueue-- reader <--pty-- shell             *)
(*                                       waiter <--exit-- shell            *)
(*                                                                         *)
(* The queues are taken at what ByteChannel promises (ByteQueue implements *)
(* it for one thread at each end), and bytes are only counted.  The kernel *)
(* and the shell are the environment: the shell echoes its input, prints   *)
(* of its own accord and exits when it likes.                              *)
(***************************************************************************)
EXTENDS Integers, Sequences

CONSTANTS
    Sessions,      \* the TerminalSession objects
    NoSession,     \* none of them
    Descriptors,   \* the file descriptors the kernel hands out for ptys
    QueueSize,     \* capacity of each ByteQueue (4096)
    PtyInSize,     \* capacity of a pty towards the shell
    PtyOutSize,    \* capacity of a pty from the shell
    ReadLength,    \* length of the buffers of the threads (4096)
    WriteLengths,  \* how many bytes one call of write has
    MaxInput,      \* bound: bytes written to one session
    MaxOutput      \* bound: bytes a shell prints besides its echo

ASSUME SessionsAssumption == NoSession \notin Sessions
ASSUME DescriptorsAssumption == Descriptors # {}
ASSUME SizesAssumption ==
    /\ {QueueSize, PtyInSize, PtyOutSize, ReadLength} \subseteq Nat \ {0}
    /\ WriteLengths \subseteq Nat \ {0}
    /\ {MaxInput, MaxOutput} \subseteq Nat

VARIABLES
    alive,        \* the app's process exists
    messages,     \* the looper's queue of the main thread
    main,         \* what the main thread is blocked in, if it is
    mShellPid,    \* 0 not started, -1 finished, 1 stands for the shell's pid
    shell,        \* the process: "none", "running", "zombie" or "reaped"
    owner,        \* per descriptor, the session whose pty it refers to
    mTerminalFileDescriptor,
    toProcess,    \* bytes in mTerminalToProcessIOQueue
    toTerminal,   \* bytes in mProcessToTerminalIOQueue
    ptyIn, ptyOut,    \* bytes in the pty, to and from the shell
    reader, writer,   \* where the two threads are, and on which bytes and pty
    typed, consumed,  \* history: bytes written to a session; read by its shell
    printed, displayed,  \* history: bytes its shell wrote; given to the emulator
    crossed       \* history: sessions whose pty another session's thread used

queues == <<toProcess, toTerminal, ptyIn, ptyOut>>
histories == <<typed, consumed, printed, displayed, crossed>>
vars == <<alive, messages, main, mShellPid, shell, owner,
          mTerminalFileDescriptor, queues, reader, writer, histories>>

SmallerOf(a, b) == IF a <= b THEN a ELSE b

\* The main thread between two messages; otherwise it is inside a write of
\* "left" more bytes to "session", and "exiting" if it came there from the
\* message that reports the exit.
Idle == [session |-> NoSession, left |-> 0, exiting |-> FALSE]

\* A thread is at "none" (not started), "queue" (in its queue), "file" (about
\* to use the descriptor), "syscall" (in read or write on the pty of "on"),
\* "post" (reader: about to send its message) or "ended".
Thread(at, bytes, on) == [at |-> at, bytes |-> bytes, on |-> on]
Ended == Thread("ended", 0, NoSession)

\* Mutant of Rest: what did not fit is forgotten.
RestDropped(thread, n, next) == next

\* Another mutant of Rest: a partial transfer ends the thread.
RestEnds(thread, n, next) == IF n = thread.bytes THEN next ELSE Ended

\* What is left to do after passing on n of the bytes a thread has: those that
\* did not fit, or else what comes next.
Rest(thread, n, next) ==
    IF n = thread.bytes THEN next ELSE [thread EXCEPT !.bytes = @ - n]

\* cleanupResources closes the queues where it sets the pid to -1.
Closed(s) == mShellPid[s] = -1

Init ==
    /\ alive = TRUE
    /\ messages = <<>>
    /\ main = Idle
    /\ mShellPid = [s \in Sessions |-> 0]
    /\ shell = [s \in Sessions |-> "none"]
    /\ owner = [d \in Descriptors |-> NoSession]
    /\ mTerminalFileDescriptor = [s \in Sessions |-> CHOOSE d \in Descriptors : TRUE]
    /\ toProcess = [s \in Sessions |-> 0]
    /\ toTerminal = [s \in Sessions |-> 0]
    /\ ptyIn = [s \in Sessions |-> 0]
    /\ ptyOut = [s \in Sessions |-> 0]
    /\ reader = [s \in Sessions |-> Thread("none", 0, NoSession)]
    /\ writer = [s \in Sessions |-> Thread("none", 0, NoSession)]
    /\ typed = [s \in Sessions |-> 0]
    /\ consumed = [s \in Sessions |-> 0]
    /\ printed = [s \in Sessions |-> 0]
    /\ displayed = [s \in Sessions |-> 0]
    /\ crossed = {}

------------------------------------------------------------------------------
(* The main thread *)

\* The emulator is created with the subprocess and its three threads, when the
\* view first tells the session its size.
initializeEmulator(s) ==
    /\ alive /\ main = Idle
    /\ shell[s] = "none"
    /\ \E d \in Descriptors :
          /\ owner[d] = NoSession
          /\ owner' = [owner EXCEPT ![d] = s]
          /\ mTerminalFileDescriptor' = [mTerminalFileDescriptor EXCEPT ![s] = d]
    /\ mShellPid' = [mShellPid EXCEPT ![s] = 1]
    /\ shell' = [shell EXCEPT ![s] = "running"]
    /\ reader' = [reader EXCEPT ![s] = Thread("file", 0, NoSession)]
    /\ writer' = [writer EXCEPT ![s] = Thread("queue", 0, NoSession)]
    /\ UNCHANGED <<alive, messages, main, queues, histories>>

\* Mutant of Fits: the room left in the queue does not matter.
FitsAll(s, n) == n

\* What a call of write has copied of n bytes before it returns or waits.
Fits(s, n) == SmallerOf(n, QueueSize - toProcess[s])

Enqueue(s, n) ==
    /\ toProcess' = [toProcess EXCEPT ![s] = @ + n]
    /\ typed' = [typed EXCEPT ![s] = @ + n]

\* A key or a paste; if the queue is too full the main thread waits in it.
\* Without a running shell, nothing is written.
write(s, n) ==
    /\ alive /\ main = Idle
    /\ mShellPid[s] > 0
    /\ typed[s] + n <= MaxInput
    /\ Enqueue(s, Fits(s, n))
    /\ main' = IF Fits(s, n) = n THEN Idle
               ELSE [session |-> s, left |-> n - Fits(s, n), exiting |-> FALSE]
    /\ UNCHANGED <<alive, messages, mShellPid, shell, owner,
                   mTerminalFileDescriptor, toTerminal, ptyIn, ptyOut, reader,
                   writer, consumed, printed, displayed, crossed>>

\* The end of the shell is recorded, the queues and the descriptor are closed.
\* The number is free for the next pty.
cleanupResources(s) ==
    /\ mShellPid' = [mShellPid EXCEPT ![s] = -1]
    /\ owner' = [owner EXCEPT ![mTerminalFileDescriptor[s]] = NoSession]

\* Mutant of Polled: a closed queue still gives out what it holds.
PolledThoughClosed(s) == SmallerOf(ReadLength, toTerminal[s])

\* How much read(mReceiveBuffer, false) takes from mProcessToTerminalIOQueue.
Polled(s) == IF Closed(s) THEN 0 ELSE SmallerOf(ReadLength, toTerminal[s])

\* One message: what the queue holds (up to a buffer) goes to the emulator,
\* which may answer a query in it by writing to the session; after
\* MSG_PROCESS_EXITED the session is cleaned up and finished.
handleMessage ==
    LET s == Head(messages).session
        exited == Head(messages).what = "PROCESS_EXITED"
        n == Polled(s)
        mayAnswer == n > 0 /\ mShellPid[s] > 0 /\ typed[s] < MaxInput
    IN /\ alive /\ main = Idle /\ messages # <<>>
       /\ messages' = Tail(messages)
       /\ toTerminal' = [toTerminal EXCEPT ![s] = @ - n]
       /\ displayed' = [displayed EXCEPT ![s] = @ + n]
       /\ \E answer \in IF mayAnswer THEN {0, 1} ELSE {0} :
             /\ Enqueue(s, Fits(s, answer))
             /\ IF Fits(s, answer) < answer
                THEN /\ main' = [session |-> s, left |-> answer, exiting |-> exited]
                     /\ UNCHANGED <<mShellPid, owner>>
                ELSE /\ main' = Idle
                     /\ IF exited THEN cleanupResources(s)
                                  ELSE UNCHANGED <<mShellPid, owner>>
       /\ UNCHANGED <<alive, shell, mTerminalFileDescriptor, ptyIn, ptyOut,
                      reader, writer, consumed, printed, crossed>>

\* The blocked main thread goes on once the queue has room, and if it came
\* from handleMessage does the rest of that.
continueWrite ==
    LET s == main.session
    IN /\ alive /\ main # Idle
       /\ toProcess[s] < QueueSize
       /\ Enqueue(s, Fits(s, main.left))
       /\ IF Fits(s, main.left) < main.left
          THEN /\ main' = [main EXCEPT !.left = @ - Fits(s, main.left)]
               /\ UNCHANGED <<mShellPid, owner>>
          ELSE /\ main' = Idle
               /\ IF main.exiting THEN cleanupResources(s)
                                  ELSE UNCHANGED <<mShellPid, owner>>
       /\ UNCHANGED <<alive, messages, shell, mTerminalFileDescriptor,
                      toTerminal, ptyIn, ptyOut, reader, writer, consumed,
                      printed, displayed, crossed>>

\* SIGKILL to mShellPid.  Pid 0 is the app's own process group; a pid that has
\* been waited for belongs to nobody or to a stranger.
finishIfRunning(s) ==
    /\ alive /\ main = Idle
    /\ mShellPid[s] # -1
    /\ alive' = (mShellPid[s] # 0)
    /\ shell' = IF shell[s] = "running" THEN [shell EXCEPT ![s] = "zombie"] ELSE shell
    /\ UNCHANGED <<messages, main, mShellPid, owner, mTerminalFileDescriptor,
                   queues, reader, writer, histories>>

------------------------------------------------------------------------------
(* TermSessionInputReader.  Android's file streams do not own a descriptor they
   are given, so a thread that ends leaves it open. *)

Move(thread, s, t) == thread' = [thread EXCEPT ![s] = t]

\* The pty a thread of s reaches through its descriptor: that of whichever
\* session the number belongs to now.
Reached(s) == owner[mTerminalFileDescriptor[s]]

ReaderUnchanged == UNCHANGED <<alive, main, mShellPid, shell, owner,
    mTerminalFileDescriptor, toProcess, ptyIn, writer, typed, consumed, printed,
    displayed>>

ReaderOpensFile(s) ==
    /\ alive /\ reader[s].at = "file"
    /\ Move(reader, s, IF Reached(s) = NoSession THEN Ended
                       ELSE Thread("syscall", 0, Reached(s)))
    /\ crossed' = crossed \cup ({Reached(s)} \ {s, NoSession})
    /\ UNCHANGED <<messages, toTerminal, ptyOut>>
    /\ ReaderUnchanged

\* read returns what the pty holds, or fails once the shell is gone and the
\* pty empty.
ReaderReads(s) ==
    LET o == reader[s].on
        n == SmallerOf(ReadLength, ptyOut[o])
    IN /\ alive /\ reader[s].at = "syscall"
       /\ \/ /\ ptyOut[o] > 0
             /\ Move(reader, s, Thread("queue", n, o))
             /\ ptyOut' = [ptyOut EXCEPT ![o] = @ - n]
          \/ /\ ptyOut[o] = 0 /\ shell[o] # "running"
             /\ Move(reader, s, Ended)
             /\ UNCHANGED ptyOut
       /\ UNCHANGED <<messages, toTerminal, crossed>>
       /\ ReaderUnchanged

ReaderEnqueues(s) ==
    LET n == SmallerOf(reader[s].bytes, QueueSize - toTerminal[s])
    IN /\ alive /\ reader[s].at = "queue"
       /\ \/ /\ Closed(s)
             /\ Move(reader, s, Ended)
             /\ UNCHANGED toTerminal
          \/ /\ ~Closed(s) /\ n > 0
             /\ toTerminal' = [toTerminal EXCEPT ![s] = @ + n]
             /\ Move(reader, s, Rest(reader[s], n, Thread("post", 0, NoSession)))
       /\ UNCHANGED <<messages, ptyOut, crossed>>
       /\ ReaderUnchanged

\* Mutant of ReaderPosts: only a full queue is announced.
ReaderPostsWhenFull(s) ==
    /\ alive /\ reader[s].at = "post"
    /\ messages' = IF toTerminal[s] < QueueSize THEN messages
                   ELSE Append(messages, [what |-> "NEW_INPUT", session |-> s])
    /\ Move(reader, s, Thread("file", 0, NoSession))
    /\ UNCHANGED <<toTerminal, ptyOut, crossed>>
    /\ ReaderUnchanged

ReaderPosts(s) ==
    /\ alive /\ reader[s].at = "post"
    /\ messages' = Append(messages, [what |-> "NEW_INPUT", session |-> s])
    /\ Move(reader, s, Thread("file", 0, NoSession))
    /\ UNCHANGED <<toTerminal, ptyOut, crossed>>
    /\ ReaderUnchanged

Reader(s) == ReaderOpensFile(s) \/ ReaderReads(s) \/ ReaderEnqueues(s) \/ ReaderPosts(s)

------------------------------------------------------------------------------
(* TermSessionOutputWriter *)

WriterUnchanged == UNCHANGED <<alive, messages, main, mShellPid, shell, owner,
    mTerminalFileDescriptor, toTerminal, ptyOut, reader, typed, consumed, printed,
    displayed>>

\* Mutant of WriterDequeues: the result -1 of a closed queue is not noticed.
WriterDequeuesForever(s) ==
    LET n == SmallerOf(ReadLength, toProcess[s])
    IN /\ alive /\ writer[s].at = "queue"
       /\ ~Closed(s) /\ n > 0
       /\ toProcess' = [toProcess EXCEPT ![s] = @ - n]
       /\ Move(writer, s, Thread("file", n, NoSession))
       /\ UNCHANGED <<ptyIn, crossed>>
       /\ WriterUnchanged

WriterDequeues(s) ==
    LET n == SmallerOf(ReadLength, toProcess[s])
    IN /\ alive /\ writer[s].at = "queue"
       /\ \/ /\ Closed(s)
             /\ Move(writer, s, Ended)
             /\ UNCHANGED toProcess
          \/ /\ ~Closed(s) /\ n > 0
             /\ toProcess' = [toProcess EXCEPT ![s] = @ - n]
             /\ Move(writer, s, Thread("file", n, NoSession))
       /\ UNCHANGED <<ptyIn, crossed>>
       /\ WriterUnchanged

WriterOpensFile(s) ==
    /\ alive /\ writer[s].at = "file"
    /\ Move(writer, s, IF Reached(s) = NoSession THEN Ended
                       ELSE [writer[s] EXCEPT !.at = "syscall", !.on = Reached(s)])
    /\ crossed' = crossed \cup ({Reached(s)} \ {s, NoSession})
    /\ UNCHANGED <<toProcess, ptyIn>>
    /\ WriterUnchanged

\* write puts its bytes into the pty as they fit, or fails once the shell is
\* gone; the thread then ends and leaves its queue open.
WriterWrites(s) ==
    LET o == writer[s].on
        n == SmallerOf(writer[s].bytes, PtyInSize - ptyIn[o])
    IN /\ alive /\ writer[s].at = "syscall"
       /\ \/ /\ shell[o] # "running"
             /\ Move(writer, s, Ended)
             /\ UNCHANGED ptyIn
          \/ /\ shell[o] = "running" /\ n > 0
             /\ ptyIn' = [ptyIn EXCEPT ![o] = @ + n]
             /\ Move(writer, s, Rest(writer[s], n, Thread("queue", 0, NoSession)))
       /\ UNCHANGED <<toProcess, crossed>>
       /\ WriterUnchanged

Writer(s) == WriterDequeues(s) \/ WriterOpensFile(s) \/ WriterWrites(s)

------------------------------------------------------------------------------
(* TermSessionWaiter and the shell *)

\* Mutant of Waiter: the wrong message is sent.
WaiterSendsInput(s) ==
    /\ alive /\ shell[s] = "zombie"
    /\ shell' = [shell EXCEPT ![s] = "reaped"]
    /\ messages' = Append(messages, [what |-> "NEW_INPUT", session |-> s])
    /\ UNCHANGED <<alive, main, mShellPid, owner, mTerminalFileDescriptor, queues,
                   reader, writer, histories>>

Waiter(s) ==
    /\ alive /\ shell[s] = "zombie"
    /\ shell' = [shell EXCEPT ![s] = "reaped"]
    /\ messages' = Append(messages, [what |-> "PROCESS_EXITED", session |-> s])
    /\ UNCHANGED <<alive, main, mShellPid, owner, mTerminalFileDescriptor, queues,
                   reader, writer, histories>>

ShellUnchanged == UNCHANGED <<alive, messages, main, mShellPid, owner,
    mTerminalFileDescriptor, toProcess, toTerminal, reader, writer, typed,
    displayed, crossed>>

\* A byte is read and echoed; as long as its output has no room a shell does
\* not read.
ShellEchoes(s) ==
    /\ shell[s] = "running"
    /\ ptyIn[s] > 0 /\ ptyOut[s] < PtyOutSize
    /\ ptyIn' = [ptyIn EXCEPT ![s] = @ - 1]
    /\ ptyOut' = [ptyOut EXCEPT ![s] = @ + 1]
    /\ consumed' = [consumed EXCEPT ![s] = @ + 1]
    /\ printed' = [printed EXCEPT ![s] = @ + 1]
    /\ UNCHANGED shell
    /\ ShellUnchanged

ShellPrints(s) ==
    /\ shell[s] = "running"
    /\ ptyOut[s] < PtyOutSize
    /\ printed[s] - consumed[s] < MaxOutput
    /\ ptyOut' = [ptyOut EXCEPT ![s] = @ + 1]
    /\ printed' = [printed EXCEPT ![s] = @ + 1]
    /\ UNCHANGED <<shell, ptyIn, consumed>>
    /\ ShellUnchanged

ShellExits(s) ==
    /\ shell[s] = "running"
    /\ shell' = [shell EXCEPT ![s] = "zombie"]
    /\ UNCHANGED <<ptyIn, ptyOut, consumed, printed>>
    /\ ShellUnchanged

Next ==
    \/ handleMessage
    \/ continueWrite
    \/ \E s \in Sessions :
          \/ initializeEmulator(s)
          \/ \E n \in WriteLengths : write(s, n)
          \/ finishIfRunning(s)
          \/ Reader(s)
          \/ Writer(s)
          \/ Waiter(s)
          \/ ShellEchoes(s) \/ ShellPrints(s) \/ ShellExits(s)

SafeSpec == Init /\ [][Next]_vars

\* The looper and the threads run, and a shell reads what it is sent as long as
\* it can echo it.  It need not print or exit, and the user need do nothing.
Fairness ==
    /\ WF_vars(handleMessage)
    /\ WF_vars(continueWrite)
    /\ \A s \in Sessions :
          WF_vars(Reader(s)) /\ WF_vars(Writer(s)) /\ WF_vars(Waiter(s))
          /\ WF_vars(ShellEchoes(s))

Spec == SafeSpec /\ Fairness

------------------------------------------------------------------------------
(* Properties *)

TypeOK ==
    /\ alive \in BOOLEAN
    /\ messages \in Seq([what : {"NEW_INPUT", "PROCESS_EXITED"}, session : Sessions])
    /\ main \in {Idle} \cup [session : Sessions, left : Nat \ {0}, exiting : BOOLEAN]
    /\ mShellPid \in [Sessions -> {-1, 0, 1}]
    /\ shell \in [Sessions -> {"none", "running", "zombie", "reaped"}]
    /\ owner \in [Descriptors -> Sessions \cup {NoSession}]
    /\ mTerminalFileDescriptor \in [Sessions -> Descriptors]
    /\ toProcess \in [Sessions -> 0..QueueSize]
    /\ toTerminal \in [Sessions -> 0..QueueSize]
    /\ ptyIn \in [Sessions -> 0..PtyInSize]
    /\ ptyOut \in [Sessions -> 0..PtyOutSize]
    /\ reader \in [Sessions -> [at : {"none", "file", "syscall", "queue", "post", "ended"},
                                bytes : 0..ReadLength, on : Sessions \cup {NoSession}]]
    /\ writer \in [Sessions -> [at : {"none", "file", "syscall", "queue", "ended"},
                                bytes : 0..ReadLength, on : Sessions \cup {NoSession}]]
    /\ typed \in [Sessions -> Nat] /\ consumed \in [Sessions -> Nat]
    /\ printed \in [Sessions -> Nat] /\ displayed \in [Sessions -> Nat]
    /\ crossed \subseteq Sessions

\* While a session is not finished, no output byte is lost or shown twice: what
\* its shell printed is in the pty, in the reader, in the queue or displayed.
\* (Unless a leftover thread of another session uses its pty.)
OutputConserved ==
    \A s \in Sessions \ crossed :
        ~Closed(s) => printed[s] = ptyOut[s] + reader[s].bytes + toTerminal[s] + displayed[s]

\* The same for the input, as long as the shell runs.
InputConserved ==
    \A s \in Sessions \ crossed :
        shell[s] = "running" =>
            typed[s] = toProcess[s] + writer[s].bytes + ptyIn[s] + consumed[s]

\* No output stays behind unannounced: bytes in the queue have a message on its
\* way, although a message takes no more than a buffer of them.
OutputAnnounced ==
    \A s \in Sessions :
        (toTerminal[s] > 0 /\ ~Closed(s)) =>
            \/ reader[s].at \in {"queue", "post"}
            \/ \E i \in DOMAIN messages : messages[i].session = s

\* "[Process completed" is the last thing a session shows: messages of its
\* reader that are handled later find the queue closed.
NothingAfterFinished ==
    [][\A s \in Sessions : Closed(s) => displayed'[s] = displayed[s]]_vars

\* The exit of a shell is reported (onSessionFinished), whatever its threads
\* were doing, unless the main thread is stuck in a write for good.
ExitReported ==
    \A s \in Sessions :
        \/ shell[s] = "zombie" ~> Closed(s)
        \/ <>[](main # Idle)
        \/ <>~alive

\* A write to a running shell returns, unless everyone waits on everyone: the
\* shell for room for its output, the reader for room in its queue, and the
\* main thread, which alone could make it, for room in the other queue.
Jammed(s) ==
    /\ main.session = s
    /\ toProcess[s] = QueueSize /\ ptyIn[s] = PtyInSize
    /\ ptyOut[s] = PtyOutSize /\ toTerminal[s] = QueueSize
    /\ reader[s].at = "queue"

WriteReturns ==
    \A s \in Sessions :
        main.session = s ~> \/ main.session # s
                            \/ Jammed(s)
                            \/ shell[s] # "running"
                            \/ ~alive

\* "Stop the reader and writer threads" (cleanupResources): both end after the
\* session is finished, also from the middle of a read or a write.
ThreadsStop ==
    \A s \in Sessions :
        (Closed(s) /\ crossed = {}) ~>
            \/ reader[s].at = "ended" /\ writer[s].at = "ended"
            \/ crossed # {} \/ ~alive

\* "Write data to the shell process": what a shell reads was written to its
\* own session.
ShellReadsOwnInput == \A s \in Sessions : consumed[s] <= typed[s]
==============================================================================
