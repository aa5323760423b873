-------------------------- MODULE PtySessionProofs --------------------------
(***************************************************************************)
(* Proofs about the local shell of both systems (MCPtySession): the        *)
(* inductive invariant behind ShellsSound, and that each driver implements *)
(* the promise PtyEvents states.                                           *)
(*                                                                         *)
(* The invariant says where the control thread may be while the child is   *)
(* in each of its states, that no output is lost on its way to a stream    *)
(* that is still read, that what the control thread takes for the end of   *)
(* its reader is that end, and that the inputs in the command channel are  *)
(* numbered on from those already handed over.                             *)
(***************************************************************************)
EXTENDS MCPtySession, SequenceTheorems, TLAPS
\* The phases of the control thread.
UnixPhases ==
    {"new", "opened", "ready", "reading", "loop", "unpublish", "reap", "close", "done"}
WindowsPhases ==
    {"new", "opened", "ready", "reading", "loop", "kill", "join", "drain", "close", "done"}

\* The commands the channel carries.
Command ==
    [do : {"input"}, arg : Nat] \cup [do : {"resize"}, arg : Sizes]
    \cup [do : {"shutdown", "reader done", "child exited"}, arg : {0}]

\* Where the threads and the child are.
Marks ==
    /\ os \in {"unix", "windows"}
    /\ reader \in {None, "read", "emit", "gone"}
    /\ writer \in {None, "wait", "write", "stopped"}
    /\ waiter \in {None, "waiting", "gone"}
    /\ shell \in {None, "running", "exited", "reaped"}
    /\ final \in {None, "Exited", "Error"}

Flags ==
    /\ pid \in BOOLEAN /\ ready \in BOOLEAN /\ receiver \in BOOLEAN
    /\ closing \in BOOLEAN /\ background \in BOOLEAN
    /\ console \in BOOLEAN /\ drained \in BOOLEAN /\ graceOver \in BOOLEAN

Numbers ==
    /\ winsize \in Sizes
    /\ published \in Nat /\ taken \in Nat /\ unread \in Nat /\ produced \in Nat
    /\ typed \in Nat /\ issued \in Nat

Queues == commands \in Seq(Command) /\ inputs \in Seq(Nat) /\ received \in Seq(Nat)

ShellTypes == Marks /\ Flags /\ Numbers /\ Queues

\* The stream's budget, and the bound on what is printed.
Bounded == taken <= published /\ published <= taken + Budget /\ produced <= MaxOutput

\* What the phase of the control thread says of the child and its ID (unix).
UnixChild ==
    os = "unix" =>
        /\ pc \in UnixPhases
        /\ pc = "new" => shell = None
        /\ pc \in {"opened", "ready", "reading", "loop", "unpublish", "reap"}
             => shell \in {"running", "exited"}
        /\ pc = "close" => shell = "reaped"
        /\ pid => pc \in {"opened", "ready", "reading", "loop", "unpublish"}

\* What the phase says of the child, the waiter and the console (windows).
WindowsChild ==
    os = "windows" =>
        /\ pc \in WindowsPhases
        /\ writer = None /\ inputs = << >>
        /\ pc = "new" => shell = None
        /\ pc \in {"new", "opened", "ready", "reading"} => waiter = None
        /\ pc \in {"opened", "ready", "reading"} => shell \in {"running", "exited"}
        /\ pc \in {"loop", "kill", "join"} => waiter # None
        /\ waiter = "waiting" => shell \in {"running", "exited"}
        /\ waiter = "gone" => shell = "reaped"
        /\ pc \in {"drain", "close"} => waiter = "gone"
        /\ pc \in {"new", "drain", "close", "done"} => ~console
        /\ final = "Exited" => waiter = "gone"

\* Ready comes before the reader is started, and Exited last.
Announced ==
    /\ pc \in {"new", "opened"} => ~ready
    /\ pc \notin {"new", "opened"} => ready \/ ~StreamOpen
    /\ pc \in {"new", "opened", "ready"} => reader = None
    /\ final = "Exited" => pc = "done"

\* No more output can come.
Silent == IF os = "unix" THEN ~SlaveHeld ELSE ~console

\* No piece of output is lost or added on its way to a stream that is read.
Balance ==
    /\ reader \in {None, "read"} => produced = published + unread
    /\ reader = "emit" => produced = published + unread + 1
    /\ reader = "gone" /\ StreamOpen => produced = published /\ unread = 0 /\ Silent

\* What the control thread takes for the reader's end is the reader's end.
Ends ==
    /\ os = "unix" /\ pc \in {"unpublish", "reap", "close"} /\ StreamOpen /\ ~closing /\ typed = 0
         => reader = "gone"
    /\ os = "windows" /\ drained => reader = "gone"
    /\ os = "windows" /\ pc = "close" /\ ~graceOver => reader = "gone"

\* Nobody speaks for the reader, the handle or the waiter but themselves.
Word ==
    \A k \in 1 .. Len(commands) :
        /\ commands[k].do = "reader done" => reader = "gone"
        /\ commands[k].do = "shutdown" => closing
        /\ commands[k].do = "child exited" => os = "windows"

\* All output was published before Exited.
AllOut ==
    /\ os = "unix" /\ final = "Exited" /\ ~closing /\ typed = 0
         => produced = published /\ Silent
    /\ os = "windows" /\ final = "Exited" /\ ~graceOver => produced = published

\* How much input was handed over.
Handed == Len(received) + Len(inputs)
\* Input is still handed over, or kept until it is.
Serving ==
    /\ pc \in {"new", "opened", "ready", "reading", "loop"}
    /\ os = "windows" => shell \in {None, "running"}

\* What was received and what the writer holds is numbered without a gap.
Numbered ==
    /\ \A i \in 1 .. Len(received) : received[i] = i
    /\ \A i \in 1 .. Len(inputs) : inputs[i] = Len(received) + i
    /\ writer = "write" => inputs # << >>

\* The inputs that wait are numbered on from those handed over, up to the last
\* one sent.
InLine ==
    /\ Handed <= typed
    /\ \A k \in 1 .. Len(commands) :
           commands[k].do = "input" => commands[k].arg \in Handed + 1 .. typed
    /\ \A k \in 1 .. Len(commands) : \A j \in 1 .. k - 1 :
           commands[j].do = "input" /\ commands[k].do = "input"
             => commands[j].arg < commands[k].arg
    /\ \A n \in Handed + 1 .. typed : \E k \in 1 .. Len(commands) : commands[k] = Input(n)
Queued == Serving => InLine

ShellInv ==
    /\ ShellTypes /\ Bounded /\ UnixChild /\ WindowsChild /\ Announced /\ Balance
    /\ Ends /\ Word /\ AllOut /\ Numbered /\ Queued
USE PtyAssumption DEF None, OnUnix, OnWindows, NotUnix, streamVars, kernelVars, handleVars,
                      consoleVars, vars
-----------------------------------------------------------------------------
(* Commands, and sequences.                                                *)
\* What each command carries.
LEMMA Commanded ==
    /\ \A n \in Nat : Input(n) \in Command
    /\ \A s \in Sizes : ResizeTo(s) \in Command
    /\ \A w \in {"shutdown", "reader done", "child exited"} : Plain(w) \in Command
    /\ \A c \in Command : /\ c.do = "input" => c.arg \in Nat
                          /\ c.do = "resize" => c.arg \in Sizes
BY DEF Command, Input, ResizeTo, Plain

\* A reader that leaves is gone.
LEMMA Leaving == ReaderGone => reader' = "gone"
BY DEF ReaderGone

\* What the invariant says of the command the control thread takes next.
LEMMA FirstCommand ==
    ASSUME ShellInv, commands # << >>
    PROVE  /\ Head(commands) = commands[1] /\ 1 \in 1 .. Len(commands)
           /\ Head(commands) \in Command /\ Tail(commands) \in Seq(Command)
           /\ Head(commands).do = "input" => Head(commands).arg \in Nat
           /\ Head(commands).do = "resize" => Head(commands).arg \in Sizes
           /\ Head(commands).do = "reader done" => reader = "gone"
           /\ Head(commands).do = "shutdown" => closing
           /\ os = "unix" /\ pc = "loop" /\ Head(commands).do = "input" => typed > 0
<1>1. commands \in Seq(Command)
  BY DEF ShellInv, ShellTypes, Queues
<1>2. /\ Head(commands) = commands[1] /\ 1 \in 1 .. Len(commands)
      /\ Head(commands) \in Command /\ Tail(commands) \in Seq(Command)
  BY <1>1
<1>3. commands[1].do = "input" /\ os = "unix" /\ pc = "loop" => typed > 0
  <2>1. Handed \in Nat
    BY DEF ShellInv, ShellTypes, Queues, Handed
  <2>. QED  BY <1>2, <2>1 DEF ShellInv, ShellTypes, Numbers, Queued, InLine, Serving
<1>. QED  BY <1>2, <1>3, Commanded DEF ShellInv, Word
-----------------------------------------------------------------------------
(* The flags stay flags.                                                   *)

LEMMA UnixKeepFlags == ASSUME ShellInv, OnUnix(Next) PROVE Flags'
<1> USE DEF ShellInv, ShellTypes, Flags, StreamOpen, Close
<1>1. CASE OnUnix(HandleStep)
  BY <1>1 DEF HandleStep, SendInput, Resize, Shutdown, Issue
<1>2. CASE OnUnix(TakeOutput)
  BY <1>2 DEF TakeOutput
<1>3. CASE OnUnix(DropReceiver)
  BY <1>3 DEF DropReceiver
<1>4. CASE OnUnix(CannotOpen)
  BY <1>4 DEF CannotOpen
<1>5. CASE OnUnix(Open)
  BY <1>5 DEF Open
<1>6. CASE OnUnix(SetUpFails)
  BY <1>6 DEF SetUpFails
<1>7. CASE OnUnix(EmitReady)
  BY <1>7 DEF EmitReady
<1>8. CASE OnUnix(SpawnReader)
  BY <1>8 DEF SpawnReader
<1>9. CASE OnUnix(SpawnWriter)
  BY <1>9 DEF SpawnWriter
<1>10. CASE OnUnix(TakeCommand)
  BY <1>10 DEF TakeCommand, HandOver
<1>11. CASE OnUnix(Unpublish)
  BY <1>11 DEF Unpublish
<1>12. CASE OnUnix(Reap)
  BY <1>12 DEF Reap
<1>13. CASE OnUnix(CloseOut)
  BY <1>13 DEF CloseOut
<1>14. CASE OnUnix(Read)
  BY <1>14, Leaving DEF Read, EndOfStream
<1>15. CASE OnUnix(Emit)
  BY <1>15, Leaving DEF Emit, Room
<1>16. CASE OnUnix(TakeInput)
  BY <1>16 DEF TakeInput
<1>17. CASE OnUnix(Write)
  BY <1>17 DEF Write
<1>18. CASE OnUnix(WriterEnds)
  BY <1>18 DEF WriterEnds
<1>19. CASE OnUnix(KernelStep)
  BY <1>19 DEF KernelStep, PrintOutput, ShellExits, BackgroundEnds
<1>20. CASE OnUnix(Done)
  BY <1>20 DEF Done
<1>. QED  BY <1>1, <1>2, <1>3, <1>4, <1>5, <1>6, <1>7, <1>8, <1>9, <1>10, <1>11, <1>12, <1>13,
   <1>14, <1>15, <1>16, <1>17, <1>18, <1>19, <1>20 DEF Next, Control

LEMMA WindowsKeepFlags == ASSUME ShellInv, OnWindows(ConsoleNext) PROVE Flags'
<1> USE DEF ShellInv, ShellTypes, Flags, StreamOpen, Close
<1>1. CASE OnWindows(ConsoleHandle)
  BY <1>1 DEF ConsoleHandle, HandleStep, SendInput, Resize, Shutdown, Issue
<1>2. CASE OnWindows(ConsoleReader)
  BY <1>2 DEF ConsoleReader, TakeOutput, DropReceiver
<1>3. CASE OnWindows(OpenConsole)
  BY <1>3 DEF OpenConsole
<1>4. CASE OnWindows(ConsoleFails)
  BY <1>4 DEF ConsoleFails, CannotOpen
<1>5. CASE OnWindows(NoReader)
  BY <1>5 DEF NoReader
<1>6. CASE OnWindows(NoWaiter)
  BY <1>6 DEF NoWaiter
<1>7. CASE OnWindows(ConsoleReady)
  BY <1>7 DEF ConsoleReady, EmitReady
<1>8. CASE OnWindows(ReadConsole)
  BY <1>8 DEF ReadConsole, SpawnReader
<1>9. CASE OnWindows(SpawnWaiter)
  BY <1>9 DEF SpawnWaiter
<1>10. CASE OnWindows(ServeConsole)
  BY <1>10, FirstCommand DEF ServeConsole, WriteInput, ResizeConsole, EndLoop
<1>11. CASE OnWindows(Kill)
  BY <1>11 DEF Kill
<1>12. CASE OnWindows(HangUp)
  BY <1>12 DEF HangUp
<1>13. CASE OnWindows(AwaitReader)
  BY <1>13, FirstCommand DEF AwaitReader
<1>14. CASE OnWindows(CloseConsole)
  BY <1>14 DEF CloseConsole, CloseOut
<1>15. CASE OnWindows(GraceOver)
  BY <1>15 DEF GraceOver
<1>16. CASE OnWindows(Wait)
  BY <1>16 DEF Wait
<1>17. CASE OnWindows(ConsoleRead)
  BY <1>17, Leaving DEF ConsoleRead
<1>18. CASE OnWindows(ConsoleEmit)
  BY <1>18, Leaving DEF ConsoleEmit, Emit, Room
<1>19. CASE OnWindows(ConsoleStep)
  BY <1>19 DEF ConsoleStep, PrintOutput, ShellExits, BackgroundEnds
<1>. QED  BY <1>1, <1>2, <1>3, <1>4, <1>5, <1>6, <1>7, <1>8, <1>9, <1>10, <1>11, <1>12, <1>13,
   <1>14, <1>15, <1>16, <1>17, <1>18, <1>19 DEF ConsoleNext, SetUpConsole, ControlConsole
-----------------------------------------------------------------------------
(* The phases of the control thread, the child and the threads go together. *)
Course == Marks /\ UnixChild /\ WindowsChild /\ Announced

LEMMA UnixKeepCourse == ASSUME ShellInv, OnUnix(Next) PROVE Course'
<1> USE DEF ShellInv, ShellTypes, Course, Marks, UnixChild, WindowsChild, Announced, Flags,
   UnixPhases, WindowsPhases, StreamOpen, Close, Silent, SlaveHeld
<1>1. CASE OnUnix(HandleStep)
  BY <1>1 DEF HandleStep, SendInput, Resize, Shutdown, Issue
<1>2. CASE OnUnix(TakeOutput)
  BY <1>2 DEF TakeOutput
<1>3. CASE OnUnix(DropReceiver)
  BY <1>3 DEF DropReceiver
<1>4. CASE OnUnix(CannotOpen)
  BY <1>4 DEF CannotOpen
<1>5. CASE OnUnix(Open)
  BY <1>5 DEF Open
<1>6. CASE OnUnix(SetUpFails)
  BY <1>6 DEF SetUpFails
<1>7. CASE OnUnix(EmitReady)
  BY <1>7 DEF EmitReady
<1>8. CASE OnUnix(SpawnReader)
  BY <1>8 DEF SpawnReader
<1>9. CASE OnUnix(SpawnWriter)
  BY <1>9 DEF SpawnWriter
<1>10. CASE OnUnix(TakeCommand)
  <2>1. pc = "loop" /\ pc' \in {"loop", "unpublish"}
    BY <1>10 DEF TakeCommand, HandOver
  <2>2. UNCHANGED <<reader, writer, pid, streamVars, shell, background, handleVars, consoleVars,
                   os>>
    BY <1>10 DEF TakeCommand
  <2>. QED  BY <2>1, <2>2
<1>11. CASE OnUnix(Unpublish)
  BY <1>11 DEF Unpublish
<1>12. CASE OnUnix(Reap)
  BY <1>12 DEF Reap
<1>13. CASE OnUnix(CloseOut)
  BY <1>13 DEF CloseOut
<1>14. CASE OnUnix(Read)
  BY <1>14, Leaving DEF Read, EndOfStream
<1>15. CASE OnUnix(Emit)
  BY <1>15, Leaving DEF Emit, Room
<1>16. CASE OnUnix(TakeInput)
  BY <1>16 DEF TakeInput
<1>17. CASE OnUnix(Write)
  BY <1>17 DEF Write
<1>18. CASE OnUnix(WriterEnds)
  BY <1>18 DEF WriterEnds
<1>19. CASE OnUnix(KernelStep)
  BY <1>19 DEF KernelStep, PrintOutput, ShellExits, BackgroundEnds
<1>20. CASE OnUnix(Done)
  BY <1>20 DEF Done
<1>. QED  BY <1>1, <1>2, <1>3, <1>4, <1>5, <1>6, <1>7, <1>8, <1>9, <1>10, <1>11, <1>12, <1>13,
   <1>14, <1>15, <1>16, <1>17, <1>18, <1>19, <1>20 DEF Next, Control

LEMMA WindowsKeepCourse == ASSUME ShellInv, OnWindows(ConsoleNext) PROVE Course'
<1> USE DEF ShellInv, ShellTypes, Course, Marks, UnixChild, WindowsChild, Announced, Flags,
   UnixPhases, WindowsPhases, StreamOpen, Close, Silent, SlaveHeld
<1>1. CASE OnWindows(ConsoleHandle)
  BY <1>1 DEF ConsoleHandle, HandleStep, SendInput, Resize, Shutdown, Issue
<1>2. CASE OnWindows(ConsoleReader)
  BY <1>2 DEF ConsoleReader, TakeOutput, DropReceiver
<1>3. CASE OnWindows(OpenConsole)
  BY <1>3 DEF OpenConsole
<1>4. CASE OnWindows(ConsoleFails)
  BY <1>4 DEF ConsoleFails, CannotOpen
<1>5. CASE OnWindows(NoReader)
  BY <1>5 DEF NoReader
<1>6. CASE OnWindows(NoWaiter)
  BY <1>6 DEF NoWaiter
<1>7. CASE OnWindows(ConsoleReady)
  BY <1>7 DEF ConsoleReady, EmitReady
<1>8. CASE OnWindows(ReadConsole)
  BY <1>8 DEF ReadConsole, SpawnReader
<1>9. CASE OnWindows(SpawnWaiter)
  BY <1>9 DEF SpawnWaiter
<1>10. CASE OnWindows(ServeConsole)
  BY <1>10, FirstCommand DEF ServeConsole, WriteInput, ResizeConsole, EndLoop
<1>11. CASE OnWindows(Kill)
  BY <1>11 DEF Kill
<1>12. CASE OnWindows(HangUp)
  BY <1>12 DEF HangUp
<1>13. CASE OnWindows(AwaitReader)
  BY <1>13, FirstCommand DEF AwaitReader
<1>14. CASE OnWindows(CloseConsole)
  BY <1>14 DEF CloseConsole, CloseOut
<1>15. CASE OnWindows(GraceOver)
  BY <1>15 DEF GraceOver
<1>16. CASE OnWindows(Wait)
  BY <1>16 DEF Wait
<1>17. CASE OnWindows(ConsoleRead)
  BY <1>17, Leaving DEF ConsoleRead
<1>18. CASE OnWindows(ConsoleEmit)
  BY <1>18, Leaving DEF ConsoleEmit, Emit, Room
<1>19. CASE OnWindows(ConsoleStep)
  BY <1>19 DEF ConsoleStep, PrintOutput, ShellExits, BackgroundEnds
<1>. QED  BY <1>1, <1>2, <1>3, <1>4, <1>5, <1>6, <1>7, <1>8, <1>9, <1>10, <1>11, <1>12, <1>13,
   <1>14, <1>15, <1>16, <1>17, <1>18, <1>19 DEF ConsoleNext, SetUpConsole, ControlConsole
-----------------------------------------------------------------------------
(* No output is lost before Exited.                                        *)
Output == Numbers /\ Bounded /\ Balance /\ Ends /\ AllOut

LEMMA UnixKeepOutput == ASSUME ShellInv, OnUnix(Next) PROVE Output'
<1> USE DEF ShellInv, ShellTypes, Output, Numbers, Bounded, Balance, Ends, AllOut, Marks, Flags,
   Announced, UnixChild, WindowsChild, StreamOpen, Close, Silent, SlaveHeld
<1>1. CASE OnUnix(HandleStep)
  BY <1>1 DEF HandleStep, SendInput, Resize, Shutdown, Issue
<1>2. CASE OnUnix(TakeOutput)
  BY <1>2 DEF TakeOutput
<1>3. CASE OnUnix(DropReceiver)
  BY <1>3 DEF DropReceiver
<1>4. CASE OnUnix(CannotOpen)
  BY <1>4 DEF CannotOpen
<1>5. CASE OnUnix(Open)
  BY <1>5 DEF Open
<1>6. CASE OnUnix(SetUpFails)
  BY <1>6 DEF SetUpFails
<1>7. CASE OnUnix(EmitReady)
  BY <1>7 DEF EmitReady
<1>8. CASE OnUnix(SpawnReader)
  BY <1>8 DEF SpawnReader
<1>9. CASE OnUnix(SpawnWriter)
  BY <1>9 DEF SpawnWriter
<1>10. CASE OnUnix(TakeCommand)
  <2>1. winsize' \in Sizes
    BY <1>10, FirstCommand DEF TakeCommand
  <2>2. /\ pc = "loop"
        /\ \/ pc' = "loop"
           \/ pc' = "unpublish" /\ (closing \/ typed > 0 \/ reader = "gone")
    BY <1>10, FirstCommand DEF TakeCommand, HandOver
  <2>3. UNCHANGED <<reader, writer, pid, streamVars, shell, background, produced, unread, received,
                   handleVars, consoleVars, os>>
    BY <1>10 DEF TakeCommand
  <2>. QED  BY <2>1, <2>2, <2>3
<1>11. CASE OnUnix(Unpublish)
  BY <1>11 DEF Unpublish
<1>12. CASE OnUnix(Reap)
  BY <1>12 DEF Reap
<1>13. CASE OnUnix(CloseOut)
  BY <1>13 DEF CloseOut
<1>14. CASE OnUnix(Read)
  BY <1>14, Leaving DEF Read, EndOfStream
<1>15. CASE OnUnix(Emit)
  BY <1>15, Leaving DEF Emit, Room
<1>16. CASE OnUnix(TakeInput)
  BY <1>16 DEF TakeInput
<1>17. CASE OnUnix(Write)
  BY <1>17 DEF Write
<1>18. CASE OnUnix(WriterEnds)
  BY <1>18 DEF WriterEnds
<1>19. CASE OnUnix(KernelStep)
  BY <1>19 DEF KernelStep, PrintOutput, ShellExits, BackgroundEnds
<1>20. CASE OnUnix(Done)
  BY <1>20 DEF Done
<1>. QED  BY <1>1, <1>2, <1>3, <1>4, <1>5, <1>6, <1>7, <1>8, <1>9, <1>10, <1>11, <1>12, <1>13,
   <1>14, <1>15, <1>16, <1>17, <1>18, <1>19, <1>20 DEF Next, Control

LEMMA WindowsKeepOutput == ASSUME ShellInv, OnWindows(ConsoleNext) PROVE Output'
<1> USE DEF ShellInv, ShellTypes, Output, Numbers, Bounded, Balance, Ends, AllOut, Marks, Flags,
   Announced, UnixChild, WindowsChild, StreamOpen, Close, Silent, SlaveHeld
<1>1. CASE OnWindows(ConsoleHandle)
  BY <1>1 DEF ConsoleHandle, HandleStep, SendInput, Resize, Shutdown, Issue
<1>2. CASE OnWindows(ConsoleReader)
  BY <1>2 DEF ConsoleReader, TakeOutput, DropReceiver
<1>3. CASE OnWindows(OpenConsole)
  BY <1>3 DEF OpenConsole
<1>4. CASE OnWindows(ConsoleFails)
  BY <1>4 DEF ConsoleFails, CannotOpen
<1>5. CASE OnWindows(NoReader)
  BY <1>5 DEF NoReader
<1>6. CASE OnWindows(NoWaiter)
  BY <1>6 DEF NoWaiter
<1>7. CASE OnWindows(ConsoleReady)
  BY <1>7 DEF ConsoleReady, EmitReady
<1>8. CASE OnWindows(ReadConsole)
  BY <1>8 DEF ReadConsole, SpawnReader
<1>9. CASE OnWindows(SpawnWaiter)
  BY <1>9 DEF SpawnWaiter
<1>10. CASE OnWindows(ServeConsole)
  BY <1>10, FirstCommand DEF ServeConsole, WriteInput, ResizeConsole, EndLoop
<1>11. CASE OnWindows(Kill)
  BY <1>11 DEF Kill
<1>12. CASE OnWindows(HangUp)
  BY <1>12 DEF HangUp
<1>13. CASE OnWindows(AwaitReader)
  BY <1>13, FirstCommand DEF AwaitReader
<1>14. CASE OnWindows(CloseConsole)
  BY <1>14 DEF CloseConsole, CloseOut
<1>15. CASE OnWindows(GraceOver)
  BY <1>15 DEF GraceOver
<1>16. CASE OnWindows(Wait)
  BY <1>16 DEF Wait
<1>17. CASE OnWindows(ConsoleRead)
  BY <1>17, Leaving DEF ConsoleRead
<1>18. CASE OnWindows(ConsoleEmit)
  BY <1>18, Leaving DEF ConsoleEmit, Emit, Room
<1>19. CASE OnWindows(ConsoleStep)
  BY <1>19 DEF ConsoleStep, PrintOutput, ShellExits, BackgroundEnds
<1>. QED  BY <1>1, <1>2, <1>3, <1>4, <1>5, <1>6, <1>7, <1>8, <1>9, <1>10, <1>11, <1>12, <1>13,
   <1>14, <1>15, <1>16, <1>17, <1>18, <1>19 DEF ConsoleNext, SetUpConsole, ControlConsole
-----------------------------------------------------------------------------
\* A step adds c to the command channel, takes its first, or leaves it alone.
Adds(c) ==
    /\ commands' = Append(commands, c) /\ Handed' = Handed
    /\ typed' = IF c.do = "input" THEN typed + 1 ELSE typed
    /\ c.do = "input" => c = Input(typed + 1)
    /\ c.do = "reader done" => reader' = "gone"
    /\ c.do = "shutdown" => closing'
    /\ c.do = "child exited" => os = "windows"

Takes ==
    /\ commands # << >> /\ commands' = Tail(commands) /\ typed' = typed
    /\ Serving' => Handed' = IF Head(commands).do = "input" THEN Handed + 1 ELSE Handed

Rests == commands' = commands /\ typed' = typed /\ Handed' = Handed

\* Nothing is handed over while the queues of input rest.
LEMMA SameHands == ASSUME UNCHANGED <<received, inputs>> PROVE Handed' = Handed
BY DEF Handed

\* Every call of the handle adds one command.
LEMMA Issues ==
    ASSUME ShellInv, HandleStep, UNCHANGED <<received, inputs, os, reader>>
    PROVE  \E c \in Command : Adds(c)
<1>0. typed + 1 \in Nat
  BY DEF ShellInv, ShellTypes, Numbers
<1>1. CASE SendInput
  <2>1. /\ Input(typed + 1).do = "input"
        /\ typed' = typed + 1 /\ commands' = Append(commands, Input(typed + 1))
    BY <1>1 DEF SendInput, Issue, Input
  <2>2. Adds(Input(typed + 1))
    BY <2>1, SameHands DEF Adds
  <2>. QED  BY <1>0, <2>2, Commanded
<1>2. ASSUME NEW s \in Sizes, Resize(s) PROVE \E c \in Command : Adds(c)
  <2>1. /\ ResizeTo(s).do = "resize"
        /\ typed' = typed /\ commands' = Append(commands, ResizeTo(s))
    BY <1>2 DEF Resize, Issue, ResizeTo
  <2>2. Adds(ResizeTo(s))
    BY <2>1, SameHands DEF Adds
  <2>. QED  BY <2>2, Commanded
<1>3. CASE Shutdown
  <2>1. /\ Plain("shutdown").do = "shutdown"
        /\ typed' = typed /\ closing' /\ commands' = Append(commands, Plain("shutdown"))
    BY <1>3 DEF Shutdown, Plain
  <2>2. Adds(Plain("shutdown"))
    BY <2>1, SameHands DEF Adds
  <2>. QED  BY <2>2, Commanded
<1>. QED  BY <1>1, <1>2, <1>3 DEF HandleStep

\* The reader's and the waiter's word is a command as well.
LEMMA Reports ==
    ASSUME ShellInv, UNCHANGED <<received, inputs, typed, os>>,
           NEW w \in {"reader done", "child exited"},
           commands' = Append(commands, Plain(w)),
           w = "reader done" => reader' = "gone", w = "child exited" => os = "windows"
    PROVE  \E c \in Command : Adds(c)
<1>1. Plain(w).do = w
  BY DEF Plain
<1>2. Adds(Plain(w))
  BY <1>1, SameHands DEF Adds
<1>. QED  BY <1>2, Commanded

LEMMA LeavingReports ==
    ASSUME ShellInv, ReaderGone, UNCHANGED <<received, inputs, typed, os>>
    PROVE  \E c \in Command : Adds(c)
<1>1. reader' = "gone" /\ commands' = Append(commands, Plain("reader done"))
  BY DEF ReaderGone
<1>. QED  BY <1>1, Reports

\* Every step leaves the command channel alone, takes its first, or adds one.
LEMMA UnixQueue ==
    ASSUME ShellInv, OnUnix(Next)
    PROVE  Rests \/ Takes \/ \E c \in Command : Adds(c)
<1>1. CASE HandleStep
  BY <1>1, Issues DEF HandleStep
<1>2. CASE Read \/ Emit
  <2>1. CASE ReaderGone
    BY <1>2, <2>1, LeavingReports DEF Read, Emit
  <2>2. CASE UNCHANGED commands
    BY <1>2, <2>2, SameHands DEF Read, Emit, Rests
  <2>. QED  BY <1>2, <2>1, <2>2 DEF Read, Emit
<1>3. CASE TakeCommand
  <2>1. /\ commands # << >> /\ commands' = Tail(commands) /\ typed' = typed
        /\ received' = received
    BY <1>3 DEF TakeCommand
  <2>2. ASSUME Serving'
        PROVE  Handed' = IF Head(commands).do = "input" THEN Handed + 1 ELSE Handed
    <3>1. CASE Head(commands).do = "input"
      <4>1. HandOver(Head(commands).arg)
        BY <1>3, <3>1 DEF TakeCommand
      <4>2. pc' # "unpublish"
        BY <2>2 DEF Serving
      <4>3. inputs' = Append(inputs, Head(commands).arg)
        BY <4>1, <4>2 DEF HandOver
      <4>4. Head(commands).arg \in Nat
        BY <2>1, <3>1, FirstCommand
      <4>5. Len(inputs') = Len(inputs) + 1
        BY <4>3, <4>4 DEF ShellInv, ShellTypes, Queues
      <4>. QED  BY <2>1, <3>1, <4>5 DEF Handed, ShellInv, ShellTypes, Queues
    <3>2. CASE Head(commands).do # "input"
      <4>1. inputs' = inputs
        BY <1>3, <3>2 DEF TakeCommand
      <4>. QED  BY <2>1, <3>2, <4>1 DEF Handed
    <3>. QED  BY <3>1, <3>2
  <2>. QED  BY <2>1, <2>2 DEF Takes
<1>4. CASE Write
  <2>1. CASE UNCHANGED <<inputs, received>>
    BY <1>4, <2>1, SameHands DEF Write, Rests
  <2>2. CASE received' = Append(received, Head(inputs)) /\ inputs' = Tail(inputs)
    <3>1. inputs # << >>
      BY <1>4 DEF Write, ShellInv, Numbered
    <3>2. Len(received') = Len(received) + 1 /\ Len(inputs') = Len(inputs) - 1
      BY <2>2, <3>1 DEF ShellInv, ShellTypes, Queues
    <3>3. Handed' = Handed
      BY <3>2 DEF Handed, ShellInv, ShellTypes, Queues
    <3>. QED  BY <1>4, <3>3 DEF Write, Rests
  <2>. QED  BY <1>4, <2>1, <2>2 DEF Write
<1>5. CASE \/ TakeOutput \/ DropReceiver \/ CannotOpen \/ Open \/ SetUpFails \/ EmitReady
           \/ SpawnReader \/ SpawnWriter \/ Unpublish \/ Reap \/ CloseOut \/ TakeInput
           \/ WriterEnds \/ KernelStep \/ Done
  <2>1. UNCHANGED <<commands, typed, received, inputs>>
    BY <1>5 DEF TakeOutput, DropReceiver, CannotOpen, Open, SetUpFails, EmitReady, SpawnReader,
                SpawnWriter, Unpublish, Reap, CloseOut, TakeInput, WriterEnds, KernelStep,
                PrintOutput, ShellExits, BackgroundEnds, Done
  <2>. QED  BY <2>1, SameHands DEF Rests
<1>. QED  BY <1>1, <1>2, <1>3, <1>4, <1>5 DEF Next, Control

LEMMA WindowsQueue ==
    ASSUME ShellInv, OnWindows(ConsoleNext)
    PROVE  Rests \/ Takes \/ \E c \in Command : Adds(c)
<1>1. CASE ConsoleHandle
  BY <1>1, Issues DEF ConsoleHandle, HandleStep
<1>2. CASE ConsoleRead \/ ConsoleEmit
  <2>1. CASE ReaderGone
    BY <1>2, <2>1, LeavingReports DEF ConsoleRead, ConsoleEmit, Emit
  <2>2. CASE UNCHANGED commands
    BY <1>2, <2>2, SameHands DEF ConsoleRead, ConsoleEmit, Emit, Rests
  <2>. QED  BY <1>2, <2>1, <2>2 DEF ConsoleRead, ConsoleEmit, Emit
<1>3. CASE Wait
  <2>1. commands' = Append(commands, Plain("child exited"))
    BY <1>3 DEF Wait
  <2>. QED  BY <1>3, <2>1, Reports DEF Wait
<1>4. CASE ServeConsole
  <2>1. /\ commands # << >> /\ commands' = Tail(commands) /\ typed' = typed
        /\ inputs' = inputs /\ shell' = shell
    BY <1>4 DEF ServeConsole
  <2>2. ASSUME Serving'
        PROVE  Handed' = IF Head(commands).do = "input" THEN Handed + 1 ELSE Handed
    <3>1. CASE Head(commands).do = "input"
      <4>1. shell = "running"
        <5>1. shell' \in {None, "running"} /\ pc = "loop" /\ os = "windows"
          BY <1>4, <2>2 DEF ServeConsole, Serving
        <5>. QED  BY <2>1, <5>1 DEF ShellInv, ShellTypes, Marks, WindowsChild
      <4>2. WriteInput(Head(commands).arg)
        BY <1>4, <3>1 DEF ServeConsole
      <4>3. received' = Append(received, Head(commands).arg)
        BY <4>1, <4>2 DEF WriteInput
      <4>4. Head(commands).arg \in Nat
        BY <2>1, <3>1, FirstCommand
      <4>5. Len(received') = Len(received) + 1
        BY <4>3, <4>4 DEF ShellInv, ShellTypes, Queues
      <4>. QED  BY <2>1, <3>1, <4>5 DEF Handed, ShellInv, ShellTypes, Queues
    <3>2. CASE Head(commands).do # "input"
      <4>1. received' = received
        BY <1>4, <3>2 DEF ServeConsole, ResizeConsole, EndLoop
      <4>. QED  BY <2>1, <3>2, <4>1 DEF Handed
    <3>. QED  BY <3>1, <3>2
  <2>. QED  BY <2>1, <2>2 DEF Takes
<1>5. CASE AwaitReader
  <2>1. ~Serving'
    BY <1>5 DEF AwaitReader, Serving
  <2>. QED  BY <1>5, <2>1 DEF AwaitReader, Takes
<1>6. CASE \/ ConsoleReader \/ OpenConsole \/ ConsoleFails \/ ConsoleReady \/ ReadConsole
           \/ NoReader \/ SpawnWaiter \/ NoWaiter \/ Kill \/ HangUp \/ GraceOver
           \/ CloseConsole \/ ConsoleStep
  <2>1. UNCHANGED <<commands, typed, received, inputs>>
    BY <1>6 DEF ConsoleReader, TakeOutput, DropReceiver, OpenConsole, ConsoleFails, CannotOpen,
                ConsoleReady, EmitReady, ReadConsole, SpawnReader, NoReader, SpawnWaiter,
                NoWaiter, Kill, HangUp, GraceOver, CloseConsole, CloseOut, ConsoleStep,
                PrintOutput, ShellExits, BackgroundEnds
  <2>. QED  BY <2>1, SameHands DEF Rests
<1>. QED  BY <1>1, <1>2, <1>3, <1>4, <1>5, <1>6 DEF ConsoleNext, SetUpConsole, ControlConsole
-----------------------------------------------------------------------------
Onward ==
    /\ os' = os
    /\ Serving' => Serving
    /\ closing => closing'
    /\ reader = "gone" => reader' = "gone"

\* The phases only move on, and what is known stays known.
LEMMA UnixOnward == ASSUME ShellInv, OnUnix(Next) PROVE Onward
<1> USE Leaving DEF ShellInv, ShellTypes, Marks, Flags, UnixChild, Announced, Onward, Serving
<1>1. CASE \/ HandleStep \/ TakeOutput \/ DropReceiver \/ CannotOpen \/ Open \/ SetUpFails
           \/ EmitReady \/ SpawnReader \/ SpawnWriter
  BY <1>1 DEF HandleStep, SendInput, Resize, Shutdown, Issue, TakeOutput, DropReceiver,
              CannotOpen, Open, SetUpFails, EmitReady, SpawnReader, SpawnWriter
<1>2. CASE TakeCommand
  BY <1>2 DEF TakeCommand, HandOver
<1>3. CASE \/ Unpublish \/ Reap \/ CloseOut \/ Read \/ Emit \/ TakeInput \/ Write \/ WriterEnds
           \/ KernelStep \/ Done
  BY <1>3 DEF Unpublish, Reap, CloseOut, Read, Emit, TakeInput, Write, WriterEnds, KernelStep,
              PrintOutput, ShellExits, BackgroundEnds, Done
<1>. QED  BY <1>1, <1>2, <1>3 DEF Next, Control

LEMMA WindowsOnward == ASSUME ShellInv, OnWindows(ConsoleNext) PROVE Onward
<1> USE Leaving DEF ShellInv, ShellTypes, Marks, Flags, WindowsChild, Announced, Onward, Serving
<1>1. CASE \/ ConsoleHandle \/ ConsoleReader \/ OpenConsole \/ ConsoleFails \/ ConsoleReady
           \/ ReadConsole \/ NoReader \/ SpawnWaiter \/ NoWaiter
  BY <1>1 DEF ConsoleHandle, HandleStep, SendInput, Resize, Shutdown, Issue, ConsoleReader,
              TakeOutput, DropReceiver, OpenConsole, ConsoleFails, CannotOpen, ConsoleReady,
              EmitReady, ReadConsole, SpawnReader, NoReader, SpawnWaiter, NoWaiter
<1>2. CASE ServeConsole
  BY <1>2 DEF ServeConsole, WriteInput, ResizeConsole, EndLoop
<1>3. CASE \/ Kill \/ HangUp \/ AwaitReader \/ GraceOver \/ CloseConsole \/ Wait
           \/ ConsoleRead \/ ConsoleEmit \/ ConsoleStep
  BY <1>3 DEF Kill, HangUp, AwaitReader, GraceOver, CloseConsole, CloseOut, Wait, ConsoleRead,
              ConsoleEmit, Emit, ConsoleStep, PrintOutput, ShellExits, BackgroundEnds
<1>. QED  BY <1>1, <1>2, <1>3 DEF ConsoleNext, SetUpConsole, ControlConsole

LEMMA ShellOnward ==
    ASSUME ShellInv, NextShell
    PROVE  Onward /\ (Rests \/ Takes \/ \E c \in Command : Adds(c))
<1>1. CASE Ended
  BY <1>1, SameHands DEF Ended, allVars, Onward, Serving, Rests
<1>. QED  BY <1>1, UnixOnward, WindowsOnward, UnixQueue, WindowsQueue DEF NextShell

\* The input next in the command channel follows those handed over.
LEMMA NextInLine ==
    ASSUME ShellInv, Serving, commands # << >>, Head(commands).do = "input"
    PROVE  Head(commands).arg = Handed + 1 /\ Handed + 1 <= typed
<1>1. Handed \in Nat /\ typed \in Nat
  BY DEF ShellInv, ShellTypes, Queues, Numbers, Handed
<1>2. commands[1].arg \in Handed + 1 .. typed /\ Head(commands) = commands[1]
  BY FirstCommand DEF ShellInv, Queued, InLine
<1>3. PICK k \in 1 .. Len(commands) : commands[k] = Input(Handed + 1)
  BY <1>1, <1>2 DEF ShellInv, Queued, InLine
<1>4. commands[k].do = "input" /\ commands[k].arg = Handed + 1
  BY <1>3 DEF Input
<1>5. CASE k = 1
  BY <1>1, <1>2, <1>4, <1>5
<1>6. CASE k # 1
  <2>1. 1 \in 1 .. k - 1
    BY <1>6
  <2>2. commands[1].arg < commands[k].arg
    BY <1>2, <1>4, <2>1 DEF ShellInv, Queued, InLine
  <2>. QED  BY <1>1, <1>2, <1>4, <2>2
<1>. QED  BY <1>5, <1>6

\* Sequences that grow at the end and lose their first.
LEMMA Appended ==
    ASSUME NEW S, NEW s \in Seq(S), NEW e \in S
    PROVE  /\ Len(Append(s, e)) = Len(s) + 1
           /\ \A k \in 1 .. Len(s) : Append(s, e)[k] = s[k]
           /\ Append(s, e)[Len(s) + 1] = e
           /\ \A k \in 1 .. Len(Append(s, e)) : k \in 1 .. Len(s) \/ k = Len(s) + 1
<1>. QED  BY AppendProperties

LEMMA Shortened ==
    ASSUME NEW S, NEW s \in Seq(S), s # << >>
    PROVE  /\ Len(Tail(s)) = Len(s) - 1
           /\ \A k \in 1 .. Len(Tail(s)) : k + 1 \in 1 .. Len(s) /\ Tail(s)[k] = s[k + 1]
<1>. QED  BY HeadTailProperties

\* The word of the reader, the waiter and the handle stays true.
LEMMA KeepsWord == ASSUME ShellInv, NextShell PROVE Word'
<1>1. /\ commands \in Seq(Command) /\ Word /\ os' = os
      /\ closing => closing'
      /\ reader = "gone" => reader' = "gone"
  BY ShellOnward DEF ShellInv, ShellTypes, Queues, Onward
<1>2. CASE Rests
  BY <1>1, <1>2 DEF Rests, Word
<1>3. CASE Takes
  BY <1>1, <1>3, Shortened DEF Takes, Word
<1>4. ASSUME NEW c \in Command, Adds(c) PROVE Word'
  <2>1. /\ commands' = Append(commands, c)
        /\ c.do = "reader done" => reader' = "gone"
        /\ c.do = "shutdown" => closing'
        /\ c.do = "child exited" => os = "windows"
    BY <1>4 DEF Adds
  <2>2. /\ \A k \in 1 .. Len(commands) : Append(commands, c)[k] = commands[k]
        /\ Append(commands, c)[Len(commands) + 1] = c
        /\ \A k \in 1 .. Len(Append(commands, c)) :
               k \in 1 .. Len(commands) \/ k = Len(commands) + 1
    <3>1. commands \in Seq(Command)
      BY <1>1
    <3>. QED  BY <3>1, Appended
  <2>. QED  BY <1>1, <2>1, <2>2 DEF Word
<1>. QED  BY <1>2, <1>3, <1>4, ShellOnward

\* The inputs in the command channel stay numbered on from those handed over.
LEMMA KeepsQueued == ASSUME ShellInv, NextShell PROVE Queued'
<1> SUFFICES ASSUME Serving' PROVE InLine'
  BY DEF Queued
<1>1. /\ commands \in Seq(Command) /\ Handed \in Nat /\ typed \in Nat
      /\ Serving /\ InLine
  BY ShellOnward DEF ShellInv, ShellTypes, Queues, Numbers, Handed, Onward, Queued
<1>2. CASE Rests
  BY <1>1, <1>2 DEF Rests, InLine
<1>3. CASE Takes
  <2> DEFINE h == Head(commands)
  <2>1. /\ commands # << >> /\ commands' = Tail(commands) /\ typed' = typed
        /\ Handed' = IF h.do = "input" THEN Handed + 1 ELSE Handed
    BY <1>3 DEF Takes
  <2>2. /\ Len(commands') = Len(commands) - 1 /\ Len(commands) \in Nat
        /\ 1 \in 1 .. Len(commands) /\ h = commands[1]
        /\ \A k \in 1 .. Len(commands') :
               k + 1 \in 1 .. Len(commands) /\ commands'[k] = commands[k + 1]
    <3>1. 1 \in 1 .. Len(commands) /\ h = commands[1]
      BY <2>1, FirstCommand
    <3>2. /\ Len(commands') = Len(commands) - 1
          /\ \A k \in 1 .. Len(commands') :
                 k + 1 \in 1 .. Len(commands) /\ commands'[k] = commands[k + 1]
      BY <1>1, <2>1, Shortened
    <3>. QED  BY <1>1, <3>1, <3>2
  <2>3. h.do = "input" => h.arg = Handed + 1 /\ Handed + 1 <= typed
    BY <1>1, <2>1, NextInLine
  <2> HIDE DEF h
  <2>4. Handed' \in Nat /\ Handed' <= typed'
    BY <1>1, <2>1, <2>3 DEF InLine
  <2>5. ASSUME NEW k \in 1 .. Len(commands'), commands'[k].do = "input"
        PROVE  commands'[k].arg \in Handed' + 1 .. typed'
    <3>1. k + 1 \in 1 .. Len(commands) /\ commands'[k] = commands[k + 1] /\ 1 \in 1 .. (k + 1) - 1
      BY <2>2
    <3>2. commands[k + 1].arg \in Handed + 1 .. typed
      BY <1>1, <2>5, <3>1 DEF InLine
    <3>3. h.do = "input" => h.arg < commands[k + 1].arg
      BY <1>1, <2>2, <2>5, <3>1 DEF InLine
    <3>. QED  BY <1>1, <2>1, <2>3, <3>1, <3>2, <3>3
  <2>6. ASSUME NEW k \in 1 .. Len(commands'), NEW j \in 1 .. k - 1,
               commands'[j].do = "input", commands'[k].do = "input"
        PROVE  commands'[j].arg < commands'[k].arg
    <3>1. /\ k + 1 \in 1 .. Len(commands) /\ commands'[k] = commands[k + 1]
          /\ j \in 1 .. Len(commands') /\ j + 1 \in 1 .. (k + 1) - 1
      BY <2>2
    <3>. QED  BY <1>1, <2>2, <2>6, <3>1 DEF InLine
  <2>7. ASSUME NEW n \in Handed' + 1 .. typed'
        PROVE  \E k \in 1 .. Len(commands') : commands'[k] = Input(n)
    <3>1. n \in Handed + 1 .. typed /\ (h.do = "input" => n # Handed + 1)
      BY <1>1, <2>1, <2>4, <2>7
    <3>2. PICK k \in 1 .. Len(commands) : commands[k] = Input(n)
      BY <1>1, <3>1 DEF InLine
    <3>3. Input(n).do = "input" /\ Input(n).arg = n
      BY DEF Input
    <3>4. k # 1
      BY <2>2, <2>3, <3>1, <3>2, <3>3
    <3>5. k - 1 \in 1 .. Len(commands') /\ (k - 1) + 1 = k
      BY <2>2, <3>4
    <3>. QED  BY <2>2, <3>2, <3>5
  <2>. QED  BY <2>4, <2>5, <2>6, <2>7 DEF InLine
<1>4. ASSUME NEW c \in Command, Adds(c) PROVE InLine'
  <2>1. /\ commands' = Append(commands, c) /\ Handed' = Handed
        /\ typed' = IF c.do = "input" THEN typed + 1 ELSE typed
        /\ c.do = "input" => c = Input(typed + 1)
    BY <1>4 DEF Adds
  <2>2. /\ Len(commands') = Len(commands) + 1 /\ Len(commands) \in Nat
        /\ \A k \in 1 .. Len(commands) : commands'[k] = commands[k]
        /\ commands'[Len(commands) + 1] = c
        /\ \A k \in 1 .. Len(commands') : k \in 1 .. Len(commands) \/ k = Len(commands) + 1
    BY <1>1, <2>1, Appended
  <2>3. c.do = "input" => c.arg = typed + 1
    BY <2>1 DEF Input
  <2>4. /\ Handed <= typed /\ Handed' <= typed' /\ typed <= typed'
        /\ \A k \in 1 .. Len(commands) :
               commands[k].do = "input" => commands[k].arg \in Handed + 1 .. typed
    BY <1>1, <2>1 DEF InLine
  <2>5. ASSUME NEW k \in 1 .. Len(commands'), commands'[k].do = "input"
        PROVE  commands'[k].arg \in Handed' + 1 .. typed'
    <3>1. CASE k \in 1 .. Len(commands)
      BY <1>1, <2>1, <2>2, <2>4, <2>5, <3>1
    <3>2. CASE k = Len(commands) + 1
      BY <1>1, <2>1, <2>2, <2>3, <2>4, <2>5, <3>2
    <3>. QED  BY <2>2, <3>1, <3>2
  <2>6. ASSUME NEW k \in 1 .. Len(commands'), NEW j \in 1 .. k - 1,
               commands'[j].do = "input", commands'[k].do = "input"
        PROVE  commands'[j].arg < commands'[k].arg
    <3>1. j \in 1 .. Len(commands) /\ commands'[j] = commands[j]
      BY <2>2
    <3>2. CASE k \in 1 .. Len(commands)
      BY <1>1, <2>2, <2>6, <3>1, <3>2 DEF InLine
    <3>3. CASE k = Len(commands) + 1
      BY <1>1, <2>2, <2>3, <2>4, <2>6, <3>1, <3>3
    <3>. QED  BY <2>2, <3>2, <3>3
  <2>7. ASSUME NEW n \in Handed' + 1 .. typed'
        PROVE  \E k \in 1 .. Len(commands') : commands'[k] = Input(n)
    <3>1. CASE n <= typed
      <4>1. PICK k \in 1 .. Len(commands) : commands[k] = Input(n)
        BY <1>1, <2>1, <2>7, <3>1 DEF InLine
      <4>. QED  BY <2>2, <4>1
    <3>2. CASE n > typed
      <4>1. c = Input(n) /\ Len(commands) + 1 \in 1 .. Len(commands')
        BY <1>1, <2>1, <2>2, <2>7, <3>2
      <4>. QED  BY <2>2, <4>1
    <3>. QED  BY <1>1, <2>1, <2>7, <3>1, <3>2
  <2>. QED  BY <2>4, <2>5, <2>6, <2>7 DEF InLine
<1>. QED  BY <1>2, <1>3, <1>4, ShellOnward

Delivered == Numbered /\ received \in Seq(Nat) /\ inputs \in Seq(Nat)

\* What the writer holds and what the shell received stay numbered.
LEMMA KeepsDelivered == ASSUME ShellInv, NextShell PROVE Delivered'
<1>1. /\ received \in Seq(Nat) /\ inputs \in Seq(Nat) /\ Numbered /\ Queues
      /\ Len(received) \in Nat /\ Len(inputs) \in Nat
  BY DEF ShellInv, ShellTypes, Queues
<1>2. CASE OnUnix(TakeCommand)
  <2>1. received' = received /\ writer' = writer
    BY <1>2 DEF TakeCommand
  <2>2. CASE inputs' = inputs
    BY <1>1, <2>1, <2>2 DEF Numbered, Delivered
  <2>3. CASE inputs' # inputs
    <3>1. /\ commands # << >> /\ Head(commands).do = "input"
          /\ inputs' = Append(inputs, Head(commands).arg)
      BY <1>2, <2>3 DEF TakeCommand, HandOver
    <3>2. Serving
      BY <1>2 DEF TakeCommand, Serving
    <3>3. Head(commands).arg = Len(received) + Len(inputs) + 1 /\ Head(commands).arg \in Nat
      BY <1>1, <3>1, <3>2, NextInLine DEF Handed
    <3>4. /\ Len(inputs') = Len(inputs) + 1
          /\ \A k \in 1 .. Len(inputs) : inputs'[k] = inputs[k]
          /\ inputs'[Len(inputs) + 1] = Len(received) + Len(inputs) + 1
          /\ \A k \in 1 .. Len(inputs') : k \in 1 .. Len(inputs) \/ k = Len(inputs) + 1
      BY <1>1, <3>1, <3>3, Appended
    <3>5. inputs' # << >>
      BY <1>1, <3>4
    <3>6. ASSUME NEW k \in 1 .. Len(inputs') PROVE inputs'[k] = Len(received) + k
      <4>1. CASE k \in 1 .. Len(inputs)
        BY <1>1, <3>4, <4>1 DEF Numbered
      <4>2. CASE k = Len(inputs) + 1
        BY <1>1, <3>4, <4>2
      <4>. QED  BY <3>4, <4>1, <4>2
    <3>. QED  BY <1>1, <2>1, <3>1, <3>3, <3>5, <3>6 DEF Numbered, Delivered
  <2>. QED  BY <2>2, <2>3
<1>3. CASE OnUnix(Write)
  <2>1. CASE UNCHANGED <<inputs, received>>
    BY <1>1, <1>3, <2>1 DEF Write, Numbered, Delivered
  <2>2. CASE /\ received' = Append(received, Head(inputs)) /\ inputs' = Tail(inputs)
             /\ writer' = "wait"
    <3>1. inputs # << >>
      BY <1>3 DEF Write, ShellInv, Numbered
    <3>2. Head(inputs) = Len(received) + 1 /\ Head(inputs) \in Nat
      BY <1>1, <3>1 DEF Numbered
    <3>3. /\ Len(received') = Len(received) + 1
          /\ \A k \in 1 .. Len(received) : received'[k] = received[k]
          /\ received'[Len(received) + 1] = Len(received) + 1
          /\ \A k \in 1 .. Len(received') : k \in 1 .. Len(received) \/ k = Len(received) + 1
      BY <1>1, <2>2, <3>2, Appended
    <3>4. /\ Len(inputs') = Len(inputs) - 1
          /\ \A k \in 1 .. Len(inputs') : k + 1 \in 1 .. Len(inputs) /\ inputs'[k] = inputs[k + 1]
      BY <1>1, <2>2, <3>1, Shortened
    <3>. QED  BY <1>1, <2>2, <3>1, <3>2, <3>3, <3>4 DEF Numbered, Delivered
  <2>. QED  BY <1>3, <2>1, <2>2 DEF Write
<1>4. CASE OnUnix(TakeInput)
  BY <1>1, <1>4 DEF TakeInput, Numbered, Delivered
<1>5. CASE OnWindows(ServeConsole)
  <2>1. inputs' = inputs /\ writer' = writer
    BY <1>5 DEF ServeConsole
  <2>2. CASE received' = received
    BY <1>1, <2>1, <2>2 DEF Numbered, Delivered
  <2>3. CASE received' # received
    <3>1. /\ commands # << >> /\ Head(commands).do = "input" /\ shell = "running"
          /\ received' = Append(received, Head(commands).arg)
      BY <1>5, <2>3 DEF ServeConsole, WriteInput, ResizeConsole, EndLoop
    <3>2. Serving /\ inputs = << >>
      BY <1>5, <3>1 DEF ServeConsole, Serving, ShellInv, WindowsChild
    <3>3. Head(commands).arg = Len(received) + 1 /\ Head(commands).arg \in Nat
      BY <1>1, <3>1, <3>2, NextInLine DEF Handed
    <3>4. /\ Len(received') = Len(received) + 1
          /\ \A k \in 1 .. Len(received) : received'[k] = received[k]
          /\ received'[Len(received) + 1] = Len(received) + 1
          /\ \A k \in 1 .. Len(received') : k \in 1 .. Len(received) \/ k = Len(received) + 1
      BY <1>1, <3>1, <3>3, Appended
    <3>. QED  BY <1>1, <2>1, <3>1, <3>2, <3>3, <3>4 DEF Numbered, Delivered
  <2>. QED  BY <2>2, <2>3
<1>6. CASE UNCHANGED <<received, inputs>> /\ (writer' = "write" => writer = "write")
  BY <1>1, <1>6 DEF Numbered, Delivered
<1>7. CASE OnUnix(Next) /\ ~TakeCommand /\ ~Write /\ ~TakeInput
  <2>1. CASE Control
    BY <1>6, <1>7, <2>1 DEF Control, EmitReady, SpawnReader, SpawnWriter, Unpublish, Reap,
                            CloseOut
  <2>2. CASE \/ HandleStep \/ TakeOutput \/ DropReceiver \/ CannotOpen \/ Open \/ SetUpFails
             \/ Read \/ Emit \/ WriterEnds \/ KernelStep \/ Done
    BY <1>6, <2>2 DEF HandleStep, TakeOutput, DropReceiver, CannotOpen, Open, SetUpFails, Read,
                      Emit, WriterEnds, KernelStep, PrintOutput, ShellExits, BackgroundEnds, Done
  <2>. QED  BY <1>7, <2>1, <2>2 DEF Next
<1>8. CASE OnWindows(ConsoleNext) /\ ~ServeConsole
  <2>1. UNCHANGED <<received, inputs, writer>>
    BY <1>8 DEF ConsoleNext, ConsoleHandle, HandleStep, ConsoleReader, TakeOutput, DropReceiver,
                SetUpConsole, OpenConsole, ConsoleFails, CannotOpen, NoReader, NoWaiter,
                ControlConsole, ConsoleReady, EmitReady, ReadConsole, SpawnReader, SpawnWaiter,
                Kill, HangUp, AwaitReader, CloseConsole, CloseOut, GraceOver, Wait, ConsoleRead,
                ConsoleEmit, Emit, ConsoleStep, PrintOutput, ShellExits, BackgroundEnds
  <2>. QED  BY <1>6, <2>1
<1>9. CASE Ended
  BY <1>6, <1>9 DEF Ended, allVars
<1>. QED  BY <1>2, <1>3, <1>4, <1>5, <1>7, <1>8, <1>9 DEF NextShell
-----------------------------------------------------------------------------
\* The invariant holds at the start, and every step keeps it.
LEMMA InitKeeps == InitShell => ShellInv
<1>1. ASSUME InitShell PROVE ShellInv
  <2> USE <1>1 DEF InitShell, Init, InitConsole
  <2>1. ShellTypes
    <3>1. Marks /\ Numbers
      BY DEF Marks, Numbers
    <3>2. Flags
      BY DEF Flags
    <3>3. Queues
      BY DEF Queues
    <3>. QED  BY <3>1, <3>2, <3>3 DEF ShellTypes
  <2>2. Bounded /\ UnixChild /\ WindowsChild /\ Announced
    BY DEF Bounded, UnixChild, WindowsChild, Announced, UnixPhases, WindowsPhases
  <2>3. Balance /\ Ends /\ Word /\ AllOut
    BY DEF Balance, Ends, Word, AllOut, Silent, SlaveHeld
  <2>4. Len(received) = 0 /\ Len(inputs) = 0 /\ Len(commands) = 0
    OBVIOUS
  <2>5. Numbered
    BY <2>4 DEF Numbered
  <2>6. InLine
    BY <2>4 DEF InLine, Handed
  <2>. QED  BY <2>1, <2>2, <2>3, <2>5, <2>6 DEF ShellInv, Queued
<1>. QED  BY <1>1

LEMMA SameQueues ==
    ASSUME ShellInv, Rests \/ Takes \/ \E c \in Command : Adds(c)
    PROVE  commands' \in Seq(Command)
<1>1. commands \in Seq(Command)
  BY DEF ShellInv, ShellTypes, Queues
<1>2. CASE Rests
  BY <1>1, <1>2 DEF Rests
<1>3. CASE Takes
  BY <1>1, <1>3 DEF Takes
<1>4. ASSUME NEW c \in Command, Adds(c) PROVE commands' \in Seq(Command)
  <2>1. commands' = Append(commands, c)
    BY <1>4 DEF Adds
  <2>. QED  BY <1>1, <2>1, AppendProperties
<1>. QED  BY <1>2, <1>3, <1>4

LEMMA StutterKeeps == ASSUME ShellInv, UNCHANGED allVars PROVE ShellInv'
<1> USE DEF allVars
<1>1. Marks' /\ Flags' /\ Numbers' /\ Queues'
  <2>1. Marks'
    BY DEF ShellInv, ShellTypes, Marks
  <2>2. Flags'
    BY DEF ShellInv, ShellTypes, Flags
  <2>3. Numbers'
    BY DEF ShellInv, ShellTypes, Numbers
  <2>4. Queues'
    BY DEF ShellInv, ShellTypes, Queues
  <2>. QED  BY <2>1, <2>2, <2>3, <2>4
<1>2. Bounded' /\ UnixChild' /\ WindowsChild' /\ Announced'
  <2>1. Bounded' /\ UnixChild'
    BY DEF ShellInv, Bounded, UnixChild
  <2>2. WindowsChild'
    BY DEF ShellInv, WindowsChild
  <2>3. Announced'
    BY DEF ShellInv, Announced, StreamOpen
  <2>. QED  BY <2>1, <2>2, <2>3
<1>3. Balance' /\ Ends' /\ AllOut'
  <2>1. Balance'
    BY DEF ShellInv, Balance, StreamOpen, Silent, SlaveHeld
  <2>2. Ends' /\ AllOut'
    BY DEF ShellInv, Ends, AllOut, StreamOpen, Silent, SlaveHeld
  <2>. QED  BY <2>1, <2>2
<1>4. Word' /\ Numbered'
  BY DEF ShellInv, Word, Numbered
<1>5. Queued'
  BY SameHands DEF ShellInv, Queued, Serving, InLine
<1>. QED  BY <1>1, <1>2, <1>3, <1>4, <1>5 DEF ShellInv, ShellTypes

LEMMA StepKeeps == ASSUME ShellInv, [NextShell]_allVars PROVE ShellInv'
<1>1. CASE OnUnix(Next) \/ OnWindows(ConsoleNext)
  <2>1. NextShell
    BY <1>1 DEF NextShell
  <2>2. Flags' /\ Course' /\ Output'
    BY <1>1, UnixKeepFlags, WindowsKeepFlags, UnixKeepCourse, WindowsKeepCourse, UnixKeepOutput,
       WindowsKeepOutput
  <2>3. commands' \in Seq(Command)
    BY <2>1, ShellOnward, SameQueues
  <2>4. Word' /\ Queued' /\ Delivered'
    BY <2>1, KeepsWord, KeepsDelivered, KeepsQueued
  <2>. QED  BY <2>2, <2>3, <2>4 DEF ShellInv, ShellTypes, Queues, Course, Output, Delivered
<1>2. CASE UNCHANGED allVars
  BY <1>2, StutterKeeps
<1>. QED  BY <1>1, <1>2 DEF NextShell, Ended

\* Both drivers, without their fairness.
ShellSpec == InitShell /\ [][NextShell]_allVars

\* The inductive invariant of both drivers (session.rs and windows.rs).
THEOREM ShellInvariant == ShellSpec => []ShellInv
<1>. QED  BY InitKeeps, StepKeeps, PTL DEF ShellSpec

\* Whichever driver was built, the published process is the session's own, input
\* arrives in the order it was sent, Exited follows all output unless something
\* cut it short, and on Windows the console is closed after the child is reaped
\* (the control threads of session.rs and windows.rs).
THEOREM ShellsAreSound == ShellSpec => []ShellsSound
<1>1. ShellInv => ShellsSound
  <2> SUFFICES ASSUME ShellInv PROVE ShellsSound
    OBVIOUS
  <2>1. InputInOrder
    BY DEF InputInOrder, ShellInv, Numbered
  <2>2. ASSUME os = "unix" PROVE TypeOK /\ PidIsOurs /\ OutputBeforeExited
    <3>1. TypeOK
      BY <2>2 DEF TypeOK, ShellInv, ShellTypes, Marks, Flags, Numbers, Bounded, UnixChild, UnixPhases
    <3>2. PidIsOurs
      BY <2>2 DEF PidIsOurs, ShellInv, UnixChild
    <3>3. OutputBeforeExited
      BY <2>2 DEF OutputBeforeExited, ShellInv, AllOut
    <3>. QED  BY <3>1, <3>2, <3>3
  <2>3. ASSUME os = "windows"
        PROVE  ConsoleTypes /\ ReapedThenClosed /\ DrainedBeforeExited /\ ReaderOutlivesConsole
    <3>1. ConsoleTypes
      BY <2>3 DEF ConsoleTypes, ShellInv, ShellTypes, Marks, Flags, WindowsChild, WindowsPhases
    <3>2. ReapedThenClosed
      BY <2>3 DEF ReapedThenClosed, ShellInv, WindowsChild, Announced
    <3>3. DrainedBeforeExited
      BY <2>3 DEF DrainedBeforeExited, ShellInv, AllOut
    <3>4. ReaderOutlivesConsole
      BY <2>3 DEF ReaderOutlivesConsole, ShellInv, Balance, Silent
    <3>. QED  BY <3>1, <3>2, <3>3, <3>4
  <2>. QED  BY <2>1, <2>2, <2>3 DEF ShellsSound, TerminalSound, ConsoleSound
<1>. QED  BY <1>1, ShellInvariant, PTL
-----------------------------------------------------------------------------
(* Each driver implements PtyEvents.                                       *)

\* The sink closes a stream as the promise allows.
LEMMA ClosesAsPromised ==
    ASSUME ShellInv, NEW event \in {"Exited", "Error"}, Close(event),
           UNCHANGED <<ready, published, taken, receiver>>,
           event = "Exited" /\ StreamOpen => ready
    PROVE  [Promise!Next]_(Promise!eventVars)
BY DEF Close, StreamOpen, Promise!Next, Promise!Publish, Promise!Open, Promise!eventVars

\* The reader publishes within the budget, and after Ready.
LEMMA EmitsAsPromised ==
    ASSUME ShellInv, Emit PROVE [Promise!Next]_(Promise!eventVars)
<1>1. CASE published' = published
  BY <1>1 DEF Emit, Promise!eventVars
<1>2. CASE published' # published
  <2>1. StreamOpen /\ Room /\ published' = published + 1 /\ reader = "emit"
    BY <1>2 DEF Emit
  <2>2. ready
    BY <2>1 DEF ShellInv, Announced
  <2>. QED  BY <2>1, <2>2 DEF Emit, StreamOpen, Room, Promise!Next, Promise!PublishOutput,
                              Promise!Open, Promise!eventVars
<1>. QED  BY <1>1, <1>2

\* Ready is published once, to a stream that is open.
LEMMA AnnouncesAsPromised ==
    ASSUME ShellInv, EmitReady PROVE [Promise!Next]_(Promise!eventVars)
<1>1. ~ready /\ ready' = StreamOpen
  BY DEF EmitReady, ShellInv, Announced
<1>2. CASE StreamOpen
  BY <1>1, <1>2 DEF EmitReady, StreamOpen, Promise!Next, Promise!PublishReady, Promise!Open
<1>3. CASE ~StreamOpen
  <2>1. ready = FALSE
    BY <1>1 DEF ShellInv, ShellTypes, Flags
  <2>2. ready' = FALSE
    BY <1>1, <1>3 DEF StreamOpen
  <2>. QED  BY <2>1, <2>2 DEF EmitReady, Promise!eventVars
<1>. QED  BY <1>2, <1>3

LEMMA ConsumesAsPromised ==
    ASSUME TakeOutput \/ DropReceiver PROVE [Promise!Next]_(Promise!eventVars)
BY DEF TakeOutput, DropReceiver, Promise!Next, Promise!Take, Promise!StopReading

\* Every step of a driver is a step of the promise, or none.
LEMMA UnixAsPromised ==
    ASSUME ShellInv, OnUnix(Next) PROVE [Promise!Next]_(Promise!eventVars)
<1>1. CASE CannotOpen \/ SetUpFails
  BY <1>1, ClosesAsPromised DEF CannotOpen, SetUpFails
<1>2. CASE CloseOut
  <2>1. StreamOpen => ready
    BY <1>2 DEF CloseOut, ShellInv, Announced
  <2>. QED  BY <1>2, <2>1, ClosesAsPromised DEF CloseOut
<1>3. CASE \/ HandleStep \/ Open \/ SpawnReader \/ SpawnWriter \/ TakeCommand \/ Unpublish \/ Reap
           \/ Read \/ TakeInput \/ Write \/ WriterEnds \/ KernelStep \/ Done
  BY <1>3 DEF HandleStep, Open, SpawnReader, SpawnWriter, TakeCommand, Unpublish, Reap, Read,
              TakeInput, Write, WriterEnds, KernelStep, Done, Promise!eventVars
<1>. QED  BY <1>1, <1>2, <1>3, EmitsAsPromised, AnnouncesAsPromised, ConsumesAsPromised
             DEF Next, Control

LEMMA WindowsAsPromised ==
    ASSUME ShellInv, OnWindows(ConsoleNext) PROVE [Promise!Next]_(Promise!eventVars)
<1>1. CASE ConsoleFails \/ NoReader \/ NoWaiter
  BY <1>1, ClosesAsPromised DEF ConsoleFails, CannotOpen, NoReader, NoWaiter
<1>2. CASE CloseConsole
  <2>1. StreamOpen => ready
    BY <1>2 DEF CloseConsole, CloseOut, ShellInv, Announced
  <2>. QED  BY <1>2, <2>1, ClosesAsPromised DEF CloseConsole, CloseOut
<1>3. CASE \/ ConsoleHandle \/ OpenConsole \/ ReadConsole \/ SpawnWaiter \/ ServeConsole \/ Kill
           \/ HangUp \/ AwaitReader \/ GraceOver \/ Wait \/ ConsoleRead \/ ConsoleStep
  BY <1>3 DEF ConsoleHandle, HandleStep, OpenConsole, ReadConsole, SpawnReader, SpawnWaiter,
              ServeConsole, Kill, HangUp, AwaitReader, GraceOver, Wait, ConsoleRead, ConsoleStep,
              Promise!eventVars
<1>. QED  BY <1>1, <1>2, <1>3, EmitsAsPromised, AnnouncesAsPromised, ConsumesAsPromised
             DEF ConsoleNext, SetUpConsole, ControlConsole, ConsoleReader, ConsoleReady, ConsoleEmit

\* Whichever driver was built, whoever reads its events gets Ready, then output
\* within the budget, then one final event, and Exited only after Ready (driver.rs
\* "the two cannot drift apart on the guarantees the public API makes").
THEOREM ShellsImplementPromise == ShellSpec => Promise!Spec
<1>1. InitShell => Promise!Init
  BY DEF InitShell, Init, Promise!Init
<1>2. ShellInv /\ [NextShell]_allVars => [Promise!Next]_(Promise!eventVars)
  <2>1. ASSUME ShellInv, NextShell PROVE [Promise!Next]_(Promise!eventVars)
    BY <2>1, UnixAsPromised, WindowsAsPromised DEF NextShell, Ended, allVars, Promise!eventVars
  <2>2. ASSUME UNCHANGED allVars PROVE [Promise!Next]_(Promise!eventVars)
    BY <2>2 DEF allVars, Promise!eventVars
  <2>. QED  BY <2>1, <2>2
<1>. QED  BY <1>1, <1>2, ShellInvariant, PTL DEF ShellSpec, Promise!Spec
=============================================================================
