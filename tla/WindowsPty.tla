----------------------------- MODULE WindowsPty -----------------------------
(***************************************************************************)
(* A local shell on Windows (crates/rulogman-pty/src/windows.rs).  The     *)
(* handle, the sink and the consumer are those of PtySession, and so is    *)
(* the shape of the driver; what differs is the pseudoconsole.  Its output *)
(* stays open for as long as the control thread holds it, whoever is       *)
(* attached, so a third thread waits for the child and reports its exit,   *)
(* and only closing the pseudoconsole ends the reader.                     *)
(*                                                                         *)
(* The console is external: it takes input at once, keeps what is written  *)
(* to it until the reader takes it, and reports its end only after that.   *)
(* That it opens with a question the terminal has to answer is left out:   *)
(* here the shell may write before the answer.  PtySession's writer and    *)
(* inputs are not used, and no process ID is published.                    *)
(***************************************************************************)
EXTENDS PtySession

VARIABLES
    waiter,    \* the waiter thread: "none", "waiting" or "gone"
    console,   \* the pseudoconsole is open
    drained,   \* reader_done: the reader is known to have ended
    graceOver  \* READER_DRAIN_GRACE ran out

consoleVars == <<waiter, console, drained, graceOver>>

InitConsole ==
    /\ waiter = None /\ console = FALSE /\ drained = FALSE /\ graceOver = FALSE

\* The parts of PtySession no step of this driver touches.
NotUnix == UNCHANGED <<writer, inputs, pid>>

Attached == console /\ SlaveHeld
-----------------------------------------------------------------------------
(* The handle and the consumer are those of PtySession.                    *)

ConsoleHandle == HandleStep /\ UNCHANGED consoleVars
ConsoleReader == (TakeOutput \/ DropReceiver) /\ UNCHANGED consoleVars
-----------------------------------------------------------------------------
(* The control thread.                                                     *)

\* openpty, take_writer, try_clone_reader and spawn_command.
OpenConsole ==
    /\ pc = "new"
    /\ pc' = "opened"
    /\ shell' = "running" /\ console' = TRUE
    /\ UNCHANGED <<reader, commands, streamVars, background, produced, unread, winsize,
                   received, handleVars, waiter, drained, graceOver>>
    /\ NotUnix

ConsoleFails == CannotOpen /\ UNCHANGED consoleVars
ConsoleReady == EmitReady /\ UNCHANGED consoleVars
ReadConsole == SpawnReader /\ UNCHANGED consoleVars

\* No reader: the child is killed and reaped, and the console goes.
NoReader ==
    /\ pc = "ready"
    /\ pc' = "done"
    /\ shell' = "reaped" /\ console' = FALSE /\ background' = FALSE
    /\ Close("Error")
    /\ UNCHANGED <<reader, commands, ready, published, taken, receiver, produced, unread,
                   winsize, received, handleVars, waiter, drained, graceOver>>
    /\ NotUnix

SpawnWaiter ==
    /\ pc = "reading"
    /\ pc' = "loop"
    /\ waiter' = "waiting"
    /\ UNCHANGED <<reader, commands, streamVars, kernelVars, handleVars, console, drained,
                   graceOver>>
    /\ NotUnix

\* No waiter: the child is killed, and nobody waits for it.
NoWaiter ==
    /\ pc = "reading"
    /\ pc' = "done"
    /\ shell' = "exited" /\ console' = FALSE /\ background' = FALSE
    /\ Close("Error")
    /\ UNCHANGED <<reader, commands, ready, published, taken, receiver, produced, unread,
                   winsize, received, handleVars, waiter, drained, graceOver>>
    /\ NotUnix

\* The write is made here; without the shell it is lost or fails.
WriteInput(n) ==
    /\ UNCHANGED winsize
    /\ \/ shell = "running" /\ received' = Append(received, n) /\ UNCHANGED pc
       \/ shell # "running" /\ pc' \in {"loop", "kill"} /\ UNCHANGED received

\* A resize that fails leaves the console as it was.
ResizeConsole(s) ==
    /\ winsize' \in {s, winsize}
    /\ UNCHANGED <<pc, received>>

EndLoop == pc' = "kill" /\ UNCHANGED <<winsize, received>>

ServeConsole ==
    /\ pc = "loop"
    /\ commands # << >>
    /\ commands' = Tail(commands)
    /\ LET c == Head(commands)
       IN  /\ drained' = (c.do = "reader done")
           /\ \/ c.do = "input" /\ WriteInput(c.arg)
              \/ c.do = "resize" /\ ResizeConsole(c.arg)
              \/ c.do \in {"shutdown", "child exited", "reader done"} /\ EndLoop
    /\ UNCHANGED <<reader, streamVars, shell, background, produced, unread, handleVars,
                   waiter, console, graceOver>>
    /\ NotUnix

\* A kill that fails finds the child gone.
Kill ==
    /\ pc = "kill"
    /\ pc' = "join"
    /\ shell' = IF shell = "running" THEN "exited" ELSE shell
    /\ UNCHANGED <<reader, commands, streamVars, background, produced, unread, winsize,
                   received, handleVars, consoleVars>>
    /\ NotUnix

\* mutant: the console is closed without waiting for the child
HangUpAtOnce ==
    /\ pc = "join"
    /\ console' = FALSE /\ background' = FALSE
    /\ pc' = IF drained THEN "close" ELSE "drain"
    /\ UNCHANGED <<reader, commands, streamVars, shell, produced, unread, winsize, received,
                   handleVars, waiter, drained, graceOver>>
    /\ NotUnix

\* waiter.join, then the console is closed, which breaks the pipe.
HangUp ==
    /\ pc = "join"
    /\ waiter = "gone"
    /\ console' = FALSE /\ background' = FALSE
    /\ pc' = IF drained THEN "close" ELSE "drain"
    /\ UNCHANGED <<reader, commands, streamVars, shell, produced, unread, winsize, received,
                   handleVars, waiter, drained, graceOver>>
    /\ NotUnix

\* wait_for_reader: everything but the reader's word is thrown away.
AwaitReader ==
    /\ pc = "drain"
    /\ commands # << >>
    /\ commands' = Tail(commands)
    /\ pc' = IF Head(commands).do = "reader done" THEN "close" ELSE "drain"
    /\ UNCHANGED <<reader, streamVars, kernelVars, handleVars, consoleVars>>
    /\ NotUnix

\* The grace runs out on a pipe that does not break, or on a reader that
\* waits for room in the stream: one that can go on does so in time.
GraceOver ==
    /\ pc = "drain"
    /\ reader = "read" \/ (reader = "emit" /\ StreamOpen /\ ~Room)
    /\ pc' = "close"
    /\ graceOver' = TRUE
    /\ UNCHANGED <<reader, commands, streamVars, kernelVars, handleVars, waiter, console,
                   drained>>
    /\ NotUnix

CloseConsole == CloseOut /\ UNCHANGED consoleVars
-----------------------------------------------------------------------------
(* The waiter and the reader thread, and the console.                      *)

Wait ==
    /\ waiter = "waiting"
    /\ shell = "exited"
    /\ shell' = "reaped"
    /\ waiter' = "gone"
    /\ commands' = Append(commands, Plain("child exited"))
    /\ UNCHANGED <<pc, reader, streamVars, background, produced, unread, winsize, received,
                   handleVars, console, drained, graceOver>>
    /\ NotUnix

\* The pipe breaks once the console is closed and empty.
ConsoleRead ==
    /\ reader = "read"
    /\ \/ /\ unread > 0
          /\ unread' = unread - 1
          /\ reader' = "emit"
          /\ UNCHANGED commands
       \/ /\ unread = 0 /\ ~console
          /\ ReaderGone
          /\ UNCHANGED unread
    /\ UNCHANGED <<pc, streamVars, shell, background, produced, winsize, received,
                   handleVars, consoleVars>>
    /\ NotUnix

ConsoleEmit == Emit /\ UNCHANGED consoleVars

ConsoleStep ==
    /\ (console /\ PrintOutput) \/ ShellExits \/ BackgroundEnds
    /\ UNCHANGED <<pc, reader, commands, streamVars, handleVars, consoleVars>>
    /\ NotUnix
-----------------------------------------------------------------------------
ControlConsole ==
    \/ ConsoleReady \/ ReadConsole \/ SpawnWaiter \/ ServeConsole
    \/ Kill \/ HangUp \/ AwaitReader \/ CloseConsole

SetUpConsole == OpenConsole \/ ConsoleFails

ConsoleNext ==
    \/ ConsoleHandle \/ ConsoleReader
    \/ SetUpConsole \/ NoReader \/ NoWaiter \/ ControlConsole \/ GraceOver
    \/ Wait \/ ConsoleRead \/ ConsoleEmit
    \/ ConsoleStep
-----------------------------------------------------------------------------
ConsoleTypes ==
    /\ waiter \in {None, "waiting", "gone"}
    /\ pc \in {"new", "opened", "ready", "reading", "loop", "kill", "join", "drain",
               "close", "done"}
    /\ console \in BOOLEAN /\ drained \in BOOLEAN /\ graceOver \in BOOLEAN

\* windows.rs:20 "Winding down then runs in the order the pipes require": the
\* child is gone and reaped before Exited, and the console closed.
ReapedThenClosed == final = "Exited" => shell = "reaped" /\ ~console

\* windows.rs:23 "only publish Exited once the reader confirms it has drained":
\* everything the shell wrote precedes Exited, unless the grace ran out.
DrainedBeforeExited == final = "Exited" /\ ~graceOver => published = produced

\* The reader is told of, and ends, only with the console or its consumer.
ReaderOutlivesConsole == reader = "gone" => ~console \/ ~StreamOpen

\* The console driver's bookkeeping and the order in which it winds down.
ConsoleSound ==
    /\ ConsoleTypes /\ InputInOrder
    /\ ReapedThenClosed /\ DrainedBeforeExited /\ ReaderOutlivesConsole

\* windows.rs:57 "Only ever spent when something has gone wrong with the pipe":
\* not so; a reader that waits for room in a full stream spends it too, and what
\* it and the pipe hold is lost.  Kept beside the runs: it does not hold.
GraceForThePipe == [][GraceOver => reader = "read"]_<<vars, consoleVars>>
=============================================================================
