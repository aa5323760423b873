----------------------------- MODULE PtySession -----------------------------
(***************************************************************************)
(* A local shell on unix: the control, reader and writer threads of        *)
(* crates/rulogman-pty/src/session.rs, the handle that commands them, and  *)
(* the events they share one sink for (driver.rs).                         *)
(*                                                                         *)
(* The kernel's pty is external: what the shell, and processes it leaves   *)
(* behind, write waits in the pty until the reader takes it, and the end   *)
(* of the stream comes when nobody holds the slave any more.               *)
(***************************************************************************)
EXTENDS Naturals, Sequences

CONSTANTS
    Sizes,       \* terminal sizes
    Budget,      \* OUTPUT_BUDGET, in reads
    MaxCommands, \* bound: inputs and resizes
    MaxOutput    \* bound: pieces of output

ASSUME PtyAssumption ==
    /\ Sizes # {}
    /\ Budget \in Nat \ {0}
    /\ MaxCommands \in Nat /\ MaxOutput \in Nat

VARIABLES
    pc,        \* the control thread
    reader,    \* the reader thread: "none", "read", "emit" or "gone"
    writer,    \* the writer thread: "none", "wait", "write" or "stopped"
    commands,  \* the command channel
    inputs,    \* input handed to the writer
    pid,       \* PtySession.shell: the child's process ID is published
    \* the event stream
    ready,     \* Ready was published
    published, \* pieces of output published
    taken,     \* pieces the consumer took
    final,     \* the final event
    receiver,  \* the consumer exists
    \* the kernel
    shell,     \* "none", "running", "exited" or "reaped"
    background,\* a process the shell left behind holds the slave
    produced,  \* pieces written to the slave
    unread,    \* pieces waiting in the pty
    winsize,   \* the size of the pty
    received,  \* input that reached the slave
    \* the handle
    closing,   \* shutdown was called
    issued,    \* commands issued
    typed      \* inputs sent

streamVars == <<ready, published, taken, final, receiver>>
kernelVars == <<shell, background, produced, unread, winsize, received>>
handleVars == <<closing, issued, typed>>
vars == <<pc, reader, writer, commands, inputs, pid, streamVars, kernelVars,
          handleVars>>

None == "none"
StreamOpen == receiver /\ final = None
SlaveHeld == shell = "running" \/ background
Input(n) == [do |-> "input", arg |-> n]
ResizeTo(s) == [do |-> "resize", arg |-> s]
Plain(c) == [do |-> c, arg |-> 0]

\* EventSink::close: the first final event of a stream that is still open.
Close(event) == final' = IF StreamOpen THEN event ELSE final

Init ==
    /\ pc = "new" /\ reader = None /\ writer = None
    /\ commands = << >> /\ inputs = << >> /\ pid = FALSE
    /\ ready = FALSE /\ published = 0 /\ taken = 0 /\ final = None
    /\ receiver = TRUE
    /\ shell = None /\ background = FALSE /\ produced = 0 /\ unread = 0
    /\ winsize \in Sizes
    /\ received = << >>
    /\ closing = FALSE /\ issued = 0 /\ typed = 0
-----------------------------------------------------------------------------
(* The handle and the consumer.                                            *)

\* Sender::send waits until the bytes fit.
RoomInclusive == published - taken <= Budget \* mutant: one read too many
Room == published - taken < Budget

Issue(c) ==
    /\ ~closing
    /\ issued < MaxCommands
    /\ issued' = issued + 1
    /\ commands' = Append(commands, c)

SendInput ==
    /\ Issue(Input(typed + 1))
    /\ typed' = typed + 1
    /\ UNCHANGED closing

Resize(s) ==
    /\ Issue(ResizeTo(s))
    /\ UNCHANGED <<closing, typed>>

\* shutdown, by hand or by dropping the handle.
Shutdown ==
    /\ ~closing
    /\ closing' = TRUE
    /\ commands' = Append(commands, Plain("shutdown"))
    /\ UNCHANGED <<issued, typed>>

HandleStep ==
    /\ SendInput \/ (\E s \in Sizes : Resize(s)) \/ Shutdown
    /\ UNCHANGED <<pc, reader, writer, inputs, pid, streamVars, kernelVars>>

TakeOutput ==
    /\ receiver /\ taken < published
    /\ taken' = taken + 1
    /\ UNCHANGED <<pc, reader, writer, commands, inputs, pid, ready, published,
                   final, receiver, kernelVars, handleVars>>

DropReceiver ==
    /\ receiver
    /\ receiver' = FALSE
    /\ UNCHANGED <<pc, reader, writer, commands, inputs, pid, ready, published,
                   taken, final, kernelVars, handleVars>>
-----------------------------------------------------------------------------
(* The control thread.                                                     *)

\* The thread cannot be spawned, or the pty not be opened.
CannotOpen ==
    /\ pc = "new"
    /\ pc' = "done"
    /\ Close("Error")
    /\ UNCHANGED <<reader, writer, commands, inputs, pid, ready, published, taken,
                   receiver, kernelVars, handleVars>>

\* open_pty starts the child, and its ID is published.
Open ==
    /\ pc = "new"
    /\ pc' = "opened"
    /\ shell' = "running"
    /\ pid' = TRUE
    /\ UNCHANGED <<reader, writer, commands, inputs, streamVars, background, produced,
                   unread, winsize, received, handleVars>>

\* set_blocking, try_clone or one of the spawns fails: Error, and the locals go.
SetUpFails ==
    /\ pc \in {"opened", "ready", "reading"}
    /\ pc' = "unpublish"
    /\ Close("Error")
    /\ UNCHANGED <<reader, writer, commands, inputs, pid, ready, published, taken,
                   receiver, kernelVars, handleVars>>

EmitReady ==
    /\ pc = "opened"
    /\ pc' = "ready"
    /\ ready' = StreamOpen
    /\ UNCHANGED <<reader, writer, commands, inputs, pid, published, taken, final,
                   receiver, kernelVars, handleVars>>

SpawnReader ==
    /\ pc = "ready"
    /\ pc' = "reading"
    /\ reader' = "read"
    /\ UNCHANGED <<writer, commands, inputs, pid, streamVars, kernelVars, handleVars>>

SpawnWriter ==
    /\ pc = "reading"
    /\ pc' = "loop"
    /\ writer' = "wait"
    /\ UNCHANGED <<reader, commands, inputs, pid, streamVars, kernelVars, handleVars>>

\* mutant: handed over only once the writer is free to write
HandOverInTurn(n) ==
    /\ inputs = << >> /\ writer # "write"
    /\ IF writer = "stopped" THEN pc' = "unpublish" /\ UNCHANGED inputs
       ELSE inputs' = Append(inputs, n) /\ UNCHANGED pc

\* mutant: a slot for one input, which the next one overwrites
HandOverLast(n) ==
    IF writer = "stopped" THEN pc' = "unpublish" /\ UNCHANGED inputs
    ELSE inputs' = <<n>> /\ UNCHANGED pc

\* Handed over rather than written; it fails only when the writer has stopped.
HandOver(n) ==
    IF writer = "stopped" THEN pc' = "unpublish" /\ UNCHANGED inputs
    ELSE inputs' = Append(inputs, n) /\ UNCHANGED pc

TakeCommand ==
    /\ pc = "loop"
    /\ commands # << >>
    /\ commands' = Tail(commands)
    /\ LET c == Head(commands)
       IN  \/ c.do = "input" /\ HandOver(c.arg) /\ UNCHANGED winsize
           \/ c.do = "resize" /\ winsize' = c.arg /\ UNCHANGED <<pc, inputs>>
           \/ /\ c.do \in {"shutdown", "reader done"}
              /\ pc' = "unpublish"
              /\ UNCHANGED <<winsize, inputs>>
    /\ UNCHANGED <<reader, writer, pid, streamVars, shell, background, produced,
                   unread, received, handleVars>>

\* mutant: the ID is withdrawn once the child is gone
UnpublishLate ==
    /\ pc = "unpublish"
    /\ pc' = "reap"
    /\ UNCHANGED <<reader, writer, commands, inputs, pid, streamVars, kernelVars,
                   handleVars>>

Unpublish ==
    /\ pc = "unpublish"
    /\ pc' = "reap"
    /\ pid' = FALSE
    /\ UNCHANGED <<reader, writer, commands, inputs, streamVars, kernelVars, handleVars>>

\* Dropping the pty: SIGHUP, and wait for the child.
Reap ==
    /\ pc = "reap"
    /\ shell = "exited"
    /\ shell' = "reaped"
    /\ pc' = "close"
    /\ UNCHANGED <<reader, writer, commands, inputs, pid, streamVars, background,
                   produced, unread, winsize, received, handleVars>>

\* After an Error the stream is closed and nothing is added to it.
CloseOut ==
    /\ pc = "close"
    /\ pc' = "done"
    /\ Close("Exited")
    /\ UNCHANGED <<reader, writer, commands, inputs, pid, ready, published, taken,
                   receiver, kernelVars, handleVars>>
-----------------------------------------------------------------------------
(* The reader and the writer thread.                                       *)

\* mutant: the end of the stream is not reported
Leave == reader' = "gone" /\ UNCHANGED commands
ReaderGone ==
    /\ reader' = "gone"
    /\ commands' = Append(commands, Plain("reader done"))

\* mutant: the exit of the shell ends the stream
ShellGone == shell # "running"
EndOfStream == unread = 0 /\ ~SlaveHeld

Read ==
    /\ reader = "read"
    /\ \/ /\ unread > 0
          /\ unread' = unread - 1
          /\ reader' = "emit"
          /\ UNCHANGED commands
       \/ /\ EndOfStream
          /\ ReaderGone
          /\ UNCHANGED unread
    /\ UNCHANGED <<pc, writer, inputs, pid, streamVars, shell, background, produced,
                   winsize, received, handleVars>>

\* EventSink::emit blocks until there is room, or the stream is closed.
Emit ==
    /\ reader = "emit"
    /\ \/ /\ StreamOpen
          /\ Room
          /\ published' = published + 1
          /\ reader' = "read"
          /\ UNCHANGED commands
       \/ /\ ~StreamOpen
          /\ ReaderGone
          /\ UNCHANGED published
    /\ UNCHANGED <<pc, writer, inputs, pid, ready, taken, final, receiver, kernelVars,
                   handleVars>>

TakeInput ==
    /\ writer = "wait"
    /\ inputs # << >>
    /\ writer' = "write"
    /\ UNCHANGED <<pc, reader, commands, inputs, pid, streamVars, kernelVars, handleVars>>

\* The write waits until somebody reads the slave, or nobody holds it: EIO.
Write ==
    /\ writer = "write"
    /\ \/ /\ SlaveHeld
          /\ received' = Append(received, Head(inputs))
          /\ inputs' = Tail(inputs)
          /\ writer' = "wait"
       \/ /\ ~SlaveHeld
          /\ writer' = "stopped"
          /\ UNCHANGED <<inputs, received>>
    /\ UNCHANGED <<pc, reader, commands, pid, streamVars, shell, background, produced,
                   unread, winsize, handleVars>>

\* The control thread let go of the queue.
WriterEnds ==
    /\ writer = "wait"
    /\ inputs = << >> /\ pc = "done"
    /\ writer' = "stopped"
    /\ UNCHANGED <<pc, reader, commands, inputs, pid, streamVars, kernelVars, handleVars>>
-----------------------------------------------------------------------------
(* The shell and what it leaves behind (external).                         *)

PrintOutput ==
    /\ SlaveHeld
    /\ produced < MaxOutput
    /\ produced' = produced + 1
    /\ unread' = unread + 1
    /\ UNCHANGED <<shell, background, winsize, received>>

\* By itself, or because of the SIGHUP; a background process may stay.
ShellExits ==
    /\ shell = "running"
    /\ shell' = "exited"
    /\ background' \in BOOLEAN
    /\ UNCHANGED <<produced, unread, winsize, received>>

BackgroundEnds ==
    /\ background
    /\ background' = FALSE
    /\ UNCHANGED <<shell, produced, unread, winsize, received>>

KernelStep ==
    /\ PrintOutput \/ ShellExits \/ BackgroundEnds
    /\ UNCHANGED <<pc, reader, writer, commands, inputs, pid, streamVars, handleVars>>
-----------------------------------------------------------------------------
Control ==
    \/ EmitReady \/ SpawnReader \/ SpawnWriter \/ TakeCommand
    \/ Unpublish \/ Reap \/ CloseOut

Done == pc = "done" /\ UNCHANGED vars

Next ==
    \/ HandleStep \/ TakeOutput \/ DropReceiver
    \/ CannotOpen \/ Open \/ SetUpFails \/ Control
    \/ Read \/ Emit \/ TakeInput \/ Write \/ WriterEnds
    \/ KernelStep \/ Done

Spec == Init /\ [][Next]_vars

\* The threads run; a shell that is hung up on ends.  Nothing is assumed of
\* what the shell reads, of background processes, or of the consumer.
HungUp == pc = "reap" /\ ShellExits /\ KernelStep
FairSpec ==
    /\ Spec
    /\ WF_vars(Open \/ CannotOpen) /\ WF_vars(Control)
    /\ WF_vars(Read) /\ WF_vars(Emit)
    /\ WF_vars(HungUp)

ConsumerRuns == WF_vars(TakeOutput)
-----------------------------------------------------------------------------
TypeOK ==
    /\ pc \in {"new", "opened", "ready", "reading", "loop", "unpublish", "reap",
               "close", "done"}
    /\ reader \in {None, "read", "emit", "gone"}
    /\ writer \in {None, "wait", "write", "stopped"}
    /\ pid \in BOOLEAN /\ ready \in BOOLEAN /\ closing \in BOOLEAN
    /\ final \in {None, "Exited", "Error"}
    /\ shell \in {None, "running", "exited", "reaped"}
    /\ winsize \in Sizes
    /\ published - taken \in 0 .. Budget
    /\ produced \in 0 .. MaxOutput

\* A reader of the published ID never finds that of a child already reaped,
\* whose number the kernel may have given to somebody else.
PidIsOurs == pid => shell \in {"running", "exited"}

\* Input reaches the shell in the order it was sent, from the first, also what
\* was sent before there was a shell.
InputInOrder == \A i \in 1 .. Len(received) : received[i] = i

\* A shell that ends by itself is reported only after everything written to
\* its terminal was published, unless input was sent to it meanwhile.
OutputBeforeExited ==
    final = "Exited" /\ ~closing /\ typed = 0 => published = produced

\* session.rs:342 "the shell's output is published as it arrives, up to the
\* end of the stream, and `Exited` follows it": nothing but a shutdown cuts it.
OutputUpToTheEnd == final = "Exited" /\ ~closing => published = produced

\* Hanging up ends the session whatever the shell reads, whoever holds its
\* terminal, and although nobody takes the output.
ShutdownEnds == closing ~> pc = "done"

\* A shell that exits, leaving nobody on its terminal, ends the session once
\* the output is taken.
ExitEnds == ConsumerRuns => (shell = "exited" /\ ~background /\ receiver ~> pc = "done")
\* The published process is the session's own, and input and output pass in order
\* and whole (control, reader and writer threads).
TerminalSound == TypeOK /\ PidIsOurs /\ InputInOrder /\ OutputBeforeExited

\* A session that is hung up, and one whose shell exits, comes to its end.
TerminalEnds == ShutdownEnds /\ ExitEnds
=============================================================================
