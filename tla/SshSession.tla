----------------------------- MODULE SshSession -----------------------------
(***************************************************************************)
(* One SSH session of crates/rulogman-ssh: the worker thread of            *)
(* session.rs (run, setup, drain_until_shutdown, main_loop, shutdown), the *)
(* handle its owner holds, and the events it publishes.                    *)
(*                                                                         *)
(* The way to the target (connect_chain) is a single stage here; its legs  *)
(* are modelled by SshChain.  The event stream is used through the promise *)
(* of EventStream, with the byte budget counted in chunks.  The server and *)
(* russh's transport are external: they act whenever they like.            *)
(***************************************************************************)
EXTENDS Naturals, Sequences, FiniteSets

CONSTANTS
    Sizes,        \* terminal sizes the owner may ask for
    InitialSizes, \* those a session may be opened with
    Budget,       \* OUTPUT_BUDGET in chunks
    Keepalive,    \* SshConfig::keepalive_secs is not 0
    MaxCommands,  \* bound: commands issued by the owner
    MaxChunks,    \* bound: chunks of output the server sends
    MaxPerMessage \* bound: chunks one channel message splits into

ASSUME SessionAssumption ==
    /\ InitialSizes # {}
    /\ Budget \in Nat \ {0}
    /\ Keepalive \in BOOLEAN
    /\ MaxCommands \in Nat
    /\ MaxChunks \in Nat
    /\ MaxPerMessage \in Nat \ {0}

None == "none"

VARIABLES
    pc,         \* where the worker stands
    ending,     \* why main_loop returned: [event, why]
    alive,      \* SshSession.alive
    commands,   \* the command channel
    cmdOpen,    \* the handle still accepts commands
    size,       \* the size shared with the drain
    requested,  \* the size sent with the pty request
    pendingIn,  \* input drained before the shell existed
    early,      \* chunks that arrived before the shell was confirmed
    pending,    \* chunks waiting for room in the stream
    ended,      \* ShellEnd: eof, status and signal heard
    writerQueue,\* input handed to write_input
    \* the event stream
    stream,     \* events accepted
    taken,      \* how many of its chunks of output the consumer took
    streamOpen, \* nothing ended it yet
    reader,     \* the consumer exists
    \* the server and the transport
    transport,  \* "none", "up" or "down"
    lost,       \* the oneshot of the handler: None, a reason, or "dropped"
    wire,       \* messages the channel received and wait() has not returned
    shell,      \* "none", "running" or "exited"
    farewell,   \* what the exited shell has sent since
    produced,   \* chunks the server sent
    serverIn,   \* input the server's shell received
    serverSize, \* the size of the server's pty
    \* history
    issued,     \* commands issued
    typed,      \* input the owner sent while the handle was open
    wanted      \* the size the owner asked for last

handleVars == <<commands, cmdOpen, issued, typed, wanted>>
setupVars == <<size, requested, pendingIn, early>>
loopVars == <<pending, ended, writerQueue>>
streamVars == <<stream, taken, streamOpen, reader>>
peerVars == <<transport, shell, produced, serverIn, serverSize>>
serverVars == <<peerVars, lost, wire, farewell>>
vars == <<pc, ending, alive, handleVars, setupVars, loopVars, streamVars,
          serverVars>>
-----------------------------------------------------------------------------
(* Events, channel messages and the ways a session ends.                   *)

Chunk(n) == [kind |-> "data", chunk |-> n]
\* The exit status carries, for the properties, how much output preceded it.
Status(n) == [kind |-> "status", chunk |-> n]
Plain(k) == [kind |-> k, chunk |-> 0]
Final(k, why) == [kind |-> k, why |-> why]

FinalKinds == {"Disconnected", "Error"}
Closed(why) == [event |-> "Disconnected", why |-> why]
Failed(why) == [event |-> "Error", why |-> why]
NoEnding == [event |-> None, why |-> None]

\* DisconnectReason: an unanswered keepalive, or a goodbye or an error, which
\* end the session alike.
LossReasons == {"goodbye", "keepalive"}
LossEnding(r) == IF r = "keepalive" THEN Failed(r) ELSE Closed(r)

\* What a shell that ended may send next, after what it said: each message once,
\* a status or a signal, and nothing after the close.
Farewells(said) ==
    {k \in {"eof", "status", "signal", "close"} \ said :
        /\ "close" \notin said
        /\ k \in {"status", "signal"} => said \cap {"status", "signal"} = {}}

Positions(kind) == {i \in 1 .. Len(stream) : stream[i].kind = kind}
Published == Cardinality(Positions("data"))
Buffered == Published - taken

\* Sender::send waits until the chunk fits.
RoomInclusive == Buffered <= Budget \* mutant: one chunk too many
Room == Buffered < Budget

\* Sender::control, finish and send, of a stream that may have been closed.
Publish(e) ==
    stream' = IF streamOpen THEN Append(stream, e) ELSE stream
Finish(e) ==
    /\ stream' = IF streamOpen THEN Append(stream, e) ELSE stream
    /\ streamOpen' = FALSE

\* ShellEnd
NothingHeard == [eof |-> FALSE, status |-> FALSE, signal |-> FALSE]

\* ShellEnd::reason
Reason(fallback) ==
    IF ended.signal THEN Closed("signal")
    ELSE IF ended.status THEN Closed("status")
    ELSE Closed(fallback)

\* main_loop returns: what it still held goes with it, and nobody looks at the
\* connection any more.
Forget ==
    /\ pending' = << >> /\ writerQueue' = << >> /\ ended' = NothingHeard
    /\ wire' = << >> /\ farewell' = {}
EndLoop(e) ==
    /\ pc' = "teardown" /\ ending' = e /\ alive' = FALSE /\ lost' = None
    /\ Forget
GoOn == UNCHANGED <<pc, ending, alive, lost, farewell>>

\* The guard of the select! branch that reads the channel.
ReadsAlways == TRUE \* mutant: reads on while output waits
MayRead == pending = << >>
-----------------------------------------------------------------------------
Init ==
    /\ pc = "new" /\ ending = NoEnding /\ alive = FALSE
    /\ commands = << >> /\ cmdOpen = TRUE
    /\ issued = 0 /\ typed = << >>
    /\ size \in InitialSizes
    /\ requested = size /\ wanted = size /\ serverSize = size
    /\ pendingIn = << >> /\ early = << >>
    /\ pending = << >> /\ writerQueue = << >>
    /\ ended = NothingHeard
    /\ stream = << >> /\ taken = 0 /\ streamOpen = TRUE /\ reader = TRUE
    /\ transport = "none" /\ lost = None /\ wire = << >>
    /\ shell = "none" /\ farewell = {}
    /\ produced = 0 /\ serverIn = << >>

(***************************************************************************)
(* The owner of the handle, and the consumer of the events.                *)
(***************************************************************************)
\* Once the loop is over nothing takes commands, and they are ignored.
Winding == pc \in {"teardown", "final", "done"}

Command(c) ==
    /\ issued < MaxCommands
    /\ issued' = issued + 1
    /\ cmdOpen /\ ~Winding
    /\ commands' = Append(commands, c)

SendInput ==
    /\ Command([do |-> "input", arg |-> Len(typed) + 1])
    /\ typed' = Append(typed, Len(typed) + 1)
    /\ UNCHANGED <<cmdOpen, wanted>>

Resize(s) ==
    /\ Command([do |-> "resize", arg |-> s])
    /\ wanted' = s
    /\ UNCHANGED <<cmdOpen, typed>>

\* disconnect(), called by hand or by Drop: the last command the channel takes.
Disconnect ==
    /\ cmdOpen /\ ~Winding
    /\ commands' = Append(commands, [do |-> "disconnect", arg |-> 0])
    /\ cmdOpen' = FALSE
    /\ UNCHANGED <<issued, typed, wanted>>

OwnerStep ==
    /\ SendInput \/ (\E s \in Sizes : Resize(s)) \/ Disconnect
    /\ UNCHANGED <<pc, ending, alive, setupVars, loopVars, streamVars, serverVars>>

\* What the consumer does after the worker's end is the stream's business.
TakeEvent ==
    /\ reader /\ pc # "done"
    /\ Buffered > 0
    /\ taken' = taken + 1
    /\ UNCHANGED <<pc, ending, alive, handleVars, setupVars, loopVars, stream,
                   streamOpen, reader, serverVars>>

DropReceiver ==
    /\ reader /\ pc # "done"
    /\ reader' = FALSE
    /\ streamOpen' = FALSE
    /\ taken' = Published
    /\ UNCHANGED <<pc, ending, alive, handleVars, setupVars, loopVars, stream,
                   serverVars>>
-----------------------------------------------------------------------------
(***************************************************************************)
(* The worker: from its thread to a running shell.                         *)
(***************************************************************************)
\* connect(): the thread, or worker(): the runtime, cannot be started.
CannotStart ==
    /\ pc = "new"
    /\ pc' = "done"
    /\ Finish(Final("Error", "spawn"))
    /\ UNCHANGED <<ending, alive, handleVars, setupVars, loopVars, taken, reader,
                   serverVars>>

Start ==
    /\ pc = "new"
    /\ pc' = IF streamOpen THEN "chain" ELSE "done"
    /\ Publish(Plain("Connecting"))
    /\ UNCHANGED <<ending, alive, handleVars, setupVars, loopVars, taken,
                   streamOpen, reader, serverVars>>

SettingUp == pc \in {"chain", "pty", "shell", "window", "window change"}

\* The worker gives up before main_loop: setup failed, or was told to stop.
\* Dropping what setup built so far closes the transport.
GiveUp(e) ==
    /\ pc' = "done"
    /\ Finish(e)
    /\ transport' = "down"

\* The drain returns on Disconnect, which cancels setup.
Cancel == GiveUp(Final("Disconnected", "before ready"))

\* drain_until_shutdown, racing setup: a command is taken whenever setup waits.
Drain ==
    /\ SettingUp
    /\ commands # << >>
    /\ commands' = Tail(commands)
    /\ LET c == Head(commands)
       IN  \/ /\ c.do = "input"
              /\ pendingIn' = Append(pendingIn, c.arg)
              /\ UNCHANGED <<pc, size, stream, streamOpen, transport>>
           \/ /\ c.do = "resize"
              /\ size' = c.arg
              /\ UNCHANGED <<pc, pendingIn, stream, streamOpen, transport>>
           \/ /\ c.do = "disconnect"
              /\ Cancel
              /\ UNCHANGED <<size, pendingIn>>
    /\ UNCHANGED <<ending, alive, cmdOpen, issued, typed, wanted, requested,
                   early, loopVars, taken, reader, lost, wire, shell, farewell, produced,
                   serverIn, serverSize>>

\* Any wait of setup may come back as a Failure: dropped, refused, or closed.
SetupFails ==
    /\ pc \in {"chain", "pty", "shell"}
    /\ GiveUp(Final("Error", pc))
    /\ UNCHANGED <<ending, alive, handleVars, setupVars, loopVars, taken, reader,
                   lost, wire, shell, farewell, produced, serverIn, serverSize>>

\* The chain stands and the channel is open: the pty is asked for.
ChainStands ==
    /\ pc = "chain"
    /\ pc' = "pty"
    /\ transport' = "up"
    /\ requested' = size
    /\ serverSize' = size
    /\ UNCHANGED <<ending, alive, handleVars, size, pendingIn, early, loopVars,
                   streamVars, lost, wire, shell, farewell, produced, serverIn>>

\* await_reply: Success of the pty, then of the shell or the command.
ReplySucceeds ==
    /\ pc \in {"pty", "shell"}
    /\ transport = "up"
    /\ \/ pc = "pty" /\ pc' = "shell" /\ shell' = "running"
       \/ pc = "shell" /\ pc' = "window" /\ shell' = shell
    /\ UNCHANGED <<ending, alive, handleVars, setupVars, loopVars, streamVars,
                   transport, lost, wire, farewell, produced, serverIn, serverSize>>

\* mutant: output that overtakes the reply is published at once
ReplyOvertakenAtOnce ==
    /\ pc = "shell"
    /\ wire # << >>
    /\ wire' = Tail(wire)
    /\ Head(wire).kind = "data"
    /\ Publish(Chunk(Head(Head(wire).chunks)))
    /\ UNCHANGED <<pc, ending, alive, handleVars, setupVars, loopVars, taken,
                   streamOpen, reader, transport, lost, shell, farewell, produced,
                   serverIn, serverSize>>

ForgetEarly(chunks) == early \* mutant
KeepEarly(chunks) == early \o chunks

\* await_reply: output is kept until the budget is exceeded; the end of the
\* channel is a failure; anything else is ignored.
ReplyOvertaken ==
    /\ pc = "shell"
    /\ wire # << >>
    /\ wire' = Tail(wire)
    /\ LET msg == Head(wire)
           fits == Len(early) + Len(msg.chunks) <= Budget
       IN  \/ /\ msg.kind = "data" /\ fits
              /\ early' = KeepEarly(msg.chunks)
              /\ UNCHANGED <<pc, stream, streamOpen, transport>>
           \/ /\ (msg.kind = "data" /\ ~fits) \/ msg.kind \in {"eof", "close"}
              /\ GiveUp(Final("Error", "shell"))
              /\ UNCHANGED early
           \/ /\ msg.kind \in {"status", "signal"}
              /\ UNCHANGED <<pc, early, stream, streamOpen, transport>>
    /\ UNCHANGED <<ending, alive, handleVars, size, requested, pendingIn, loopVars,
                   taken, reader, lost, shell, farewell, produced, serverIn, serverSize>>

\* The size is read again; if it changed, window_change waits with it.
ReadSize ==
    /\ pc = "window"
    /\ requested = size
    /\ pc' = "established"
    /\ UNCHANGED <<ending, alive, handleVars, setupVars, loopVars, streamVars,
                   serverVars>>

WindowChange ==
    /\ pc = "window"
    /\ requested # size
    /\ requested' = size
    /\ pc' = "window change"
    /\ UNCHANGED <<ending, alive, handleVars, size, pendingIn, early, loopVars,
                   streamVars, serverVars>>

WindowChanged ==
    /\ pc = "window change"
    /\ pc' = "established"
    /\ serverSize' = IF transport = "up" THEN requested ELSE serverSize
    /\ UNCHANGED <<ending, alive, handleVars, setupVars, loopVars, streamVars,
                   transport, lost, wire, shell, farewell, produced, serverIn>>

\* Nobody listens any more: shut down without a final event.
EmitReady ==
    /\ pc = "established"
    /\ Publish(Plain("Ready"))
    /\ alive' = streamOpen
    /\ \/ /\ streamOpen
          /\ pc' = "tunnels"
          /\ UNCHANGED transport
       \/ /\ ~streamOpen
          /\ pc' = "done"
          /\ transport' = "down"
    /\ UNCHANGED <<ending, handleVars, setupVars, loopVars, taken, streamOpen,
                   reader, lost, wire, shell, farewell, produced, serverIn,
                   serverSize>>

\* tunnel::open: one rule, opened or failed, is announced.
OpenTunnels ==
    /\ pc = "tunnels"
    /\ pc' = "flush"
    /\ Publish(Plain("Tunnel"))
    /\ UNCHANGED <<ending, alive, handleVars, setupVars, loopVars, taken,
                   streamOpen, reader, serverVars>>

\* The buffered input is written before main_loop starts: the write waits for
\* the server's window; that it failed is only logged.
FlushedNothing == serverIn \* mutant
Flushed == IF transport = "up" THEN serverIn \o pendingIn ELSE serverIn

Flush ==
    /\ pc = "flush"
    /\ pc' = "loop"
    /\ serverIn' = Flushed
    /\ pendingIn' = << >>
    /\ pending' = early
    /\ early' = << >>
    /\ UNCHANGED <<ending, alive, handleVars, size, requested, ended, writerQueue,
                   streamVars, transport, lost, wire, shell, farewell, produced,
                   serverSize>>

\* With nothing to write, or nobody to write to, the flush does not wait.
FlushReturns == Flush /\ (pendingIn = << >> \/ transport = "down")
-----------------------------------------------------------------------------
(***************************************************************************)
(* main_loop: one action per branch of its select!.                        *)
(***************************************************************************)
\* Step::Output: the front chunk goes out as soon as the budget has room.
SendOutput ==
    /\ pc = "loop"
    /\ pending # << >>
    /\ \/ /\ ~streamOpen
          /\ EndLoop(Closed("nobody"))
          /\ UNCHANGED stream
       \/ /\ streamOpen
          /\ Room
          /\ Publish(Chunk(Head(pending)))
          /\ pending' = Tail(pending)
          /\ GoOn
          /\ UNCHANGED <<ended, writerQueue, wire>>
    /\ UNCHANGED <<handleVars, setupVars, taken, streamOpen, reader, peerVars>>

\* Step::Message, only while no output waits: everything the server sent after
\* a chunk is looked at after that chunk was published.
ReadMessage ==
    /\ pc = "loop"
    /\ MayRead
    /\ wire # << >>
    /\ LET msg == Head(wire)
           Went(p, e) == /\ wire' = Tail(wire) /\ pending' = p /\ ended' = e
                         /\ GoOn
                         /\ UNCHANGED writerQueue
       IN  \/ /\ msg.kind = "data"
              /\ Went(pending \o msg.chunks, ended)
              /\ UNCHANGED stream
           \/ /\ msg.kind = "status"
              /\ Publish(Status(msg.after))
              /\ \/ streamOpen /\ Went(pending, [ended EXCEPT !.status = TRUE])
                 \/ ~streamOpen /\ EndLoop(Closed("nobody"))
           \/ /\ msg.kind \in {"signal", "eof"}
              /\ Went(pending, [ended EXCEPT ![msg.kind] = TRUE])
              /\ UNCHANGED stream
           \/ /\ msg.kind = "close"
              /\ EndLoop(Reason("channel closed"))
              /\ UNCHANGED stream
    /\ UNCHANGED <<handleVars, setupVars, taken, streamOpen, reader, peerVars>>

\* mutant: only reading the channel notices
NoticeLossByReading ==
    /\ pc = "loop"
    /\ transport = "down"
    /\ MayRead /\ wire = << >>
    /\ pc' = "loss grace"
    /\ Forget
    /\ UNCHANGED <<ending, alive, handleVars, setupVars, streamVars, peerVars, lost>>

\* Step::Message(None), or a keepalive tick that finds the handle closed: only
\* the handler's reason is still waited for.
NoticeLoss ==
    /\ pc = "loop"
    /\ transport = "down"
    /\ Keepalive \/ (MayRead /\ wire = << >>)
    /\ pc' = "loss grace"
    /\ Forget
    /\ UNCHANGED <<ending, alive, handleVars, setupVars, streamVars, peerVars, lost>>

\* lost_ending: the handler's reason within LOSS_GRACE, or none.
AwaitReason ==
    /\ pc = "loss grace"
    /\ EndLoop(IF lost \in LossReasons THEN LossEnding(lost) ELSE Closed("closed"))
    /\ UNCHANGED <<handleVars, setupVars, streamVars, peerVars>>

\* Step::Lost
ReadReason ==
    /\ pc = "loop"
    /\ lost # None
    /\ EndLoop(IF lost \in LossReasons THEN LossEnding(lost) ELSE Closed("closed"))
    /\ UNCHANGED <<handleVars, setupVars, streamVars, peerVars>>

\* Step::Command
TakeCommand ==
    /\ pc = "loop"
    /\ commands # << >>
    /\ commands' = Tail(commands)
    /\ LET c == Head(commands)
       IN  \/ /\ c.do = "input"
              /\ writerQueue' = Append(writerQueue, c.arg)
              /\ GoOn
              /\ UNCHANGED <<pending, ended, wire, serverSize>>
           \/ /\ c.do = "resize"
              /\ serverSize' = IF transport = "up" THEN c.arg ELSE serverSize
              /\ GoOn
              /\ UNCHANGED <<loopVars, wire>>
           \/ /\ c.do = "disconnect"
              /\ EndLoop(Closed("local"))
              /\ UNCHANGED serverSize
    /\ UNCHANGED <<cmdOpen, issued, typed, wanted, setupVars, streamVars, transport,
                   shell, produced, serverIn>>

\* write_input: one queued write completes, or fails and ends the loop.
WriteInput ==
    /\ pc = "loop"
    /\ writerQueue # << >>
    /\ \/ /\ transport = "up"
          /\ serverIn' = Append(serverIn, Head(writerQueue))
          /\ writerQueue' = Tail(writerQueue)
          /\ GoOn
          /\ UNCHANGED <<pending, ended, wire>>
       \/ /\ transport = "down"
          /\ EndLoop(Failed("write"))
          /\ UNCHANGED serverIn
    /\ UNCHANGED <<handleVars, setupVars, streamVars, transport, shell, produced,
                   serverSize>>

\* Step::Liveness
NoticeNobody ==
    /\ pc = "loop"
    /\ ~streamOpen
    /\ EndLoop(Closed("nobody"))
    /\ UNCHANGED <<handleVars, setupVars, streamVars, peerVars>>

\* Step::EofGrace
EofGrace ==
    /\ pc = "loop"
    /\ ended.eof
    /\ EndLoop(Reason("output closed"))
    /\ UNCHANGED <<handleVars, setupVars, streamVars, peerVars>>

\* shutdown, bounded by SHUTDOWN_GRACE.
Shutdown ==
    /\ pc = "teardown"
    /\ pc' = "final"
    /\ transport' = "down"
    /\ UNCHANGED <<ending, alive, handleVars, setupVars, loopVars, streamVars, lost,
                   wire, shell, farewell, produced, serverIn, serverSize>>

EmitFinal ==
    /\ pc = "final"
    /\ pc' = "done"
    /\ Finish(Final(ending.event, ending.why))
    /\ commands' = << >>
    /\ UNCHANGED <<ending, alive, cmdOpen, issued, typed, wanted, setupVars, loopVars,
                   taken, reader, serverVars>>
-----------------------------------------------------------------------------
(***************************************************************************)
(* The server and russh, as the worker sees them (external).               *)
(***************************************************************************)
Receive(msg) == wire' = Append(wire, msg)
Message(kind) == [kind |-> kind, chunks |-> << >>, after |-> produced]

ServerSends ==
    /\ transport = "up"
    /\ shell = "running"
    /\ \E k \in 1 .. MaxPerMessage :
          /\ produced + k <= MaxChunks
          /\ produced' = produced + k
          /\ Receive([kind |-> "data", after |-> produced,
                      chunks |-> [i \in 1 .. k |-> produced + i]])
    /\ UNCHANGED <<transport, lost, shell, farewell, serverIn, serverSize>>

ShellExits ==
    /\ transport = "up"
    /\ shell = "running"
    /\ shell' = "exited"
    /\ UNCHANGED <<transport, lost, wire, farewell, produced, serverIn, serverSize>>

SayFarewell ==
    /\ transport = "up"
    /\ shell = "exited"
    /\ \E kind \in Farewells(farewell) :
          /\ Receive(Message(kind))
          /\ farewell' = farewell \cup {kind}
    /\ UNCHANGED <<transport, lost, shell, produced, serverIn, serverSize>>

\* The transport ends by itself; the handler says why a moment later, or goes
\* away with russh's task.
TransportCloses ==
    /\ transport = "up"
    /\ transport' = "down"
    /\ UNCHANGED <<lost, wire, shell, farewell, produced, serverIn, serverSize>>

HandlerTells ==
    /\ transport = "down"
    /\ lost = None
    /\ lost' \in LossReasons \cup {"dropped"}
    /\ UNCHANGED <<transport, wire, shell, farewell, produced, serverIn, serverSize>>

\* After the loop nobody looks at what the server does.
ServerStep ==
    /\ ~Winding
    /\ ServerSends \/ ShellExits \/ SayFarewell \/ TransportCloses \/ HandlerTells
    /\ UNCHANGED <<pc, ending, alive, handleVars, setupVars, loopVars, streamVars>>
-----------------------------------------------------------------------------
\* The worker's own steps: none of them waits for the server.
WorkerStep ==
    \/ Start \/ Drain \/ ReadSize \/ WindowChange \/ WindowChanged
    \/ EmitReady \/ OpenTunnels
    \/ SendOutput \/ ReadMessage \/ NoticeLoss \/ AwaitReason \/ ReadReason
    \/ TakeCommand \/ NoticeNobody \/ EofGrace \/ Shutdown \/ EmitFinal

\* Steps that end only when the server answers, or the transport breaks.
ServerPaced ==
    \/ CannotStart \/ SetupFails \/ ChainStands \/ ReplySucceeds
    \/ ReplyOvertaken \/ Flush \/ WriteInput

Done ==
    /\ pc = "done"
    /\ UNCHANGED vars

Next ==
    \/ OwnerStep \/ TakeEvent \/ DropReceiver
    \/ WorkerStep \/ ServerPaced \/ ServerStep
    \/ Done

Spec == Init /\ [][Next]_vars

WorkerRuns ==
    /\ WF_vars(Start \/ ReadSize \/ WindowChange \/ WindowChanged \/ EmitReady
               \/ OpenTunnels \/ AwaitReason \/ Shutdown \/ EmitFinal)
    /\ WF_vars(Drain)
    /\ WF_vars(FlushReturns)
    /\ WF_vars(TakeCommand)
    /\ WF_vars(NoticeNobody)
    /\ WF_vars(NoticeLoss)
    /\ WF_vars(ReadReason)
    /\ WF_vars(EofGrace)

FairSpec == Spec /\ WorkerRuns

\* The server's window opens sooner or later, or the connection breaks.
FairServerSpec == FairSpec /\ WF_vars(Flush)
-----------------------------------------------------------------------------
TypeOK ==
    /\ pc \in {"new", "chain", "pty", "shell", "window", "window change",
               "established", "tunnels", "flush", "loop", "loss grace",
               "teardown", "final", "done"}
    /\ alive \in BOOLEAN /\ cmdOpen \in BOOLEAN
    /\ streamOpen \in BOOLEAN /\ reader \in BOOLEAN
    /\ {size, requested, serverSize, wanted} \subseteq Sizes \cup InitialSizes
    /\ transport \in {"none", "up", "down"}
    /\ lost \in LossReasons \cup {None, "dropped"}
    /\ taken \in 0 .. Published
    /\ produced \in 0 .. MaxChunks /\ issued \in 0 .. MaxCommands
    /\ Buffered <= Budget

FinalAt == {i \in 1 .. Len(stream) : stream[i].kind \in FinalKinds}

\* What the server's shell received is what was typed, in that order and
\* without a gap: input drained during setup, flushed before the loop and
\* written by write_input after it; and all of it once nothing is queued.
InputInOrder ==
    /\ serverIn = SubSeq(typed, 1, Len(serverIn))
    /\ pc = "loop" /\ transport = "up" /\ commands = << >> /\ writerQueue = << >> =>
           serverIn = typed

\* The consumer sees the server's output in order and without a gap: early
\* output, output waiting for room, and output read later; and ExitStatus, which
\* bypasses the byte budget, never overtakes what the shell wrote before it.
OutputInOrder ==
    /\ \A i \in Positions("data") :
          stream[i].chunk = Cardinality({j \in Positions("data") : j <= i})
    /\ \A i \in Positions("status") :
          stream[i].chunk = Cardinality({j \in Positions("data") : j < i})

\* A session that ends because its shell did has published everything the
\* shell wrote.
NothingLostOnShellEnd ==
    \A i \in FinalAt :
        stream[i].why \in {"status", "signal", "channel closed", "output closed"} =>
            Published = produced

\* Events come as event.rs lists them: output and exit status only between
\* Ready and the final event, one Ready, nothing after the final event.
EventsInSequence ==
    /\ Cardinality(Positions("Ready")) <= 1
    /\ \A i \in FinalAt : i = Len(stream)
    /\ \A i \in Positions("data") \cup Positions("status") \cup Positions("Tunnel") :
          \E j \in Positions("Ready") : j < i

\* session.rs:150 "the final [`SshEvent::Disconnected`] still arrives on the
\* event receiver": a disconnect, or the drop of the handle, ends the stream.
DisconnectEnds == ~cmdOpen ~> ~streamOpen

\* The worker winds up whatever stage it is in and whatever else it waits for:
\* after a disconnect or the drop of the handle; after the receiver is dropped
\* while the shell is silent; and after the transport is lost, even if output
\* waits for a view that reads nothing.
SessionsEnd ==
    \/ ~cmdOpen
    \/ pc = "loop" /\ (~reader \/ transport = "down")
    ~> pc = "done"

\* session.rs:551 "so that input typed and resizes requested before the shell
\* exists are not lost": once nothing is queued the server has the size the
\* owner asked for last.
ResizesReachServer ==
    pc = "loop" /\ commands = << >> /\ transport = "up" => serverSize = wanted
\* What is typed and what the shell writes both arrive in order and without a gap,
\* and a shell that ends has been heard to its end.
SessionSound == TypeOK /\ InputInOrder /\ OutputInOrder /\ NothingLostOnShellEnd
=============================================================================
