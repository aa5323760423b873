-------------------------- MODULE SshSessionProofs --------------------------
(***************************************************************************)
(* Proofs about one SSH session (SshSession): the inductive invariant      *)
(* behind SessionSound and EventsInSequence, both for every number of      *)
(* commands, chunks and sizes and every budget.                            *)
(*                                                                         *)
(* The invariant says what each stage of the worker has left to do (no     *)
(* input written before the loop, none buffered in it), that the pieces of *)
(* output published, kept early, waiting for room and still in channel     *)
(* messages are numbered on without a gap up to what the server sent, that *)
(* the commands still queued carry on the input handed over, and which     *)
(* events each stage may have published.                                   *)
(***************************************************************************)
EXTENDS SshSession, SequenceTheorems, FiniteSetTheorems, TLAPS

\* The stages of the worker: before Ready, up to the end of the loop, after it.
Before == {"new", "chain", "pty", "shell", "window", "window change", "established"}
Running == {"tunnels", "flush", "loop"}
Over == {"loss grace", "teardown", "final", "done"}

\* Commands, messages of the channel, and events.
Commands ==
    [do : {"input"}, arg : Nat] \cup [do : {"resize"}, arg : Sizes]
    \cup [do : {"disconnect"}, arg : {0}]
Spoken == {"eof", "status", "signal", "close"}
Messages == [kind : {"data"} \cup Spoken, chunks : Seq(Nat), after : Nat]
Whys ==
    {"spawn", "before ready", "chain", "pty", "shell", "nobody", "goodbye", "keepalive", "closed",
     "local", "write", "status", "signal", "channel closed", "output closed"}
Told == {"Connecting", "Ready", "Tunnel", "data", "status"}
Events == [kind : Told, chunk : Nat] \cup [kind : FinalKinds, why : Whys]

\* Why a session may end, and why it does whose shell ended.
EndsAsTold(e) == e.event \in FinalKinds /\ e.why \in Whys
ShellEnds == {"status", "signal", "channel closed", "output closed"}

Marks ==
    /\ pc \in Before \cup Running \cup Over
    /\ transport \in {"none", "up", "down"}
    /\ shell \in {"none", "running", "exited"}
    /\ lost \in LossReasons \cup {None, "dropped"}

Flags ==
    /\ alive \in BOOLEAN /\ cmdOpen \in BOOLEAN
    /\ streamOpen \in BOOLEAN /\ reader \in BOOLEAN

Sized ==
    /\ size \in Sizes \cup InitialSizes /\ requested \in Sizes \cup InitialSizes
    /\ serverSize \in Sizes \cup InitialSizes /\ wanted \in Sizes \cup InitialSizes
Counted == produced \in 0 .. MaxChunks /\ issued \in 0 .. MaxCommands

OutQueues == wire \in Seq(Messages) /\ early \in Seq(Nat) /\ pending \in Seq(Nat)
InQueues ==
    /\ commands \in Seq(Commands) /\ typed \in Seq(Nat) /\ pendingIn \in Seq(Nat)
    /\ writerQueue \in Seq(Nat) /\ serverIn \in Seq(Nat)
Queues == stream \in Seq(Events) /\ OutQueues /\ InQueues

\* What the stage says of the queues, the transport and the shell.
Stages ==
    /\ pc \in {"new", "chain"} => transport = "none"
    /\ transport = "none" => pc \in {"new", "chain", "done"}
    /\ pc \in {"new", "chain", "pty"} => shell = "none"
    /\ shell = "none" => wire = << >> /\ produced = 0
    /\ pc \in Before \cup {"tunnels", "flush"} =>
          pending = << >> /\ writerQueue = << >> /\ serverIn = << >>
    /\ pc = "loop" => pendingIn = << >> /\ early = << >>
    /\ pc \in Before \cup {"tunnels", "flush"} => ended = NothingHeard
    /\ pc \in {"teardown", "final"} => EndsAsTold(ending)

\* The stream takes what its reader left room for.
Taken == taken \in Nat /\ taken <= Published /\ Published <= taken + Budget

\* The pieces of output on their way are numbered on from those published.
Held == Published + Len(early) + Len(pending)
Inbound(base, w, top) ==
    /\ \A i \in 1 .. Len(w) :
          /\ w[i].after = IF i = 1 THEN base ELSE w[i - 1].after + Len(w[i - 1].chunks)
          /\ \A j \in 1 .. Len(w[i].chunks) : w[i].chunks[j] = w[i].after + j
          /\ w[i].after + Len(w[i].chunks) <= top
    /\ top = IF w = << >> THEN base ELSE w[Len(w)].after + Len(w[Len(w)].chunks)
Chained ==
    /\ \A i \in 1 .. Len(early) : early[i] = Published + i
    /\ \A i \in 1 .. Len(pending) : pending[i] = Published + i
    /\ Inbound(Held, wire, produced)
    /\ \A i \in 1 .. Len(wire) :
          wire[i].kind # "data" =>
              wire[i].chunks = << >> /\ wire[i].after = produced /\ shell = "exited"
    /\ ended.eof => Published = produced /\ shell = "exited" /\ pending = << >>

Output ==
    /\ pc \notin Over => Chained
    /\ pc \in {"teardown", "final"} /\ ending.why \in ShellEnds => Published = produced

\* The events so far.
Sequence ==
    /\ streamOpen => FinalAt = {}
    /\ \A i, j \in Positions("Ready") : i = j
    /\ pc \in Before =>
          Positions("Ready") \cup Positions("data") \cup Positions("status")
          \cup Positions("Tunnel") = {}
    /\ pc \in Running => Positions("Ready") # {}
    /\ \A i \in FinalAt : i = Len(stream)
    /\ \A i \in Positions("data") \cup Positions("status") \cup Positions("Tunnel") :
          \E j \in Positions("Ready") : j < i
    /\ \A i \in FinalAt : pc = "done"

\* Input is numbered as it is typed, and stays so up to the server.
Handed == Len(serverIn) + Len(pendingIn) + Len(writerQueue)
Flowing == pc \notin Over /\ transport # "down"
Numbered ==
    /\ \A i \in 1 .. Len(typed) : typed[i] = i
    /\ \A i \in 1 .. Len(serverIn) : serverIn[i] = i
    /\ Len(serverIn) <= Len(typed)
Passed ==
    /\ \A i \in 1 .. Len(pendingIn) : pendingIn[i] = Len(serverIn) + i
    /\ \A i \in 1 .. Len(writerQueue) : writerQueue[i] = Len(serverIn) + i
InLine ==
    /\ Handed <= Len(typed)
    /\ \A k \in 1 .. Len(commands) :
           commands[k].do = "input" => commands[k].arg \in Handed + 1 .. Len(typed)
    /\ \A k \in 1 .. Len(commands) : \A j \in 1 .. k - 1 :
           commands[j].do = "input" /\ commands[k].do = "input"
             => commands[j].arg < commands[k].arg
    /\ \A n \in Handed + 1 .. Len(typed) :
           \E k \in 1 .. Len(commands) : commands[k].do = "input" /\ commands[k].arg = n
Input == Numbered /\ (Flowing => Passed /\ InLine)

SessionInv ==
    /\ Marks /\ Flags /\ Sized /\ Counted /\ Queues /\ Stages /\ Taken
    /\ Output /\ OutputInOrder /\ NothingLostOnShellEnd /\ Sequence /\ Input


USE SessionAssumption
    DEF None, handleVars, setupVars, loopVars, streamVars, peerVars, serverVars, vars

-----------------------------------------------------------------------------
(* Commands, messages, and the ways a loop ends.                           *)

LEMMA FirstCommand ==
    ASSUME SessionInv, commands # << >>
    PROVE  /\ Head(commands) = commands[1] /\ 1 \in 1 .. Len(commands)
           /\ Head(commands) \in Commands /\ Tail(commands) \in Seq(Commands)
           /\ Head(commands).do = "input" => Head(commands).arg \in Nat
           /\ Head(commands).do = "resize" => Head(commands).arg \in Sizes
<1>1. commands \in Seq(Commands)
  BY DEF SessionInv, Queues, InQueues
<1>2. /\ Head(commands) = commands[1] /\ 1 \in 1 .. Len(commands)
      /\ Head(commands) \in Commands /\ Tail(commands) \in Seq(Commands)
  BY <1>1
<1>. QED  BY <1>2 DEF Commands

LEMMA MessageShape ==
    \A m \in Messages : /\ m.kind \in {"data"} \cup Spoken
                        /\ m.chunks \in Seq(Nat) /\ m.after \in Nat
BY DEF Messages

LEMMA FirstMessage ==
    ASSUME SessionInv, wire # << >>
    PROVE  /\ Head(wire) = wire[1] /\ 1 \in 1 .. Len(wire)
           /\ Tail(wire) \in Seq(Messages)
           /\ Head(wire).kind \in {"data"} \cup Spoken
           /\ Head(wire).chunks \in Seq(Nat) /\ Head(wire).after \in Nat
<1>1. wire \in Seq(Messages)
  BY DEF SessionInv, Queues, OutQueues
<1>2. /\ Head(wire) = wire[1] /\ 1 \in 1 .. Len(wire)
      /\ Head(wire) \in Messages /\ Tail(wire) \in Seq(Messages)
  BY <1>1
<1>. QED  BY <1>2, MessageShape

LEMMA EndingKinds ==
    /\ \A w \in {"nobody", "closed", "local"} : EndsAsTold(Closed(w)) /\ Closed(w).why = w
    /\ EndsAsTold(Failed("write")) /\ Failed("write").why = "write"
    /\ \A r \in LossReasons : EndsAsTold(LossEnding(r)) /\ LossEnding(r).why = r
    /\ \A f \in {"channel closed", "output closed"} : EndsAsTold(Reason(f))
<1>1. \A w : /\ Closed(w).event \in FinalKinds /\ Closed(w).why = w
             /\ Failed(w).event \in FinalKinds /\ Failed(w).why = w
  BY DEF Closed, Failed, FinalKinds
<1>2. \A w \in Whys : EndsAsTold(Closed(w)) /\ EndsAsTold(Failed(w))
  BY <1>1 DEF EndsAsTold
<1>3. /\ {"nobody", "closed", "local", "write", "status", "signal", "channel closed",
          "output closed"} \subseteq Whys
      /\ LossReasons \subseteq Whys
  BY DEF Whys, LossReasons
<1>4. ASSUME NEW f \in {"channel closed", "output closed"} PROVE EndsAsTold(Reason(f))
  BY <1>2, <1>3 DEF Reason
<1>5. ASSUME NEW r \in LossReasons PROVE EndsAsTold(LossEnding(r)) /\ LossEnding(r).why = r
  BY <1>1, <1>2, <1>3 DEF LossEnding
<1>. QED  BY <1>1, <1>2, <1>3, <1>4, <1>5


-----------------------------------------------------------------------------
(* Stages, flags and counters, action by action.                           *)

Places == Marks /\ Stages

LEMMA KeepPlaces == ASSUME SessionInv, Next PROVE Places'
<1> USE DEF SessionInv, Places, Marks, Stages, Before, Running, Over, LossReasons, Winding, Flags
<1>1. CASE OwnerStep
  BY <1>1 DEF OwnerStep, SendInput, Resize, Disconnect, Command
<1>2. CASE TakeEvent
  BY <1>2 DEF TakeEvent
<1>3. CASE DropReceiver
  BY <1>3 DEF DropReceiver
<1>4. CASE CannotStart
  BY <1>4 DEF CannotStart, Finish
<1>5. CASE Start
  BY <1>5 DEF Start, Publish
<1>6. CASE Drain
  <2>1. CASE Head(commands).do = "disconnect"
    BY <1>6, <2>1 DEF Drain, Cancel, GiveUp, Finish
  <2>2. CASE Head(commands).do # "disconnect"
    <3>1. UNCHANGED <<pc, transport, shell, lost, wire, produced, pending, writerQueue, serverIn,
                      ended, ending>>
      BY <1>6, <2>2 DEF Drain
    <3>2. pc \in {"chain", "pty", "shell", "window", "window change"}
      BY <1>6 DEF Drain, SettingUp
    <3>. QED  BY <3>1, <3>2
  <2>. QED  BY <2>1, <2>2
<1>7. CASE SetupFails
  BY <1>7 DEF SetupFails, GiveUp, Finish
<1>8. CASE ChainStands
  BY <1>8 DEF ChainStands
<1>9. CASE ReplySucceeds
  BY <1>9 DEF ReplySucceeds
<1>10. CASE ReplyOvertaken
  BY <1>10 DEF ReplyOvertaken, GiveUp, Finish
<1>11. CASE ReadSize
  BY <1>11 DEF ReadSize
<1>12. CASE WindowChange
  BY <1>12 DEF WindowChange
<1>13. CASE WindowChanged
  BY <1>13 DEF WindowChanged
<1>14. CASE EmitReady
  BY <1>14 DEF EmitReady, Publish
<1>15. CASE OpenTunnels
  BY <1>15 DEF OpenTunnels, Publish
<1>16. CASE Flush
  BY <1>16 DEF Flush
<1>17. CASE SendOutput
  BY <1>17, EndingKinds DEF SendOutput, EndLoop, Forget, Publish, GoOn
<1>18. CASE ReadMessage
  BY <1>18, EndingKinds DEF ReadMessage, EndLoop, Forget, Publish, GoOn, MayRead
<1>19. CASE NoticeLoss
  BY <1>19 DEF NoticeLoss, Forget
<1>20. CASE AwaitReason
  BY <1>20, EndingKinds DEF AwaitReason, EndLoop, Forget
<1>21. CASE ReadReason
  BY <1>21, EndingKinds DEF ReadReason, EndLoop, Forget
<1>22. CASE TakeCommand
  BY <1>22, EndingKinds, FirstCommand DEF TakeCommand, EndLoop, Forget, GoOn
<1>23. CASE WriteInput
  BY <1>23, EndingKinds DEF WriteInput, EndLoop, Forget, GoOn
<1>24. CASE NoticeNobody
  BY <1>24, EndingKinds DEF NoticeNobody, EndLoop, Forget
<1>25. CASE EofGrace
  BY <1>25, EndingKinds DEF EofGrace, EndLoop, Forget
<1>26. CASE Shutdown
  BY <1>26 DEF Shutdown
<1>27. CASE EmitFinal
  BY <1>27 DEF EmitFinal, Finish
<1>28. CASE ServerStep
  BY <1>28 DEF ServerStep, ServerSends, ShellExits, SayFarewell, TransportCloses, HandlerTells,
     Receive
<1>. QED  BY <1>1, <1>2, <1>3, <1>4, <1>5, <1>6, <1>7, <1>8, <1>9, <1>10, <1>11, <1>12, <1>13,
   <1>14, <1>15, <1>16, <1>17, <1>18, <1>19, <1>20, <1>21, <1>22, <1>23, <1>24, <1>25, <1>26,
   <1>27, <1>28 DEF Next, WorkerStep, ServerPaced, Done

LEMMA KeepFlags == ASSUME SessionInv, Next PROVE Flags'
<1> USE DEF SessionInv, Flags
<1>1. CASE OwnerStep
  BY <1>1 DEF OwnerStep, SendInput, Resize, Disconnect, Command
<1>2. CASE TakeEvent
  BY <1>2 DEF TakeEvent
<1>3. CASE DropReceiver
  BY <1>3 DEF DropReceiver
<1>4. CASE CannotStart
  BY <1>4 DEF CannotStart, Finish
<1>5. CASE Start
  BY <1>5 DEF Start, Publish
<1>6. CASE Drain
  BY <1>6, FirstCommand DEF Drain, Cancel, GiveUp, Finish
<1>7. CASE SetupFails
  BY <1>7 DEF SetupFails, GiveUp, Finish
<1>8. CASE ChainStands
  BY <1>8 DEF ChainStands
<1>9. CASE ReplySucceeds
  BY <1>9 DEF ReplySucceeds
<1>10. CASE ReplyOvertaken
  BY <1>10 DEF ReplyOvertaken, GiveUp, Finish
<1>11. CASE ReadSize
  BY <1>11 DEF ReadSize
<1>12. CASE WindowChange
  BY <1>12 DEF WindowChange
<1>13. CASE WindowChanged
  BY <1>13 DEF WindowChanged
<1>14. CASE EmitReady
  BY <1>14 DEF EmitReady, Publish
<1>15. CASE OpenTunnels
  BY <1>15 DEF OpenTunnels, Publish
<1>16. CASE Flush
  BY <1>16 DEF Flush
<1>17. CASE SendOutput
  BY <1>17, EndingKinds DEF SendOutput, EndLoop, Forget, Publish, GoOn
<1>18. CASE ReadMessage
  BY <1>18, EndingKinds DEF ReadMessage, EndLoop, Forget, Publish, GoOn, MayRead
<1>19. CASE NoticeLoss
  BY <1>19 DEF NoticeLoss, Forget
<1>20. CASE AwaitReason
  BY <1>20, EndingKinds DEF AwaitReason, EndLoop, Forget
<1>21. CASE ReadReason
  BY <1>21, EndingKinds DEF ReadReason, EndLoop, Forget
<1>22. CASE TakeCommand
  BY <1>22, EndingKinds, FirstCommand DEF TakeCommand, EndLoop, Forget, GoOn
<1>23. CASE WriteInput
  BY <1>23, EndingKinds DEF WriteInput, EndLoop, Forget, GoOn
<1>24. CASE NoticeNobody
  BY <1>24, EndingKinds DEF NoticeNobody, EndLoop, Forget
<1>25. CASE EofGrace
  BY <1>25, EndingKinds DEF EofGrace, EndLoop, Forget
<1>26. CASE Shutdown
  BY <1>26 DEF Shutdown
<1>27. CASE EmitFinal
  BY <1>27 DEF EmitFinal, Finish
<1>28. CASE ServerStep
  BY <1>28 DEF ServerStep, ServerSends, ShellExits, SayFarewell, TransportCloses, HandlerTells,
     Receive
<1>. QED  BY <1>1, <1>2, <1>3, <1>4, <1>5, <1>6, <1>7, <1>8, <1>9, <1>10, <1>11, <1>12, <1>13,
   <1>14, <1>15, <1>16, <1>17, <1>18, <1>19, <1>20, <1>21, <1>22, <1>23, <1>24, <1>25, <1>26,
   <1>27, <1>28 DEF Next, WorkerStep, ServerPaced, Done

LEMMA KeepSized == ASSUME SessionInv, Next PROVE Sized'
<1> USE DEF SessionInv, Sized
<1>1. CASE OwnerStep
  BY <1>1 DEF OwnerStep, SendInput, Resize, Disconnect, Command
<1>2. CASE TakeEvent
  BY <1>2 DEF TakeEvent
<1>3. CASE DropReceiver
  BY <1>3 DEF DropReceiver
<1>4. CASE CannotStart
  BY <1>4 DEF CannotStart, Finish
<1>5. CASE Start
  BY <1>5 DEF Start, Publish
<1>6. CASE Drain
  BY <1>6, FirstCommand DEF Drain, Cancel, GiveUp, Finish
<1>7. CASE SetupFails
  BY <1>7 DEF SetupFails, GiveUp, Finish
<1>8. CASE ChainStands
  BY <1>8 DEF ChainStands
<1>9. CASE ReplySucceeds
  BY <1>9 DEF ReplySucceeds
<1>10. CASE ReplyOvertaken
  BY <1>10 DEF ReplyOvertaken, GiveUp, Finish
<1>11. CASE ReadSize
  BY <1>11 DEF ReadSize
<1>12. CASE WindowChange
  BY <1>12 DEF WindowChange
<1>13. CASE WindowChanged
  BY <1>13 DEF WindowChanged
<1>14. CASE EmitReady
  BY <1>14 DEF EmitReady, Publish
<1>15. CASE OpenTunnels
  BY <1>15 DEF OpenTunnels, Publish
<1>16. CASE Flush
  BY <1>16 DEF Flush
<1>17. CASE SendOutput
  BY <1>17, EndingKinds DEF SendOutput, EndLoop, Forget, Publish, GoOn
<1>18. CASE ReadMessage
  BY <1>18, EndingKinds DEF ReadMessage, EndLoop, Forget, Publish, GoOn, MayRead
<1>19. CASE NoticeLoss
  BY <1>19 DEF NoticeLoss, Forget
<1>20. CASE AwaitReason
  BY <1>20, EndingKinds DEF AwaitReason, EndLoop, Forget
<1>21. CASE ReadReason
  BY <1>21, EndingKinds DEF ReadReason, EndLoop, Forget
<1>22. CASE TakeCommand
  BY <1>22, EndingKinds, FirstCommand DEF TakeCommand, EndLoop, Forget, GoOn
<1>23. CASE WriteInput
  BY <1>23, EndingKinds DEF WriteInput, EndLoop, Forget, GoOn
<1>24. CASE NoticeNobody
  BY <1>24, EndingKinds DEF NoticeNobody, EndLoop, Forget
<1>25. CASE EofGrace
  BY <1>25, EndingKinds DEF EofGrace, EndLoop, Forget
<1>26. CASE Shutdown
  BY <1>26 DEF Shutdown
<1>27. CASE EmitFinal
  BY <1>27 DEF EmitFinal, Finish
<1>28. CASE ServerStep
  BY <1>28 DEF ServerStep, ServerSends, ShellExits, SayFarewell, TransportCloses, HandlerTells,
     Receive
<1>. QED  BY <1>1, <1>2, <1>3, <1>4, <1>5, <1>6, <1>7, <1>8, <1>9, <1>10, <1>11, <1>12, <1>13,
   <1>14, <1>15, <1>16, <1>17, <1>18, <1>19, <1>20, <1>21, <1>22, <1>23, <1>24, <1>25, <1>26,
   <1>27, <1>28 DEF Next, WorkerStep, ServerPaced, Done

LEMMA KeepCounted == ASSUME SessionInv, Next PROVE Counted'
<1> USE DEF SessionInv, Counted
<1>1. CASE OwnerStep
  <2>1. produced' = produced /\ (issued' = issued \/ (issued < MaxCommands /\ issued' = issued + 1))
    BY <1>1 DEF OwnerStep, SendInput, Resize, Disconnect, Command
  <2>. QED  BY <2>1
<1>2. CASE TakeEvent
  BY <1>2 DEF TakeEvent
<1>3. CASE DropReceiver
  BY <1>3 DEF DropReceiver
<1>4. CASE CannotStart
  BY <1>4 DEF CannotStart, Finish
<1>5. CASE Start
  BY <1>5 DEF Start, Publish
<1>6. CASE Drain
  BY <1>6, FirstCommand DEF Drain, Cancel, GiveUp, Finish
<1>7. CASE SetupFails
  BY <1>7 DEF SetupFails, GiveUp, Finish
<1>8. CASE ChainStands
  BY <1>8 DEF ChainStands
<1>9. CASE ReplySucceeds
  BY <1>9 DEF ReplySucceeds
<1>10. CASE ReplyOvertaken
  BY <1>10 DEF ReplyOvertaken, GiveUp, Finish
<1>11. CASE ReadSize
  BY <1>11 DEF ReadSize
<1>12. CASE WindowChange
  BY <1>12 DEF WindowChange
<1>13. CASE WindowChanged
  BY <1>13 DEF WindowChanged
<1>14. CASE EmitReady
  BY <1>14 DEF EmitReady, Publish
<1>15. CASE OpenTunnels
  BY <1>15 DEF OpenTunnels, Publish
<1>16. CASE Flush
  BY <1>16 DEF Flush
<1>17. CASE SendOutput
  BY <1>17, EndingKinds DEF SendOutput, EndLoop, Forget, Publish, GoOn
<1>18. CASE ReadMessage
  BY <1>18, EndingKinds DEF ReadMessage, EndLoop, Forget, Publish, GoOn, MayRead
<1>19. CASE NoticeLoss
  BY <1>19 DEF NoticeLoss, Forget
<1>20. CASE AwaitReason
  BY <1>20, EndingKinds DEF AwaitReason, EndLoop, Forget
<1>21. CASE ReadReason
  BY <1>21, EndingKinds DEF ReadReason, EndLoop, Forget
<1>22. CASE TakeCommand
  BY <1>22, EndingKinds, FirstCommand DEF TakeCommand, EndLoop, Forget, GoOn
<1>23. CASE WriteInput
  BY <1>23, EndingKinds DEF WriteInput, EndLoop, Forget, GoOn
<1>24. CASE NoticeNobody
  BY <1>24, EndingKinds DEF NoticeNobody, EndLoop, Forget
<1>25. CASE EofGrace
  BY <1>25, EndingKinds DEF EofGrace, EndLoop, Forget
<1>26. CASE Shutdown
  BY <1>26 DEF Shutdown
<1>27. CASE EmitFinal
  BY <1>27 DEF EmitFinal, Finish
<1>28. CASE ServerStep
  <2>1. CASE ServerSends
    BY <1>28, <2>1 DEF ServerStep, ServerSends
  <2>2. CASE produced' = produced
    BY <1>28, <2>2 DEF ServerStep
  <2>. QED  BY <1>28, <2>1, <2>2 DEF ServerStep, ShellExits, SayFarewell, TransportCloses,
                                       HandlerTells
<1>. QED  BY <1>1, <1>2, <1>3, <1>4, <1>5, <1>6, <1>7, <1>8, <1>9, <1>10, <1>11, <1>12, <1>13,
   <1>14, <1>15, <1>16, <1>17, <1>18, <1>19, <1>20, <1>21, <1>22, <1>23, <1>24, <1>25, <1>26,
   <1>27, <1>28 DEF Next, WorkerStep, ServerPaced, Done

-----------------------------------------------------------------------------
(* The events.                                                             *)

\* The step adds e to a stream that is open, or nothing.
Speaks(e) ==
    /\ streamOpen /\ stream' = Append(stream, e) /\ e \in Events
    /\ produced' = produced
    /\ e.kind = "Ready" <=> pc = "established" /\ pc' = "tunnels"
    /\ e.kind = "Tunnel" => pc = "tunnels"
    /\ e.kind = "data" =>
          /\ pc = "loop" /\ e.chunk = Published + 1 /\ Buffered < Budget /\ taken' = taken
          /\ pending # << >> /\ pending' = Tail(pending)
    /\ e.kind = "status" => pc = "loop" /\ e.chunk = Published
    /\ e.kind \in FinalKinds =>
          ~streamOpen' /\ pc' = "done" /\ (e.why \in ShellEnds => Published = produced)
Quiet == stream' = stream /\ ~(pc = "established" /\ pc' = "tunnels")

\* What the events and the reasons of an ending look like.
LEMMA EventShape ==
    /\ \A k \in Told, n \in Nat : /\ [kind |-> k, chunk |-> n] \in Events
                                  /\ [kind |-> k, chunk |-> n].kind = k
                                  /\ [kind |-> k, chunk |-> n].chunk = n
    /\ \A k \in FinalKinds, w \in Whys : /\ Final(k, w) \in Events
                                           /\ Final(k, w).kind = k /\ Final(k, w).why = w
    /\ Told \cap FinalKinds = {}
BY DEF Events, Final, FinalKinds, Told

LEMMA Reasons ==
    /\ {"Error", "Disconnected"} \subseteq FinalKinds
    /\ \A w \in {"spawn", "before ready", "chain", "pty", "shell"} :
           w \in Whys /\ w \notin ShellEnds
BY DEF FinalKinds, ShellEnds, Whys

\* Sender::finish and control add their event to a stream that is open.
LEMMA Finishes ==
    ASSUME SessionInv, NEW k \in FinalKinds, NEW w \in Whys, Finish(Final(k, w)),
           pc' = "done", produced' = produced, w \in ShellEnds => Published = produced
    PROVE  Quiet \/ \E e : Speaks(e)
<1>1. CASE streamOpen
  <2>1. /\ stream' = Append(stream, Final(k, w)) /\ ~streamOpen'
        /\ Final(k, w).kind \notin Told
    BY <1>1, EventShape DEF Finish
  <2>2. Speaks(Final(k, w))
    BY <1>1, <2>1, EventShape DEF Speaks, Told
  <2>. QED  BY <2>2
<1>2. CASE ~streamOpen
  BY <1>2 DEF Finish, Quiet
<1>. QED  BY <1>1, <1>2

LEMMA Publishes ==
    ASSUME SessionInv, NEW k \in {"Connecting", "Ready", "Tunnel"}, Publish(Plain(k)),
           produced' = produced,
           k = "Ready" => pc = "established" /\ (streamOpen => pc' = "tunnels"),
           k = "Tunnel" => pc = "tunnels",
           pc = "established" /\ pc' = "tunnels" => k = "Ready" /\ streamOpen
    PROVE  Quiet \/ \E e : Speaks(e)
<1>1. CASE streamOpen
  <2>1. /\ stream' = Append(stream, Plain(k)) /\ Plain(k) \in Events /\ Plain(k).kind = k
        /\ k \notin FinalKinds
    BY <1>1, EventShape DEF Publish, Plain, Told
  <2>2. Speaks(Plain(k))
    BY <1>1, <2>1 DEF Speaks
  <2>. QED  BY <2>2
<1>2. CASE ~streamOpen
  BY <1>2 DEF Publish, Quiet
<1>. QED  BY <1>1, <1>2

\* Positions are finite sets of indices, so output can be counted.
LEMMA Counting ==
    ASSUME stream \in Seq(Events)
    PROVE  /\ Published \in Nat
           /\ \A kind : Positions(kind) \subseteq 1 .. Len(stream) /\ IsFiniteSet(Positions(kind))
<1>1. ASSUME NEW kind
      PROVE  Positions(kind) \subseteq 1 .. Len(stream) /\ IsFiniteSet(Positions(kind))
  <2>1. Positions(kind) \subseteq 1 .. Len(stream)
    BY DEF Positions
  <2>2. IsFiniteSet(1 .. Len(stream))
    BY FS_Interval
  <2>. QED  BY <2>1, <2>2, FS_Subset
<1>2. Published \in Nat
  BY <1>1, FS_CardinalityType DEF Published
<1>. QED  BY <1>1, <1>2

LEMMA SendsChunk ==
    ASSUME SessionInv, SendOutput, streamOpen
    PROVE  Speaks(Chunk(Head(pending))) /\ Chunk(Head(pending)).kind = "data"
<1>1. /\ pending # << >> /\ stream' = Append(stream, Chunk(Head(pending)))
      /\ pc = "loop" /\ pc' = pc /\ taken' = taken /\ produced' = produced /\ Buffered < Budget
      /\ pending' = Tail(pending)
  BY DEF SendOutput, Publish, GoOn, Room, peerVars
<1>2. Published \in Nat /\ pending \in Seq(Nat) /\ pending[1] = Published + 1
  BY <1>1, Counting DEF SessionInv, Queues, OutQueues, Output, Over, Chained
<1>3. Chunk(Head(pending)) = [kind |-> "data", chunk |-> Published + 1]
  BY <1>1, <1>2 DEF Chunk
<1>4. /\ Chunk(Head(pending)) \in Events /\ Chunk(Head(pending)).kind = "data"
      /\ Chunk(Head(pending)).chunk = Published + 1 /\ "data" \notin FinalKinds
  BY <1>2, <1>3, EventShape DEF Told
<1>. QED  BY <1>1, <1>4 DEF Speaks

\* A message of the channel is read while no output waits, so whatever it says
\* follows all that was published.
LEMMA ReadInTurn ==
    ASSUME SessionInv, pc = "loop", pending = << >>, wire # << >>
    PROVE  Head(wire).after = Published /\ Published \in Nat
<1>1. Published \in Nat /\ Len(pending) = 0 /\ Len(early) = 0
  BY Counting DEF SessionInv, Queues, OutQueues, Stages
<1>2. wire[1].after = Held
  BY FirstMessage DEF SessionInv, Output, Over, Chained, Inbound
<1>. QED  BY <1>1, <1>2, FirstMessage DEF Held

LEMMA ReadsMessage ==
    ASSUME SessionInv, ReadMessage PROVE Quiet \/ \E e : Speaks(e)
<1>1. /\ pc = "loop" /\ pending = << >> /\ wire # << >> /\ produced' = produced
  BY DEF ReadMessage, MayRead, peerVars
<1>2. CASE Head(wire).kind = "status"
  <2>1. Publish(Status(Head(wire).after))
    BY <1>2 DEF ReadMessage
  <2>2. CASE streamOpen
    <3>1. /\ Status(Head(wire).after) = [kind |-> "status", chunk |-> Published]
          /\ Published \in Nat
      BY <1>1, ReadInTurn DEF Status
    <3>2. /\ Status(Head(wire).after) \in Events /\ Status(Head(wire).after).kind = "status"
          /\ Status(Head(wire).after).chunk = Published /\ "status" \notin FinalKinds
      BY <3>1, EventShape DEF Told
    <3>3. Speaks(Status(Head(wire).after))
      BY <1>1, <2>1, <2>2, <3>2 DEF Speaks, Publish
    <3>. QED  BY <3>3
  <2>3. CASE ~streamOpen
    BY <1>1, <2>1, <2>3 DEF Publish, Quiet
  <2>. QED  BY <2>2, <2>3
<1>3. CASE Head(wire).kind # "status"
  BY <1>1, <1>3 DEF ReadMessage, Quiet
<1>. QED  BY <1>2, <1>3

\* Every step adds to the stream what its stage may say, or nothing.
LEMMA Speech == ASSUME SessionInv, Next PROVE Quiet \/ \E e : Speaks(e)
<1>1. CASE CannotStart
  <2>1. Finish(Final("Error", "spawn")) /\ pc' = "done" /\ produced' = produced
    BY <1>1 DEF CannotStart
  <2>. QED  BY <2>1, Reasons, Finishes
<1>2. CASE Drain
  <2>1. CASE Cancel
    <3>1. /\ Finish(Final("Disconnected", "before ready")) /\ pc' = "done"
          /\ produced' = produced
      BY <1>2, <2>1 DEF Drain, Cancel, GiveUp
    <3>. QED  BY <3>1, Reasons, Finishes
  <2>2. CASE UNCHANGED <<pc, stream>>
    BY <2>2 DEF Quiet
  <2>. QED  BY <1>2, <2>1, <2>2 DEF Drain
<1>3. CASE SetupFails
  <2>1. /\ Finish(Final("Error", pc)) /\ pc' = "done" /\ produced' = produced
        /\ pc \in {"chain", "pty", "shell"}
    BY <1>3 DEF SetupFails, GiveUp
  <2>. QED  BY <2>1, Reasons, Finishes
<1>4. CASE ReplyOvertaken
  <2>1. CASE GiveUp(Final("Error", "shell"))
    <3>1. Finish(Final("Error", "shell")) /\ pc' = "done" /\ produced' = produced
      BY <1>4, <2>1 DEF ReplyOvertaken, GiveUp
    <3>. QED  BY <3>1, Reasons, Finishes
  <2>2. CASE UNCHANGED <<pc, stream>>
    BY <2>2 DEF Quiet
  <2>. QED  BY <1>4, <2>1, <2>2 DEF ReplyOvertaken
<1>5. CASE EmitFinal
  <2>1. /\ ending.event \in FinalKinds /\ ending.why \in Whys
        /\ ending.why \in ShellEnds => Published = produced
    BY <1>5 DEF EmitFinal, SessionInv, Stages, Output, EndsAsTold
  <2>. QED  BY <1>5, <2>1, Finishes DEF EmitFinal, serverVars, peerVars
<1>6. CASE Start
  BY <1>6, Publishes DEF Start, serverVars, peerVars
<1>7. CASE EmitReady
  BY <1>7, Publishes DEF EmitReady
<1>8. CASE OpenTunnels
  BY <1>8, Publishes DEF OpenTunnels, serverVars, peerVars
<1>9. CASE SendOutput \/ ReadMessage
  <2>1. CASE SendOutput /\ ~streamOpen
    BY <2>1 DEF SendOutput, Quiet
  <2>. QED  BY <1>9, <2>1, SendsChunk, ReadsMessage
<1>10. CASE \/ OwnerStep \/ TakeEvent \/ DropReceiver \/ ChainStands \/ ReplySucceeds
            \/ ReadSize \/ WindowChange \/ WindowChanged \/ Flush \/ NoticeLoss
  BY <1>10 DEF OwnerStep, TakeEvent, DropReceiver, ChainStands, ReplySucceeds, ReadSize,
               WindowChange, WindowChanged, Flush, NoticeLoss, Quiet
<1>11. CASE \/ AwaitReason \/ ReadReason \/ TakeCommand \/ WriteInput \/ NoticeNobody \/ EofGrace
            \/ Shutdown \/ ServerStep \/ Done
  BY <1>11 DEF AwaitReason, ReadReason, TakeCommand, WriteInput, NoticeNobody, EofGrace, Shutdown,
               ServerStep, Done, Quiet
<1>. QED  BY <1>1, <1>2, <1>3, <1>4, <1>5, <1>6, <1>7, <1>8, <1>9, <1>10, <1>11
             DEF Next, WorkerStep, ServerPaced

\* A stream stays closed, the stages follow one another, and done is final.
Onward ==
    /\ streamOpen' => streamOpen
    /\ pc' \in Before => pc \in Before
    /\ pc' \in Running => pc \in Running \/ (pc = "established" /\ pc' = "tunnels" /\ streamOpen)
    /\ pc = "done" => pc' = "done" /\ UNCHANGED <<stream, produced>>

LEMMA MovesOn == ASSUME SessionInv, Next PROVE Onward
<1> USE DEF SessionInv, Marks, Flags, Before, Running, Over, Onward
<1>1. CASE OwnerStep
  BY <1>1 DEF OwnerStep
<1>2. CASE TakeEvent
  BY <1>2 DEF TakeEvent
<1>3. CASE DropReceiver
  BY <1>3 DEF DropReceiver
<1>4. CASE CannotStart
  BY <1>4 DEF CannotStart, Finish
<1>5. CASE Start
  BY <1>5 DEF Start
<1>6. CASE Drain
  <2>1. pc \in {"chain", "pty", "shell", "window", "window change"}
    BY <1>6 DEF Drain, SettingUp
  <2>2. CASE Cancel
    BY <1>6, <2>1, <2>2 DEF Cancel, GiveUp, Finish
  <2>3. CASE pc' = pc /\ streamOpen' = streamOpen
    BY <2>1, <2>3
  <2>. QED  BY <1>6, <2>2, <2>3 DEF Drain
<1>7. CASE SetupFails
  BY <1>7 DEF SetupFails, GiveUp, Finish
<1>8. CASE ChainStands
  BY <1>8 DEF ChainStands
<1>9. CASE ReplySucceeds
  BY <1>9 DEF ReplySucceeds
<1>10. CASE ReplyOvertaken
  BY <1>10 DEF ReplyOvertaken, GiveUp, Finish
<1>11. CASE ReadSize
  BY <1>11 DEF ReadSize
<1>12. CASE WindowChange
  BY <1>12 DEF WindowChange
<1>13. CASE WindowChanged
  BY <1>13 DEF WindowChanged
<1>14. CASE EmitReady
  BY <1>14 DEF EmitReady
<1>15. CASE OpenTunnels
  BY <1>15 DEF OpenTunnels
<1>16. CASE Flush
  BY <1>16 DEF Flush
<1>17. CASE SendOutput
  BY <1>17 DEF SendOutput, EndLoop, GoOn
<1>18. CASE ReadMessage
  BY <1>18 DEF ReadMessage, EndLoop, GoOn
<1>19. CASE NoticeLoss
  BY <1>19 DEF NoticeLoss
<1>20. CASE AwaitReason
  BY <1>20 DEF AwaitReason, EndLoop
<1>21. CASE ReadReason
  BY <1>21 DEF ReadReason, EndLoop
<1>22. CASE TakeCommand
  BY <1>22 DEF TakeCommand, EndLoop, GoOn
<1>23. CASE WriteInput
  BY <1>23 DEF WriteInput, EndLoop, GoOn
<1>24. CASE NoticeNobody
  BY <1>24 DEF NoticeNobody, EndLoop
<1>25. CASE EofGrace
  BY <1>25 DEF EofGrace, EndLoop
<1>26. CASE Shutdown
  BY <1>26 DEF Shutdown
<1>27. CASE EmitFinal
  BY <1>27 DEF EmitFinal, Finish
<1>28. CASE ServerStep
  <2>1. pc' = pc /\ streamOpen' = streamOpen /\ pc # "done"
    BY <1>28 DEF ServerStep, Winding
  <2>. QED  BY <2>1
<1>29. CASE Done
  BY <1>29 DEF Done
<1>. QED  BY <1>1, <1>2, <1>3, <1>4, <1>5, <1>6, <1>7, <1>8, <1>9, <1>10, <1>11, <1>12, <1>13,
   <1>14, <1>15, <1>16, <1>17, <1>18, <1>19, <1>20, <1>21, <1>22, <1>23, <1>24, <1>25, <1>26,
   <1>27, <1>28, <1>29 DEF Next, WorkerStep, ServerPaced

\* What Append does, and what a stream that says nothing keeps.
LEMMA Appended ==
    ASSUME NEW S, NEW s \in Seq(S), NEW e \in S
    PROVE  /\ Len(Append(s, e)) = Len(s) + 1 /\ Len(s) \in Nat
           /\ Append(s, e) \in Seq(S)
           /\ \A k \in 1 .. Len(s) : Append(s, e)[k] = s[k]
           /\ Append(s, e)[Len(s) + 1] = e
           /\ \A k \in 1 .. Len(Append(s, e)) : k \in 1 .. Len(s) \/ k = Len(s) + 1
<1>. QED  BY AppendProperties

\* What one more event changes of the positions of each kind.
LEMMA Heard ==
    ASSUME SessionInv, NEW e, Speaks(e)
    PROVE  /\ Len(stream') = Len(stream) + 1 /\ Len(stream) \in Nat /\ stream' \in Seq(Events)
           /\ \A i \in 1 .. Len(stream) : stream'[i] = stream[i]
           /\ stream'[Len(stream) + 1] = e
           /\ \A kind :
                 /\ e.kind = kind => Positions(kind)' = Positions(kind) \cup {Len(stream) + 1}
                 /\ e.kind # kind => Positions(kind)' = Positions(kind)
           /\ e.kind \in FinalKinds => FinalAt' = FinalAt \cup {Len(stream) + 1}
           /\ e.kind \notin FinalKinds => FinalAt' = FinalAt
           /\ e.kind = "data" => Published' = Published + 1
           /\ e.kind # "data" => Published' = Published
<1>1. stream \in Seq(Events) /\ e \in Events /\ stream' = Append(stream, e)
  BY DEF SessionInv, Queues, Speaks
<1>2. /\ Len(stream') = Len(stream) + 1 /\ Len(stream) \in Nat /\ stream' \in Seq(Events)
      /\ \A i \in 1 .. Len(stream) : stream'[i] = stream[i]
      /\ stream'[Len(stream) + 1] = e
      /\ \A i \in 1 .. Len(stream') : i \in 1 .. Len(stream) \/ i = Len(stream) + 1
  BY <1>1, Appended
<1>3. ASSUME NEW kind
      PROVE  /\ e.kind = kind => Positions(kind)' = Positions(kind) \cup {Len(stream) + 1}
             /\ e.kind # kind => Positions(kind)' = Positions(kind)
  BY <1>2 DEF Positions
<1>4. /\ e.kind \in FinalKinds => FinalAt' = FinalAt \cup {Len(stream) + 1}
      /\ e.kind \notin FinalKinds => FinalAt' = FinalAt
  BY <1>2 DEF FinalAt
<1>5. e.kind = "data" => Published' = Published + 1
  <2>1. IsFiniteSet(Positions("data")) /\ Len(stream) + 1 \notin Positions("data")
    BY <1>1, <1>2, Counting
  <2>. QED  BY <1>3, <2>1, FS_AddElement DEF Published
<1>6. e.kind # "data" => Published' = Published
  BY <1>3 DEF Published
<1>. QED  BY <1>1, <1>2, <1>3, <1>4, <1>5, <1>6

LEMMA Unheard ==
    ASSUME stream' = stream
    PROVE  /\ \A kind : Positions(kind)' = Positions(kind)
           /\ FinalAt' = FinalAt /\ Published' = Published
BY DEF Positions, FinalAt, Published

\* Only the consumer takes events.
LEMMA OthersTakeNothing ==
    ASSUME SessionInv, Next, ~TakeEvent, ~DropReceiver
    PROVE  taken' = taken
<1>1. CASE \/ OwnerStep \/ CannotStart \/ Start \/ Drain \/ SetupFails \/ ChainStands
           \/ ReplySucceeds \/ ReplyOvertaken \/ ReadSize \/ WindowChange \/ WindowChanged
           \/ EmitReady \/ OpenTunnels \/ Flush
  BY <1>1 DEF OwnerStep, CannotStart, Start, Drain, SetupFails, ChainStands, ReplySucceeds,
              ReplyOvertaken, ReadSize, WindowChange, WindowChanged, EmitReady, OpenTunnels, Flush
<1>2. CASE \/ SendOutput \/ ReadMessage \/ NoticeLoss \/ AwaitReason \/ ReadReason \/ TakeCommand
           \/ WriteInput \/ NoticeNobody \/ EofGrace \/ Shutdown \/ EmitFinal \/ ServerStep \/ Done
  BY <1>2 DEF SendOutput, ReadMessage, NoticeLoss, AwaitReason, ReadReason, TakeCommand, WriteInput,
              NoticeNobody, EofGrace, Shutdown, EmitFinal, ServerStep, Done
<1>. QED  BY <1>1, <1>2 DEF Next, WorkerStep, ServerPaced

\* Ready comes before output, once, and nothing after the final event.
LEMMA KeepsSequence == ASSUME SessionInv, Next PROVE Sequence'
<1> DEFINE Later == Positions("data") \cup Positions("status") \cup Positions("Tunnel")
<1>1. /\ streamOpen' => streamOpen
      /\ pc' \in Before => pc \in Before
      /\ pc' \in Running => pc \in Running \/ (pc = "established" /\ pc' = "tunnels" /\ streamOpen)
      /\ pc = "done" => pc' = "done"
      /\ Sequence /\ stream \in Seq(Events)
  BY MovesOn DEF Onward, SessionInv, Queues
<1>2. CASE Quiet
  <2>1. pc' \in Running => pc \in Running
    BY <1>1, <1>2 DEF Quiet
  <2>2. stream' = stream
    BY <1>2 DEF Quiet
  <2>. QED  BY <1>1, <2>1, <2>2, Unheard DEF Sequence
<1>3. ASSUME NEW e, Speaks(e) PROVE Sequence'
  <2>1. /\ streamOpen /\ FinalAt = {}
        /\ Len(stream) \in Nat /\ Len(stream') = Len(stream) + 1
        /\ \A kind : Positions(kind) \subseteq 1 .. Len(stream)
    BY <1>1, <1>3, Heard, Counting DEF Speaks, Sequence
  <2>2. /\ e.kind = "Ready" => pc = "established" /\ pc' = "tunnels"
        /\ e.kind \in {"data", "status", "Tunnel"} => pc \in Running
        /\ e.kind \in FinalKinds => ~streamOpen' /\ pc' = "done"
    BY <1>3 DEF Speaks, Running
  <2>3. e.kind \in Told \cup FinalKinds
    BY <1>3 DEF Speaks, Events
  <2>4. streamOpen' => FinalAt' = {}
    BY <1>3, <2>1, <2>2, Heard
  <2>5. \A i \in FinalAt' : i = Len(stream') /\ pc' = "done"
    BY <1>3, <2>1, <2>2, Heard
  <2>6. /\ \A i, j \in Positions("Ready")' : i = j
        /\ pc' \in Running => Positions("Ready")' # {}
    <3>1. CASE e.kind = "Ready"
      <4>1. Positions("Ready") = {}
        BY <1>1, <2>2, <3>1 DEF Sequence, Before
      <4>. QED  BY <1>3, <3>1, <4>1, Heard
    <3>2. CASE e.kind # "Ready"
      <4>1. Positions("Ready")' = Positions("Ready")
        BY <1>3, <3>2, Heard
      <4>2. pc' \in Running => pc \in Running
        BY <1>1, <1>3, <3>2 DEF Speaks
      <4>. QED  BY <1>1, <4>1, <4>2 DEF Sequence
    <3>. QED  BY <3>1, <3>2
  <2>7. pc' \in Before =>
            Positions("Ready")' \cup Positions("data")' \cup Positions("status")'
            \cup Positions("Tunnel")' = {}
    <3>1. pc' \in Before => e.kind \notin {"Ready", "data", "status", "Tunnel"}
      BY <1>1, <2>2 DEF Before, Running
    <3>. QED  BY <1>1, <1>3, <3>1, Heard DEF Sequence
  <2>8. ASSUME NEW i \in Positions("data")' \cup Positions("status")' \cup Positions("Tunnel")'
        PROVE  \E j \in Positions("Ready")' : j < i
    <3>1. Positions("Ready") \subseteq Positions("Ready")'
      BY <1>3, Heard
    <3>2. CASE i \in Later
      BY <1>1, <3>1, <3>2 DEF Sequence
    <3>3. CASE i \notin Later
      <4>1. i = Len(stream) + 1 /\ e.kind \in {"data", "status", "Tunnel"}
        BY <1>3, <2>8, <3>3, Heard
      <4>2. PICK j \in Positions("Ready") : TRUE
        BY <1>1, <2>2, <4>1 DEF Sequence
      <4>. QED  BY <2>1, <3>1, <4>1, <4>2
    <3>. QED  BY <3>2, <3>3
  <2>. QED  BY <2>4, <2>5, <2>6, <2>7, <2>8 DEF Sequence
<1>. QED  BY <1>2, <1>3, Speech

\* Output and exit status are published in the order the server sent them.
LEMMA KeepsOrder == ASSUME SessionInv, Next PROVE OutputInOrder'
<1>1. OutputInOrder /\ stream \in Seq(Events)
  BY DEF SessionInv, Queues
<1>2. CASE Quiet
  BY <1>1, <1>2 DEF Quiet, OutputInOrder, Positions
<1>3. ASSUME NEW e, Speaks(e) PROVE OutputInOrder'
  <2>1. /\ Len(stream) \in Nat
        /\ \A kind : Positions(kind) \subseteq 1 .. Len(stream) /\ IsFiniteSet(Positions(kind))
        /\ \A i \in 1 .. Len(stream) : stream'[i] = stream[i]
        /\ stream'[Len(stream) + 1] = e
    BY <1>1, <1>3, Heard, Counting
  <2>2. /\ e.kind = "data" => e.chunk = Published + 1
        /\ e.kind = "status" => e.chunk = Published
    BY <1>3 DEF Speaks
  <2>3. ASSUME NEW i \in 1 .. Len(stream)
        PROVE  /\ {j \in Positions("data")' : j <= i} = {j \in Positions("data") : j <= i}
               /\ {j \in Positions("data")' : j < i} = {j \in Positions("data") : j < i}
    <3>1. CASE e.kind = "data"
      <4>1. Positions("data")' = Positions("data") \cup {Len(stream) + 1}
        BY <1>3, <3>1, Heard
      <4>. QED  BY <2>1, <4>1
    <3>2. CASE e.kind # "data"
      <4>1. Positions("data")' = Positions("data")
        BY <1>3, <3>2, Heard
      <4>. QED  BY <4>1
    <3>. QED  BY <3>1, <3>2
  <2>4. ASSUME NEW i \in Positions("data")'
        PROVE  stream'[i].chunk = Cardinality({j \in Positions("data")' : j <= i})
    <3>1. CASE i \in Positions("data")
      BY <1>1, <2>1, <2>3, <3>1 DEF OutputInOrder
    <3>2. CASE i \notin Positions("data")
      <4>1. i = Len(stream) + 1 /\ e.kind = "data"
        BY <1>3, <2>4, <3>2, Heard
      <4>2. {j \in Positions("data")' : j <= i} = Positions("data") \cup {Len(stream) + 1}
        <5>1. Positions("data")' = Positions("data") \cup {Len(stream) + 1}
          BY <1>3, <4>1, Heard
        <5>. QED  BY <2>1, <4>1, <5>1
      <4>3. Len(stream) + 1 \notin Positions("data")
        BY <2>1
      <4>4. Cardinality(Positions("data") \cup {Len(stream) + 1}) = Published + 1
        BY <2>1, <4>3, FS_AddElement DEF Published
      <4>. QED  BY <2>1, <2>2, <4>1, <4>2, <4>4
    <3>. QED  BY <3>1, <3>2
  <2>5. ASSUME NEW i \in Positions("status")'
        PROVE  stream'[i].chunk = Cardinality({j \in Positions("data")' : j < i})
    <3>1. CASE i \in Positions("status")
      BY <1>1, <2>1, <2>3, <3>1 DEF OutputInOrder
    <3>2. CASE i \notin Positions("status")
      <4>1. i = Len(stream) + 1 /\ e.kind = "status"
        BY <1>3, <2>5, <3>2, Heard
      <4>2. {j \in Positions("data")' : j < i} = Positions("data")
        BY <1>3, <2>1, <4>1, Heard
      <4>. QED  BY <2>1, <2>2, <4>1, <4>2 DEF Published
    <3>. QED  BY <3>1, <3>2
  <2>. QED  BY <2>4, <2>5 DEF OutputInOrder
<1>. QED  BY <1>2, <1>3, Speech

\* A final event that names the end of the shell follows all its output.
LEMMA KeepsNothingLost == ASSUME SessionInv, Next PROVE NothingLostOnShellEnd'
<1>1. /\ NothingLostOnShellEnd /\ stream \in Seq(Events)
      /\ \A i \in FinalAt : pc = "done"
      /\ pc = "done" => UNCHANGED <<stream, produced>>
  BY MovesOn DEF Onward, SessionInv, Queues, Sequence
<1>2. CASE stream' = stream
  BY <1>1, <1>2, Unheard DEF NothingLostOnShellEnd
<1>3. ASSUME NEW e, Speaks(e) PROVE NothingLostOnShellEnd'
  <2>1. produced' = produced /\ FinalAt = {}
    BY <1>3 DEF Speaks, SessionInv, Sequence
  <2>2. CASE e.kind \in FinalKinds
    <3>1. /\ FinalAt' = {Len(stream) + 1} /\ stream'[Len(stream) + 1] = e
          /\ Published' = Published /\ (e.why \in ShellEnds => Published = produced)
      BY <1>3, <2>1, <2>2, Heard DEF Speaks, FinalKinds
    <3>. QED  BY <2>1, <3>1 DEF NothingLostOnShellEnd, ShellEnds
  <2>3. CASE e.kind \notin FinalKinds
    BY <1>3, <2>1, <2>3, Heard DEF NothingLostOnShellEnd
  <2>. QED  BY <2>2, <2>3
<1>. QED  BY <1>2, <1>3, Speech DEF Quiet

\* The stream never holds more output than its budget.
LEMMA KeepsTaken == ASSUME SessionInv, Next PROVE Taken'
<1>1. /\ Published \in Nat /\ taken \in Nat /\ taken <= Published /\ Published <= taken + Budget
      /\ Budget \in Nat
  BY Counting DEF SessionInv, Queues, Taken
<1>2. CASE TakeEvent
  <2>1. Published' = Published /\ taken' = taken + 1 /\ Published - taken > 0
    BY <1>2, Unheard DEF TakeEvent, Buffered
  <2>. QED  BY <1>1, <2>1 DEF Taken
<1>3. CASE DropReceiver
  <2>1. Published' = Published /\ taken' = Published
    BY <1>3, Unheard DEF DropReceiver
  <2>. QED  BY <1>1, <2>1 DEF Taken
<1>4. CASE ~TakeEvent /\ ~DropReceiver
  <2>1. taken' = taken
    BY <1>4, OthersTakeNothing
  <2>2. CASE stream' = stream
    BY <1>1, <2>1, <2>2, Unheard DEF Taken
  <2>3. ASSUME NEW e, Speaks(e) PROVE Taken'
    <3>1. CASE e.kind = "data"
      <4>1. Published' = Published + 1 /\ Published - taken < Budget
        BY <2>3, <3>1, Heard DEF Speaks, Buffered
      <4>. QED  BY <1>1, <2>1, <4>1 DEF Taken
    <3>2. CASE e.kind # "data"
      BY <1>1, <2>1, <2>3, <3>2, Heard DEF Taken
    <3>. QED  BY <3>1, <3>2
  <2>. QED  BY <2>2, <2>3, Speech DEF Quiet
<1>. QED  BY <1>2, <1>3, <1>4

-----------------------------------------------------------------------------
(* Output on its way: early, waiting and inbound pieces.                   *)

\* What Tail and concatenation do.
LEMMA Shortened ==
    ASSUME NEW S, NEW s \in Seq(S), s # << >>
    PROVE  /\ Len(Tail(s)) = Len(s) - 1 /\ Len(s) \in Nat \ {0} /\ Tail(s) \in Seq(S)
           /\ s[1] \in S /\ Head(s) = s[1]
           /\ \A k \in 1 .. Len(Tail(s)) : k + 1 \in 1 .. Len(s) /\ Tail(s)[k] = s[k + 1]
<1>. QED  BY HeadTailProperties

LEMMA Joined ==
    ASSUME NEW S, NEW s \in Seq(S), NEW t \in Seq(S)
    PROVE  /\ s \o t \in Seq(S) /\ Len(s \o t) = Len(s) + Len(t)
           /\ Len(s) \in Nat /\ Len(t) \in Nat
           /\ \A k \in 1 .. Len(s) : (s \o t)[k] = s[k]
           /\ \A k \in Len(s) + 1 .. Len(s \o t) :
                 k - Len(s) \in 1 .. Len(t) /\ (s \o t)[k] = t[k - Len(s)]
           /\ s = << >> => s \o t = t
<1>1. /\ s \o t \in Seq(S) /\ Len(s \o t) = Len(s) + Len(t)
      /\ Len(s) \in Nat /\ Len(t) \in Nat
      /\ \A k \in 1 .. Len(s) + Len(t) : (s \o t)[k] = IF k <= Len(s) THEN s[k] ELSE t[k - Len(s)]
  BY ConcatProperties
<1>2. s = << >> => s \o t = t
  BY ConcatEmptySeq
<1>. QED  BY <1>1, <1>2

LEMMA ShapeAt ==
    ASSUME NEW w \in Seq(Messages), NEW i \in 1 .. Len(w)
    PROVE  /\ w[i].kind \in {"data"} \cup Spoken /\ w[i].after \in Nat
           /\ w[i].chunks \in Seq(Nat) /\ Len(w[i].chunks) \in Nat
<1>1. w[i] \in Messages
  OBVIOUS
<1>. QED  BY <1>1, MessageShape

\* Messages stay numbered as the first is read and one more arrives.
LEMMA InboundTail ==
    ASSUME NEW w \in Seq(Messages), w # << >>, NEW base \in Nat, NEW top \in Nat,
           Inbound(base, w, top)
    PROVE  /\ Inbound(base + Len(Head(w).chunks), Tail(w), top)
           /\ Head(w).after = base /\ base + Len(Head(w).chunks) <= top
           /\ \A j \in 1 .. Len(Head(w).chunks) : Head(w).chunks[j] = base + j
<1> DEFINE next == base + Len(Head(w).chunks)
<1>1. /\ Len(Tail(w)) = Len(w) - 1 /\ Len(w) \in Nat \ {0} /\ Tail(w) \in Seq(Messages)
      /\ Head(w) = w[1] /\ 1 \in 1 .. Len(w)
      /\ \A k \in 1 .. Len(Tail(w)) : k + 1 \in 1 .. Len(w) /\ Tail(w)[k] = w[k + 1]
  BY Shortened
<1>2. /\ Head(w).after = base /\ base + Len(Head(w).chunks) <= top
      /\ \A j \in 1 .. Len(Head(w).chunks) : Head(w).chunks[j] = base + j
  BY <1>1 DEF Inbound
<1>3. ASSUME NEW i \in 1 .. Len(Tail(w))
      PROVE  /\ Tail(w)[i].after =
                   IF i = 1 THEN next ELSE Tail(w)[i - 1].after + Len(Tail(w)[i - 1].chunks)
             /\ \A j \in 1 .. Len(Tail(w)[i].chunks) :
                   Tail(w)[i].chunks[j] = Tail(w)[i].after + j
             /\ Tail(w)[i].after + Len(Tail(w)[i].chunks) <= top
  <2>1. i + 1 \in 1 .. Len(w) /\ Tail(w)[i] = w[i + 1] /\ i + 1 # 1 /\ (i + 1) - 1 = i
    BY <1>1
  <2>2. w[i + 1].after = w[i].after + Len(w[i].chunks)
    BY <2>1 DEF Inbound
  <2>3. CASE i = 1
    BY <1>1, <1>2, <2>1, <2>2, <2>3 DEF Inbound
  <2>4. CASE i # 1
    <3>1. i - 1 \in 1 .. Len(Tail(w)) /\ (i - 1) + 1 = i
      BY <1>1, <2>4
    <3>2. Tail(w)[i - 1] = w[i]
      BY <1>1, <3>1
    <3>. QED  BY <2>1, <2>2, <2>4, <3>2 DEF Inbound
  <2>. QED  BY <2>3, <2>4
<1>4. top = IF Tail(w) = << >> THEN next
            ELSE Tail(w)[Len(Tail(w))].after + Len(Tail(w)[Len(Tail(w))].chunks)
  <2>1. top = w[Len(w)].after + Len(w[Len(w)].chunks)
    BY DEF Inbound
  <2>2. CASE Tail(w) = << >>
    <3>1. Len(w) = 1
      BY <1>1, <2>2
    <3>. QED  BY <1>1, <1>2, <2>1, <2>2, <3>1
  <2>3. CASE Tail(w) # << >>
    <3>1. Len(Tail(w)) \in 1 .. Len(Tail(w)) /\ Len(Tail(w)) + 1 = Len(w)
      BY <1>1, <2>3
    <3>. QED  BY <1>1, <2>1, <2>3, <3>1
  <2>. QED  BY <2>2, <2>3
<1>. QED  BY <1>2, <1>3, <1>4 DEF Inbound

LEMMA InboundAppend ==
    ASSUME NEW w \in Seq(Messages), NEW m \in Messages, NEW base \in Nat, NEW top \in Nat,
           Inbound(base, w, top), m.after = top,
           \A j \in 1 .. Len(m.chunks) : m.chunks[j] = top + j
    PROVE  Inbound(base, Append(w, m), top + Len(m.chunks))
<1> DEFINE v == Append(w, m)
<1>1. /\ Len(v) = Len(w) + 1 /\ Len(w) \in Nat /\ v # << >>
      /\ \A k \in 1 .. Len(w) : v[k] = w[k]
      /\ v[Len(w) + 1] = m
      /\ \A k \in 1 .. Len(v) : k \in 1 .. Len(w) \/ k = Len(w) + 1
  <2>1. /\ Len(v) = Len(w) + 1 /\ Len(w) \in Nat
        /\ \A k \in 1 .. Len(w) : v[k] = w[k]
        /\ v[Len(w) + 1] = m
        /\ \A k \in 1 .. Len(v) : k \in 1 .. Len(w) \/ k = Len(w) + 1
    BY Appended
  <2>2. v # << >>
    OBVIOUS
  <2>. QED  BY <2>1, <2>2
<1>2. Len(m.chunks) \in Nat /\ m.after \in Nat
  BY MessageShape
<1> HIDE DEF v
<1>3. ASSUME NEW i \in 1 .. Len(v)
      PROVE  /\ v[i].after = IF i = 1 THEN base ELSE v[i - 1].after + Len(v[i - 1].chunks)
             /\ \A j \in 1 .. Len(v[i].chunks) : v[i].chunks[j] = v[i].after + j
             /\ v[i].after + Len(v[i].chunks) <= top + Len(m.chunks)
  <2>1. CASE i \in 1 .. Len(w)
    <3>1. v[i] = w[i] /\ (i # 1 => i - 1 \in 1 .. Len(w) /\ v[i - 1] = w[i - 1])
      BY <1>1, <2>1
    <3>2. w[i].after \in Nat /\ Len(w[i].chunks) \in Nat
      BY <2>1, ShapeAt
    <3>3. /\ w[i].after = IF i = 1 THEN base ELSE w[i - 1].after + Len(w[i - 1].chunks)
          /\ \A j \in 1 .. Len(w[i].chunks) : w[i].chunks[j] = w[i].after + j
      BY <2>1 DEF Inbound
    <3>4. w[i].after + Len(w[i].chunks) <= top
      BY <2>1 DEF Inbound
    <3>5. w[i].after + Len(w[i].chunks) <= top + Len(m.chunks)
      BY <1>2, <3>2, <3>4
    <3>. QED  BY <3>1, <3>3, <3>5
  <2>2. CASE i = Len(w) + 1
    <3>1. v[i] = m
      BY <1>1, <2>2
    <3>2. CASE i = 1
      <4>1. w = << >>
        BY <1>1, <2>2, <3>2
      <4>. QED  BY <1>2, <3>1, <3>2, <4>1 DEF Inbound
    <3>3. CASE i # 1
      <4>1. i - 1 = Len(w) /\ Len(w) \in 1 .. Len(w) /\ w # << >> /\ v[i - 1] = w[Len(w)]
        BY <1>1, <2>2, <3>3
      <4>. QED  BY <1>2, <3>1, <3>3, <4>1 DEF Inbound
    <3>. QED  BY <3>2, <3>3
  <2>. QED  BY <1>1, <2>1, <2>2
<1>4. top + Len(m.chunks) = IF v = << >> THEN base ELSE v[Len(v)].after + Len(v[Len(v)].chunks)
  BY <1>1, <1>2
<1>5. Inbound(base, v, top + Len(m.chunks))
  BY <1>3, <1>4 DEF Inbound
<1>. QED  BY <1>5 DEF v


\* Output rests, or the stage is one in which nobody waits for it.
Still ==
    /\ UNCHANGED <<early, pending, wire, produced, ended>>
    /\ shell = "exited" => shell' = "exited"
Left == pc' \in Over /\ early' = early /\ pending' \in {pending, << >>} /\ wire' \in {wire, << >>}

LEMMA EmptySequences == << >> \in Seq(Messages) /\ << >> \in Seq(Nat)
OBVIOUS

\* Only the front of what waits is ever published.
LEMMA SamePublished ==
    ASSUME SessionInv, Next, pending' = pending \/ pending = << >>
    PROVE  Published' = Published
<1>1. pending \in Seq(Nat)
  BY DEF SessionInv, Queues, OutQueues
<1>2. CASE Quiet
  BY <1>2, Unheard DEF Quiet
<1>3. ASSUME NEW e, Speaks(e) PROVE Published' = Published
  <2>1. e.kind # "data"
    <3>1. SUFFICES ASSUME e.kind = "data" PROVE FALSE
      OBVIOUS
    <3>2. pending # << >> /\ pending' = Tail(pending)
      BY <1>3, <3>1 DEF Speaks
    <3>3. pending # << >>
      BY <3>2
    <3>4. Len(Tail(pending)) = Len(pending) - 1 /\ Len(pending) \in Nat
      BY <1>1, <3>3, Shortened
    <3>5. Tail(pending) # pending
      BY <3>4
    <3>. QED  BY <3>2, <3>5
  <2>. QED  BY <1>3, <2>1, Heard
<1>. QED  BY <1>2, <1>3, Speech

LEMMA StillChained ==
    ASSUME SessionInv, Next, Still, pc \notin Over
    PROVE  Chained'
<1>1. Published' = Published
  BY SamePublished DEF Still
<1>2. Held' = Held
  BY <1>1 DEF Still, Held
<1>3. Chained
  BY DEF SessionInv, Output
<1>4. /\ early' = early /\ pending' = pending /\ wire' = wire /\ produced' = produced
      /\ ended' = ended /\ (shell = "exited" => shell' = "exited")
  BY DEF Still
<1>. QED  BY <1>1, <1>2, <1>3, <1>4 DEF Chained

\* Which steps leave output where it is.
LEMMA MostRest ==
    ASSUME SessionInv, Next
    PROVE  \/ Still \/ Left
           \/ SendOutput \/ ReadMessage \/ ReplyOvertaken \/ Flush
           \/ ServerStep /\ (ServerSends \/ SayFarewell)
<1> USE DEF Still, Left, Over
<1>1. CASE \/ OwnerStep \/ TakeEvent \/ DropReceiver \/ CannotStart \/ Start
  BY <1>1 DEF OwnerStep, TakeEvent, DropReceiver, CannotStart, Start
<1>2. CASE \/ Drain \/ SetupFails \/ ChainStands
  BY <1>2 DEF Drain, SetupFails, ChainStands
<1>3. CASE ReplySucceeds
  <2>1. /\ UNCHANGED <<early, pending, wire, produced, ended>>
        /\ pc = "pty" \/ shell' = shell
    BY <1>3 DEF ReplySucceeds
  <2>. QED  BY <2>1 DEF SessionInv, Stages
<1>4. CASE \/ ReadSize \/ WindowChange \/ WindowChanged \/ EmitReady \/ OpenTunnels
  BY <1>4 DEF ReadSize, WindowChange, WindowChanged, EmitReady, OpenTunnels
<1>5. CASE NoticeLoss \/ AwaitReason \/ ReadReason
  BY <1>5 DEF NoticeLoss, AwaitReason, ReadReason, EndLoop, Forget
<1>6. CASE TakeCommand
  <2>1. CASE EndLoop(Closed("local"))
    BY <1>6, <2>1 DEF TakeCommand, EndLoop, Forget
  <2>2. CASE UNCHANGED <<pending, ended, wire>>
    BY <1>6, <2>2 DEF TakeCommand
  <2>. QED  BY <1>6, <2>1, <2>2 DEF TakeCommand
<1>7. CASE WriteInput
  <2>1. CASE EndLoop(Failed("write"))
    BY <1>7, <2>1 DEF WriteInput, EndLoop, Forget
  <2>2. CASE UNCHANGED <<pending, ended, wire>>
    BY <1>7, <2>2 DEF WriteInput
  <2>. QED  BY <1>7, <2>1, <2>2 DEF WriteInput
<1>8. CASE NoticeNobody \/ EofGrace
  BY <1>8 DEF NoticeNobody, EofGrace, EndLoop, Forget
<1>9. CASE Shutdown \/ EmitFinal
  BY <1>9 DEF Shutdown, EmitFinal
<1>10. CASE ServerStep
  BY <1>10 DEF ServerStep, ShellExits, TransportCloses, HandlerTells
<1>11. CASE Done
  BY <1>11 DEF Done
<1>. QED  BY <1>1, <1>2, <1>3, <1>4, <1>5, <1>6, <1>7, <1>8, <1>9, <1>10, <1>11
             DEF Next, WorkerStep, ServerPaced

Kept == OutQueues' /\ (pc' \notin Over => Chained')

LEMMA NotOver == ASSUME SessionInv, Next, pc' \notin Over PROVE pc \notin Over
<1>1. pc' \in Before \cup Running
  BY KeepPlaces DEF Places, Marks
<1>2. pc \in Before \cup Running
  BY <1>1, MovesOn DEF Onward, Before
<1>. QED  BY <1>2 DEF Before, Running, Over

LEMMA StillKept == ASSUME SessionInv, Next, Still \/ Left PROVE Kept
<1>1. OutQueues' 
  BY EmptySequences DEF SessionInv, Queues, OutQueues, Still, Left
<1>2. ASSUME pc' \notin Over PROVE Chained'
  <2>1. pc \notin Over
    BY <1>2, NotOver
  <2>2. Still
    BY <1>2 DEF Left
  <2>. QED  BY <2>1, <2>2, StillChained
<1>. QED  BY <1>1, <1>2 DEF Kept


\* The front chunk goes out (Step::Output).
LEMMA SendKept == ASSUME SessionInv, SendOutput PROVE Kept
<1>1. /\ pc = "loop" /\ pending # << >> /\ early = << >> /\ pending \in Seq(Nat)
      /\ OutQueues /\ Chained /\ Published \in Nat
  BY Counting DEF SendOutput, SessionInv, Queues, OutQueues, Stages, Output, Over
<1>2. CASE ~streamOpen
  <2>1. early' = early /\ pending' = << >> /\ wire' = << >> /\ pc' \in Over
    BY <1>2 DEF SendOutput, EndLoop, Forget, setupVars, Over
  <2>. QED  BY <1>1, <2>1, EmptySequences DEF Kept, OutQueues
<1>3. CASE streamOpen
  <2>1. /\ early' = << >> /\ pending' = Tail(pending) /\ wire' = wire /\ produced' = produced
        /\ ended' = ended /\ shell' = shell
    BY <1>1, <1>3 DEF SendOutput, setupVars, peerVars
  <2>2. Published' = Published + 1
    <3>1. Next
      BY DEF Next, WorkerStep
    <3>. QED  BY <1>3, SendsChunk, Heard
  <2>3. /\ Len(pending') = Len(pending) - 1 /\ Len(pending) \in Nat \ {0}
        /\ pending' \in Seq(Nat)
        /\ \A k \in 1 .. Len(pending') : k + 1 \in 1 .. Len(pending) /\ pending'[k] = pending[k + 1]
    BY <1>1, <2>1, Shortened
  <2>4. Held' = Held
    BY <1>1, <2>1, <2>2, <2>3 DEF Held
  <2>5. \A i \in 1 .. Len(pending') : pending'[i] = Published' + i
    BY <1>1, <2>2, <2>3 DEF Chained
  <2>6. ~ended.eof
    BY <1>1 DEF Chained
  <2>7. Chained'
    BY <1>1, <2>1, <2>4, <2>5, <2>6 DEF Chained
  <2>. QED  BY <1>1, <2>1, <2>3, <2>7 DEF Kept, OutQueues
<1>. QED  BY <1>2, <1>3

\* What the first message of the channel says of the output.
LEMMA NextInbound ==
    ASSUME SessionInv, pc \notin Over, wire # << >>
    PROVE  /\ Inbound(Held + Len(Head(wire).chunks), Tail(wire), produced)
           /\ Head(wire).after = Held /\ Held + Len(Head(wire).chunks) <= produced
           /\ \A j \in 1 .. Len(Head(wire).chunks) : Head(wire).chunks[j] = Held + j
           /\ Held \in Nat /\ Tail(wire) \in Seq(Messages)
           /\ Head(wire).kind # "data" =>
                 Head(wire).chunks = << >> /\ Held = produced /\ shell = "exited"
           /\ \A i \in 1 .. Len(Tail(wire)) :
                 Tail(wire)[i].kind # "data" =>
                     /\ Tail(wire)[i].chunks = << >> /\ Tail(wire)[i].after = produced
                     /\ shell = "exited"
<1>1. Chained /\ OutQueues /\ produced \in Nat /\ Published \in Nat
  BY Counting DEF SessionInv, Output, Queues, Counted
<1>2. Held \in Nat
  BY <1>1 DEF Held, OutQueues
<1>3. /\ wire \in Seq(Messages) /\ Inbound(Held, wire, produced)
  BY <1>1 DEF OutQueues, Chained
<1>4. /\ Inbound(Held + Len(Head(wire).chunks), Tail(wire), produced)
      /\ Head(wire).after = Held /\ Held + Len(Head(wire).chunks) <= produced
      /\ \A j \in 1 .. Len(Head(wire).chunks) : Head(wire).chunks[j] = Held + j
  BY <1>1, <1>2, <1>3, InboundTail
<1>5. /\ Tail(wire) \in Seq(Messages) /\ Head(wire) = wire[1] /\ 1 \in 1 .. Len(wire)
      /\ \A k \in 1 .. Len(Tail(wire)) : k + 1 \in 1 .. Len(wire) /\ Tail(wire)[k] = wire[k + 1]
  BY <1>3, Shortened
<1>6. \A i \in 1 .. Len(wire) :
          wire[i].kind # "data" =>
              wire[i].chunks = << >> /\ wire[i].after = produced /\ shell = "exited"
  BY <1>1 DEF Chained
<1>. QED  BY <1>2, <1>4, <1>5, <1>6

\* A message is read while nothing waits (Step::Message).
LEMMA ReadKept == ASSUME SessionInv, ReadMessage PROVE Kept
<1>1. /\ pc = "loop" /\ pending = << >> /\ early = << >> /\ wire # << >> /\ pc \notin Over
      /\ OutQueues /\ Chained /\ Published \in Nat
      /\ early' = early /\ produced' = produced /\ shell' = shell
  BY Counting DEF ReadMessage, MayRead, SessionInv, Queues, Stages, Output, Over,
                  setupVars, peerVars
<1>2. Held = Published
  BY <1>1 DEF Held
<1>3. Published' = Published
  <2>1. Next
    BY DEF Next, WorkerStep
  <2>. QED  BY <1>1, <2>1, SamePublished
<1>4. CASE wire' = << >> /\ pending' = << >> /\ pc' \in Over
  BY <1>1, <1>4, EmptySequences DEF Kept, OutQueues
<1>5. CASE /\ Head(wire).kind = "data" /\ wire' = Tail(wire)
           /\ pending' = pending \o Head(wire).chunks /\ ended' = ended
  <2>1. Head(wire).chunks \in Seq(Nat)
    BY <1>1, FirstMessage
  <2>2. pending' = Head(wire).chunks
    BY <1>1, <1>5, <2>1, Joined
  <2>3. Held' = Held + Len(Head(wire).chunks)
    BY <1>1, <1>2, <1>3, <2>1, <2>2 DEF Held
  <2>4. Inbound(Held', wire', produced')
    BY <1>1, <1>5, <2>3, NextInbound
  <2>5. \A i \in 1 .. Len(pending') : pending'[i] = Published' + i
    BY <1>1, <1>2, <1>3, <2>2, NextInbound
  <2>6. ended'.eof => Published' = produced' /\ shell' = "exited" /\ pending' = << >>
    <3>1. ASSUME ended.eof PROVE pending' = << >> /\ Published = produced /\ shell = "exited"
      <4>1. Published = produced /\ shell = "exited"
        BY <1>1, <3>1 DEF Chained
      <4>2. Held + Len(Head(wire).chunks) <= produced
        BY <1>1, NextInbound
      <4>3. Len(Head(wire).chunks) = 0
        BY <1>1, <1>2, <2>1, <4>1, <4>2
      <4>. QED  BY <2>1, <2>2, <4>1, <4>3
    <3>. QED  BY <1>1, <1>3, <1>5, <3>1
  <2>7. \A i \in 1 .. Len(wire') :
            wire'[i].kind # "data" =>
                wire'[i].chunks = << >> /\ wire'[i].after = produced' /\ shell' = "exited"
    BY <1>1, <1>5, NextInbound
  <2>8. Chained'
    BY <1>1, <2>4, <2>5, <2>6, <2>7 DEF Chained
  <2>9. OutQueues'
    BY <1>1, <1>5, <2>1, <2>2, NextInbound DEF OutQueues
  <2>. QED  BY <2>8, <2>9 DEF Kept
<1>6. CASE Head(wire).kind # "data" /\ wire' = Tail(wire) /\ pending' = pending
  <2>1. Head(wire).chunks = << >> /\ Held = produced /\ shell = "exited"
    BY <1>1, <1>6, NextInbound
  <2>2. Held' = Held
    BY <1>1, <1>3, <1>6 DEF Held
  <2>3. Inbound(Held', wire', produced')
    <3>1. Inbound(Held + Len(Head(wire).chunks), Tail(wire), produced) /\ Held \in Nat
      BY <1>1, NextInbound
    <3>2. Held + Len(Head(wire).chunks) = Held
      BY <2>1, <3>1
    <3>. QED  BY <1>1, <1>6, <2>2, <3>1, <3>2
  <2>4. \A i \in 1 .. Len(wire') :
            wire'[i].kind # "data" =>
                wire'[i].chunks = << >> /\ wire'[i].after = produced' /\ shell' = "exited"
    BY <1>1, <1>6, NextInbound
  <2>5. Chained'
    BY <1>1, <1>2, <1>3, <1>6, <2>1, <2>3, <2>4 DEF Chained
  <2>6. OutQueues'
    BY <1>1, <1>6, NextInbound DEF OutQueues
  <2>. QED  BY <2>5, <2>6 DEF Kept
<1>7. CASE Head(wire).kind = "data"
  BY <1>1, <1>5, <1>7 DEF ReadMessage
<1>8. CASE Head(wire).kind = "status"
  BY <1>4, <1>6, <1>8 DEF ReadMessage, EndLoop, Forget, Over
<1>9. CASE Head(wire).kind \in {"signal", "eof"}
  BY <1>6, <1>9 DEF ReadMessage
<1>10. CASE Head(wire).kind = "close"
  BY <1>4, <1>10 DEF ReadMessage, EndLoop, Forget, Over
<1>. QED  BY <1>7, <1>8, <1>9, <1>10 DEF ReadMessage


\* Output that overtakes the reply is kept (await_reply).
LEMMA OvertakenKept == ASSUME SessionInv, ReplyOvertaken PROVE Kept
<1>1. /\ pc = "shell" /\ pending = << >> /\ wire # << >> /\ pc \notin Over
      /\ OutQueues /\ Chained /\ Published \in Nat /\ ~ended.eof
      /\ pending' = pending /\ produced' = produced /\ shell' = shell /\ ended' = ended
      /\ wire' = Tail(wire)
  BY Counting DEF ReplyOvertaken, SessionInv, Queues, Stages, Output, Over, Before, loopVars,
                  NothingHeard
<1>2. Published' = Published
  <2>1. Next
    BY DEF Next, ServerPaced
  <2>. QED  BY <1>1, <2>1, SamePublished
<1> DEFINE first == Head(wire).chunks
<1>0. PICK c : c = first
  OBVIOUS
<1>3. /\ c \in Seq(Nat) /\ wire' \in Seq(Messages)
      /\ Inbound(Held + Len(c), wire', produced')
      /\ \A j \in 1 .. Len(c) : c[j] = Held + j
      /\ Held \in Nat
      /\ Head(wire).kind # "data" => c = << >>
      /\ \A i \in 1 .. Len(wire') :
             wire'[i].kind # "data" =>
                 wire'[i].chunks = << >> /\ wire'[i].after = produced' /\ shell' = "exited"
  <2>1. c \in Seq(Nat) /\ Tail(wire) \in Seq(Messages)
    BY <1>0, <1>1, FirstMessage
  <2>. QED  BY <1>0, <1>1, <2>1, NextInbound
<1> HIDE DEF first
<1>4. CASE pc' = "done" /\ early' = early
  BY <1>1, <1>3, <1>4 DEF Kept, OutQueues, Over
<1>5. CASE early' = early \o c
  <2>1. /\ early' \in Seq(Nat) /\ Len(early') = Len(early) + Len(c)
        /\ Len(early) \in Nat /\ Len(c) \in Nat
        /\ \A k \in 1 .. Len(early) : early'[k] = early[k]
        /\ \A k \in Len(early) + 1 .. Len(early') :
               k - Len(early) \in 1 .. Len(c) /\ early'[k] = c[k - Len(early)]
    <3>1. early \in Seq(Nat)
      BY <1>1 DEF OutQueues
    <3>. QED  BY <1>3, <1>5, <3>1, Joined
  <2>2. Held = Published + Len(early) /\ Held' = Held + Len(c)
    BY <1>1, <1>2, <2>1 DEF Held
  <2>3. ASSUME NEW k \in 1 .. Len(early') PROVE early'[k] = Published' + k
    <3>1. CASE k \in 1 .. Len(early)
      BY <1>1, <1>2, <2>1, <3>1 DEF Chained
    <3>2. CASE k \in Len(early) + 1 .. Len(early')
      <4>1. early'[k] = Held + (k - Len(early))
        BY <1>3, <2>1, <3>2
      <4>. QED  BY <1>1, <1>2, <2>1, <2>2, <4>1
    <3>. QED  BY <2>1, <3>1, <3>2
  <2>4. Chained'
    BY <1>1, <1>2, <1>3, <2>2, <2>3 DEF Chained
  <2>. QED  BY <1>1, <1>3, <2>1, <2>4 DEF Kept, OutQueues
<1>6. CASE early' = early /\ Head(wire).kind # "data"
  <2>1. Held' = Held /\ Held + Len(c) = Held
    <3>1. pending' = pending /\ early' = early
      BY <1>1, <1>6
    <3>2. Held' = Held
      BY <1>2, <3>1 DEF Held
    <3>3. Held \in Nat /\ Len(c) = 0
      BY <1>3, <1>6
    <3>. QED  BY <3>2, <3>3
  <2>2. Chained'
    BY <1>1, <1>2, <1>3, <1>6, <2>1 DEF Chained
  <2>. QED  BY <1>1, <1>3, <1>6, <2>2 DEF Kept, OutQueues
<1>7. CASE Head(wire).kind = "data" /\ Len(early) + Len(first) <= Budget
  BY <1>0, <1>5, <1>7 DEF ReplyOvertaken, KeepEarly, first
<1>8. CASE \/ Head(wire).kind = "data" /\ ~(Len(early) + Len(first) <= Budget)
           \/ Head(wire).kind \in {"eof", "close"}
  BY <1>4, <1>8 DEF ReplyOvertaken, GiveUp, first
<1>9. CASE Head(wire).kind \in {"status", "signal"}
  BY <1>6, <1>9 DEF ReplyOvertaken
<1>. QED  BY <1>7, <1>8, <1>9 DEF ReplyOvertaken, first

\* Early output starts to wait for room.
LEMMA FlushKept == ASSUME SessionInv, Flush PROVE Kept
<1>1. /\ pending = << >> /\ pc \notin Over /\ OutQueues /\ Chained /\ Published \in Nat
      /\ ~ended.eof
      /\ pending' = early /\ early' = << >> /\ produced' = produced /\ shell' = shell
      /\ wire' = wire /\ ended' = ended /\ stream' = stream
  BY Counting DEF Flush, SessionInv, Queues, Stages, Output, Over, NothingHeard
<1>2. Published' = Published
  BY <1>1, Unheard
<1>3. Held' = Held
  BY <1>1, <1>2 DEF Held, OutQueues
<1>4. Chained'
  BY <1>1, <1>2, <1>3 DEF Chained
<1>. QED  BY <1>1, <1>4 DEF Kept, OutQueues

\* The server sends one more message.
LEMMA Sent ==
    ASSUME SessionInv, pc \notin Over, Next,
           UNCHANGED <<early, pending, ended>>, produced \in Nat, produced' \in Nat,
           NEW m \in Messages, wire' = Append(wire, m), m.after = produced,
           produced' = produced + Len(m.chunks),
           \A j \in 1 .. Len(m.chunks) : m.chunks[j] = produced + j,
           m.kind # "data" => m.chunks = << >> /\ shell' = "exited",
           shell = "exited" => m.chunks = << >> /\ shell' = "exited"
    PROVE  Kept
<1>1. Chained /\ OutQueues /\ Published \in Nat /\ Published' = Published
  BY SamePublished, Counting DEF SessionInv, Output, Queues
<1>2. Held \in Nat /\ Held' = Held
  BY <1>1 DEF Held, OutQueues
<1>3. wire \in Seq(Messages) /\ Inbound(Held, wire, produced)
  BY <1>1 DEF OutQueues, Chained
<1>4. Inbound(Held', wire', produced')
  BY <1>2, <1>3, InboundAppend
<1>5. /\ wire' \in Seq(Messages)
      /\ \A k \in 1 .. Len(wire) : wire'[k] = wire[k]
      /\ wire'[Len(wire) + 1] = m
      /\ \A k \in 1 .. Len(wire') : k \in 1 .. Len(wire) \/ k = Len(wire) + 1
  BY <1>3, Appended
<1>6. ASSUME NEW i \in 1 .. Len(wire'), wire'[i].kind # "data"
      PROVE  wire'[i].chunks = << >> /\ wire'[i].after = produced' /\ shell' = "exited"
  <2>1. CASE i = Len(wire) + 1
    BY <1>5, <1>6, <2>1
  <2>2. CASE i \in 1 .. Len(wire)
    <3>1. wire[i].chunks = << >> /\ wire[i].after = produced /\ shell = "exited"
      BY <1>1, <1>5, <1>6, <2>2 DEF Chained
    <3>. QED  BY <1>5, <2>2, <3>1
  <2>. QED  BY <1>5, <2>1, <2>2
<1>7. ended.eof => Published' = produced' /\ shell' = "exited" /\ pending' = << >>
  BY <1>1 DEF Chained
<1>8. Chained'
  BY <1>1, <1>4, <1>6, <1>7 DEF Chained
<1>. QED  BY <1>1, <1>5, <1>8 DEF Kept, OutQueues

LEMMA ServerKept ==
    ASSUME SessionInv, Next, ServerStep, ServerSends \/ SayFarewell
    PROVE  Kept
<1>1. produced \in Nat /\ produced' \in Nat
  BY KeepCounted DEF SessionInv, Counted
<1>2. CASE pc \in Over
  <2>1. pc' \in Over /\ early' = early /\ pending' = pending
    BY <1>2 DEF ServerStep, setupVars, loopVars
  <2>2. wire' \in Seq(Messages)
    <3>1. CASE SayFarewell
      <4>1. PICK kind \in Spoken : wire' = Append(wire, Message(kind))
        BY <3>1 DEF SayFarewell, Receive, Farewells, Spoken
      <4>2. Message(kind) \in Messages
        BY <1>1 DEF Message, Messages
      <4>. QED  BY <4>1, <4>2 DEF SessionInv, Queues, OutQueues
    <3>2. CASE ServerSends
      <4>1. PICK k \in 1 .. MaxPerMessage :
                wire' = Append(wire, [kind |-> "data", after |-> produced,
                                      chunks |-> [i \in 1 .. k |-> produced + i]])
        BY <3>2 DEF ServerSends, Receive
      <4>2. [i \in 1 .. k |-> produced + i] \in Seq(Nat)
        BY <1>1
      <4>3. [kind |-> "data", after |-> produced, chunks |-> [i \in 1 .. k |-> produced + i]]
               \in Messages
        BY <1>1, <4>2 DEF Messages
      <4>. QED  BY <4>1, <4>3 DEF SessionInv, Queues, OutQueues
    <3>. QED  BY <3>1, <3>2
  <2>. QED  BY <2>1, <2>2 DEF Kept, OutQueues, SessionInv, Queues
<1>3. CASE pc \notin Over /\ SayFarewell
  <2>1. PICK kind \in Spoken : wire' = Append(wire, Message(kind))
    BY <1>3 DEF SayFarewell, Receive, Farewells, Spoken
  <2>2. /\ Message(kind) \in Messages /\ Message(kind).after = produced
        /\ Message(kind).chunks = << >>
    BY <1>1 DEF Message, Messages
  <2>3. /\ produced' = produced /\ shell' = "exited"
        /\ UNCHANGED <<early, pending, ended>>
    BY <1>3 DEF SayFarewell, ServerStep, setupVars, loopVars
  <2>. QED  BY <1>1, <1>3, <2>1, <2>2, <2>3, Sent
<1>4. CASE pc \notin Over /\ ServerSends
  <2>1. PICK k \in 1 .. MaxPerMessage :
            /\ produced' = produced + k
            /\ wire' = Append(wire, [kind |-> "data", after |-> produced,
                                     chunks |-> [i \in 1 .. k |-> produced + i]])
    BY <1>4 DEF ServerSends, Receive
  <2> DEFINE c == [i \in 1 .. k |-> produced + i]
             m == [kind |-> "data", after |-> produced, chunks |-> c]
  <2>2. c \in Seq(Nat) /\ Len(c) = k /\ \A j \in 1 .. Len(c) : c[j] = produced + j
    BY <1>1
  <2> HIDE DEF c
  <2>3. m \in Messages /\ m.after = produced /\ m.chunks = c /\ m.kind = "data"
    BY <1>1, <2>2 DEF Messages
  <2>4. wire' = Append(wire, m)
    BY <2>1 DEF c
  <2> HIDE DEF m
  <2>5. shell = "running" /\ UNCHANGED <<early, pending, ended>>
    BY <1>4 DEF ServerSends, ServerStep, setupVars, loopVars
  <2>. QED  BY <1>1, <1>4, <2>1, <2>2, <2>3, <2>4, <2>5, Sent
<1>. QED  BY <1>2, <1>3, <1>4

\* Every step keeps output in line.
LEMMA KeepsMoving == ASSUME SessionInv, Next PROVE Kept
BY MostRest, StillKept, SendKept, ReadKept, OvertakenKept, FlushKept, ServerKept


\* A loop that ends because the shell did has published all the shell wrote.
LEMMA KeepsTold ==
    ASSUME SessionInv, Next, pc' \in {"teardown", "final"}, ending'.why \in ShellEnds
    PROVE  Published' = produced'
<1>1. /\ pc \in Before \cup Running \cup Over
      /\ pc \in {"teardown", "final"} /\ ending.why \in ShellEnds => Published = produced
  BY DEF SessionInv, Marks, Output
<1>2. \A w \in {"nobody", "closed", "local"} : Closed(w).why \notin ShellEnds
  BY EndingKinds DEF ShellEnds
<1>3. /\ Failed("write").why \notin ShellEnds
      /\ \A r \in LossReasons : LossEnding(r).why \notin ShellEnds
  BY EndingKinds DEF ShellEnds, LossReasons
<1>4. CASE ReadMessage
  <2>1. /\ pc = "loop" /\ pending = << >> /\ wire # << >> /\ pc \notin Over
        /\ produced' = produced
    BY <1>4 DEF ReadMessage, MayRead, Over, peerVars
  <2>2. Published' = Published /\ Published \in Nat /\ Head(wire).after = Published
    BY <2>1, SamePublished, ReadInTurn
  <2>3. CASE Head(wire).kind # "data"
    <3>1. Head(wire).after = Held /\ Held = produced
      BY <2>1, <2>3, NextInbound
    <3>. QED  BY <2>1, <2>2, <3>1
  <2>4. CASE Head(wire).kind = "data"
    BY <1>4, <2>1, <2>4 DEF ReadMessage, GoOn
  <2>. QED  BY <2>3, <2>4
<1>5. CASE EofGrace
  <2>1. /\ pc = "loop" /\ ended.eof /\ UNCHANGED <<stream, produced>>
    BY <1>5 DEF EofGrace, streamVars, peerVars
  <2>2. Published = produced
    BY <2>1 DEF SessionInv, Output, Chained, Over
  <2>. QED  BY <2>1, <2>2, Unheard
<1>6. CASE SendOutput
  BY <1>2, <1>6 DEF SendOutput, EndLoop, GoOn
<1>7. CASE AwaitReason \/ ReadReason
  BY <1>2, <1>3, <1>7 DEF AwaitReason, ReadReason, EndLoop
<1>8. CASE TakeCommand
  BY <1>2, <1>8 DEF TakeCommand, EndLoop, GoOn
<1>9. CASE WriteInput
  BY <1>3, <1>9 DEF WriteInput, EndLoop, GoOn
<1>10. CASE NoticeNobody
  BY <1>2, <1>10 DEF NoticeNobody, EndLoop
<1>11. CASE \/ CannotStart \/ Start \/ Drain \/ SetupFails \/ ChainStands \/ ReplySucceeds
            \/ ReplyOvertaken \/ ReadSize \/ WindowChange \/ WindowChanged \/ EmitReady
  <2>1. pc' \in {"chain", "done", "pty", "shell", "window", "window change", "established",
                 "tunnels"}
    BY <1>11 DEF CannotStart, Start, Drain, SettingUp, Cancel, SetupFails, ChainStands,
                 ReplySucceeds, ReplyOvertaken, ReadSize, WindowChange, WindowChanged,
                 EmitReady, GiveUp
  <2>. QED  BY <2>1
<1>12. CASE OpenTunnels \/ Flush \/ NoticeLoss \/ EmitFinal
  BY <1>12 DEF OpenTunnels, Flush, NoticeLoss, EmitFinal
<1>13. CASE ServerStep
  BY <1>13 DEF ServerStep, Winding
<1>14. CASE OwnerStep \/ TakeEvent \/ DropReceiver \/ Shutdown \/ Done
  <2>1. /\ UNCHANGED <<stream, produced, ending>> /\ pc \in {"teardown", "final"}
    <3>1. CASE Done
      BY <1>14, <3>1 DEF Done
    <3>. QED  BY <1>14, <3>1 DEF OwnerStep, TakeEvent, DropReceiver, Shutdown
  <2>2. ending.why \in ShellEnds
    BY <2>1
  <2>. QED  BY <1>1, <2>1, <2>2, Unheard
<1>. QED  BY <1>4, <1>5, <1>6, <1>7, <1>8, <1>9, <1>10, <1>11, <1>12, <1>13, <1>14
             DEF Next, WorkerStep, ServerPaced

LEMMA KeepsOutput == ASSUME SessionInv, Next PROVE Output' /\ OutQueues'
BY KeepsMoving, KeepsTold DEF Kept, Output

LEMMA KeepsStream == ASSUME SessionInv, Next PROVE stream' \in Seq(Events)
<1>1. stream \in Seq(Events)
  BY DEF SessionInv, Queues
<1>. QED  BY <1>1, Speech, Heard DEF Quiet

-----------------------------------------------------------------------------
(* Input, from the owner to the server's shell.                            *)

LEMMA CommandShape ==
    /\ \A n \in Nat : /\ [do |-> "input", arg |-> n] \in Commands
                      /\ [do |-> "input", arg |-> n].do = "input"
                      /\ [do |-> "input", arg |-> n].arg = n
    /\ \A s \in Sizes : /\ [do |-> "resize", arg |-> s] \in Commands
                        /\ [do |-> "resize", arg |-> s].do # "input"
    /\ [do |-> "disconnect", arg |-> 0] \in Commands
    /\ [do |-> "disconnect", arg |-> 0].do # "input"
BY DEF Commands

\* What a step does to the input on its way.
Stays == UNCHANGED <<serverIn, pendingIn, writerQueue>>
Idle == Stays /\ UNCHANGED <<commands, typed>>
Adds(c) ==
    /\ Stays /\ c \in Commands /\ commands' = Append(commands, c)
    /\ c.do = "input" => c.arg = Len(typed) + 1 /\ typed' = Append(typed, Len(typed) + 1)
    /\ c.do # "input" => typed' = typed
Takes == commands # << >> /\ commands' = Tail(commands) /\ typed' = typed
Skips == Takes /\ Head(commands).do # "input" /\ Stays
Buffers ==
    /\ Takes /\ Head(commands).do = "input"
    /\ pc \in Before /\ pendingIn' = Append(pendingIn, Head(commands).arg)
    /\ UNCHANGED <<serverIn, writerQueue>>
Hands ==
    /\ Takes /\ Head(commands).do = "input"
    /\ pc = "loop" /\ writerQueue' = Append(writerQueue, Head(commands).arg)
    /\ UNCHANGED <<serverIn, pendingIn>>
Writes ==
    /\ pc = "loop" /\ transport = "up" /\ writerQueue # << >>
    /\ serverIn' = Append(serverIn, Head(writerQueue)) /\ writerQueue' = Tail(writerQueue)
    /\ UNCHANGED <<pendingIn, commands, typed>>
Ends ==
    /\ pc' \in Over /\ UNCHANGED <<serverIn, pendingIn, typed>>
    /\ writerQueue' \in {writerQueue, << >>}
    /\ Takes \/ commands' = commands \/ commands' = << >>
Moves == Idle \/ (\E c : Adds(c)) \/ Skips \/ Buffers \/ Hands \/ Writes \/ Ends \/ Flush

LEMMA OwnerMoves == ASSUME SessionInv, OwnerStep PROVE Moves
<1>1. Stays /\ Len(typed) + 1 \in Nat
  BY DEF OwnerStep, setupVars, loopVars, serverVars, peerVars, Stays, SessionInv, Queues, InQueues
<1>2. CASE SendInput
  <2>1. Adds([do |-> "input", arg |-> Len(typed) + 1])
    BY <1>1, <1>2, CommandShape DEF SendInput, Command, Adds
  <2>. QED  BY <2>1 DEF Moves
<1>3. ASSUME NEW s \in Sizes, Resize(s) PROVE Moves
  <2>1. Adds([do |-> "resize", arg |-> s])
    BY <1>1, <1>3, CommandShape DEF Resize, Command, Adds
  <2>. QED  BY <2>1 DEF Moves
<1>4. CASE Disconnect
  <2>1. Adds([do |-> "disconnect", arg |-> 0])
    BY <1>1, <1>4, CommandShape DEF Disconnect, Adds
  <2>. QED  BY <2>1 DEF Moves
<1>. QED  BY <1>2, <1>3, <1>4 DEF OwnerStep

LEMMA InputMoves == ASSUME SessionInv, Next PROVE Moves
<1> USE DEF Moves, Stays, Idle, Over
<1>1. CASE OwnerStep
  BY <1>1, OwnerMoves
<1>2. CASE TakeEvent \/ DropReceiver \/ CannotStart \/ Start
  BY <1>2 DEF TakeEvent, DropReceiver, CannotStart, Start
<1>3. CASE Drain
  <2>1. Takes /\ UNCHANGED <<serverIn, writerQueue>> /\ pc \in Before
    BY <1>3 DEF Drain, SettingUp, Before, loopVars, Takes
  <2>2. CASE Head(commands).do = "input"
    BY <1>3, <2>1, <2>2 DEF Drain, Buffers
  <2>3. CASE Head(commands).do = "resize"
    BY <1>3, <2>1, <2>3 DEF Drain, Skips
  <2>4. CASE Head(commands).do = "disconnect"
    BY <1>3, <2>1, <2>4 DEF Drain, Skips
  <2>. QED  BY <1>3, <2>2, <2>3, <2>4 DEF Drain
<1>4. CASE SetupFails \/ ChainStands \/ ReplySucceeds \/ ReplyOvertaken
  BY <1>4 DEF SetupFails, ChainStands, ReplySucceeds, ReplyOvertaken
<1>5. CASE ReadSize \/ WindowChange \/ WindowChanged \/ EmitReady \/ OpenTunnels
  BY <1>5 DEF ReadSize, WindowChange, WindowChanged, EmitReady, OpenTunnels
<1>6. CASE SendOutput
  <2>1. UNCHANGED <<serverIn, pendingIn, commands, typed>>
    BY <1>6 DEF SendOutput
  <2>2. CASE writerQueue' = writerQueue
    BY <2>1, <2>2
  <2>3. CASE writerQueue' = << >> /\ pc' \in Over
    BY <2>1, <2>3 DEF Ends
  <2>. QED  BY <1>6, <2>2, <2>3 DEF SendOutput, EndLoop, Forget
<1>7. CASE ReadMessage
  <2>1. UNCHANGED <<serverIn, pendingIn, commands, typed>>
    BY <1>7 DEF ReadMessage
  <2>2. CASE writerQueue' = writerQueue
    BY <2>1, <2>2
  <2>3. CASE writerQueue' = << >> /\ pc' \in Over
    BY <2>1, <2>3 DEF Ends
  <2>4. ASSUME NEW e, EndLoop(e) PROVE writerQueue' = << >> /\ pc' \in Over
    BY <2>4 DEF EndLoop, Forget
  <2>. QED  BY <1>7, <2>2, <2>3, <2>4 DEF ReadMessage
<1>8. CASE NoticeLoss \/ AwaitReason \/ ReadReason \/ NoticeNobody \/ EofGrace
  BY <1>8 DEF NoticeLoss, AwaitReason, ReadReason, NoticeNobody, EofGrace, EndLoop, Forget, Ends
<1>9. CASE TakeCommand
  <2>1. Takes /\ UNCHANGED <<serverIn, pendingIn>> /\ pc = "loop"
    BY <1>9 DEF TakeCommand, Takes, setupVars
  <2>2. CASE Head(commands).do = "input"
    BY <1>9, <2>1, <2>2 DEF TakeCommand, Hands
  <2>3. CASE Head(commands).do = "resize"
    BY <1>9, <2>1, <2>3 DEF TakeCommand, Skips
  <2>4. CASE Head(commands).do = "disconnect"
    BY <1>9, <2>1, <2>4 DEF TakeCommand, EndLoop, Forget, Ends, Takes
  <2>. QED  BY <1>9, <2>2, <2>3, <2>4 DEF TakeCommand
<1>10. CASE WriteInput
  <2>1. pc = "loop" /\ writerQueue # << >> /\ UNCHANGED <<pendingIn, commands, typed>>
    BY <1>10 DEF WriteInput
  <2>2. CASE transport = "up"
    BY <1>10, <2>1, <2>2 DEF WriteInput, Writes
  <2>3. CASE transport = "down"
    BY <1>10, <2>1, <2>3 DEF WriteInput, EndLoop, Forget, Ends
  <2>. QED  BY <1>10, <2>2, <2>3 DEF WriteInput
<1>11. CASE EmitFinal
  BY <1>11 DEF EmitFinal, Ends
<1>12. CASE Shutdown \/ ServerStep
  BY <1>12 DEF Shutdown, ServerStep, ServerSends, ShellExits, SayFarewell, TransportCloses,
               HandlerTells
<1>13. CASE Done
  BY <1>13 DEF Done
<1>14. CASE Flush
  BY <1>14
<1>. QED  BY <1>1, <1>2, <1>3, <1>4, <1>5, <1>6, <1>7, <1>8, <1>9, <1>10, <1>11, <1>12, <1>13,
             <1>14 DEF Next, WorkerStep, ServerPaced


\* A transport that is down stays down, and input flows no more.
LEMMA TransportOnward ==
    ASSUME SessionInv, Next
    PROVE  transport' = transport \/ transport' = "down" \/ pc = "chain"
<1>1. CASE \/ OwnerStep \/ TakeEvent \/ DropReceiver \/ CannotStart \/ Start \/ ChainStands
           \/ ReplySucceeds \/ ReadSize \/ WindowChange \/ WindowChanged \/ OpenTunnels \/ Flush
  BY <1>1 DEF OwnerStep, TakeEvent, DropReceiver, CannotStart, Start, ChainStands, ReplySucceeds,
              ReadSize, WindowChange, WindowChanged, OpenTunnels, Flush
<1>2. CASE Drain \/ SetupFails \/ ReplyOvertaken \/ EmitReady
  BY <1>2 DEF Drain, Cancel, SetupFails, ReplyOvertaken, GiveUp, EmitReady
<1>3. CASE \/ SendOutput \/ ReadMessage \/ NoticeLoss \/ AwaitReason \/ ReadReason \/ TakeCommand
           \/ WriteInput \/ NoticeNobody \/ EofGrace \/ Shutdown \/ EmitFinal
  BY <1>3 DEF SendOutput, ReadMessage, NoticeLoss, AwaitReason, ReadReason, TakeCommand,
              WriteInput, NoticeNobody, EofGrace, Shutdown, EmitFinal
<1>4. CASE ServerStep \/ Done
  BY <1>4 DEF ServerStep, ServerSends, ShellExits, SayFarewell, TransportCloses, HandlerTells, Done
<1>. QED  BY <1>1, <1>2, <1>3, <1>4 DEF Next, WorkerStep, ServerPaced

LEMMA FlowsOn == ASSUME SessionInv, Next, Flowing' PROVE Flowing
<1>1. pc \notin Over
  BY NotOver DEF Flowing
<1>2. pc = "chain" => transport = "none"
  BY DEF SessionInv, Stages
<1>. QED  BY <1>1, <1>2, TransportOnward DEF Flowing

\* What the stage says of the input on its way.
LEMMA InputStages ==
    ASSUME SessionInv
    PROVE  /\ commands \in Seq(Commands) /\ typed \in Seq(Nat) /\ pendingIn \in Seq(Nat)
           /\ writerQueue \in Seq(Nat) /\ serverIn \in Seq(Nat)
           /\ Len(typed) \in Nat /\ Len(pendingIn) \in Nat /\ Len(writerQueue) \in Nat
           /\ Len(serverIn) \in Nat /\ Handed \in Nat
           /\ pc \in Before \cup {"flush"} => writerQueue = << >> /\ serverIn = << >>
           /\ pc = "loop" => pendingIn = << >>
<1>1. /\ commands \in Seq(Commands) /\ typed \in Seq(Nat) /\ pendingIn \in Seq(Nat)
      /\ writerQueue \in Seq(Nat) /\ serverIn \in Seq(Nat)
  BY DEF SessionInv, Queues, InQueues
<1>2. Handed \in Nat
  BY <1>1 DEF Handed
<1>3. /\ pc \in Before \cup {"flush"} => writerQueue = << >> /\ serverIn = << >>
      /\ pc = "loop" => pendingIn = << >>
  BY DEF SessionInv, Stages
<1>. QED  BY <1>1, <1>2, <1>3

\* The input next in the command channel follows those handed over.
LEMMA NextInLine ==
    ASSUME SessionInv, Flowing, commands # << >>, Head(commands).do = "input"
    PROVE  Head(commands).arg = Handed + 1 /\ Handed + 1 <= Len(typed)
<1>1. Handed \in Nat /\ Len(typed) \in Nat /\ InLine
  BY InputStages DEF SessionInv, Input
<1>2. commands[1].arg \in Handed + 1 .. Len(typed) /\ Head(commands) = commands[1]
  BY <1>1, FirstCommand DEF InLine
<1>3. PICK k \in 1 .. Len(commands) : commands[k].do = "input" /\ commands[k].arg = Handed + 1
  BY <1>1, <1>2 DEF InLine
<1>4. CASE k = 1
  BY <1>1, <1>2, <1>3, <1>4
<1>5. CASE k # 1
  <2>1. 1 \in 1 .. k - 1
    BY <1>5
  <2>2. commands[1].arg < commands[k].arg
    BY <1>1, <1>2, <1>3, <2>1 DEF InLine
  <2>. QED  BY <1>1, <1>2, <1>3, <2>2
<1>. QED  BY <1>4, <1>5

\* How many were handed over after the step.
Grows(t) == Handed' = IF t THEN Handed + 1 ELSE Handed

LEMMA StaysHanded == ASSUME Stays PROVE Handed' = Handed
BY DEF Stays, Handed

LEMMA TakesHanded ==
    ASSUME SessionInv, Buffers \/ Hands
    PROVE  Handed' = Handed + 1
<1>1. Head(commands).arg \in Nat
  BY FirstCommand DEF Buffers, Hands, Takes
<1>2. CASE Buffers
  <2>1. Len(pendingIn') = Len(pendingIn) + 1
    BY <1>1, <1>2, InputStages, Appended DEF Buffers
  <2>2. serverIn' = serverIn /\ writerQueue' = writerQueue
    BY <1>2 DEF Buffers
  <2>. QED  BY <2>1, <2>2, InputStages DEF Handed
<1>3. CASE Hands
  <2>1. Len(writerQueue') = Len(writerQueue) + 1
    BY <1>1, <1>3, InputStages, Appended DEF Hands
  <2>2. serverIn' = serverIn /\ pendingIn' = pendingIn
    BY <1>3 DEF Hands
  <2>. QED  BY <2>1, <2>2, InputStages DEF Handed
<1>. QED  BY <1>2, <1>3

LEMMA WritesHanded == ASSUME SessionInv, Writes PROVE Handed' = Handed
<1>1. /\ writerQueue # << >> /\ writerQueue' = Tail(writerQueue) /\ pendingIn' = pendingIn
      /\ serverIn' = Append(serverIn, Head(writerQueue))
  BY DEF Writes
<1>2. Len(writerQueue') = Len(writerQueue) - 1 /\ Head(writerQueue) \in Nat
  BY <1>1, InputStages, Shortened
<1>3. Len(serverIn') = Len(serverIn) + 1
  BY <1>1, <1>2, InputStages, Appended
<1>. QED  BY <1>1, <1>2, <1>3, InputStages DEF Handed

LEMMA FlushHanded ==
    ASSUME SessionInv, Flush, transport = "up"
    PROVE  /\ Handed' = Handed /\ serverIn' = pendingIn /\ pendingIn' = << >>
           /\ serverIn = << >> /\ writerQueue' = << >> /\ writerQueue = << >>
<1>1. /\ pendingIn' = << >> /\ writerQueue' = writerQueue /\ pc = "flush"
      /\ serverIn' = serverIn \o pendingIn
  BY DEF Flush, Flushed
<1>2. writerQueue = << >> /\ serverIn = << >> /\ pendingIn \in Seq(Nat)
  BY <1>1, InputStages
<1>3. serverIn' = pendingIn
  BY <1>1, <1>2, Joined
<1>4. Len(serverIn) = 0 /\ Len(writerQueue) = 0 /\ Len(pendingIn') = 0 /\ Len(writerQueue') = 0
  BY <1>1, <1>2
<1>5. Handed' = Handed
  BY <1>3, <1>4, InputStages DEF Handed
<1>. QED  BY <1>1, <1>2, <1>3, <1>5

LEMMA KeepsInQueues == ASSUME SessionInv, Next PROVE InQueues'
<1> USE InputStages DEF InQueues
<1>1. CASE Idle
  BY <1>1 DEF Idle, Stays
<1>2. ASSUME NEW c, Adds(c) PROVE InQueues'
  <2>1. Append(commands, c) \in Seq(Commands) /\ Append(typed, Len(typed) + 1) \in Seq(Nat)
    BY <1>2 DEF Adds
  <2>. QED  BY <1>2, <2>1 DEF Adds, Stays
<1>3. CASE Skips
  BY <1>3, FirstCommand DEF Skips, Takes, Stays
<1>4. CASE Buffers \/ Hands
  <2>1. Takes /\ Head(commands).arg \in Nat /\ Tail(commands) \in Seq(Commands)
    BY <1>4, FirstCommand DEF Buffers, Hands, Takes
  <2>2. CASE Buffers
    BY <2>1, <2>2 DEF Buffers, Takes
  <2>3. CASE Hands
    BY <2>1, <2>3 DEF Hands, Takes
  <2>. QED  BY <1>4, <2>2, <2>3
<1>5. CASE Writes
  <2>1. Head(writerQueue) \in Nat /\ Tail(writerQueue) \in Seq(Nat)
    BY <1>5 DEF Writes
  <2>. QED  BY <1>5, <2>1 DEF Writes
<1>6. CASE Ends
  <2>1. commands' \in Seq(Commands)
    <3>1. << >> \in Seq(Commands)
      OBVIOUS
    <3>2. CASE Takes
      BY <3>2, FirstCommand DEF Takes
    <3>. QED  BY <1>6, <3>1, <3>2 DEF Ends
  <2>2. writerQueue' \in Seq(Nat) /\ UNCHANGED <<serverIn, pendingIn, typed>>
    BY <1>6, EmptySequences DEF Ends
  <2>. QED  BY <2>1, <2>2
<1>7. CASE Flush
  <2>1. serverIn \o pendingIn \in Seq(Nat)
    OBVIOUS
  <2>. QED  BY <1>7, <2>1 DEF Flush, Flushed
<1>. QED  BY <1>1, <1>2, <1>3, <1>4, <1>5, <1>6, <1>7, InputMoves DEF Moves


\* What arrives is numbered as it was typed.
LEMMA KeepsNumbered == ASSUME SessionInv, Next PROVE Numbered'
<1>1. /\ Numbered /\ typed \in Seq(Nat) /\ serverIn \in Seq(Nat)
      /\ Len(typed) \in Nat /\ Len(serverIn) \in Nat
  BY InputStages DEF SessionInv, Input
<1>2. CASE UNCHANGED <<typed, serverIn>>
  BY <1>1, <1>2 DEF Numbered
<1>3. ASSUME NEW c, Adds(c) PROVE Numbered'
  <2>1. CASE c.do = "input"
    <3>1. typed' = Append(typed, Len(typed) + 1) /\ serverIn' = serverIn
      BY <1>3, <2>1 DEF Adds, Stays
    <3>2. /\ Len(typed') = Len(typed) + 1
          /\ \A k \in 1 .. Len(typed) : typed'[k] = typed[k]
          /\ typed'[Len(typed) + 1] = Len(typed) + 1
          /\ \A k \in 1 .. Len(typed') : k \in 1 .. Len(typed) \/ k = Len(typed) + 1
      <4>1. Len(typed) + 1 \in Nat
        BY <1>1
      <4>. QED  BY <1>1, <3>1, <4>1, Appended
    <3>3. ASSUME NEW i \in 1 .. Len(typed') PROVE typed'[i] = i
      BY <1>1, <3>2 DEF Numbered
    <3>. QED  BY <1>1, <3>1, <3>2, <3>3 DEF Numbered
  <2>2. CASE c.do # "input"
    BY <1>2, <1>3, <2>2 DEF Adds, Stays
  <2>. QED  BY <2>1, <2>2
<1>4. CASE Writes
  <2>1. /\ Flowing /\ writerQueue # << >> /\ serverIn' = Append(serverIn, Head(writerQueue))
        /\ typed' = typed
    BY <1>4 DEF Writes, Flowing, Over
  <2>2. Head(writerQueue) = Len(serverIn) + 1 /\ Len(serverIn) + 1 \in Nat
    <3>1. Head(writerQueue) = writerQueue[1] /\ 1 \in 1 .. Len(writerQueue)
      BY <2>1, InputStages, Shortened
    <3>. QED  BY <1>1, <2>1, <3>1 DEF SessionInv, Input, Passed
  <2>3. Len(serverIn) + 1 <= Len(typed)
    <3>1. Len(writerQueue) # 0 /\ Handed <= Len(typed)
      BY <2>1, InputStages DEF SessionInv, Input, InLine
    <3>. QED  BY <3>1, InputStages DEF Handed
  <2>4. /\ Len(serverIn') = Len(serverIn) + 1
        /\ \A k \in 1 .. Len(serverIn) : serverIn'[k] = serverIn[k]
        /\ serverIn'[Len(serverIn) + 1] = Len(serverIn) + 1
        /\ \A k \in 1 .. Len(serverIn') : k \in 1 .. Len(serverIn) \/ k = Len(serverIn) + 1
    BY <1>1, <2>1, <2>2, Appended
  <2>5. ASSUME NEW i \in 1 .. Len(serverIn') PROVE serverIn'[i] = i
    BY <1>1, <2>4 DEF Numbered
  <2>. QED  BY <1>1, <2>1, <2>3, <2>4, <2>5 DEF Numbered
<1>5. CASE Flush
  <2>1. typed' = typed /\ pc = "flush"
    BY <1>5 DEF Flush, handleVars
  <2>2. CASE transport = "up"
    <3>1. Flowing
      BY <2>1, <2>2 DEF Flowing, Over
    <3>2. serverIn' = pendingIn /\ serverIn = << >>
      BY <1>5, <2>2, FlushHanded
    <3>3. \A i \in 1 .. Len(pendingIn) : pendingIn[i] = i
      <4>1. Len(serverIn) = 0
        BY <3>2
      <4>. QED  BY <3>1, <4>1, InputStages DEF SessionInv, Input, Passed
    <3>4. Len(pendingIn) <= Len(typed)
      <4>1. Handed <= Len(typed)
        BY <3>1 DEF SessionInv, Input, InLine
      <4>. QED  BY <4>1, InputStages DEF Handed
    <3>. QED  BY <1>1, <2>1, <3>2, <3>3, <3>4 DEF Numbered
  <2>3. CASE transport # "up"
    BY <1>2, <1>5, <2>1, <2>3 DEF Flush, Flushed
  <2>. QED  BY <2>2, <2>3
<1>6. CASE Idle \/ Skips \/ Buffers \/ Hands \/ Ends
  BY <1>2, <1>6 DEF Idle, Skips, Buffers, Hands, Ends, Takes, Stays
<1>. QED  BY <1>3, <1>4, <1>5, <1>6, InputMoves DEF Moves

\* What was buffered or queued follows what has arrived.
LEMMA KeepsPassed == ASSUME SessionInv, Next, Flowing' PROVE Passed'
<1>1. Flowing /\ Passed
  BY FlowsOn DEF SessionInv, Input
<1>2. /\ pc' \notin Over /\ transport' # "down"
  BY DEF Flowing
<1>3. CASE Stays
  BY <1>1, <1>3 DEF Stays, Passed
<1>4. CASE Buffers
  <2>1. /\ pendingIn' = Append(pendingIn, Head(commands).arg)
        /\ serverIn' = serverIn /\ writerQueue' = writerQueue
        /\ commands # << >> /\ Head(commands).do = "input" /\ pc \in Before
    BY <1>4 DEF Buffers, Takes
  <2>2. writerQueue = << >> /\ Len(pendingIn) \in Nat /\ Len(serverIn) = 0 /\ Len(writerQueue) = 0
    BY <2>1, InputStages
  <2>3. Head(commands).arg = Len(serverIn) + (Len(pendingIn) + 1) /\ Head(commands).arg \in Nat
    <3>1. Head(commands).arg = Handed + 1
      BY <1>1, <2>1, NextInLine
    <3>. QED  BY <2>2, <3>1 DEF Handed
  <2>4. /\ Len(pendingIn') = Len(pendingIn) + 1
        /\ \A k \in 1 .. Len(pendingIn) : pendingIn'[k] = pendingIn[k]
        /\ pendingIn'[Len(pendingIn) + 1] = Head(commands).arg
        /\ \A k \in 1 .. Len(pendingIn') : k \in 1 .. Len(pendingIn) \/ k = Len(pendingIn) + 1
    BY <2>1, <2>3, InputStages, Appended
  <2>5. ASSUME NEW i \in 1 .. Len(pendingIn') PROVE pendingIn'[i] = Len(serverIn') + i
    <3>1. CASE i \in 1 .. Len(pendingIn)
      BY <1>1, <2>1, <2>4, <3>1 DEF Passed
    <3>2. CASE i = Len(pendingIn) + 1
      BY <2>1, <2>3, <2>4, <3>2
    <3>. QED  BY <2>4, <3>1, <3>2
  <2>6. \A i \in 1 .. Len(writerQueue') : writerQueue'[i] = Len(serverIn') + i
    BY <1>1, <2>1 DEF Passed
  <2>. QED  BY <2>5, <2>6 DEF Passed
<1>5. CASE Hands
  <2>1. /\ writerQueue' = Append(writerQueue, Head(commands).arg)
        /\ serverIn' = serverIn /\ pendingIn' = pendingIn
        /\ commands # << >> /\ Head(commands).do = "input" /\ pc = "loop"
    BY <1>5 DEF Hands, Takes
  <2>2. /\ Len(pendingIn) = 0 /\ Len(serverIn) \in Nat /\ Len(writerQueue) \in Nat
    BY <2>1, InputStages
  <2>3. Head(commands).arg = Len(serverIn) + (Len(writerQueue) + 1) /\ Head(commands).arg \in Nat
    <3>1. Head(commands).arg = Handed + 1
      BY <1>1, <2>1, NextInLine
    <3>. QED  BY <2>2, <3>1 DEF Handed
  <2>4. /\ Len(writerQueue') = Len(writerQueue) + 1
        /\ \A k \in 1 .. Len(writerQueue) : writerQueue'[k] = writerQueue[k]
        /\ writerQueue'[Len(writerQueue) + 1] = Head(commands).arg
        /\ \A k \in 1 .. Len(writerQueue') :
               k \in 1 .. Len(writerQueue) \/ k = Len(writerQueue) + 1
    BY <2>1, <2>3, InputStages, Appended
  <2>5. ASSUME NEW i \in 1 .. Len(writerQueue') PROVE writerQueue'[i] = Len(serverIn') + i
    <3>1. CASE i \in 1 .. Len(writerQueue)
      BY <1>1, <2>1, <2>4, <3>1 DEF Passed
    <3>2. CASE i = Len(writerQueue) + 1
      BY <2>1, <2>3, <2>4, <3>2
    <3>. QED  BY <2>4, <3>1, <3>2
  <2>6. \A i \in 1 .. Len(pendingIn') : pendingIn'[i] = Len(serverIn') + i
    BY <1>1, <2>1 DEF Passed
  <2>. QED  BY <2>5, <2>6 DEF Passed
<1>6. CASE Writes
  <2>1. /\ writerQueue # << >> /\ writerQueue' = Tail(writerQueue) /\ pendingIn' = pendingIn
        /\ serverIn' = Append(serverIn, Head(writerQueue)) /\ pc = "loop"
    BY <1>6 DEF Writes
  <2>2. /\ Head(writerQueue) \in Nat /\ Len(serverIn) \in Nat /\ pendingIn' = << >>
        /\ \A k \in 1 .. Len(Tail(writerQueue)) :
               k + 1 \in 1 .. Len(writerQueue) /\ Tail(writerQueue)[k] = writerQueue[k + 1]
    BY <2>1, InputStages, Shortened
  <2>3. Len(serverIn') = Len(serverIn) + 1
    BY <2>1, <2>2, InputStages, Appended
  <2>4. ASSUME NEW i \in 1 .. Len(writerQueue') PROVE writerQueue'[i] = Len(serverIn') + i
    <3>1. i + 1 \in 1 .. Len(writerQueue) /\ writerQueue'[i] = writerQueue[i + 1] /\ i \in Nat
      BY <2>1, <2>2
    <3>2. writerQueue[i + 1] = Len(serverIn) + (i + 1)
      BY <1>1, <3>1 DEF Passed
    <3>. QED  BY <2>2, <2>3, <3>1, <3>2
  <2>. QED  BY <2>2, <2>4 DEF Passed
<1>7. CASE Ends
  BY <1>2, <1>7 DEF Ends
<1>8. CASE Flush
  <2>1. pc = "flush" /\ transport' = transport
    BY <1>8 DEF Flush
  <2>2. transport = "up"
    BY <1>2, <2>1 DEF SessionInv, Marks, Stages
  <2>3. pendingIn' = << >> /\ writerQueue' = << >>
    BY <1>8, <2>2, FlushHanded
  <2>. QED  BY <2>3 DEF Passed
<1>. QED  BY <1>3, <1>4, <1>5, <1>6, <1>7, <1>8, InputMoves DEF Moves, Idle, Adds, Skips


\* The commands move on as one is added or taken.
LEMMA AddKeepsLine ==
    ASSUME SessionInv, Flowing, NEW c, Adds(c)
    PROVE  InLine'
<1>1. /\ commands \in Seq(Commands) /\ Handed \in Nat /\ Len(typed) \in Nat /\ InLine
      /\ typed \in Seq(Nat) /\ c \in Commands
  BY InputStages DEF SessionInv, Input, Adds
<1>2. commands' = Append(commands, c) /\ Handed' = Handed
  BY StaysHanded DEF Adds
<1>3. Len(typed') = IF c.do = "input" THEN Len(typed) + 1 ELSE Len(typed)
  <2>1. Len(Append(typed, Len(typed) + 1)) = Len(typed) + 1
    BY <1>1
  <2>. QED  BY <2>1 DEF Adds
<1>4. /\ Len(commands') = Len(commands) + 1 /\ Len(commands) \in Nat
      /\ \A k \in 1 .. Len(commands) : commands'[k] = commands[k]
      /\ commands'[Len(commands) + 1] = c
      /\ \A k \in 1 .. Len(commands') : k \in 1 .. Len(commands) \/ k = Len(commands) + 1
  BY <1>1, <1>2, Appended
<1>5. c.do = "input" => c.arg = Len(typed) + 1
  BY DEF Adds
<1>6. /\ Handed <= Len(typed) /\ Handed' <= Len(typed') /\ Len(typed) <= Len(typed')
      /\ \A k \in 1 .. Len(commands) :
             commands[k].do = "input" => commands[k].arg \in Handed + 1 .. Len(typed)
  BY <1>1, <1>2, <1>3 DEF InLine
<1>7. ASSUME NEW k \in 1 .. Len(commands'), commands'[k].do = "input"
      PROVE  commands'[k].arg \in Handed' + 1 .. Len(typed')
  <2>1. CASE k \in 1 .. Len(commands)
    BY <1>1, <1>2, <1>3, <1>4, <1>6, <1>7, <2>1
  <2>2. CASE k = Len(commands) + 1
    BY <1>1, <1>2, <1>3, <1>4, <1>5, <1>6, <1>7, <2>2
  <2>. QED  BY <1>4, <2>1, <2>2
<1>8. ASSUME NEW k \in 1 .. Len(commands'), NEW j \in 1 .. k - 1,
             commands'[j].do = "input", commands'[k].do = "input"
      PROVE  commands'[j].arg < commands'[k].arg
  <2>1. j \in 1 .. Len(commands) /\ commands'[j] = commands[j]
    BY <1>4
  <2>2. CASE k \in 1 .. Len(commands)
    BY <1>1, <1>4, <1>8, <2>1, <2>2 DEF InLine
  <2>3. CASE k = Len(commands) + 1
    BY <1>1, <1>4, <1>5, <1>6, <1>8, <2>1, <2>3
  <2>. QED  BY <1>4, <2>2, <2>3
<1>9. ASSUME NEW n \in Handed' + 1 .. Len(typed')
      PROVE  \E k \in 1 .. Len(commands') : commands'[k].do = "input" /\ commands'[k].arg = n
  <2>1. CASE n <= Len(typed)
    <3>1. PICK k \in 1 .. Len(commands) : commands[k].do = "input" /\ commands[k].arg = n
      BY <1>1, <1>2, <1>9, <2>1 DEF InLine
    <3>. QED  BY <1>4, <3>1
  <2>2. CASE n > Len(typed)
    <3>1. c.do = "input" /\ c.arg = n /\ Len(commands) + 1 \in 1 .. Len(commands')
      BY <1>1, <1>2, <1>3, <1>4, <1>5, <1>9, <2>2
    <3>. QED  BY <1>4, <3>1
  <2>. QED  BY <1>1, <1>2, <1>9, <2>1, <2>2
<1>. QED  BY <1>6, <1>7, <1>8, <1>9 DEF InLine

LEMMA TakeKeepsLine ==
    ASSUME SessionInv, Flowing, Takes, Grows(Head(commands).do = "input")
    PROVE  InLine'
<1> DEFINE h == Head(commands)
<1>1. /\ commands \in Seq(Commands) /\ Handed \in Nat /\ Len(typed) \in Nat /\ InLine
      /\ commands # << >> /\ commands' = Tail(commands) /\ Len(typed') = Len(typed)
      /\ Handed' = IF h.do = "input" THEN Handed + 1 ELSE Handed
  BY InputStages DEF SessionInv, Input, Takes, Grows
<1>2. /\ Len(commands') = Len(commands) - 1 /\ Len(commands) \in Nat
      /\ 1 \in 1 .. Len(commands) /\ h = commands[1]
      /\ \A k \in 1 .. Len(commands') :
             k + 1 \in 1 .. Len(commands) /\ commands'[k] = commands[k + 1]
  <2>1. 1 \in 1 .. Len(commands) /\ h = commands[1]
    BY <1>1, FirstCommand
  <2>2. /\ Len(commands') = Len(commands) - 1
        /\ \A k \in 1 .. Len(commands') :
               k + 1 \in 1 .. Len(commands) /\ commands'[k] = commands[k + 1]
    BY <1>1, Shortened
  <2>. QED  BY <1>1, <2>1, <2>2
<1>3. h.do = "input" => h.arg = Handed + 1 /\ Handed + 1 <= Len(typed)
  BY <1>1, NextInLine
<1> HIDE DEF h
<1>4. Handed' \in Nat /\ Handed' <= Len(typed')
  BY <1>1, <1>3 DEF InLine
<1>5. ASSUME NEW k \in 1 .. Len(commands'), commands'[k].do = "input"
      PROVE  commands'[k].arg \in Handed' + 1 .. Len(typed')
  <2>1. k + 1 \in 1 .. Len(commands) /\ commands'[k] = commands[k + 1] /\ 1 \in 1 .. (k + 1) - 1
    BY <1>2
  <2>2. commands[k + 1].arg \in Handed + 1 .. Len(typed)
    BY <1>1, <1>5, <2>1 DEF InLine
  <2>3. h.do = "input" => h.arg < commands[k + 1].arg
    BY <1>1, <1>2, <1>5, <2>1 DEF InLine
  <2>. QED  BY <1>1, <1>3, <2>1, <2>2, <2>3
<1>6. ASSUME NEW k \in 1 .. Len(commands'), NEW j \in 1 .. k - 1,
             commands'[j].do = "input", commands'[k].do = "input"
      PROVE  commands'[j].arg < commands'[k].arg
  <2>1. /\ k + 1 \in 1 .. Len(commands) /\ commands'[k] = commands[k + 1]
        /\ j \in 1 .. Len(commands') /\ j + 1 \in 1 .. (k + 1) - 1
    BY <1>2
  <2>. QED  BY <1>1, <1>2, <1>6, <2>1 DEF InLine
<1>7. ASSUME NEW n \in Handed' + 1 .. Len(typed')
      PROVE  \E k \in 1 .. Len(commands') : commands'[k].do = "input" /\ commands'[k].arg = n
  <2>1. n \in Handed + 1 .. Len(typed) /\ (h.do = "input" => n # Handed + 1)
    BY <1>1, <1>4, <1>7
  <2>2. PICK k \in 1 .. Len(commands) : commands[k].do = "input" /\ commands[k].arg = n
    BY <1>1, <2>1 DEF InLine
  <2>3. k # 1
    BY <1>2, <1>3, <2>1, <2>2
  <2>4. k - 1 \in 1 .. Len(commands') /\ (k - 1) + 1 = k
    BY <1>2, <2>3
  <2>. QED  BY <1>2, <2>2, <2>4
<1>. QED  BY <1>4, <1>5, <1>6, <1>7 DEF InLine

LEMMA KeepsInLine == ASSUME SessionInv, Next, Flowing' PROVE InLine'
<1>1. Flowing /\ InLine
  BY FlowsOn DEF SessionInv, Input
<1>2. CASE UNCHANGED <<commands, typed>> /\ Handed' = Handed
  BY <1>1, <1>2 DEF InLine
<1>3. CASE Idle
  BY <1>2, <1>3, StaysHanded DEF Idle
<1>4. CASE Writes
  BY <1>2, <1>4, WritesHanded DEF Writes
<1>5. CASE Flush
  <2>1. UNCHANGED <<commands, typed>> /\ pc = "flush" /\ transport' = transport
    BY <1>5 DEF Flush
  <2>2. transport = "up"
    BY <1>1, <2>1 DEF Flowing, SessionInv, Marks, Stages
  <2>. QED  BY <1>2, <1>5, <2>1, <2>2, FlushHanded
<1>6. CASE Skips
  <2>1. Grows(Head(commands).do = "input")
    BY <1>6, StaysHanded DEF Skips, Grows
  <2>. QED  BY <1>1, <1>6, <2>1, TakeKeepsLine DEF Skips
<1>7. CASE Buffers \/ Hands
  <2>1. Grows(Head(commands).do = "input") /\ Takes
    BY <1>7, TakesHanded DEF Buffers, Hands, Grows
  <2>. QED  BY <1>1, <2>1, TakeKeepsLine
<1>8. CASE Ends
  BY <1>8 DEF Ends, Flowing
<1>. QED  BY <1>1, <1>3, <1>4, <1>5, <1>6, <1>7, <1>8, AddKeepsLine, InputMoves DEF Moves
-----------------------------------------------------------------------------
(* The invariant.                                                          *)

LEMMA KeepsInput == ASSUME SessionInv, Next PROVE Input'
BY KeepsNumbered, KeepsPassed, KeepsInLine DEF Input

LEMMA InitStream ==
    ASSUME Init
    PROVE  /\ Published = 0 /\ \A kind : Positions(kind) = {}
           /\ FinalAt = {} /\ stream \in Seq(Events)
<1>1. stream = << >> /\ Len(stream) = 0
  BY DEF Init
<1>2. \A kind : Positions(kind) = {}
  BY <1>1 DEF Positions
<1>3. Published = 0
  BY <1>2, FS_EmptySet DEF Published
<1>. QED  BY <1>1, <1>2, <1>3 DEF FinalAt

LEMMA InitInv == ASSUME Init PROVE SessionInv
<1>1. Marks /\ Flags
  BY DEF Init, Marks, Flags, Before
<1>2. Sized
  BY DEF Init, Sized
<1>3. Counted
  BY SessionAssumption DEF Init, Counted
<1>4. Queues
  BY InitStream DEF Init, Queues, OutQueues, InQueues
<1>5. Stages
  BY DEF Init, Stages
<1>6. Taken
  <2>1. taken = 0 /\ Published = 0
    BY InitStream DEF Init
  <2>2. Budget \in Nat
    BY SessionAssumption
  <2>. QED  BY <2>1, <2>2 DEF Taken
<1>7. Output
  <2>1. /\ early = << >> /\ pending = << >> /\ wire = << >> /\ produced = 0 /\ Published = 0
        /\ ended = NothingHeard /\ pc = "new"
    BY InitStream DEF Init
  <2>2. Held = 0
    BY <2>1 DEF Held
  <2>. QED  BY <2>1, <2>2 DEF Output, Chained, Inbound, NothingHeard
<1>8. OutputInOrder /\ NothingLostOnShellEnd
  BY InitStream DEF OutputInOrder, NothingLostOnShellEnd
<1>9. Sequence
  BY InitStream DEF Init, Sequence, Running
<1>10. Input
  <2>1. /\ serverIn = << >> /\ pendingIn = << >> /\ writerQueue = << >> /\ commands = << >>
        /\ typed = << >>
    BY DEF Init
  <2>2. Handed = 0
    BY <2>1 DEF Handed
  <2>. QED  BY <2>1, <2>2 DEF Input, Numbered, Passed, InLine
<1>. QED  BY <1>1, <1>2, <1>3, <1>4, <1>5, <1>6, <1>7, <1>8, <1>9, <1>10 DEF SessionInv

LEMMA NextInv == ASSUME SessionInv, Next PROVE SessionInv'
BY KeepPlaces, KeepFlags, KeepSized, KeepCounted, KeepsStream, KeepsOutput, KeepsInQueues,
   KeepsTaken, KeepsOrder, KeepsNothingLost, KeepsSequence, KeepsInput
   DEF SessionInv, Queues, Places

LEMMA StutterInv == ASSUME SessionInv, UNCHANGED vars PROVE SessionInv'
<1>1. Done \/ pc # "done"
  BY DEF Done
<1>2. /\ Marks' /\ Flags' /\ Sized' /\ Counted' /\ Stages'
  BY DEF SessionInv, Marks, Flags, Sized, Counted, Stages
<1>3. /\ Queues' /\ UNCHANGED stream
  BY DEF SessionInv, Queues, OutQueues, InQueues
<1>4. Taken'
  BY Unheard DEF SessionInv, Taken
<1>5. Output'
  <2>1. Published' = Published
    BY Unheard
  <2>2. Held' = Held
    BY <2>1 DEF Held
  <2>3. Chained <=> Chained'
    BY <2>1, <2>2 DEF Chained
  <2>4. UNCHANGED <<pc, ending, produced>>
    OBVIOUS
  <2>. QED  BY <2>1, <2>3, <2>4 DEF SessionInv, Output
<1>6. OutputInOrder'
  BY Unheard, <1>3 DEF SessionInv, OutputInOrder
<1>7. NothingLostOnShellEnd' /\ Sequence'
  <2>1. pc' = pc /\ streamOpen' = streamOpen /\ stream' = stream /\ produced' = produced
    OBVIOUS
  <2>2. /\ \A kind : Positions(kind)' = Positions(kind)
        /\ FinalAt' = FinalAt /\ Published' = Published
    BY <2>1, Unheard
  <2>3. NothingLostOnShellEnd'
    BY <2>1, <2>2 DEF SessionInv, NothingLostOnShellEnd
  <2>4. Sequence'
    BY <2>1, <2>2 DEF SessionInv, Sequence
  <2>. QED  BY <2>3, <2>4
<1>8. Input'
  <2>1. UNCHANGED <<pc, transport, typed, serverIn, pendingIn, writerQueue, commands>>
    OBVIOUS
  <2>2. Handed' = Handed /\ (Flowing <=> Flowing')
    BY <2>1 DEF Handed, Flowing
  <2>3. (Numbered <=> Numbered') /\ (Passed <=> Passed')
    BY <2>1 DEF Numbered, Passed
  <2>4. InLine <=> InLine'
    BY <2>1, <2>2 DEF InLine
  <2>. QED  BY <2>2, <2>3, <2>4 DEF SessionInv, Input
<1>. QED  BY <1>2, <1>3, <1>4, <1>5, <1>6, <1>7, <1>8 DEF SessionInv

\* The inductive invariant of session.rs run, setup and main_loop.
THEOREM SessionInvariant == Spec => []SessionInv
<1>1. SessionInv /\ [Next]_vars => SessionInv'
  BY NextInv, StutterInv
<1>. QED  BY InitInv, <1>1, PTL DEF Spec

LEMMA InvSound == ASSUME SessionInv PROVE SessionSound
<1>1. TypeOK
  <2>1. taken \in 0 .. Published /\ Buffered <= Budget
    <3>1. /\ Published \in Nat /\ taken \in Nat /\ taken <= Published
          /\ Published <= taken + Budget
      BY Counting DEF SessionInv, Queues, Taken
    <3>2. Budget \in Nat
      BY SessionAssumption
    <3>. QED  BY <3>1, <3>2 DEF Buffered
  <2>2. Marks /\ Flags /\ Sized /\ Counted
    BY DEF SessionInv
  <2>. QED  BY <2>1, <2>2 DEF TypeOK, Marks, Flags, Sized, Counted, Before, Running, Over
<1>2. InputInOrder
  <2>1. Numbered /\ (Flowing => InLine)
    BY DEF SessionInv, Input
  <2>2. serverIn = SubSeq(typed, 1, Len(serverIn))
    <3>1. Len(serverIn) <= Len(typed) /\ Len(serverIn) \in Nat /\ Len(typed) \in Nat
      BY <2>1, InputStages DEF Numbered
    <3>2. \A i \in 1 .. Len(serverIn) : typed[i] \in Nat
      <4>1. \A i \in 1 .. Len(typed) : typed[i] \in Nat
        <5>1. typed \in Seq(Nat)
          BY InputStages
        <5>. QED  BY <5>1
      <4>. QED  BY <3>1, <4>1
    <3>3. /\ SubSeq(typed, 1, Len(serverIn)) \in Seq(Nat)
          /\ Len(SubSeq(typed, 1, Len(serverIn))) =
                IF 1 <= Len(serverIn) THEN Len(serverIn) - 1 + 1 ELSE 0
          /\ \A i \in 1 .. Len(serverIn) - 1 + 1 :
                SubSeq(typed, 1, Len(serverIn))[i] = typed[1 + i - 1]
      <4>1. Len(serverIn) \in Int /\ 1 \in Int
        BY <3>1
      <4>. QED  BY <3>2, <4>1, SubSeqProperties
    <3> DEFINE t == SubSeq(typed, 1, Len(serverIn))
    <3>4. t \in Seq(Nat) /\ Len(t) = Len(serverIn) /\ \A i \in 1 .. Len(serverIn) : t[i] = typed[i]
      BY <3>1, <3>3
    <3> HIDE DEF t
    <3>5. \A i \in 1 .. Len(serverIn) : serverIn[i] = t[i]
      <4>1. \A i \in 1 .. Len(serverIn) : serverIn[i] = i
        BY <2>1 DEF Numbered
      <4>2. \A i \in 1 .. Len(serverIn) : typed[i] = i
        BY <2>1, <3>1 DEF Numbered
      <4>. QED  BY <3>4, <4>1, <4>2
    <3>6. serverIn = t
      BY <3>4, <3>5, InputStages, SeqEqual
    <3>. QED  BY <3>6 DEF t
  <2>3. ASSUME pc = "loop", transport = "up", commands = << >>, writerQueue = << >>
        PROVE  serverIn = typed
    <3>1. Flowing
      BY <2>3 DEF Flowing, Over
    <3>2. Handed = Len(serverIn)
      <4>1. Len(pendingIn) = 0 /\ Len(writerQueue) = 0
        BY <2>3, InputStages
      <4>. QED  BY <4>1, InputStages DEF Handed
    <3>3. Handed <= Len(typed)
      BY <2>1, <3>1 DEF InLine
    <3>4. Len(serverIn) = Len(typed)
      <4>1. SUFFICES ASSUME Handed # Len(typed) PROVE FALSE
        BY <3>2
      <4>2. Handed + 1 \in Handed + 1 .. Len(typed)
        BY <3>3, <4>1, InputStages
      <4>3. PICK k \in 1 .. Len(commands) : TRUE
        BY <2>1, <3>1, <4>2 DEF InLine
      <4>. QED  BY <2>3, <4>3
    <3>5. \A i \in 1 .. Len(typed) : serverIn[i] = typed[i]
      BY <2>1, <3>4 DEF Numbered
    <3>. QED  BY <3>4, <3>5, InputStages, SeqEqual
  <2>. QED  BY <2>2, <2>3 DEF InputInOrder
<1>. QED  BY <1>1, <1>2 DEF SessionSound, SessionInv

\* What is typed arrives in order and without a gap, all of it once nothing is
\* queued; output is published in order, exit status in its place; and a session
\* whose shell ended has published all the shell wrote (drain_until_shutdown,
\* await_reply, main_loop and write_input of session.rs).
THEOREM SessionIsSound == Spec => []SessionSound
BY SessionInvariant, InvSound, PTL

LEMMA InvSequence == ASSUME SessionInv PROVE EventsInSequence
<1>1. Cardinality(Positions("Ready")) <= 1
  <2>1. CASE Positions("Ready") = {}
    BY <2>1, FS_EmptySet
  <2>2. CASE Positions("Ready") # {}
    <3>1. PICK i \in Positions("Ready") : TRUE
      BY <2>2
    <3>2. Positions("Ready") = {i}
      BY <3>1 DEF SessionInv, Sequence
    <3>3. Cardinality({i}) = 1
      BY FS_Singleton
    <3>. QED  BY <3>2, <3>3
  <2>. QED  BY <2>1, <2>2
<1>. QED  BY <1>1 DEF EventsInSequence, SessionInv, Sequence

\* One Ready, output, exit status and tunnels after it, and nothing after the
\* final event, as event.rs lists them.
THEOREM EventsAreInSequence == Spec => []EventsInSequence
BY SessionInvariant, InvSequence, PTL

====
