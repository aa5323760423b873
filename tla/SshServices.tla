---------------------------- MODULE SshServices ----------------------------
(***************************************************************************)
(* What runs beside the shell of an SSH session, on the one transport they *)
(* share: the SFTP requests, which reuse one channel opened lazily         *)
(* (crates/rulogman-ssh/src/sftp.rs), and a command that is fed its input  *)
(* while its output is collected (exec.rs).                                *)
(*                                                                         *)
(* The session task of russh hands the server's messages to the channels;  *)
(* it stops handing out anything once a channel nobody reads is full, so a *)
(* command that is not read holds up the SFTP requests as well.            *)
(***************************************************************************)
EXTENDS Naturals, FiniteSets, Sequences

CONSTANTS
    Clients,     \* SFTP requests under way at once
    MaxChannels, \* bound: SFTP channels the server opens
    MaxInput,    \* bound: chunks of a command's standard input
    Buffer,      \* messages kept for a channel nobody reads: 100 in russh
    Backlog,     \* bound: messages of the command the server runs ahead by
    Limit        \* chunks of output kept: OUTPUT_LIMIT

ASSUME SshServicesAssumption ==
    /\ {MaxChannels, MaxInput, Backlog, Limit} \subseteq Nat /\ Buffer \in Nat \ {0}

VARIABLES
    link,      \* the transport: "up", "down", or "gone" with the session's worker
    cached,    \* Service.session: the channel requests reuse, 0 when none
    holder,    \* the request that holds its lock across the open, or none
    opened,    \* SFTP channels opened so far, numbered from 1
    forgotten, \* history: the channels a failed request gave up
    req,       \* the SFTP requests: where each is, and its channel
    wire,      \* what the server sent on the command's channel, not handed out yet
    inbox,     \* what was handed out, not read yet
    window,    \* chunks the server takes before it says it takes more
    cmd,       \* the collecting side of the command
    remote     \* the command on the server

sftp == <<cached, holder, opened, forgotten, req>>
exec == <<wire, inbox, window, cmd, remote>>
vars == <<link, sftp, exec>>

\* The command before it started, and once nothing of it can be heard any more.
Unheard == [taken |-> 0, said |-> 0, sent |-> {}]

Pending == {"asked", "opening", "working", "forgetting"}
Idle == [at |-> "idle", channel |-> 0]

Init ==
    /\ link = "up"
    /\ cached = 0 /\ holder = {} /\ opened = 0 /\ forgotten = {}
    /\ req = [c \in Clients |-> Idle]
    /\ wire = << >> /\ inbox = << >> /\ window = 1
    /\ cmd \in [at: {"idle"}, input: 0..MaxInput, feeding: {TRUE}, kept: {0},
                status: {FALSE}, ended: {FALSE}, answer: {"none"}]
    /\ remote = Unheard

\* The session task waits for room in the channel of the command.
Stuck == wire # << >> /\ Len(inbox) = Buffer /\ cmd.at # "done"
Alive == link = "up" /\ ~Stuck
-----------------------------------------------------------------------------
(* SFTP.                                                                   *)

\* The reply is sent; only a failure on a channel is told apart from the others.
Reply(c) == req' = [req EXCEPT ![c] = Idle]

\* request: refused at once when the worker is gone.
Ask(c) ==
    /\ req[c].at \in {"idle", "failed"}
    /\ req' = [req EXCEPT ![c] = IF link = "gone" THEN Idle
                                 ELSE [at |-> "asked", channel |-> 0]]
    /\ UNCHANGED <<link, cached, holder, opened, forgotten, exec>>

Unlocked(c) == \* mutant: the lock is not held across the open
    /\ req' = [req EXCEPT ![c].at = "opening"] /\ UNCHANGED holder
Locked(c) ==
    /\ req' = [req EXCEPT ![c].at = "opening"] /\ holder' = {c}

\* session: the cached channel, or a new one opened under the lock.
Session(c) ==
    /\ req[c].at = "asked" /\ holder = {}
    /\ IF cached # 0
       THEN /\ req' = [req EXCEPT ![c].at = "working", ![c].channel = cached]
            /\ UNCHANGED holder
       ELSE IF link = "up" THEN Locked(c)
       ELSE Reply(c) /\ UNCHANGED holder
    /\ UNCHANGED <<link, cached, opened, forgotten, exec>>

\* open: the channel, the subsystem and the handshake.
Open(c) ==
    /\ req[c].at = "opening"
    /\ holder' = holder \ {c}
    /\ \/ /\ Alive /\ opened < MaxChannels
          /\ opened' = opened + 1 /\ cached' = opened'
          /\ req' = [req EXCEPT ![c].at = "working", ![c].channel = opened']
       \/ /\ Alive \/ link = "down"
          /\ Reply(c) /\ UNCHANGED <<opened, cached>>
    /\ UNCHANGED <<link, forgotten, exec>>

\* remote and transfer: the server's answer, a refusal included, keeps the channel;
\* any other failure, a channel out of step or a reply that is late, gives it up.
Work(c) ==
    /\ req[c].at = "working"
    /\ \/ /\ Alive
          /\ Reply(c)
       \/ req' = [req EXCEPT ![c].at = "forgetting"]
    /\ UNCHANGED <<link, cached, holder, opened, forgotten, exec>>

KeptForNext == UNCHANGED <<cached, forgotten>> \* mutant: the broken channel stays
\* invalidate: whatever is cached by now.
Invalidate == cached' = 0 /\ forgotten' = forgotten \union ({cached} \ {0})

Forget(c) ==
    /\ req[c].at = "forgetting" /\ holder = {}
    /\ Invalidate /\ req' = [req EXCEPT ![c].at = "failed"]
    /\ UNCHANGED <<link, holder, opened, exec>>
-----------------------------------------------------------------------------
(* The command.                                                            *)

Finish(answer) == cmd' = [cmd EXCEPT !.at = "done", !.answer = answer]
Done == cmd.at = "done" \* its channel is dropped, and what is said on it with it

\* run and execute, to the exec request.
Run ==
    /\ cmd.at = "idle"
    /\ IF link = "gone" THEN Finish("disconnected")
       ELSE cmd' = [cmd EXCEPT !.at = "sent"]
    /\ UNCHANGED <<link, sftp, wire, inbox, window, remote>>

\* The channel cannot be opened or asked: broken.
RunFails ==
    /\ cmd.at = "sent" /\ link = "down"
    /\ Finish("disconnected")
    /\ UNCHANGED <<link, sftp, wire, inbox, window, remote>>

Starting == cmd.at = "sent" /\ remote.sent = {}
Going == ~Done /\ {"accepted", "closed"} \intersect remote.sent = {"accepted"}

\* The server runs ahead of the client, within the bound.
Room == link = "up" /\ Len(wire) <= Backlog
Send(what) == wire' = Append(wire, what)
Mark(what) == [remote EXCEPT !.sent = @ \union {what}]

\* External, the server: it takes the command or refuses it.
ServerAnswers ==
    /\ Room /\ Starting
    /\ \/ Send("success") /\ remote' = Mark("accepted")
       \/ Send("failure") /\ remote' = Mark("closed")
       \/ Send("close") /\ remote' = Mark("closed")
    /\ UNCHANGED <<link, sftp, inbox, window, cmd>>

\* External, the command: it takes a chunk of input, maybe answering it, and says
\* something at its end; it may end before its input does.
CommandReads ==
    /\ Room /\ Going /\ "eof" \notin remote.sent
    /\ window = 0
    /\ window' = 1
    /\ \E says \in 0..1:
          /\ remote' = [remote EXCEPT !.taken = @ + 1, !.said = @ + says]
          /\ wire' = wire \o (IF says = 1 THEN <<"data", "more">> ELSE <<"more">>)
    /\ UNCHANGED <<link, sftp, inbox, cmd>>

\* What remains of a command once it ended: any order of the end of its output and
\* its status, then the close, which a server may leave out when it gave both.
CommandEnds ==
    /\ Room /\ Going
    /\ \/ /\ remote.sent \intersect {"eof", "status"} = {} /\ remote.said < MaxInput + 1
          /\ Send("data") /\ remote' = [remote EXCEPT !.said = @ + 1]
       \/ "eof" \notin remote.sent /\ Send("eof") /\ remote' = Mark("eof")
       \/ "status" \notin remote.sent /\ Send("status") /\ remote' = Mark("status")
       \/ Send("close") /\ remote' = Mark("closed")
    /\ UNCHANGED <<link, sftp, inbox, window, cmd>>

\* External, russh: the session task hands the next message out.
Deliver ==
    /\ Alive /\ wire # << >>
    /\ wire' = Tail(wire)
    /\ inbox' = IF Head(wire) = "more" \/ Done THEN inbox ELSE Append(inbox, Head(wire))
    /\ UNCHANGED <<link, sftp, window, cmd, remote>>

Outstanding == remote.taken + (1 - window) \* chunks sent so far

\* The feed of collect: all the input, as the server takes it, then its end.
Feed ==
    /\ cmd.at = "collecting" /\ cmd.feeding
    /\ \/ /\ Alive /\ Outstanding < cmd.input /\ window = 1
          /\ "more" \notin {wire[i]: i \in 1..Len(wire)}
          /\ window' = 0 /\ UNCHANGED cmd
       \/ /\ Alive /\ Outstanding = cmd.input
          /\ cmd' = [cmd EXCEPT !.feeding = FALSE] /\ UNCHANGED window
       \/ /\ link = "down"
          /\ cmd' = [cmd EXCEPT !.feeding = FALSE] /\ UNCHANGED window
    /\ UNCHANGED <<link, sftp, wire, inbox, remote>>

\* absorb and append: what is beyond the limit is read and dropped.
Absorb(what) ==
    CASE what = "data" -> [cmd EXCEPT !.kept = IF @ < Limit THEN @ + 1 ELSE @]
      [] what = "status" -> [cmd EXCEPT !.status = TRUE]
      [] what = "eof" -> [cmd EXCEPT !.ended = TRUE]
      [] OTHER -> cmd

StopsAtEof(c) == c.ended \* mutant: the first end of output ends the command
Owed(c) == c.ended /\ c.status

WhenFed == cmd.at = "collecting" /\ ~cmd.feeding \* mutant: written first, read after
Reading == cmd.at = "collecting"

\* reader.wait, None once the transport is down and everything was read.
Next1 == IF inbox # << >> THEN Head(inbox) ELSE "none"
Read == inbox' = IF cmd'.at = "done" \/ inbox = << >> THEN << >> ELSE Tail(inbox)

\* await_reply
AwaitReply ==
    /\ cmd.at = "sent"
    /\ inbox # << >>
    /\ CASE Head(inbox) = "success" -> cmd' = [cmd EXCEPT !.at = "collecting"]
         [] Head(inbox) \in {"failure", "close", "eof"} -> Finish("refused")
         [] OTHER -> cmd' = Absorb(Head(inbox))
    /\ Read
    /\ UNCHANGED <<link, sftp, wire, window, remote>>

\* collect
Collect ==
    /\ Reading /\ (inbox # << >> \/ link = "down")
    /\ LET after == Absorb(Next1)
       IN cmd' = IF Next1 \in {"close", "none"} \/ Owed(after)
                 THEN [after EXCEPT !.at = "done", !.answer = "output"]
                 ELSE after
    /\ Read
    /\ UNCHANGED <<link, sftp, wire, window, remote>>
-----------------------------------------------------------------------------
\* External: the connection is lost; what was not handed out goes with it.
LinkDown ==
    /\ link = "up" /\ link' = "down" /\ wire' = << >>
    /\ remote' = Unheard /\ window' = 1
    /\ UNCHANGED <<sftp, inbox, cmd>>

\* The worker returns and its runtime drops every task, so every reply.
WorkerEnds ==
    /\ link # "gone" /\ link' = "gone" /\ wire' = << >> /\ inbox' = << >>
    /\ remote' = Unheard /\ window' = 1
    /\ req' = [c \in Clients |-> IF req[c].at \in Pending THEN Idle ELSE req[c]]
    /\ holder' = {}
    /\ cmd' = IF cmd.at \in {"idle", "done"} THEN cmd
              ELSE [cmd EXCEPT !.at = "done", !.answer = "disconnected"]
    /\ UNCHANGED <<cached, opened, forgotten>>

ServeSftp(c) == Session(c) \/ Open(c) \/ Work(c) \/ Forget(c)
Execute == RunFails \/ AwaitReply \/ Feed \/ Collect
Serving == ServerAnswers \/ CommandReads \/ CommandEnds
Next ==
    \/ \E c \in Clients: Ask(c) \/ ServeSftp(c)
    \/ Run \/ Execute \/ Serving \/ Deliver \/ LinkDown \/ WorkerEnds
Spec == Init /\ [][Next]_vars

\* The tasks of the runtime run, and its lock is first come, first served; the session
\* task of russh runs; the server answers what it is asked and the command ends.
\* Nothing makes the transport fail.
Fairness ==
    /\ \A c \in Clients: SF_vars(ServeSftp(c))
    /\ WF_vars(Execute) /\ WF_vars(Serving) /\ WF_vars(Deliver)
FairSpec == Spec /\ Fairness
-----------------------------------------------------------------------------
(* Properties.                                                             *)
TypeOK ==
    /\ link \in {"up", "down", "gone"} /\ cached \in 0..opened /\ opened \in 0..MaxChannels
    /\ holder \subseteq Clients /\ Cardinality(holder) <= 1
    /\ \A c \in Clients: req[c].at = "opening" <=> c \in holder
    /\ Len(inbox) <= Buffer /\ window \in 0..1
    /\ cmd.kept \in 0..Limit /\ remote.taken \in 0..cmd.input

\* A channel is given up for cause, and no failed one comes back: every channel but
\* the cached one was given up by a failed request, and a request that told
\* of a failure leaves its channel to nobody (session, invalidate).
OneChannel ==
    /\ 1..opened = forgotten \union ({cached} \ {0})
    /\ \A c \in Clients: req[c].at = "failed" => req[c].channel # cached

\* The services' state is well formed and their one channel is given up for cause.
ServicesSound == TypeOK /\ OneChannel

\* A command that ran to its end is reported whole: its status when the server gave
\* one, and its output up to the limit, whatever order the end of output, the status
\* and the close came in (collect, append).
AnswerIsWhole ==
    cmd.answer = "output" /\ link = "up" =>
        /\ cmd.status = ("status" \in remote.sent)
        /\ cmd.kept = IF remote.said < Limit THEN remote.said ELSE Limit

\* Every request and every command is answered: no command that answers while it is
\* fed wedges the transport, and no request that failed keeps the lock (collect,
\* session).
Answered ==
    /\ \A c \in Clients: req[c].at \in Pending ~> req[c].at \notin Pending
    /\ cmd.at = "sent" ~> cmd.at = "done"
=============================================================================
