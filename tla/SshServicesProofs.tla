------------------------- MODULE SshServicesProofs -------------------------
(***************************************************************************)
(* The services beside the shell are sound for every set of SFTP requests, *)
(* any length of a command's input and output and every buffer size: one   *)
(* channel at a time, given up for cause, and a command reported whole.    *)
(***************************************************************************)
EXTENDS SshServices, FiniteSetTheorems, SequenceTheorems, TLAPS

-----------------------------------------------------------------------------
(* The inductive invariant.                                                *)

Requests == [at : {"idle", "asked", "opening", "working", "forgetting", "failed"},
             channel : Nat]
Commands == [at : {"idle", "sent", "collecting", "done"}, input : 0 .. MaxInput,
             feeding : BOOLEAN, kept : 0 .. Limit, status : BOOLEAN, ended : BOOLEAN,
             answer : {"none", "disconnected", "refused", "output"}]
Remotes == [taken : Nat, said : Nat, sent : SUBSET {"accepted", "closed", "eof", "status"}]
Heard == {"success", "failure", "close", "data", "eof", "status"}

\* Every channel but the cached one was given up.
Accounted == 1 .. opened = forgotten \union ({cached} \ {0})

\* The lock is held for the one open there can be, with no channel cached; a request
\* that got as far as a channel names one of those opened.
Channels ==
    /\ link \in {"up", "down", "gone"}
    /\ opened \in 0 .. MaxChannels /\ cached \in 0 .. opened
    /\ req \in [Clients -> Requests]
    /\ holder # {} => cached = 0 /\ \E c \in Clients : holder = {c}
    /\ \A c \in Clients : req[c].at = "opening" <=> c \in holder
    /\ Accounted
    /\ \A c \in Clients :
          /\ req[c].at \in {"working", "forgetting", "failed"} => req[c].channel \in 1 .. opened
          /\ req[c].at = "failed" => req[c].channel # cached

\* The server takes no more than what was fed; nothing is answered before the end.
Shapes ==
    /\ link \in {"up", "down", "gone"}
    /\ cmd \in Commands /\ remote \in Remotes
    /\ wire \in Seq(Heard \union {"more"}) /\ inbox \in Seq(Heard) /\ Len(inbox) <= Buffer
    /\ window \in 0 .. 1 /\ remote.taken + (1 - window) <= cmd.input
    /\ cmd.answer = "output" => cmd.at = "done"

Weight(x) == IF x = "data" THEN 1 ELSE 0
Upto(n) == IF n < Limit THEN n ELSE Limit

\* Reading the queue q takes the count of the output from a to b, never over the
\* total, and the end of the output, if it is there, is met at the total.
Runs(q, a, b, total) ==
    \E f \in [0 .. Len(q) -> 0 .. total] :
        /\ f[0] = a /\ f[Len(q)] = b
        /\ \A i \in 1 .. Len(q) :
              /\ f[i] = f[i - 1] + Weight(q[i])
              /\ q[i] = "eof" => f[i] = total

\* The output kept is what was read of it, and what was said is that and what is
\* queued; the end of the output comes last of it.
Counted(c, q, w, server) ==
    \E r, m \in Nat :
        /\ c.kept = Upto(r) /\ (c.ended => r = server.said)
        /\ Runs(q, r, m, server.said)
        /\ Runs(w, m, server.said, server.said)

In(x, q) == \E i \in 1 .. Len(q) : q[i] = x
Last(x, q) == \A i \in 1 .. Len(q) : q[i] = x => i = Len(q)

\* The end, the status and the close were sent by the command before they are
\* anywhere; the status is not lost, and nothing follows the close.
Marked(c, q, w, server) ==
    /\ c.ended \/ In("eof", q) \/ In("eof", w) => "eof" \in server.sent
    /\ c.status \/ In("status", q) \/ In("status", w) <=> "status" \in server.sent
    /\ In("close", q) \/ In("close", w) => "closed" \in server.sent
    /\ Last("close", q) /\ Last("close", w)
    /\ In("close", q) => w = << >>

Listening == link = "up" /\ cmd.at # "done"
Exact == Listening => Counted(cmd, inbox, wire, remote) /\ Marked(cmd, inbox, wire, remote)

ServicesInv ==
    /\ Channels /\ Shapes /\ Exact /\ AnswerIsWhole
-----------------------------------------------------------------------------
(* SFTP.                                                                   *)

LEMMA InitChannels == Init => Channels
<1> SUFFICES ASSUME Init PROVE Channels
  OBVIOUS
<1>1. link = "up" /\ cached = 0 /\ opened = 0 /\ forgotten = {} /\ holder = {}
  BY DEF Init
<1>2. req = [c \in Clients |-> Idle]
  BY DEF Init
<1>3. Idle \in Requests /\ Idle.at = "idle"
  BY DEF Idle, Requests
<1>4. 1 .. 0 = {} /\ 0 \in 0 .. MaxChannels
  <2>1. MaxChannels \in Nat
    BY SshServicesAssumption
  <2> QED BY <2>1
<1>5. Accounted
  BY <1>1, <1>4 DEF Accounted
<1> QED BY <1>1, <1>2, <1>3, <1>4, <1>5 DEF Channels

LEMMA AskKeeps == ASSUME NEW c \in Clients, Channels, Ask(c) PROVE Channels'
BY DEF Ask, Channels, Accounted, Requests, Idle

LEMMA SessionKeeps == ASSUME NEW c \in Clients, Channels, Session(c) PROVE Channels'
<1>1. CASE cached # 0 /\ req' = [req EXCEPT ![c].at = "working", ![c].channel = cached]
           /\ UNCHANGED <<link, cached, opened, forgotten, holder>>
  <2>1. cached \in 1 .. opened /\ cached \in Nat /\ holder = {}
    BY <1>1, SshServicesAssumption DEF Session, Channels
  <2>2. req' \in [Clients -> Requests]
    BY <1>1, <2>1 DEF Channels, Requests
  <2>3. \A d \in Clients : req'[d].at # "opening"
    BY <1>1, <2>1 DEF Channels, Requests
  <2>4. \A d \in Clients :
          /\ req'[d].at \in {"working", "forgetting", "failed"} => req'[d].channel \in 1 .. opened
          /\ req'[d].at = "failed" => req'[d].channel # cached
    BY <1>1, <2>1 DEF Channels, Requests
  <2>5. Accounted'
    BY <1>1 DEF Channels, Accounted
  <2> QED BY <1>1, <2>1, <2>2, <2>3, <2>4, <2>5 DEF Channels
<1>2. CASE cached = 0 /\ Locked(c) /\ UNCHANGED <<link, cached, opened, forgotten>>
  BY <1>2 DEF Channels, Accounted, Requests, Session, Locked
<1>3. CASE Reply(c) /\ UNCHANGED <<link, cached, opened, forgotten, holder>>
  BY <1>3 DEF Channels, Accounted, Requests, Session, Reply, Idle
<1> QED BY <1>1, <1>2, <1>3 DEF Session

LEMMA OpenKeeps == ASSUME NEW c \in Clients, Channels, Open(c) PROVE Channels'
<1>1. holder = {c} /\ cached = 0 /\ holder' = {} /\ link' = link /\ forgotten' = forgotten
  BY DEF Open, Channels
<1>2. CASE /\ opened < MaxChannels /\ opened' = opened + 1 /\ cached' = opened'
           /\ req' = [req EXCEPT ![c].at = "working", ![c].channel = opened']
  <2>1. /\ opened \in Nat /\ opened' \in 0 .. MaxChannels /\ cached' \in 0 .. opened'
        /\ opened' \in Nat \ {0}
    BY <1>2, SshServicesAssumption DEF Channels
  <2>2. req' \in [Clients -> Requests]
    BY <1>2, <2>1 DEF Channels, Requests
  <2>3. 1 .. opened' = (1 .. opened) \union {opened'}
    BY <1>2, <2>1
  <2>4. 1 .. opened = forgotten
    BY <1>1 DEF Channels, Accounted
  <2>5. \A d \in Clients : req'[d].at = "opening" <=> d \in holder'
    BY <1>1, <1>2, <2>1 DEF Channels, Requests
  <2>6. ASSUME NEW d \in Clients
        PROVE  /\ req'[d].at \in {"working", "forgetting", "failed"} =>
                      req'[d].channel \in 1 .. opened'
               /\ req'[d].at = "failed" => req'[d].channel # cached'
    <3>1. CASE d = c
      BY <3>1, <1>2, <2>1 DEF Channels, Requests
    <3>2. CASE d # c
      BY <3>2, <1>2, <2>1 DEF Channels, Requests
    <3> QED BY <3>1, <3>2
  <2>7. Accounted'
    BY <1>1, <1>2, <2>1, <2>3, <2>4 DEF Accounted
  <2>8. link' \in {"up", "down", "gone"}
    <3>1. link \in {"up", "down", "gone"}
      BY DEF Channels
    <3> QED BY <3>1, <1>1
  <2> QED BY <1>1, <2>1, <2>2, <2>5, <2>6, <2>7, <2>8 DEF Channels
<1>3. CASE Reply(c) /\ UNCHANGED <<opened, cached>>
  <2>1. req' = [req EXCEPT ![c] = Idle] /\ Idle \in Requests /\ Idle.at = "idle"
    BY <1>3 DEF Reply, Idle, Requests
  <2>2. req' \in [Clients -> Requests]
    BY <2>1 DEF Channels
  <2>3. \A d \in Clients : req'[d].at = "opening" <=> d \in holder'
    BY <1>1, <2>1 DEF Channels
  <2>4. \A d \in Clients :
          /\ req'[d].at \in {"working", "forgetting", "failed"} => req'[d].channel \in 1 .. opened
          /\ req'[d].at = "failed" => req'[d].channel # cached
    BY <2>1 DEF Channels
  <2>5. Accounted'
    BY <1>1, <1>3 DEF Channels, Accounted
  <2> QED BY <1>1, <1>3, <2>2, <2>3, <2>4, <2>5 DEF Channels
<1> QED BY <1>2, <1>3 DEF Open

LEMMA WorkKeeps == ASSUME NEW c \in Clients, Channels, Work(c) PROVE Channels'
BY DEF Work, Channels, Accounted, Requests, Reply, Idle

LEMMA ForgetKeeps == ASSUME NEW c \in Clients, Channels, Forget(c) PROVE Channels'
BY DEF Forget, Channels, Requests, Invalidate, Accounted

LEMMA WorkerKeepsChannels == ASSUME Channels, WorkerEnds PROVE Channels'
<1>1. /\ req' = [c \in Clients |-> IF req[c].at \in Pending THEN Idle ELSE req[c]]
      /\ holder' = {} /\ link' = "gone" /\ UNCHANGED <<cached, opened, forgotten>>
  BY DEF WorkerEnds
<1>2. Idle \in Requests /\ Idle.at = "idle"
  BY DEF Idle, Requests
<1>3. req' \in [Clients -> Requests]
  BY <1>1, <1>2 DEF Channels
<1>4. \A c \in Clients : req'[c].at # "opening"
  BY <1>1, <1>2 DEF Channels, Pending
<1>5. \A c \in Clients :
        /\ req'[c].at \in {"working", "forgetting", "failed"} => req'[c].channel \in 1 .. opened
        /\ req'[c].at = "failed" => req'[c].channel # cached
  BY <1>1, <1>2 DEF Channels
<1>6. cached' = cached /\ opened' = opened /\ forgotten' = forgotten
  BY <1>1
<1>7. opened \in 0 .. MaxChannels /\ cached \in 0 .. opened
  BY DEF Channels
<1>8. Accounted'
  BY <1>6 DEF Channels, Accounted
<1> QED BY <1>1, <1>3, <1>4, <1>5, <1>6, <1>7, <1>8 DEF Channels

LEMMA OthersKeepChannels ==
    ASSUME Channels, link' \in {"up", "down", "gone"}, UNCHANGED sftp PROVE Channels'
BY DEF Channels, Accounted, sftp

LEMMA ChannelsKept == ASSUME Channels, [Next]_vars PROVE Channels'
<1>1. ASSUME NEW c \in Clients, Ask(c) \/ ServeSftp(c) PROVE Channels'
  BY <1>1, AskKeeps, SessionKeeps, OpenKeeps, WorkKeeps, ForgetKeeps DEF ServeSftp
<1>2. CASE Run \/ Execute \/ Serving \/ Deliver \/ LinkDown \/ UNCHANGED vars
  <2>1. link' \in {"up", "down", "gone"} /\ UNCHANGED sftp
    BY <1>2 DEF Run, Execute, RunFails, AwaitReply, Feed, Collect, Serving, ServerAnswers,
       CommandReads, CommandEnds, Deliver, LinkDown, vars, Channels
  <2> QED BY <2>1, OthersKeepChannels
<1>3. CASE WorkerEnds
  BY <1>3, WorkerKeepsChannels
<1> QED BY <1>1, <1>2, <1>3 DEF Next
-----------------------------------------------------------------------------
(* Queues.                                                                 *)

\* An empty queue moves no count.
LEMMA RunsNothing ==
    ASSUME NEW a \in Nat, NEW b \in Nat, NEW total \in Nat
    PROVE  Runs(<< >>, a, b, total) <=> a = b /\ a <= total
<1>1. ASSUME a = b, a <= total PROVE Runs(<< >>, a, b, total)
  <2>1. /\ [i \in 0 .. Len(<< >>) |-> a] \in [0 .. Len(<< >>) -> 0 .. total]
        /\ [i \in 0 .. Len(<< >>) |-> a][0] = a
        /\ Len(<< >>) = 0 /\ 1 .. Len(<< >>) = {}
    BY <1>1
  <2> QED BY <1>1, <2>1 DEF Runs
<1>2. ASSUME Runs(<< >>, a, b, total) PROVE a = b /\ a <= total
  BY <1>2 DEF Runs
<1> QED BY <1>1, <1>2

\* A message at the end of a queue counts once more.
LEMMA RunsOn ==
    ASSUME NEW S, NEW q \in Seq(S), NEW x \in S, NEW a \in Nat, NEW b \in Nat, NEW total \in Nat,
           Runs(q, a, b, total), b + Weight(x) <= total, x = "eof" => b = total
    PROVE  Runs(Append(q, x), a, b + Weight(x), total)
<1>1. PICK f \in [0 .. Len(q) -> 0 .. total] :
        /\ f[0] = a /\ f[Len(q)] = b
        /\ \A i \in 1 .. Len(q) :
              /\ f[i] = f[i - 1] + Weight(q[i])
              /\ q[i] = "eof" => f[i] = total
  BY DEF Runs
<1> DEFINE p == Append(q, x)
           g == [i \in 0 .. Len(p) |-> IF i <= Len(q) THEN f[i] ELSE b + Weight(x)]
<1>2. /\ Len(p) = Len(q) + 1 /\ p[Len(q) + 1] = x /\ Len(q) \in Nat
      /\ \A i \in 1 .. Len(q) : p[i] = q[i]
  OBVIOUS
<1>3. Weight(x) \in Nat /\ (x = "eof" => Weight(x) = 0)
  BY DEF Weight
<1>4. g \in [0 .. Len(p) -> 0 .. total] /\ g[0] = a /\ g[Len(p)] = b + Weight(x)
  BY <1>1, <1>2, <1>3
<1>5. ASSUME NEW i \in 1 .. Len(p)
      PROVE  g[i] = g[i - 1] + Weight(p[i]) /\ (p[i] = "eof" => g[i] = total)
  <2>1. CASE i \in 1 .. Len(q)
    <3>1. i \in 0 .. Len(p) /\ i - 1 \in 0 .. Len(p) /\ i <= Len(q) /\ i - 1 <= Len(q)
      BY <2>1, <1>2
    <3>2. g[i] = f[i] /\ g[i - 1] = f[i - 1] /\ p[i] = q[i]
      BY <3>1, <2>1, <1>2
    <3> QED BY <3>2, <2>1, <1>1
  <2>2. CASE i = Len(q) + 1
    <3>1. i \in 0 .. Len(p) /\ i - 1 \in 0 .. Len(p) /\ ~(i <= Len(q)) /\ i - 1 = Len(q)
      BY <2>2, <1>2
    <3>2. g[i] = b + Weight(x) /\ g[i - 1] = b /\ p[i] = x
      BY <3>1, <2>2, <1>1, <1>2
    <3> QED BY <3>2, <1>3
  <2> QED BY <2>1, <2>2, <1>2
<1> HIDE DEF p, g
<1>6. Runs(p, a, b + Weight(x), total)
  BY <1>4, <1>5 DEF Runs
<1> QED BY <1>6 DEF p

\* What was read of a queue is counted.
LEMMA RunsLess ==
    ASSUME NEW S, NEW q \in Seq(S), q # << >>, NEW a \in Nat, NEW b \in Nat, NEW total \in Nat,
           Runs(q, a, b, total)
    PROVE  /\ Runs(Tail(q), a + Weight(Head(q)), b, total)
           /\ a + Weight(Head(q)) <= total /\ (Head(q) = "eof" => a = total)
<1>1. PICK f \in [0 .. Len(q) -> 0 .. total] :
        /\ f[0] = a /\ f[Len(q)] = b
        /\ \A i \in 1 .. Len(q) :
              /\ f[i] = f[i - 1] + Weight(q[i])
              /\ q[i] = "eof" => f[i] = total
  BY DEF Runs
<1> DEFINE p == Tail(q)
           g == [i \in 0 .. Len(p) |-> f[i + 1]]
<1>2. /\ Len(q) \in Nat \ {0} /\ Len(p) = Len(q) - 1 /\ Head(q) = q[1]
      /\ \A i \in 1 .. Len(p) : p[i] = q[i + 1]
  OBVIOUS
<1>3. f[1] = f[0] + Weight(q[1]) /\ (q[1] = "eof" => f[1] = total)
  BY <1>1, <1>2
<1>4. g \in [0 .. Len(p) -> 0 .. total] /\ g[0] = f[1] /\ g[Len(p)] = b
  BY <1>1, <1>2
<1>5. ASSUME NEW i \in 1 .. Len(p)
      PROVE  g[i] = g[i - 1] + Weight(p[i]) /\ (p[i] = "eof" => g[i] = total)
  <2>1. i + 1 \in 1 .. Len(q) /\ i \in 0 .. Len(p) /\ i - 1 \in 0 .. Len(p) /\ (i + 1) - 1 = i
    BY <1>2
  <2>2. g[i] = f[i + 1] /\ g[i - 1] = f[i] /\ p[i] = q[i + 1]
    BY <2>1, <1>2
  <2>3. f[i + 1] = f[(i + 1) - 1] + Weight(q[i + 1]) /\ (q[i + 1] = "eof" => f[i + 1] = total)
    BY <2>1, <1>1
  <2> QED BY <2>1, <2>2, <2>3
<1> HIDE DEF p, g
<1>6. Runs(p, f[1], b, total)
  BY <1>4, <1>5 DEF Runs
<1>7. Head(q) = "eof" => Weight(Head(q)) = 0
  BY DEF Weight
<1>8. a + Weight(Head(q)) = f[1]
  BY <1>1, <1>2, <1>3
<1> QED BY <1>1, <1>2, <1>3, <1>6, <1>7, <1>8 DEF p

\* Where the end of the output is not queued, its count does not matter.
LEMMA RunsMore ==
    ASSUME NEW q, Len(q) \in Nat, NEW a, NEW b, NEW total \in Nat, NEW other \in Nat,
           Runs(q, a, b, total), ~In("eof", q), total <= other
    PROVE  Runs(q, a, b, other)
<1>1. PICK f \in [0 .. Len(q) -> 0 .. total] :
        /\ f[0] = a /\ f[Len(q)] = b
        /\ \A i \in 1 .. Len(q) : f[i] = f[i - 1] + Weight(q[i])
  BY DEF Runs
<1>2. f \in [0 .. Len(q) -> 0 .. other]
  BY <1>1
<1>3. \A i \in 1 .. Len(q) : q[i] # "eof"
  BY DEF In
<1> QED BY <1>1, <1>2, <1>3 DEF Runs

\* What is in a queue once one more message is, or one less.
LEMMA InAppended ==
    ASSUME NEW S, NEW q \in Seq(S), NEW x \in S, NEW y
    PROVE  /\ In(y, Append(q, x)) <=> In(y, q) \/ y = x
           /\ Last(y, Append(q, x)) <=> ~In(y, q)
<1>1. /\ Len(Append(q, x)) = Len(q) + 1 /\ Append(q, x)[Len(q) + 1] = x /\ Len(q) \in Nat
      /\ \A i \in 1 .. Len(q) : Append(q, x)[i] = q[i]
  OBVIOUS
<1>2. 1 .. Len(Append(q, x)) = (1 .. Len(q)) \union {Len(q) + 1}
  BY <1>1
<1> QED BY <1>1, <1>2 DEF In, Last

LEMMA InShortened ==
    ASSUME NEW S, NEW q \in Seq(S), q # << >>, NEW y
    PROVE  /\ In(y, q) <=> y = Head(q) \/ In(y, Tail(q))
           /\ Last(y, q) => Last(y, Tail(q)) /\ (Head(q) = y => Tail(q) = << >>)
<1>1. /\ Len(q) \in Nat \ {0} /\ Len(Tail(q)) = Len(q) - 1 /\ Head(q) = q[1]
      /\ \A i \in 1 .. Len(Tail(q)) : Tail(q)[i] = q[i + 1]
      /\ Tail(q) \in Seq(S)
  OBVIOUS
<1>2. In(y, q) => y = Head(q) \/ In(y, Tail(q))
  <2> SUFFICES ASSUME NEW i \in 1 .. Len(q), q[i] = y, y # Head(q) PROVE In(y, Tail(q))
    BY DEF In
  <2>1. i - 1 \in 1 .. Len(Tail(q)) /\ (i - 1) + 1 = i
    BY <1>1
  <2>2. Tail(q)[i - 1] = q[(i - 1) + 1]
    BY <2>1, <1>1
  <2>3. Tail(q)[i - 1] = y
    BY <2>1, <2>2
  <2> QED BY <2>1, <2>3 DEF In
<1>3. y = Head(q) \/ In(y, Tail(q)) => In(y, q)
  BY <1>1 DEF In
<1>4. Last(y, q) => Last(y, Tail(q))
  <2> SUFFICES ASSUME Last(y, q), NEW i \in 1 .. Len(Tail(q)), Tail(q)[i] = y
               PROVE  i = Len(Tail(q))
    BY DEF Last
  <2>1. i + 1 \in 1 .. Len(q) /\ q[i + 1] = y
    BY <1>1
  <2>2. i + 1 = Len(q)
    BY <2>1 DEF Last
  <2> QED BY <2>2, <1>1
<1>5. ASSUME Last(y, q), Head(q) = y PROVE Tail(q) = << >>
  <2>1. Len(Tail(q)) = 0
    <3>1. 1 \in 1 .. Len(q) /\ q[1] = y
      BY <1>1, <1>5
    <3>2. 1 = Len(q)
      BY <3>1, <1>5 DEF Last
    <3> QED BY <3>2, <1>1
  <2>2. \A s \in Seq(S) : s # << >> => Len(s) \in Nat \ {0}
    BY EmptySeq, Zenon
  <2>3. Tail(q) \in Seq(S)
    BY <1>1
  <2>4. Tail(q) # << >> => Len(Tail(q)) # 0
    BY <2>2, <2>3
  <2> QED BY <2>1, <2>4
<1> QED BY <1>2, <1>3, <1>4, <1>5

LEMMA InNothing == ASSUME NEW y PROVE ~In(y, << >>) /\ Last(y, << >>)
BY DEF In, Last
-----------------------------------------------------------------------------
(* The command's messages.                                                 *)

LEMMA UptoNext ==
    ASSUME NEW r \in Nat
    PROVE  /\ Upto(r + 1) = IF Upto(r) < Limit THEN Upto(r) + 1 ELSE Upto(r)
           /\ Upto(r + 0) = Upto(r)
BY SshServicesAssumption DEF Upto

\* Reading a message.
LEMMA CountedRead ==
    ASSUME NEW c \in Commands, NEW d \in Commands, NEW q \in Seq(Heard), q # << >>, NEW w,
           NEW server \in Remotes, Counted(c, q, w, server),
           d.kept = IF Head(q) = "data" /\ c.kept < Limit THEN c.kept + 1 ELSE c.kept,
           d.ended => c.ended \/ Head(q) = "eof"
    PROVE  Counted(d, Tail(q), w, server)
<1>1. PICK r, m \in Nat :
        /\ c.kept = Upto(r) /\ (c.ended => r = server.said)
        /\ Runs(q, r, m, server.said)
        /\ Runs(w, m, server.said, server.said)
  BY DEF Counted
<1>0. server.said \in Nat
  BY DEF Remotes
<1>2. /\ Runs(Tail(q), r + Weight(Head(q)), m, server.said)
      /\ r + Weight(Head(q)) <= server.said /\ (Head(q) = "eof" => r = server.said)
  BY <1>0, <1>1, RunsLess
<1>3. r + Weight(Head(q)) \in Nat
  BY DEF Weight
<1>4. d.kept = Upto(r + Weight(Head(q)))
  <2>1. CASE Head(q) = "data"
    <3>1. Weight(Head(q)) = 1
      BY <2>1 DEF Weight
    <3> QED BY <2>1, <3>1, <1>1, UptoNext
  <2>2. CASE Head(q) # "data"
    <3>1. Weight(Head(q)) = 0
      BY <2>2 DEF Weight
    <3> QED BY <2>2, <3>1, <1>1, UptoNext
  <2> QED BY <2>1, <2>2
<1>5. ASSUME d.ended PROVE r + Weight(Head(q)) = server.said
  <2>1. r = server.said
    BY <1>1, <1>2, <1>5
  <2> QED BY <2>1, <1>0, <1>2, <1>3 DEF Weight
<1> QED BY <1>1, <1>2, <1>3, <1>4, <1>5 DEF Counted

\* Handing a message out, or learning that the server takes more.
LEMMA CountedMoved ==
    ASSUME NEW c, NEW q \in Seq(Heard), NEW w \in Seq(Heard \union {"more"}), w # << >>,
           NEW server \in Remotes, Counted(c, q, w, server)
    PROVE  /\ Head(w) \in Heard => Counted(c, Append(q, Head(w)), Tail(w), server)
           /\ Head(w) = "more" => Counted(c, q, Tail(w), server)
<1>1. PICK r, m \in Nat :
        /\ c.kept = Upto(r) /\ (c.ended => r = server.said)
        /\ Runs(q, r, m, server.said)
        /\ Runs(w, m, server.said, server.said)
  BY DEF Counted
<1>2. server.said \in Nat
  BY DEF Remotes
<1>3. /\ Runs(Tail(w), m + Weight(Head(w)), server.said, server.said)
      /\ m + Weight(Head(w)) <= server.said /\ (Head(w) = "eof" => m = server.said)
  BY <1>1, <1>2, RunsLess
<1>4. m + Weight(Head(w)) \in Nat /\ (Head(w) = "more" => m + Weight(Head(w)) = m)
  BY DEF Weight
<1>5. Head(w) \in Heard => Runs(Append(q, Head(w)), r, m + Weight(Head(w)), server.said)
  BY <1>1, <1>2, <1>3, RunsOn
<1>6. ASSUME Head(w) \in Heard PROVE Counted(c, Append(q, Head(w)), Tail(w), server)
  BY <1>1, <1>3, <1>4, <1>5, <1>6 DEF Counted
<1>7. ASSUME Head(w) = "more" PROVE Counted(c, q, Tail(w), server)
  BY <1>1, <1>3, <1>4, <1>7 DEF Counted
<1> QED BY <1>6, <1>7

\* A message of the server; output is said before its end.
LEMMA CountedSent ==
    ASSUME NEW c, NEW q \in Seq(Heard), NEW w \in Seq(Heard \union {"more"}),
           NEW x \in Heard \union {"more"}, NEW server \in Remotes, NEW after \in Remotes,
           Counted(c, q, w, server), after.said = server.said + Weight(x),
           x = "data" => ~c.ended /\ ~In("eof", q) /\ ~In("eof", w)
    PROVE  Counted(c, q, Append(w, x), after)
<1>1. PICK r, m \in Nat :
        /\ c.kept = Upto(r) /\ (c.ended => r = server.said)
        /\ Runs(q, r, m, server.said)
        /\ Runs(w, m, server.said, server.said)
  BY DEF Counted
<1>2. /\ server.said \in Nat /\ after.said \in Nat /\ Weight(x) \in Nat
      /\ server.said <= after.said /\ (x # "data" => after.said = server.said)
  BY DEF Remotes, Weight
<1>3. Runs(q, r, m, after.said) /\ Runs(w, m, server.said, after.said)
  <2>1. CASE x = "data"
    BY <2>1, <1>1, <1>2, RunsMore
  <2>2. CASE x # "data"
    <3>1. after.said = server.said
      BY <2>2, <1>2
    <3> QED BY <3>1, <1>1
  <2> QED BY <2>1, <2>2
<1>4. x = "eof" => server.said = after.said
  BY <1>2
<1>5. Runs(Append(w, x), m, server.said + Weight(x), after.said)
  BY <1>2, <1>3, <1>4, RunsOn
<1>6. c.ended => r = after.said
  BY <1>1, <1>2
<1> QED BY <1>1, <1>3, <1>5, <1>6 DEF Counted

\* Once the end was read, or nothing is queued, all that was said was read.
LEMMA CountedWhole ==
    ASSUME NEW c \in Commands, NEW q, NEW w, NEW server \in Remotes, Counted(c, q, w, server),
           c.ended \/ (q = << >> /\ w = << >>)
    PROVE  c.kept = Upto(server.said)
<1>1. PICK r, m \in Nat :
        /\ c.kept = Upto(r) /\ (c.ended => r = server.said)
        /\ Runs(q, r, m, server.said)
        /\ Runs(w, m, server.said, server.said)
  BY DEF Counted
<1>2. CASE c.ended
  BY <1>1, <1>2
<1>3. CASE q = << >> /\ w = << >>
  <2>1. server.said \in Nat
    BY DEF Remotes
  <2>2. Runs(<< >>, r, m, server.said) /\ Runs(<< >>, m, server.said, server.said)
    BY <1>1, <1>3
  <2>3. r = m /\ m = server.said
    BY <2>1, <2>2, RunsNothing
  <2> QED BY <1>1, <2>3
<1> QED BY <1>2, <1>3

LEMMA MarkedRead ==
    ASSUME NEW c, NEW d, NEW q \in Seq(Heard), q # << >>, NEW w, NEW server,
           Marked(c, q, w, server),
           d.ended <=> c.ended \/ Head(q) = "eof", d.status <=> c.status \/ Head(q) = "status"
    PROVE  /\ Marked(d, Tail(q), w, server)
           /\ Head(q) = "close" => Tail(q) = << >> /\ w = << >>
<1>1. \A y : /\ In(y, q) <=> y = Head(q) \/ In(y, Tail(q))
             /\ Last(y, q) => Last(y, Tail(q)) /\ (Head(q) = y => Tail(q) = << >>)
  BY InShortened
<1> QED BY <1>1 DEF Marked

LEMMA MarkedMoved ==
    ASSUME NEW c, NEW q \in Seq(Heard), NEW w \in Seq(Heard \union {"more"}), w # << >>,
           NEW server, Marked(c, q, w, server)
    PROVE  /\ Head(w) \in Heard => Marked(c, Append(q, Head(w)), Tail(w), server)
           /\ Head(w) = "more" => Marked(c, q, Tail(w), server)
<1>1. \A y : /\ In(y, w) <=> y = Head(w) \/ In(y, Tail(w))
             /\ Last(y, w) => Last(y, Tail(w)) /\ (Head(w) = y => Tail(w) = << >>)
  BY InShortened
<1>2. ASSUME Head(w) \in Heard PROVE Marked(c, Append(q, Head(w)), Tail(w), server)
  <2>1. \A y : /\ In(y, Append(q, Head(w))) <=> In(y, q) \/ y = Head(w)
               /\ Last(y, Append(q, Head(w))) <=> ~In(y, q)
    BY <1>2, InAppended
  <2>2. ~In("close", q)
    BY DEF Marked
  <2> QED BY <1>1, <2>1, <2>2 DEF Marked
<1>3. ASSUME Head(w) = "more" PROVE Marked(c, q, Tail(w), server)
  <2>1. ~In("close", q)
    BY DEF Marked
  <2> QED BY <1>1, <1>3, <2>1 DEF Marked
<1> QED BY <1>2, <1>3

LEMMA MarkedSent ==
    ASSUME NEW c, NEW q \in Seq(Heard), NEW w \in Seq(Heard \union {"more"}),
           NEW x \in Heard \union {"more"}, NEW server, NEW after,
           Marked(c, q, w, server), server.sent \subseteq after.sent,
           "closed" \notin server.sent,
           "status" \in after.sent <=> "status" \in server.sent \/ x = "status",
           x = "eof" => "eof" \in after.sent, x = "close" => "closed" \in after.sent
    PROVE  Marked(c, q, Append(w, x), after)
<1>1. \A y : /\ In(y, Append(w, x)) <=> In(y, w) \/ y = x
             /\ Last(y, Append(w, x)) <=> ~In(y, w)
  BY InAppended
<1>2. ~In("close", q) /\ ~In("close", w)
  BY DEF Marked
<1>3. ASSUME NEW y, y \in server.sent PROVE y \in after.sent
  BY <1>3
<1> QED BY <1>1, <1>2, <1>3 DEF Marked
-----------------------------------------------------------------------------
(* The command's steps.                                                    *)

\* The collecting side alone moves on, its answer still to come.
LEMMA CommandOnly ==
    ASSUME Exact, UNCHANGED <<link, inbox, wire, remote>>, cmd.at # "done",
           cmd'.kept = cmd.kept, cmd'.ended = cmd.ended, cmd'.status = cmd.status
    PROVE  Exact'
<1> SUFFICES ASSUME Listening'
             PROVE  Counted(cmd', inbox, wire, remote) /\ Marked(cmd', inbox, wire, remote)
  BY DEF Exact
<1>1. Counted(cmd, inbox, wire, remote) /\ Marked(cmd, inbox, wire, remote)
  BY DEF Exact, Listening
<1> QED BY <1>1 DEF Counted, Marked

LEMMA Finished ==
    ASSUME Shapes, NEW answer \in {"disconnected", "refused"}, Finish(answer)
    PROVE  /\ cmd' \in Commands /\ cmd'.at = "done" /\ cmd'.input = cmd.input
           /\ cmd'.answer # "output" /\ Exact' /\ AnswerIsWhole'
BY DEF Shapes, Finish, Commands, Exact, Listening, AnswerIsWhole

\* Steps that leave the queues alone keep their shapes.
LEMMA CommandShapes ==
    ASSUME Shapes, UNCHANGED <<link, inbox, wire, window, remote>>,
           cmd' \in Commands, cmd'.input = cmd.input, cmd'.answer = "output" => cmd'.at = "done"
    PROVE  Shapes'
BY DEF Shapes

LEMMA RunKeeps == ASSUME Shapes, Exact, Run PROVE Shapes' /\ Exact' /\ AnswerIsWhole'
<1>1. UNCHANGED <<link, inbox, wire, window, remote>>
  BY DEF Run, sftp
<1>2. CASE Finish("disconnected")
  BY <1>1, <1>2, Finished, CommandShapes
<1>3. CASE cmd' = [cmd EXCEPT !.at = "sent"]
  <2>1. /\ cmd' \in Commands /\ cmd'.at = "sent" /\ cmd'.input = cmd.input
        /\ cmd'.answer = cmd.answer
        /\ cmd'.kept = cmd.kept /\ cmd'.ended = cmd.ended /\ cmd'.status = cmd.status
    BY <1>3 DEF Shapes, Commands
  <2>2. cmd.at = "idle" /\ cmd.answer # "output"
    BY DEF Run, Shapes
  <2>3. Exact' /\ Shapes'
    BY <1>1, <2>1, <2>2, CommandOnly, CommandShapes
  <2> QED BY <2>1, <2>2, <2>3 DEF AnswerIsWhole
<1> QED BY <1>2, <1>3 DEF Run

LEMMA RunFailsKeeps == ASSUME Shapes, Exact, RunFails PROVE Shapes' /\ Exact' /\ AnswerIsWhole'
<1>1. UNCHANGED <<link, inbox, wire, window, remote>> /\ Finish("disconnected")
  BY DEF RunFails
<1> QED BY <1>1, Finished, CommandShapes

\* The end of the input is told, or the input is lost with the link.
LEMMA FeedKeeps == ASSUME Shapes, Exact, Feed PROVE Shapes' /\ Exact' /\ AnswerIsWhole'
<1>1. cmd.at = "collecting" /\ cmd.answer # "output" /\ UNCHANGED <<link, inbox, wire, remote>>
  BY DEF Feed, Shapes
<1>2. CASE window' = 0 /\ UNCHANGED cmd /\ Outstanding < cmd.input /\ window = 1
  <2>1. window' \in 0 .. 1 /\ remote'.taken + (1 - window') <= cmd'.input
    BY <1>1, <1>2, SshServicesAssumption DEF Outstanding, Shapes, Remotes, Commands
  <2>2. Shapes'
    BY <1>1, <1>2, <2>1 DEF Shapes
  <2>3. Exact'
    BY <1>1, <1>2, CommandOnly
  <2> QED BY <1>1, <1>2, <2>2, <2>3 DEF AnswerIsWhole
<1>3. CASE cmd' = [cmd EXCEPT !.feeding = FALSE] /\ UNCHANGED window
  <2>1. PICK b \in BOOLEAN : cmd' = [cmd EXCEPT !.feeding = b]
    BY <1>3, Zenon
  <2>2. /\ cmd' \in Commands /\ cmd'.at = cmd.at /\ cmd'.input = cmd.input
        /\ cmd'.answer = cmd.answer
        /\ cmd'.kept = cmd.kept /\ cmd'.ended = cmd.ended /\ cmd'.status = cmd.status
    BY <2>1 DEF Shapes, Commands
  <2>3. Exact' /\ Shapes'
    BY <1>1, <1>3, <2>2, CommandOnly, CommandShapes
  <2> QED BY <1>1, <2>2, <2>3 DEF AnswerIsWhole
<1>4. \/ window' = 0 /\ UNCHANGED cmd /\ Outstanding < cmd.input /\ window = 1
      \/ cmd' = [cmd EXCEPT !.feeding = FALSE] /\ UNCHANGED window
  BY Zenon DEF Feed
<1> QED BY <1>2, <1>3, <1>4

\* What is absorbed of a message is told in the answer.
LEMMA Absorbed ==
    ASSUME cmd \in Commands, NEW x, NEW after, after = Absorb(x)
    PROVE  /\ after \in Commands /\ after.at = cmd.at /\ after.input = cmd.input
           /\ after.answer = cmd.answer
           /\ after.kept = IF x = "data" /\ cmd.kept < Limit THEN cmd.kept + 1 ELSE cmd.kept
           /\ after.ended <=> cmd.ended \/ x = "eof"
           /\ after.status <=> cmd.status \/ x = "status"
<1>1. cmd.kept \in 0 .. Limit /\ Limit \in Nat /\ cmd.status \in BOOLEAN /\ cmd.ended \in BOOLEAN
  BY SshServicesAssumption DEF Commands
<1>2. CASE x = "data"
  <2>1. after = [cmd EXCEPT !.kept = IF @ < Limit THEN @ + 1 ELSE @]
    BY <1>2 DEF Absorb
  <2> QED BY <1>1, <1>2, <2>1 DEF Commands
<1>3. CASE x = "status"
  <2>1. PICK b \in BOOLEAN : b /\ after = [cmd EXCEPT !.status = b]
    BY <1>3, Zenon DEF Absorb
  <2> QED BY <1>1, <1>3, <2>1 DEF Commands
<1>4. CASE x = "eof"
  <2>1. PICK b \in BOOLEAN : b /\ after = [cmd EXCEPT !.ended = b]
    BY <1>4, Zenon DEF Absorb
  <2> QED BY <1>1, <1>4, <2>1 DEF Commands
<1>5. CASE x \notin {"data", "status", "eof"}
  <2>1. after = cmd
    BY <1>5, Zenon DEF Absorb
  <2> QED BY <1>1, <1>5, <2>1
<1> QED BY <1>2, <1>3, <1>4, <1>5

\* What the next message does to a command that listens.
LEMMA NextMessage ==
    ASSUME Shapes, Exact, Listening, inbox # << >>, NEW after, after = Absorb(Head(inbox))
    PROVE  /\ Counted(after, Tail(inbox), wire, remote)
           /\ Marked(after, Tail(inbox), wire, remote)
           /\ Head(inbox) = "close" => Tail(inbox) = << >> /\ wire = << >>
<1>1. cmd \in Commands /\ inbox \in Seq(Heard) /\ remote \in Remotes
  BY DEF Shapes
<1>2. Counted(cmd, inbox, wire, remote) /\ Marked(cmd, inbox, wire, remote)
  BY DEF Exact
<1>3. /\ after \in Commands
      /\ after.kept = IF Head(inbox) = "data" /\ cmd.kept < Limit THEN cmd.kept + 1 ELSE cmd.kept
      /\ after.ended <=> cmd.ended \/ Head(inbox) = "eof"
      /\ after.status <=> cmd.status \/ Head(inbox) = "status"
  BY <1>1, Absorbed
<1>4. Counted(after, Tail(inbox), wire, remote)
  BY <1>1, <1>2, <1>3, CountedRead
<1>5. /\ Marked(after, Tail(inbox), wire, remote)
      /\ Head(inbox) = "close" => Tail(inbox) = << >> /\ wire = << >>
  BY <1>1, <1>2, <1>3, MarkedRead
<1> QED BY <1>4, <1>5

\* Reading leaves a shorter queue, an empty one at the end.
LEMMA ReadShapes ==
    ASSUME Shapes, Read, UNCHANGED <<link, wire, window, remote>>,
           cmd' \in Commands, cmd'.input = cmd.input, cmd'.answer = "output" => cmd'.at = "done"
    PROVE  Shapes'
<1>1. inbox' \in Seq(Heard) /\ Len(inbox') <= Buffer
  <2>1. inbox \in Seq(Heard) /\ Len(inbox) <= Buffer /\ Buffer \in Nat
    BY SshServicesAssumption DEF Shapes
  <2>2. CASE inbox' = << >>
    BY <2>1, <2>2
  <2>3. CASE inbox # << >> /\ inbox' = Tail(inbox)
    BY <2>1, <2>3
  <2> QED BY <2>2, <2>3 DEF Read
<1> QED BY <1>1 DEF Shapes

LEMMA AwaitReplyKeeps ==
    ASSUME Shapes, Exact, AwaitReply PROVE Shapes' /\ Exact' /\ AnswerIsWhole'
<1>1. /\ cmd.at = "sent" /\ cmd.answer # "output" /\ inbox # << >> /\ Read
      /\ UNCHANGED <<link, wire, window, remote>>
  BY DEF AwaitReply, Shapes
<1>2. CASE Finish("refused")
  <2>1. /\ cmd' \in Commands /\ cmd'.at = "done" /\ cmd'.input = cmd.input
        /\ cmd'.answer # "output" /\ Exact' /\ AnswerIsWhole'
    BY <1>2, Finished
  <2> QED BY <1>1, <2>1, ReadShapes
<1>3. ASSUME cmd' \in Commands, cmd'.at # "done", cmd'.input = cmd.input,
             cmd'.answer = cmd.answer,
             NEW after, after = Absorb(Head(inbox)), cmd'.kept = after.kept,
             cmd'.ended = after.ended, cmd'.status = after.status
      PROVE  Shapes' /\ Exact' /\ AnswerIsWhole'
  <2>1. inbox' = Tail(inbox)
    BY <1>1, <1>3 DEF Read
  <2>2. ASSUME Listening' PROVE Exact'
    <3>1. Listening
      BY <1>1, <2>2 DEF Listening
    <3>2. Counted(after, Tail(inbox), wire, remote) /\ Marked(after, Tail(inbox), wire, remote)
      BY <1>1, <1>3, <3>1, NextMessage
    <3>3. Counted(cmd', Tail(inbox), wire, remote) /\ Marked(cmd', Tail(inbox), wire, remote)
      BY <1>3, <3>2 DEF Counted, Marked
    <3> QED BY <1>1, <2>1, <3>3 DEF Exact
  <2>3. Exact'
    BY <2>2 DEF Exact
  <2> QED BY <1>1, <1>3, <2>3, ReadShapes DEF AnswerIsWhole
<1>4. CASE Head(inbox) = "success" /\ cmd' = [cmd EXCEPT !.at = "collecting"]
  <2>1. /\ cmd' \in Commands /\ cmd'.at # "done" /\ cmd'.input = cmd.input
        /\ cmd'.answer = cmd.answer
        /\ cmd'.kept = cmd.kept /\ cmd'.ended = cmd.ended /\ cmd'.status = cmd.status
    BY <1>4 DEF Shapes, Commands
  <2>2. Absorb(Head(inbox)) = cmd
    BY <1>4, Zenon DEF Absorb
  <2> QED BY <1>3, <2>1, <2>2
<1>5. CASE cmd' = Absorb(Head(inbox))
  <2>1. /\ cmd' \in Commands /\ cmd'.at = cmd.at /\ cmd'.input = cmd.input
        /\ cmd'.answer = cmd.answer
    BY <1>5, Absorbed DEF Shapes
  <2> QED BY <1>1, <1>3, <1>5, <2>1
<1>6. \/ Finish("refused")
      \/ Head(inbox) = "success" /\ cmd' = [cmd EXCEPT !.at = "collecting"]
      \/ cmd' = Absorb(Head(inbox))
  BY Zenon DEF AwaitReply
<1> QED BY <1>2, <1>4, <1>5, <1>6

LEMMA CollectKeeps ==
    ASSUME Shapes, Exact, Collect PROVE Shapes' /\ Exact' /\ AnswerIsWhole'
<1> DEFINE after == Absorb(Next1)
<1>1. /\ cmd.at = "collecting" /\ cmd.answer # "output" /\ (inbox # << >> \/ link = "down")
      /\ Read /\ UNCHANGED <<link, wire, window, remote>>
  BY DEF Collect, Reading, Shapes
<1>2. /\ after \in Commands /\ after.at = cmd.at /\ after.input = cmd.input
      /\ after.answer = cmd.answer
  BY Absorbed DEF Shapes
<1>3. ASSUME link = "up"
      PROVE  /\ inbox # << >> /\ Next1 = Head(inbox) /\ Head(inbox) # "none"
             /\ Counted(after, Tail(inbox), wire, remote)
             /\ Marked(after, Tail(inbox), wire, remote)
             /\ Head(inbox) = "close" => Tail(inbox) = << >> /\ wire = << >>
  <2>1. inbox # << >> /\ Next1 = Head(inbox) /\ Listening
    BY <1>1, <1>3 DEF Next1, Listening
  <2>2. Head(inbox) # "none"
    <3>1. inbox \in Seq(Heard)
      BY DEF Shapes
    <3>2. Head(inbox) \in Heard
      BY <2>1, <3>1
    <3> QED BY <3>2 DEF Heard
  <2> QED BY <2>1, <2>2, NextMessage
<1> HIDE DEF after
<1>4. CASE cmd' = [after EXCEPT !.at = "done", !.answer = "output"]
           /\ (Next1 \in {"close", "none"} \/ Owed(after))
  <2>1. /\ cmd' \in Commands /\ cmd'.at = "done" /\ cmd'.input = cmd.input
        /\ cmd'.kept = after.kept /\ cmd'.status = after.status
    BY <1>2, <1>4 DEF Commands
  <2>2. Shapes'
    BY <1>1, <2>1, ReadShapes
  <2>3. Exact'
    BY <2>1 DEF Exact, Listening
  <2>4. ASSUME link = "up"
        PROVE  /\ after.kept = Upto(remote.said)
               /\ after.status <=> "status" \in remote.sent
    <3>1. remote \in Remotes
      BY DEF Shapes
    <3>2. CASE Owed(after)
      <4>1. after.ended /\ after.status
        BY <3>2 DEF Owed
      <4>2. after.kept = Upto(remote.said)
        <5>1. Counted(after, Tail(inbox), wire, remote)
          BY <1>3, <2>4
        <5> QED BY <4>1, <5>1 DEF Counted
      <4>3. "status" \in remote.sent
        BY <1>3, <2>4, <4>1 DEF Marked
      <4> QED BY <4>1, <4>2, <4>3
    <3>3. CASE Next1 = "close"
      <4>1. Counted(after, << >>, << >>, remote) /\ Marked(after, << >>, << >>, remote)
        BY <1>3, <2>4, <3>3
      <4>2. after.kept = Upto(remote.said)
        BY <1>2, <3>1, <4>1, CountedWhole
      <4>3. after.status <=> "status" \in remote.sent
        BY <4>1, InNothing DEF Marked
      <4> QED BY <4>2, <4>3
    <3> QED BY <1>3, <1>4, <2>4, <3>2, <3>3
  <2>5. after.status \in BOOLEAN
    BY <1>2 DEF Commands
  <2>6. AnswerIsWhole'
    <3> SUFFICES ASSUME link = "up"
                 PROVE  /\ after.status = ("status" \in remote.sent)
                        /\ after.kept = Upto(remote.said)
      BY <1>1, <2>1 DEF AnswerIsWhole, Upto
    <3> QED BY <2>4, <2>5
  <2> QED BY <2>2, <2>3, <2>6
<1>5. CASE cmd' = after
  <2>1. Shapes'
    BY <1>1, <1>2, <1>5, ReadShapes
  <2>2. ASSUME Listening' PROVE Exact'
    <3>1. inbox' = Tail(inbox) /\ link = "up"
      BY <1>1, <1>3, <1>2, <1>5, <2>2 DEF Read, Listening
    <3> QED BY <1>1, <1>3, <1>5, <3>1 DEF Exact
  <2>3. Exact'
    BY <2>2 DEF Exact
  <2> QED BY <1>1, <1>2, <1>5, <2>1, <2>3 DEF AnswerIsWhole
<1>6. \/ /\ cmd' = [after EXCEPT !.at = "done", !.answer = "output"]
         /\ Next1 \in {"close", "none"} \/ Owed(after)
      \/ cmd' = after
  BY Zenon DEF Collect, after
<1> QED BY <1>4, <1>5, <1>6
-----------------------------------------------------------------------------
(* The server, and the link.                                               *)

\* A message of the server; what it says of itself grows with it.
LEMMA SentKeeps ==
    ASSUME Shapes, Exact, NEW x \in Heard \union {"more"}, Send(x), UNCHANGED <<link, inbox, cmd>>,
           remote' \in Remotes, remote'.said = remote.said + Weight(x),
           window' \in 0 .. 1, remote'.taken + (1 - window') <= cmd.input,
           remote.sent \subseteq remote'.sent, "closed" \notin remote.sent,
           "status" \in remote'.sent <=> "status" \in remote.sent \/ x = "status",
           x = "eof" => "eof" \in remote'.sent, x = "close" => "closed" \in remote'.sent,
           x = "data" => "eof" \notin remote.sent
    PROVE  Shapes' /\ Exact'
<1>1. /\ inbox \in Seq(Heard) /\ wire \in Seq(Heard \union {"more"}) /\ remote \in Remotes
      /\ wire' = Append(wire, x)
  BY DEF Shapes, Send
<1>2. wire' \in Seq(Heard \union {"more"})
  BY <1>1
<1>3. Shapes'
  BY <1>2 DEF Shapes
<1>4. ASSUME Listening
      PROVE  Counted(cmd, inbox, wire', remote') /\ Marked(cmd, inbox, wire', remote')
  <2>1. Counted(cmd, inbox, wire, remote) /\ Marked(cmd, inbox, wire, remote)
    BY <1>4 DEF Exact
  <2>2. x = "data" => ~cmd.ended /\ ~In("eof", inbox) /\ ~In("eof", wire)
    BY <2>1 DEF Marked
  <2>3. Counted(cmd, inbox, Append(wire, x), remote')
    BY <1>1, <2>1, <2>2, CountedSent
  <2>4. Marked(cmd, inbox, Append(wire, x), remote')
    BY <1>1, <2>1, MarkedSent
  <2> QED BY <1>1, <2>3, <2>4
<1>5. Exact'
  BY <1>4 DEF Exact, Listening
<1> QED BY <1>3, <1>5

\* Before its end, a command's answer is not looked at.
LEMMA NotAnswered == ASSUME Shapes, cmd.at # "done", UNCHANGED cmd PROVE AnswerIsWhole'
BY DEF Shapes, AnswerIsWhole

\* A mark on the command of the server.
LEMMA MarkedRemote ==
    ASSUME remote \in Remotes, NEW m \in {"accepted", "closed", "eof", "status"}, remote' = Mark(m)
    PROVE  /\ remote' \in Remotes /\ remote'.taken = remote.taken /\ remote'.said = remote.said
           /\ remote'.sent = remote.sent \union {m}
BY DEF Mark, Remotes

LEMMA ServerAnswersKeeps ==
    ASSUME Shapes, Exact, ServerAnswers PROVE Shapes' /\ Exact' /\ AnswerIsWhole'
<1>1. /\ remote \in Remotes /\ remote.said \in Nat
      /\ window \in 0 .. 1 /\ remote.taken + (1 - window) <= cmd.input
  BY DEF Shapes, Remotes
<1>2. /\ cmd.at = "sent" /\ remote.sent = {}
      /\ UNCHANGED <<link, inbox, window, cmd>>
  BY DEF ServerAnswers, Starting
<1>3. ASSUME NEW x \in {"success", "failure", "close"}, NEW m \in {"accepted", "closed"},
             x = "close" => m = "closed", Send(x), remote' = Mark(m)
      PROVE  Shapes' /\ Exact'
  <2>1. /\ remote' \in Remotes /\ remote'.taken = remote.taken /\ remote'.said = remote.said
        /\ remote'.sent = remote.sent \union {m}
    BY <1>1, <1>3, MarkedRemote
  <2>2. Weight(x) = 0 /\ x \in Heard \union {"more"} /\ x \notin {"eof", "status", "data"}
    BY <1>3 DEF Weight, Heard
  <2> QED BY <1>1, <1>2, <1>3, <2>1, <2>2, SentKeeps
<1>4. Shapes' /\ Exact'
  BY <1>3 DEF ServerAnswers
<1> QED BY <1>2, <1>4, NotAnswered

LEMMA CommandEndsKeeps ==
    ASSUME Shapes, Exact, CommandEnds PROVE Shapes' /\ Exact' /\ AnswerIsWhole'
<1>1. /\ remote \in Remotes /\ remote.said \in Nat
      /\ window \in 0 .. 1 /\ remote.taken + (1 - window) <= cmd.input
  BY DEF Shapes, Remotes
<1>2. /\ cmd.at # "done" /\ "closed" \notin remote.sent
      /\ UNCHANGED <<link, inbox, window, cmd>>
  BY DEF CommandEnds, Going, Done
<1>3. CASE /\ remote.sent \intersect {"eof", "status"} = {}
           /\ Send("data") /\ remote' = [remote EXCEPT !.said = @ + 1]
  <2>1. /\ remote' \in Remotes /\ remote'.taken = remote.taken
        /\ remote'.said = remote.said + 1 /\ remote'.sent = remote.sent
    BY <1>1, <1>3 DEF Remotes
  <2>2. Weight("data") = 1 /\ "data" \in Heard \union {"more"} /\ "eof" \notin remote.sent
    BY <1>3 DEF Weight, Heard
  <2>3. Shapes' /\ Exact'
    BY <1>1, <1>2, <1>3, <2>1, <2>2, SentKeeps
  <2> QED BY <1>2, <2>3, NotAnswered
<1>4. ASSUME NEW x \in {"eof", "status", "close"}, NEW m \in {"eof", "status", "closed"},
             x = "close" <=> m = "closed", x = "eof" <=> m = "eof", Send(x), remote' = Mark(m)
      PROVE  Shapes' /\ Exact'
  <2>1. /\ remote' \in Remotes /\ remote'.taken = remote.taken /\ remote'.said = remote.said
        /\ remote'.sent = remote.sent \union {m}
    BY <1>1, <1>4, MarkedRemote
  <2>2. Weight(x) = 0 /\ x \in Heard \union {"more"} /\ x # "data"
    BY <1>4 DEF Weight, Heard
  <2>3. "status" \in remote'.sent <=> "status" \in remote.sent \/ x = "status"
    BY <1>4, <2>1
  <2> QED BY <1>1, <1>2, <1>4, <2>1, <2>2, <2>3, SentKeeps
<1>5. CASE \/ Send("eof") /\ remote' = Mark("eof")
           \/ Send("status") /\ remote' = Mark("status")
           \/ Send("close") /\ remote' = Mark("closed")
  <2>1. Shapes' /\ Exact'
    BY <1>4, <1>5
  <2> QED BY <1>2, <2>1, NotAnswered
<1> QED BY <1>3, <1>5 DEF CommandEnds

\* The command takes a chunk, tells that it takes more, and may answer it first.
LEMMA CommandReadsKeeps ==
    ASSUME Shapes, Exact, CommandReads PROVE Shapes' /\ Exact' /\ AnswerIsWhole'
<1>1. /\ remote \in Remotes /\ remote.said \in Nat /\ remote.taken \in Nat /\ cmd.input \in Nat
      /\ remote.taken + 1 <= cmd.input
      /\ wire \in Seq(Heard \union {"more"}) /\ inbox \in Seq(Heard)
  BY SshServicesAssumption DEF Shapes, Remotes, Commands, CommandReads
<1>2. /\ cmd.at # "done" /\ {"closed", "eof"} \intersect remote.sent = {}
      /\ UNCHANGED <<link, inbox, cmd>> /\ window' = 1
  BY DEF CommandReads, Going, Done
<1>3. PICK says \in 0 .. 1 :
        /\ remote' = [remote EXCEPT !.taken = @ + 1, !.said = @ + says]
        /\ wire' = wire \o (IF says = 1 THEN <<"data", "more">> ELSE <<"more">>)
  BY DEF CommandReads
<1>4. /\ remote' \in Remotes /\ remote'.taken = remote.taken + 1
      /\ remote'.said = remote.said + says /\ remote'.sent = remote.sent
  <2>1. remote' = [remote EXCEPT !.taken = remote.taken + 1, !.said = remote.said + says]
    BY <1>3, Zenon
  <2>2. remote.taken + 1 \in Nat /\ remote.said + says \in Nat
    BY <1>1
  <2> HIDE <1>3
  <2> QED BY <1>1, <2>1, <2>2 DEF Remotes
<1>5. window' \in 0 .. 1 /\ remote'.taken + (1 - window') <= cmd.input
  BY <1>1, <1>2, <1>4
<1>6. CASE says = 0
  <2>1. Send("more")
    BY <1>1, <1>3, <1>6 DEF Send
  <2>2. Weight("more") = 0 /\ "more" \in Heard \union {"more"}
    BY DEF Weight
  <2>3. Shapes' /\ Exact'
    BY <1>1, <1>2, <1>4, <1>5, <1>6, <2>1, <2>2, SentKeeps
  <2> QED BY <1>2, <2>3, NotAnswered
<1>7. CASE says = 1
  <2> DEFINE said == Append(wire, "data")
  <2>1. /\ "data" \in Heard \union {"more"} /\ said \in Seq(Heard \union {"more"})
        /\ wire' = Append(said, "more")
    BY <1>1, <1>3, <1>7 DEF Heard
  <2>2. Weight("data") = 1 /\ Weight("more") = 0
    BY DEF Weight
  <2> HIDE DEF said
  <2>3. ASSUME Listening
        PROVE  Counted(cmd, inbox, wire', remote') /\ Marked(cmd, inbox, wire', remote')
    <3>1. Counted(cmd, inbox, wire, remote) /\ Marked(cmd, inbox, wire, remote)
      BY <2>3 DEF Exact
    <3>2. ~cmd.ended /\ ~In("eof", inbox) /\ ~In("eof", wire)
      BY <1>2, <3>1 DEF Marked
    <3>3. Counted(cmd, inbox, said, remote')
      BY <1>1, <1>4, <1>7, <2>1, <2>2, <3>1, <3>2, CountedSent DEF said
    <3>4. Marked(cmd, inbox, said, remote')
      BY <1>1, <1>2, <1>4, <2>1, <3>1, MarkedSent DEF said
    <3>5. Counted(cmd, inbox, Append(said, "more"), remote')
      <4>1. remote'.said \in Nat
        BY <1>4 DEF Remotes
      <4>2. remote'.said = remote'.said + Weight("more") /\ "more" \in Heard \union {"more"}
        BY <4>1, <2>2
      <4> QED BY <1>1, <1>4, <2>1, <4>2, <3>3, CountedSent
    <3>6. Marked(cmd, inbox, Append(said, "more"), remote')
      BY <1>1, <1>2, <1>4, <2>1, <3>4, MarkedSent
    <3> QED BY <2>1, <3>5, <3>6
  <2>4. wire' \in Seq(Heard \union {"more"})
    BY <2>1
  <2>5. Exact'
    BY <1>2, <2>3 DEF Exact, Listening
  <2>6. Shapes'
    BY <1>2, <1>4, <1>5, <2>4 DEF Shapes
  <2> QED BY <1>2, <2>5, <2>6, NotAnswered
<1> QED BY <1>6, <1>7

LEMMA DeliverKeeps ==
    ASSUME Shapes, Exact, AnswerIsWhole, Deliver PROVE Shapes' /\ Exact' /\ AnswerIsWhole'
<1>1. /\ wire \in Seq(Heard \union {"more"}) /\ inbox \in Seq(Heard) /\ wire # << >>
      /\ remote \in Remotes /\ UNCHANGED <<link, window, cmd, remote>>
      /\ wire' = Tail(wire) /\ Len(inbox) <= Buffer /\ Len(inbox) \in Nat /\ Buffer \in Nat
      /\ Head(wire) \in Heard \union {"more"} /\ wire' \in Seq(Heard \union {"more"})
  BY SshServicesAssumption DEF Shapes, Deliver
<1>2. AnswerIsWhole'
  BY <1>1 DEF AnswerIsWhole
<1>3. CASE (Head(wire) = "more" \/ Done) /\ inbox' = inbox
  <2>1. Shapes'
    BY <1>1, <1>3 DEF Shapes
  <2>2. ASSUME Listening
        PROVE  Counted(cmd, inbox, Tail(wire), remote) /\ Marked(cmd, inbox, Tail(wire), remote)
    <3>1. Head(wire) = "more"
      BY <1>3, <2>2 DEF Done, Listening
    <3> QED BY <1>1, <2>2, <3>1, CountedMoved, MarkedMoved DEF Exact
  <2>3. Exact'
    BY <1>1, <1>3, <2>2 DEF Exact, Listening
  <2> QED BY <1>2, <2>1, <2>3
<1>4. CASE Head(wire) # "more" /\ ~Done /\ inbox' = Append(inbox, Head(wire))
  <2>1. Head(wire) \in Heard /\ Len(inbox) # Buffer
    BY <1>1, <1>4 DEF Deliver, Alive, Stuck, Done
  <2>2. inbox' \in Seq(Heard) /\ Len(inbox') <= Buffer
    BY <1>1, <1>4, <2>1
  <2>3. Shapes'
    BY <1>1, <2>2 DEF Shapes
  <2>4. ASSUME Listening
        PROVE  /\ Counted(cmd, Append(inbox, Head(wire)), Tail(wire), remote)
               /\ Marked(cmd, Append(inbox, Head(wire)), Tail(wire), remote)
    BY <1>1, <2>1, <2>4, CountedMoved, MarkedMoved DEF Exact
  <2>5. Exact'
    BY <1>1, <1>4, <2>4 DEF Exact, Listening
  <2> QED BY <1>2, <2>3, <2>5
<1> QED BY <1>3, <1>4 DEF Deliver

\* Nothing is heard once the link is lost.
LEMMA LinkDownKeeps == ASSUME Shapes, LinkDown PROVE Shapes' /\ Exact' /\ AnswerIsWhole'
<1>1. /\ link' = "down" /\ wire' = << >> /\ remote' = Unheard /\ window' = 1
      /\ inbox' = inbox /\ cmd' = cmd
  BY DEF LinkDown
<1>2. Unheard \in Remotes /\ Unheard.taken = 0
  BY DEF Unheard, Remotes
<1>3. cmd.input \in Nat
  BY SshServicesAssumption DEF Shapes, Commands
<1>4. Shapes'
  BY <1>1, <1>2, <1>3 DEF Shapes
<1> QED BY <1>1, <1>4 DEF Exact, Listening, AnswerIsWhole

LEMMA WorkerEndsKeeps == ASSUME Shapes, WorkerEnds PROVE Shapes' /\ Exact' /\ AnswerIsWhole'
<1>1. /\ link' = "gone" /\ wire' = << >> /\ remote' = Unheard /\ window' = 1
      /\ inbox' = << >>
  BY DEF WorkerEnds
<1>2. Unheard \in Remotes /\ Unheard.taken = 0 /\ << >> \in Seq(Heard) /\ Len(<< >>) = 0
  BY DEF Unheard, Remotes
<1>3. /\ cmd' \in Commands /\ cmd'.input = cmd.input /\ cmd'.input \in Nat
      /\ cmd'.answer = "output" => cmd'.at = "done"
  <2>1. cmd \in Commands /\ cmd.input \in Nat /\ (cmd.answer = "output" => cmd.at = "done")
    BY SshServicesAssumption DEF Shapes, Commands
  <2>2. CASE cmd' = cmd
    BY <2>1, <2>2
  <2>3. CASE cmd' = [cmd EXCEPT !.at = "done", !.answer = "disconnected"]
    BY <2>1, <2>3 DEF Commands
  <2> QED BY <2>2, <2>3, Zenon DEF WorkerEnds
<1>4. Shapes'
  BY <1>1, <1>2, <1>3, SshServicesAssumption DEF Shapes
<1> QED BY <1>1, <1>4 DEF Exact, Listening, AnswerIsWhole

\* The requests of SFTP leave the command alone.
LEMMA OthersKeepCommand ==
    ASSUME Shapes, Exact, AnswerIsWhole, UNCHANGED <<link, exec>>
    PROVE  Shapes' /\ Exact' /\ AnswerIsWhole'
<1>1. UNCHANGED <<link, wire, inbox, window, cmd, remote>>
  BY DEF exec
<1>2. Shapes'
  BY <1>1 DEF Shapes
<1>3. Exact'
  BY <1>1 DEF Exact, Listening
<1>4. AnswerIsWhole'
  BY <1>1 DEF AnswerIsWhole
<1> QED BY <1>2, <1>3, <1>4

LEMMA CommandKept ==
    ASSUME Shapes, Exact, AnswerIsWhole, [Next]_vars PROVE Shapes' /\ Exact' /\ AnswerIsWhole'
<1>1. CASE (\E c \in Clients : Ask(c) \/ ServeSftp(c)) \/ UNCHANGED vars
  <2>1. UNCHANGED <<link, exec>>
    BY <1>1 DEF Ask, ServeSftp, Session, Open, Work, Forget, vars
  <2> QED BY <2>1, OthersKeepCommand
<1>2. CASE Run \/ Execute
  BY <1>2, RunKeeps, RunFailsKeeps, AwaitReplyKeeps, FeedKeeps, CollectKeeps DEF Execute
<1>3. CASE Serving \/ Deliver
  BY <1>3, ServerAnswersKeeps, CommandReadsKeeps, CommandEndsKeeps, DeliverKeeps DEF Serving
<1>4. CASE LinkDown \/ WorkerEnds
  BY <1>4, LinkDownKeeps, WorkerEndsKeeps
<1> QED BY <1>1, <1>2, <1>3, <1>4 DEF Next

LEMMA InitCommand == Init => Shapes /\ Exact /\ AnswerIsWhole
<1> SUFFICES ASSUME Init PROVE Shapes /\ Exact /\ AnswerIsWhole
  OBVIOUS
<1>1. /\ link = "up" /\ wire = << >> /\ inbox = << >> /\ window = 1 /\ remote = Unheard
      /\ cmd.at = "idle" /\ cmd.kept = 0 /\ cmd.answer = "none" /\ ~cmd.ended /\ ~cmd.status
  BY DEF Init
<1>2. cmd \in Commands /\ cmd.input \in Nat
  <2>1. ASSUME NEW T, NEW F, T \subseteq BOOLEAN, F \subseteq BOOLEAN,
               cmd \in [at : {"idle"}, input : 0 .. MaxInput, feeding : T, kept : {0},
                        status : F, ended : F, answer : {"none"}]
        PROVE  cmd \in Commands
    BY <2>1, SshServicesAssumption DEF Commands
  <2>2. cmd \in Commands
    BY <2>1, Zenon DEF Init
  <2> QED BY <2>2, SshServicesAssumption DEF Commands
<1>3. Unheard \in Remotes /\ Unheard.taken = 0 /\ Unheard.said = 0 /\ Unheard.sent = {}
  BY DEF Unheard, Remotes
<1>4. << >> \in Seq(Heard) /\ << >> \in Seq(Heard \union {"more"}) /\ Len(<< >>) = 0
  OBVIOUS
<1>5. Shapes
  BY <1>1, <1>2, <1>3, <1>4, SshServicesAssumption DEF Shapes
<1>6. Runs(<< >>, 0, 0, 0) /\ Upto(0) = 0
  BY RunsNothing, SshServicesAssumption DEF Upto
<1>7. Counted(cmd, inbox, wire, remote)
  BY <1>1, <1>3, <1>6 DEF Counted
<1>8. Marked(cmd, inbox, wire, remote)
  BY <1>1, <1>3, InNothing DEF Marked
<1> QED BY <1>1, <1>5, <1>7, <1>8 DEF Exact, AnswerIsWhole
-----------------------------------------------------------------------------
(* Theorems.                                                               *)

\* The services' inductive invariant holds for every set of requests, any input and
\* every size of the buffers.
THEOREM ServicesInvariant == Spec => []ServicesInv
<1>1. Init => ServicesInv
  BY InitChannels, InitCommand DEF ServicesInv
<1>2. ServicesInv /\ [Next]_vars => ServicesInv'
  BY ChannelsKept, CommandKept DEF ServicesInv
<1> QED BY <1>1, <1>2, PTL DEF Spec

LEMMA ServicesInvIsSound == ServicesInv => ServicesSound
<1> SUFFICES ASSUME ServicesInv PROVE ServicesSound
  OBVIOUS
<1>1. Channels /\ Shapes
  BY DEF ServicesInv
<1>2. holder \subseteq Clients /\ Cardinality(holder) <= 1
  <2>1. CASE holder = {}
    BY <2>1, FS_EmptySet
  <2>2. ASSUME NEW c \in Clients, holder = {c}
        PROVE  holder \subseteq Clients /\ Cardinality(holder) <= 1
    BY <2>2, FS_Singleton
  <2> QED BY <1>1, <2>1, <2>2 DEF Channels
<1>3. remote.taken \in 0 .. cmd.input
  BY <1>1, SshServicesAssumption DEF Shapes, Remotes, Commands
<1>4. cmd.kept \in 0 .. Limit
  BY <1>1 DEF Shapes, Commands
<1>5. TypeOK
  BY <1>1, <1>2, <1>3, <1>4 DEF TypeOK, Channels, Shapes
<1>6. OneChannel
  BY <1>1 DEF OneChannel, Channels, Accounted
<1> QED BY <1>5, <1>6 DEF ServicesSound

\* Every channel but the cached one was given up for cause and no failed one comes
\* back, whatever requests open, fail and forget together (session, invalidate).
THEOREM ServicesAreSound == Spec => []ServicesSound
<1>1. ServicesInv => ServicesSound
  BY ServicesInvIsSound
<1> QED BY <1>1, ServicesInvariant, PTL

\* A command that ran to its end is reported whole, for every length of its input and
\* output and every limit (collect, append).
THEOREM AnswersAreWhole == Spec => []AnswerIsWhole
<1>1. ServicesInv => AnswerIsWhole
  BY DEF ServicesInv
<1> QED BY <1>1, ServicesInvariant, PTL
=============================================================================
