------------------------------ MODULE Tunnels ------------------------------
(***************************************************************************)
(* The port forwardings of several sessions of one profile: what a worker  *)
(* binds and accepts (crates/rulogman-ssh/src/tunnel.rs, socks.rs and the  *)
(* end of run in session.rs), what the tab shows of it (OpenTunnels in     *)
(* crates/rulogman-app/src/session.rs) and who asks for the ports at all   *)
(* (workspace/sessions.rs).                                                *)
(*                                                                         *)
(* Every rule has a local port of its own; a port is bound once on the     *)
(* machine.  Connections are carried by the transport once their channel   *)
(* is open, which changes nothing here any more.                           *)
(***************************************************************************)
EXTENDS Naturals, Sequences

CONSTANTS
    Tabs,           \* sessions opened from the profile, in any window
    Rules,          \* number of its TunnelRules
    Dynamic,        \* those that are SOCKS proxies
    Label,          \* the name of each in events
    MaxWorkers,     \* bound: transports started
    MaxErrors,      \* MAX_CONSECUTIVE_ACCEPT_ERRORS
    MaxConnections  \* bound: connections accepted

VARIABLES
    workers,   \* the transports, oldest first: session, asks, at, rule and events
    current,   \* the transport of each session, 0 for none
    labels,    \* OpenTunnels.labels of each session
    listeners, \* the sockets listening: worker, rule and accept_errors
    refused,   \* refusal_reported: worker and rule
    conns,     \* connections with a task: number, worker, rule and what it does
    clients    \* connections accepted

tunnelVars == <<workers, current, labels, listeners, refused, conns, clients>>

All == 1..Rules
Opened(r) == [kind |-> "opened", label |-> Label[r]]
Failed(name) == [kind |-> "failed", label |-> name]
Final == [kind |-> "final", label |-> "none"]
Connection == "connection" \* the name of one: its rule's, and its number

\* A label names one rule, which its local port tells apart: no connection of a rule,
\* and not what the final event carries.
ASSUME TunnelsAssumption ==
    /\ Rules \in Nat \ {0}
    /\ \A r, k \in All: Label[r] = Label[k] => r = k
    /\ \A r \in All: Label[r] \notin {Connection, Final.label}

TunnelsInit ==
    /\ workers = << >> /\ current = [s \in Tabs |-> 0]
    /\ labels = [s \in Tabs |-> {}]
    /\ listeners = {} /\ refused = {} /\ conns = {} /\ clients = 0

Held(w) == {l.rule: l \in {k \in listeners: k.worker = w}}
Busy == {l.rule: l \in listeners}

\* emit: nothing is taken after the final event, or once nobody listens.
With(i, e) ==
    LET w == workers[i]
    IN IF current[w.session] = i /\ w.at # "told" THEN [w EXCEPT !.events = Append(@, e)] ELSE w
Emit(i, e) == workers' = [workers EXCEPT ![i] = With(i, e)]
-----------------------------------------------------------------------------
(* The sessions.                                                           *)

\* tunnels_held_elsewhere
Free(s) == \A t \in Tabs \ {s}: labels[t] = {}

\* The transport of s is let go of: what it still says is not heard.
Silenced(s) ==
    IF current[s] = 0 THEN workers
    ELSE [workers EXCEPT ![current[s]] = [@ EXCEPT !.events = << >>]]

\* start: of a new tab, a duplicate or a reconnect.
Start(s) ==
    /\ Len(workers) < MaxWorkers
    /\ workers' = Append(Silenced(s), [session |-> s, asks |-> Free(s),
                                       at |-> "connecting", rule |-> 1, events |-> << >>])
    /\ current' = [current EXCEPT ![s] = Len(workers')]
    /\ labels' = [labels EXCEPT ![s] = {}]
    /\ UNCHANGED <<listeners, refused, conns, clients>>

\* disconnect
Disconnect(s) ==
    /\ current[s] # 0
    /\ workers' = Silenced(s)
    /\ current' = [current EXCEPT ![s] = 0]
    /\ labels' = [labels EXCEPT ![s] = {}]
    /\ UNCHANGED <<listeners, refused, conns, clients>>

\* OpenTunnels::observe
Observe(ls, e) ==
    CASE e.kind = "opened" -> ls \union {e.label}
      [] e.kind = "failed" -> ls \ {e.label}
      [] OTHER -> {}

\* The pump hands the session the next event.
Handle(s) ==
    /\ current[s] # 0
    /\ LET queued == workers[current[s]].events
       IN /\ queued # << >>
          /\ workers' = [workers EXCEPT ![current[s]].events = Tail(@)]
          /\ labels' = [labels EXCEPT ![s] = Observe(@, Head(queued))]
          /\ current' = [current EXCEPT ![s] = IF Head(queued) = Final THEN 0 ELSE @]
    /\ UNCHANGED <<listeners, refused, conns, clients>>
-----------------------------------------------------------------------------
(* The transports.                                                         *)

\* run, once the shell is there: the rules are bound one after another.
Ready(i) ==
    /\ workers[i].at = "connecting"
    /\ workers' = [workers EXCEPT ![i].at = IF workers[i].asks THEN "opening" ELSE "running"]
    /\ UNCHANGED <<current, labels, listeners, refused, conns, clients>>

\* open, for the next rule.
Bind(i) ==
    /\ workers[i].at = "opening"
    /\ LET r == workers[i].rule
           on(w) == [w EXCEPT !.rule = IF r = Rules THEN 0 ELSE r + 1,
                              !.at = IF r = Rules THEN "running" ELSE @]
       IN \/ /\ r \notin Busy
             /\ listeners' = listeners \union {[worker |-> i, rule |-> r, errors |-> 0]}
             /\ workers' = [workers EXCEPT ![i] = on(With(i, Opened(r)))]
          \/ /\ workers' = [workers EXCEPT ![i] = on(With(i, Failed(Label[r])))] \* another program too
             /\ UNCHANGED listeners
    /\ UNCHANGED <<current, labels, refused, conns, clients>>

\* The end of run: told to disconnect or cut off, it publishes the final event.
End(i) ==
    /\ workers[i].at \in {"connecting", "running"}
    /\ workers' = [workers EXCEPT ![i] = [With(i, Final) EXCEPT !.at = "told"]]
    /\ UNCHANGED <<current, labels, listeners, refused, conns, clients>>

\* worker returns: the runtime goes, and the listeners and every task with it.
DropRuntime(i) ==
    /\ workers[i].at = "told"
    /\ workers' = [workers EXCEPT ![i].at = "gone"]
    /\ listeners' = {l \in listeners: l.worker # i}
    /\ refused' = {l \in refused: l.worker # i}
    /\ conns' = {c \in conns: c.worker # i}
    /\ UNCHANGED <<current, labels, clients>>

\* accept_loop: a connection that is accepted ends the run of failures.
Accept(l) ==
    /\ clients < MaxConnections /\ clients' = clients + 1
    /\ listeners' = (listeners \ {l}) \union {[l EXCEPT !.errors = 0]}
    /\ conns' = conns \union
           {[number |-> clients', worker |-> l.worker, rule |-> l.rule,
             at |-> IF l.rule \in Dynamic THEN "greeting" ELSE "opening"]}
    /\ UNCHANGED <<workers, current, labels, refused>>

Silently(i, e) == UNCHANGED workers \* mutant: the port closes without a word
GiveUp(i, e) == Emit(i, e)

AcceptFails(l) ==
    /\ IF l.errors + 1 >= MaxErrors
       THEN /\ listeners' = listeners \ {l}
            /\ GiveUp(l.worker, Failed(Label[l.rule]))
       ELSE /\ listeners' = (listeners \ {l}) \union {[l EXCEPT !.errors = @ + 1]}
            /\ UNCHANGED workers
    /\ UNCHANGED <<current, labels, refused, conns, clients>>

ConnOver(c) == conns' = conns \ {c}

\* socks::accept: a request, or a client that speaks something else, goes away or
\* says nothing in time.
Greeting(c) ==
    /\ c.at = "greeting"
    /\ ConnOver(c) \/ conns' = (conns \ {c}) \union {[c EXCEPT !.at = "opening"]}
    /\ UNCHANGED <<workers, current, labels, listeners, refused, clients>>

\* forward and socks_forward, from the channel's opening to the last byte.
Forwarded(c) ==
    /\ c.at = "opening"
    /\ ConnOver(c)
    /\ UNCHANGED <<workers, current, labels, listeners, refused, clients>>

\* A refused channel is told of for a local rule; for a SOCKS one only when it is
\* the server's policy, and once.
Refused(c) ==
    /\ c.at = "opening"
    /\ ConnOver(c)
    /\ LET key == [worker |-> c.worker, rule |-> c.rule]
       IN /\ key \notin refused
          /\ Emit(c.worker, Failed(Connection))
          /\ refused' = IF c.rule \in Dynamic THEN refused \union {key} ELSE refused
    /\ UNCHANGED <<current, labels, listeners, clients>>

\* Every transport the bound allows is gone and heard of: nothing is left to happen.
AllOver ==
    /\ Len(workers) = MaxWorkers /\ \A i \in 1..MaxWorkers: workers[i].at = "gone"
    /\ \A s \in Tabs: current[s] = 0

\* block_on drives the tasks: with run returned, none of them moves any more.
Runs(i) == workers[i].at # "told"
Transport(i) == Ready(i) \/ Bind(i) \/ End(i) \/ DropRuntime(i)
Carry(c) == Greeting(c) \/ Forwarded(c) \/ Refused(c)
TunnelsNext ==
    \/ \E s \in Tabs: Start(s) \/ Disconnect(s) \/ Handle(s)
    \/ \E i \in 1..Len(workers): Transport(i)
    \/ \E l \in listeners: Runs(l.worker) /\ (Accept(l) \/ AcceptFails(l))
    \/ \E c \in conns: Runs(c.worker) /\ Carry(c)

TunnelsSpec == TunnelsInit /\ [][TunnelsNext]_tunnelVars
-----------------------------------------------------------------------------
(* Properties.                                                             *)

\* The marks once the events of a queue are handled: the last event that speaks of a
\* label decides, and the final one speaks of all.
SpeaksOf(e, x) == e = Final \/ e.label = x
Marks(ls, queued) ==
    {x \in ls \union {queued[i].label: i \in DOMAIN queued}:
        \/ x \in ls /\ \A i \in DOMAIN queued: ~SpeaksOf(queued[i], x)
        \/ \E i \in DOMAIN queued:
              /\ queued[i].kind = "opened" /\ queued[i].label = x
              /\ \A j \in DOMAIN queued: j > i => ~SpeaksOf(queued[j], x)}

\* What the events on their way will have made of the marks is what the transport
\* listens on: a rule is marked from its bind to the end of its listener, whatever
\* failures of single connections come between, and none once the transport said
\* its last (observe, accept_loop, socks_forward).
MarksFollowListeners ==
    \A s \in Tabs: current[s] # 0 =>
        LET w == workers[current[s]]
        IN Marks(labels[s], w.events) =
               IF w.at = "told" THEN {} ELSE {Label[r]: r \in Held(current[s])}

\* "By the time either of these arrives, the local ports are already closed":
\* said of the final events.
EndsClosePorts ==
    [][\A s \in Tabs: current[s] # 0 /\ Handle(s) /\ current'[s] = 0 =>
           Held(current[s]) = {}]_tunnelVars

\* "A second tab opened from the same profile does not ask for them at all while the
\* first is holding them".
SecondTabAsksNot ==
    [][\A s \in Tabs: Start(s) /\ workers'[Len(workers')].asks =>
           \A l \in listeners: workers[l.worker].session = s]_tunnelVars
=============================================================================
