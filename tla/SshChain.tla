------------------------------ MODULE SshChain ------------------------------
(***************************************************************************)
(* The way to an SSH target over jump hosts: connect_chain, handshake,     *)
(* authenticate and ClientHandler::check_server_key of                     *)
(* crates/rulogman-ssh/src/session.rs, and the teardown in run.            *)
(*                                                                         *)
(* Leg Legs is the target.  Leg l > 1 is dialed through leg l - 1, whose   *)
(* transport carries it: when one breaks, everything beyond it breaks.     *)
(***************************************************************************)
EXTENDS Naturals, Sequences

CONSTANTS
    Legs,   \* number of legs: the jump hosts and the target
    Methods \* how a leg may authenticate, of "password", "key" and "agent"

ASSUME ChainAssumption ==
    /\ Legs \in Nat \ {0}
    /\ Methods \subseteq {"password", "key", "agent"}

Route == 1 .. Legs
None == "none"

VARIABLES
    pc,       \* what connect_chain is doing, or what became of it
    leg,      \* the leg it is doing it for
    method,   \* SshAuth of each leg
    verdict,  \* what the verifier said of each leg's key (key_state)
    hostKeys, \* HostKey events: the legs, in the order they were published
    held,     \* legs whose Handle this client holds
    broken,   \* legs whose transport is gone
    dialed,   \* history: legs a connection was opened to
    secrets,  \* history: legs the credentials were offered to
    timedOut, \* history: the target did not answer the goodbye
    failure   \* Failure: kind, and the leg it names

vars == <<pc, leg, method, verdict, hostKeys, held, broken, dialed, secrets,
          timedOut, failure>>
history == <<dialed, secrets, timedOut>>

Connecting == pc \in {"load", "dial", "handshake", "checked", "auth"}
Over == pc \in {"failed", "cancelled", "closed"}
NoFailure == [kind |-> None, leg |-> 0]

Init ==
    /\ pc = "load" /\ leg = 1
    /\ method \in [Route -> Methods]
    /\ verdict = [l \in Route |-> None] /\ hostKeys = << >>
    /\ held = {} /\ broken = {}
    /\ dialed = {} /\ secrets = {} /\ timedOut = FALSE
    /\ failure = NoFailure

\* Returning a Failure drops the half-built chain.
Fail(kind, l) ==
    /\ pc' = "failed"
    /\ failure' = [kind |-> kind, leg |-> l]
    /\ held' = {}
-----------------------------------------------------------------------------
\* load_credentials for every leg: only key files can fail, the agent is not
\* asked yet.
LoadCredentials ==
    /\ pc = "load"
    /\ \/ pc' = "dial" /\ UNCHANGED <<failure, held>>
       \/ \E l \in Route : method[l] = "key" /\ Fail("KeyLoad", l)
    /\ UNCHANGED <<leg, method, verdict, hostKeys, broken, history>>

\* tcp_connect for the first leg, hop_stream for the others.
Dial ==
    /\ pc = "dial"
    /\ \/ /\ leg - 1 \notin broken
          /\ pc' = "handshake"
          /\ dialed' = dialed \cup {leg}
          /\ UNCHANGED <<failure, held>>
       \/ Fail("Connect", leg) /\ UNCHANGED dialed
    /\ UNCHANGED <<leg, method, verdict, hostKeys, broken, secrets, timedOut>>

\* ClientHandler::check_server_key: the verifier rules, under this leg's name.
CheckServerKey ==
    /\ pc = "handshake"
    /\ leg \notin broken
    /\ pc' = "checked"
    /\ \E ruling \in {"accepted", "rejected"} :
          verdict' = [verdict EXCEPT ![leg] = ruling]
    /\ hostKeys' = Append(hostKeys, leg)
    /\ UNCHANGED <<leg, method, held, broken, history, failure>>

\* mutant: a rejected key does not end the handshake
HandshakeUnchecked ==
    /\ pc = "checked"
    /\ leg \notin broken
    /\ pc' = "auth"
    /\ held' = held \cup {leg}
    /\ UNCHANGED <<leg, method, verdict, hostKeys, broken, history, failure>>

\* connect_stream returns: the key was accepted and the handshake is through.
HandshakeSucceeds ==
    /\ pc = "checked"
    /\ leg \notin broken
    /\ verdict[leg] = "accepted"
    /\ pc' = "auth"
    /\ held' = held \cup {leg}
    /\ UNCHANGED <<leg, method, verdict, hostKeys, broken, history, failure>>

\* mutant: a handshake that never saw the key counts as a rejection
RejectedUnlessAccepted ==
    IF verdict[leg] # "accepted" THEN "HostKeyRejected" ELSE "Connect"
HandshakeFailure == IF verdict[leg] = "rejected" THEN "HostKeyRejected"
                    ELSE "Connect"

\* A handshake may fail before or after the key was seen.
HandshakeFails ==
    /\ pc \in {"handshake", "checked"}
    /\ Fail(HandshakeFailure, leg)
    /\ UNCHANGED <<leg, method, verdict, hostKeys, broken, history>>

\* authenticate: the one method of this leg.  The agent is asked here, and may
\* be missing, or hold no key that fits; then the server heard nothing.
AgentHasNoKey ==
    /\ pc = "auth"
    /\ method[leg] = "agent"
    /\ Fail("KeyLoad", leg)
    /\ UNCHANGED <<leg, method, verdict, hostKeys, broken, history>>

IsTargetLate == leg > Legs \* mutant
IsTarget == leg = Legs

Authenticated ==
    /\ pc = "auth"
    /\ leg \notin broken
    /\ secrets' = secrets \cup {leg}
    /\ IF IsTarget THEN pc' = "session" /\ leg' = leg
                     ELSE pc' = "dial" /\ leg' = leg + 1
    /\ UNCHANGED <<method, verdict, hostKeys, held, broken, dialed, timedOut, failure>>

AuthRejected ==
    /\ pc = "auth"
    /\ leg \notin broken
    /\ secrets' = secrets \cup {leg}
    /\ Fail("Auth", leg)
    /\ UNCHANGED <<leg, method, verdict, hostKeys, broken, dialed, timedOut>>

AuthBreaks ==
    /\ pc = "auth"
    /\ leg \in broken
    /\ secrets' \in {secrets, secrets \cup {leg}}
    /\ Fail("Io", leg)
    /\ UNCHANGED <<leg, method, verdict, hostKeys, broken, dialed, timedOut>>

\* The drain saw a disconnect: the setup future is dropped.
Cancel ==
    /\ Connecting
    /\ pc' = "cancelled"
    /\ held' = {}
    /\ UNCHANGED <<leg, method, verdict, hostKeys, broken, history, failure>>
-----------------------------------------------------------------------------
\* mutant: nothing orders the jump hosts after the target
DropJumpsEarly ==
    /\ pc = "session"
    /\ pc' = "jumps"
    /\ held' = held \cap {Legs}
    /\ UNCHANGED <<leg, method, verdict, hostKeys, broken, history, failure>>

\* run, after main_loop: shutdown says goodbye to the target, and waits for it
\* at most SHUTDOWN_GRACE; then, explicitly last, the jump hosts go.
Shutdown ==
    /\ pc = "session"
    /\ pc' = "jumps"
    /\ \/ held' = held \ {Legs} /\ UNCHANGED timedOut
       \/ UNCHANGED held /\ timedOut' = TRUE
    /\ UNCHANGED <<leg, method, verdict, hostKeys, broken, dialed, secrets, failure>>

DropJumps ==
    /\ pc = "jumps"
    /\ held \cap (1 .. Legs - 1) # {}
    /\ held' = held \cap {Legs}
    /\ UNCHANGED <<pc, leg, method, verdict, hostKeys, broken, history, failure>>

\* The worker's runtime goes, and with it the last reference to the target.
Return ==
    /\ pc = "jumps"
    /\ held \subseteq {Legs}
    /\ pc' = "closed"
    /\ held' = {}
    /\ UNCHANGED <<leg, method, verdict, hostKeys, broken, history, failure>>

\* A transport breaks, and everything it carries (external).
Break ==
    /\ ~Over
    /\ \E l \in dialed \ broken :
          broken' = broken \cup {k \in Route : k >= l /\ k \in dialed}
    /\ UNCHANGED <<pc, leg, method, verdict, hostKeys, held, history, failure>>

Done == Over /\ UNCHANGED vars

Next ==
    \/ LoadCredentials \/ Dial \/ CheckServerKey
    \/ HandshakeSucceeds \/ HandshakeFails
    \/ AgentHasNoKey \/ Authenticated \/ AuthRejected \/ AuthBreaks
    \/ Cancel \/ Shutdown \/ DropJumps \/ Return \/ Break \/ Done

Spec == Init /\ [][Next]_vars
-----------------------------------------------------------------------------
TypeOK ==
    /\ pc \in {"load", "dial", "handshake", "checked", "auth", "session",
               "jumps", "failed", "cancelled", "closed"}
    /\ leg \in Route
    /\ method \in [Route -> Methods]
    /\ verdict \in [Route -> {None, "accepted", "rejected"}]
    /\ hostKeys \in Seq(Route)
    /\ held \subseteq dialed
    /\ broken \subseteq dialed
    /\ dialed \subseteq Route /\ secrets \subseteq Route
    /\ timedOut \in BOOLEAN

\* Credentials are offered to a leg only once its own key was accepted, and
\* that of every host before it, which the leg is reached through.
SecretsAfterTrust ==
    \A l \in secrets : \A k \in 1 .. l : verdict[k] = "accepted"

\* A failure is a rejected key if and only if the leg it names presented one
\* that the verifier rejected; a key rejected on one leg is never blamed on
\* another, nor an earlier accepted key on a broken handshake.
RejectionNamesItsLeg ==
    pc = "failed" =>
        /\ failure.kind = "HostKeyRejected" <=> verdict[failure.leg] = "rejected"
        /\ \A l \in Route : verdict[l] = "rejected" => failure.leg = l

\* HostKey events come one per leg, in the order of the route, and only the
\* last one may be a rejection.
HostKeysInOrder ==
    /\ \A i \in 1 .. Len(hostKeys) : hostKeys[i] = i
    /\ \A i \in 1 .. Len(hostKeys) - 1 : verdict[i] = "accepted"

\* Nothing cuts the wire out from under a transport in use: while a leg is
\* held, so is every leg that carries it, unless the target never answered the
\* goodbye.
CarriersHeld ==
    ~timedOut => \A l \in held : \A k \in 1 .. l - 1 : k \in held
\* No host hears a secret before the keys of all hosts up to it were accepted, and
\* the view hears of those keys in the order in which they were.
TrustFirst == TypeOK /\ SecretsAfterTrust /\ HostKeysInOrder
=============================================================================
