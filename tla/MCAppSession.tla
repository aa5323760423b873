---------------------------- MODULE MCAppSession ----------------------------
(* AppSession with one rule and two starts, for a session of every kind over *)
(* every kind of route; and two windows being closed with two remote shells. *)
(* A behaviour is one of either.                                             *)
EXTENDS AppSession, CloseGuard, TLC

VARIABLE part

SessionInit ==
    /\ part \in {"session", "close"}
    /\ Init /\ (part # "session" => /\ kind = "shell" /\ route = "direct"
                                   /\ size = "wide" /\ ~suppressed)
    /\ GuardInit /\ (part # "close" => /\ \A s, t \in Shells: home[s] = home[t]
                                       /\ confirm /\ edited = {})
SessionNext ==
    /\ UNCHANGED part
    /\ \/ part = "session" /\ Next /\ UNCHANGED guardVars
       \/ part = "close" /\ GuardNext /\ UNCHANGED vars
SessionSpec == SessionInit /\ [][SessionNext]_<<part, vars, guardVars>>

Symmetric == Permutations(Windows) \union Permutations(Shells)
=============================================================================
