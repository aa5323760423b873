----------------------------- MODULE MCSshChain -----------------------------
(* A route of two jump hosts and a target; beside it the forwardings two     *)
(* tabs of one profile ask for; the known_hosts file under two threads, with *)
(* two hosts, one of them spelled in two ways, and three keys of two         *)
(* algorithms; and what the file panel of two sessions points at while their *)
(* answers are under way.  A behaviour is one of one of the four.            *)
EXTENDS SshChain, TofuVerifier, PanelMenus, Tunnels

VARIABLE part

AllMethods == {"password", "key", "agent"}
RuleLabel == <<"8080:web:80", "1080 (SOCKS)">>

allVars == <<vars, tunnelVars, verifierVars, menuVars, part>>

MCHosts == {"one", "ONE", "two"}
MCFolded == [h \in MCHosts |-> IF h = "ONE" THEN "one" ELSE h]
Key(a, f) == [algorithm |-> a, fingerprint |-> f]
MCKeys == {Key("ed25519", "A"), Key("ed25519", "B"), Key("rsa", "C")}
\* A fresh file, one with a record, and one written by hand with two records
\* of one algorithm and one of another for the same host.
MCFiles == {<< >>,
            <<Entry("two", Key("rsa", "C"))>>,
            <<Entry("one", Key("ed25519", "A")), Entry("ONE", Key("ed25519", "B")),
              Entry("one", Key("rsa", "C"))>>}
OneProcess == [t \in {"t1", "t2"} |-> "p1"]

RouteInit ==
    /\ part \in {"chain", "tunnels", "trust", "menus"}
    /\ Init /\ (part # "chain" => method = [l \in Route |-> "password"])
    /\ TunnelsInit
    /\ VerifierInit /\ (part # "trust" => located /\ file = << >> /\ cache = [p \in Processes |-> file])
    /\ MenusInit /\ (part # "menus" => /\ panelOf = CHOOSE t \in Sessions : TRUE
                                       /\ browsing[panelOf].path = CHOOSE d \in Folders : TRUE)
RouteNext ==
    /\ UNCHANGED part
    /\ \/ part = "chain" /\ Next /\ UNCHANGED <<tunnelVars, verifierVars, menuVars>>
       \/ part = "tunnels" /\ TunnelsNext /\ UNCHANGED <<vars, verifierVars, menuVars>>
       \/ part = "tunnels" /\ AllOver /\ UNCHANGED allVars
       \/ part = "trust" /\ VerifierNext /\ UNCHANGED <<vars, tunnelVars, menuVars>>
       \/ part = "menus" /\ MenusNext /\ UNCHANGED <<vars, tunnelVars, verifierVars>>
RouteSpec == RouteInit /\ [][RouteNext]_allVars
=============================================================================
