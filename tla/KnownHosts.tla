----------------------------- MODULE KnownHosts -----------------------------
(***************************************************************************)
(* The trust database of crates/rulogman-core/src/known_hosts.rs: a list   *)
(* of records in file order, what a presented key means against it, and    *)
(* its two changes.  A host stands for a host name and a port; names that  *)
(* differ only in case have one Folded host.                               *)
(***************************************************************************)
EXTENDS Naturals, Sequences

CONSTANTS
    Hosts,  \* host names, with their ports, as they may be spelled
    Folded, \* the host a spelling names
    Keys    \* host keys: [algorithm, fingerprint]

ASSUME KnownHostsAssumption ==
    /\ Folded \in [Hosts -> Hosts]
    /\ Hosts # {} /\ Keys # {}

Record == [host : Hosts, key : Keys]
Entry(h, k) == [host |-> h, key |-> k]

MatchesHost(e, h) == Folded[e.host] = Folded[h]
MatchesKey(e, h, k) == MatchesHost(e, h) /\ e.key.algorithm = k.algorithm

\* Iterator::find
Found(S) == CHOOSE i \in S : \A j \in S : i <= j

SameAlgorithm(entries, h, k) ==
    {i \in DOMAIN entries : MatchesKey(entries[i], h, k)}
SameHost(entries, h) == {i \in DOMAIN entries : MatchesHost(entries[i], h)}

\* mutant: only a record of the same algorithm can collide
StatusOfAlgorithm(entries, h, k) ==
    IF SameAlgorithm(entries, h, k) = {} THEN "unknown"
    ELSE IF entries[Found(SameAlgorithm(entries, h, k))].key = k
    THEN "trusted" ELSE "mismatch"

\* A record of the presented algorithm decides; without one, any record of the
\* host is a mismatch.
Status(entries, h, k) ==
    LET exact == SameAlgorithm(entries, h, k)
    IN  IF SameHost(entries, h) = {} THEN "unknown"
        ELSE IF exact # {} /\ entries[Found(exact)].key = k THEN "trusted"
        ELSE "mismatch"

Trust(entries, h, k) ==
    LET exact == SameAlgorithm(entries, h, k)
    IN  IF exact = {} THEN Append(entries, Entry(h, k))
        ELSE [entries EXCEPT ![Found(exact)] = Entry(h, k)]

\* Vec::retain
Forget(entries, h) ==
    LET retained[i \in 0 .. Len(entries)] ==
            IF i = 0 THEN << >>
            ELSE IF MatchesHost(entries[i], h) THEN retained[i - 1]
            ELSE Append(retained[i - 1], entries[i])
    IN  retained[Len(entries)]

Records(entries) == {entries[i] : i \in DOMAIN entries}
=============================================================================
