--------------------------- MODULE SshChainProofs ---------------------------
(***************************************************************************)
(* What holds between an SSH session and the machines it reaches, for any  *)
(* number of jump hosts, methods, rules, tabs, threads, hosts and keys:    *)
(*   - the chain: credentials only after trust, a rejected key blamed on   *)
(*     its leg, host keys in the order of the route, carriers held;        *)
(*   - the known_hosts file: whatever was recorded stays until it is       *)
(*     forgotten, what was forgotten does not come back, and a host keeps  *)
(*     its key.  What Forget computes is proved by an induction over sets: *)
(*     the library's well-founded orders are sets, so no operator is a     *)
(*     parameter;                                                          *)
(*   - the forwardings: the marks on a tab follow the ports held.          *)
(***************************************************************************)
EXTENDS SshChain, TofuVerifier, Tunnels, SequenceTheorems, FiniteSetTheorems,
        WellFoundedInduction, TLAPS

-----------------------------------------------------------------------------
(* The inductive invariant: how far the route has got decides everything.  *)

ChainType ==
    /\ pc \in {"load", "dial", "handshake", "checked", "auth", "session",
               "jumps", "failed", "cancelled", "closed"}
    /\ leg \in Route
    /\ method \in [Route -> Methods]
    /\ verdict \in [Route -> {None, "accepted", "rejected"}]
    /\ hostKeys \in Seq(Route)
    /\ held \subseteq dialed /\ broken \subseteq dialed
    /\ dialed \subseteq Route /\ secrets \subseteq Route
    /\ timedOut \in BOOLEAN

\* Every leg before the current one was accepted, none beyond it was asked.
VerdictsSoFar ==
    /\ \A l \in Route : l < leg => verdict[l] = "accepted"
    /\ \A l \in Route : l > leg => verdict[l] = None
    /\ pc = "load" => leg = 1
    /\ pc \in {"load", "dial", "handshake"} => verdict[leg] = None
    /\ pc = "checked" => verdict[leg] # None
    /\ pc \in {"auth", "session", "jumps", "closed"} => verdict[leg] = "accepted"

SecretsSoFar == \A l \in secrets : l <= leg /\ verdict[l] = "accepted"

\* One HostKey event for each leg with a verdict.
HostKeysSoFar ==
    /\ Len(hostKeys) = IF verdict[leg] = None THEN leg - 1 ELSE leg
    /\ \A i \in 1 .. Len(hostKeys) : hostKeys[i] = i

FailureSoFar ==
    pc = "failed" =>
        /\ failure.leg \in Route
        /\ failure.leg = leg \/ (leg = 1 /\ verdict[1] = None)
        /\ failure.kind = "HostKeyRejected" <=> verdict[failure.leg] = "rejected"

HeldSoFar ==
    /\ pc = "load" => held = {}
    /\ pc \in {"handshake", "checked", "auth"} => leg \in dialed
    /\ pc \in {"dial", "handshake", "checked"} =>
           \A l \in Route : l \in held <=> l < leg
    /\ pc = "auth" => \A l \in Route : l \in held <=> l <= leg
    /\ pc \in {"session", "jumps"} => leg = Legs
    /\ pc = "session" => held = Route
    /\ pc = "jumps" => timedOut \/ held = {} \/ (\A l \in Route : l \in held <=> l < Legs)
    /\ Over => held = {}

ChainInv ==
    /\ ChainType
    /\ VerdictsSoFar
    /\ SecretsSoFar
    /\ HostKeysSoFar
    /\ FailureSoFar
    /\ HeldSoFar

-----------------------------------------------------------------------------
(* Every step keeps it.                                                    *)

LEMMA RouteIsNat == /\ Route \subseteq Nat /\ 1 \in Route /\ Legs \in Route
                    /\ \A l \in Route : 1 <= l /\ l <= Legs
BY ChainAssumption DEF Route

LEMMA LegBounds == ChainType => leg \in Route /\ leg \in Nat /\ 1 <= leg /\ leg <= Legs
BY RouteIsNat DEF ChainType

LEMMA ChainInit == Init => ChainInv
<1> SUFFICES ASSUME Init PROVE ChainInv
  OBVIOUS
<1>1. ChainType
  <2>1. verdict \in [Route -> {None, "accepted", "rejected"}]
    BY DEF Init
  <2>2. hostKeys \in Seq(Route)
    BY DEF Init
  <2> QED BY <2>1, <2>2, RouteIsNat DEF Init, ChainType
<1>2. VerdictsSoFar /\ SecretsSoFar /\ HostKeysSoFar /\ FailureSoFar
  BY RouteIsNat
     DEF Init, VerdictsSoFar, SecretsSoFar, HostKeysSoFar, FailureSoFar, None
<1>3. HeldSoFar
  BY DEF Init, HeldSoFar, Over
<1> QED BY <1>1, <1>2, <1>3 DEF ChainInv

\* A failure drops everything this client held.
LEMMA FailHolds ==
    ASSUME ChainInv, NEW kind, NEW l \in Route, Fail(kind, l),
           UNCHANGED <<leg, method, hostKeys, verdict, broken, dialed, timedOut>>,
           l = leg \/ (leg = 1 /\ verdict[1] = None),
           kind = "HostKeyRejected" <=> verdict[l] = "rejected",
           secrets' = secrets \/ (secrets' = secrets \cup {leg} /\ verdict[leg] = "accepted")
    PROVE  ChainInv'
<1>1. ChainType'
  BY DEF ChainInv, ChainType, Fail
<1>2. VerdictsSoFar'
  BY DEF ChainInv, VerdictsSoFar, Fail
<1>3. SecretsSoFar'
  BY LegBounds DEF ChainInv, SecretsSoFar
<1>4. HostKeysSoFar'
  BY DEF ChainInv, HostKeysSoFar
<1>5. FailureSoFar'
  BY DEF FailureSoFar, Fail
<1>6. HeldSoFar'
  BY DEF HeldSoFar, Fail, Over
<1> QED BY <1>1, <1>2, <1>3, <1>4, <1>5, <1>6 DEF ChainInv

LEMMA ChainStep == ChainInv /\ [Next]_vars => ChainInv'
<1> SUFFICES ASSUME ChainInv, [Next]_vars PROVE ChainInv'
  OBVIOUS
<1> USE RouteIsNat DEF ChainInv
<1>1. CASE LoadCredentials
  <2>1. CASE pc' = "dial" /\ UNCHANGED <<failure, held>>
    BY <1>1, <2>1 DEF LoadCredentials, ChainType, VerdictsSoFar, SecretsSoFar,
       HostKeysSoFar, FailureSoFar, HeldSoFar, Over, history
  <2>2. ASSUME NEW l \in Route, Fail("KeyLoad", l) PROVE ChainInv'
    <3>1. leg = 1 /\ verdict[l] # "rejected" /\ verdict[1] = None
      BY <1>1 DEF LoadCredentials, VerdictsSoFar, ChainType, None
    <3> QED BY <1>1, <2>2, <3>1, FailHolds DEF LoadCredentials, history
  <2> QED BY <1>1, <2>1, <2>2 DEF LoadCredentials
<1>2. CASE Dial
  <2>1. CASE Fail("Connect", leg)
    <3>1. verdict[leg] # "rejected"
      BY <1>2 DEF Dial, VerdictsSoFar, None
    <3>2. UNCHANGED dialed
      BY <1>2, <2>1 DEF Dial, Fail
    <3> QED BY <1>2, <2>1, <3>1, <3>2, FailHolds DEF Dial, ChainType
  <2>2. CASE pc' = "handshake"
    BY <1>2, <2>2 DEF Dial, Fail, ChainType, VerdictsSoFar, SecretsSoFar,
       HostKeysSoFar, FailureSoFar, HeldSoFar, Over
  <2> QED BY <1>2, <2>1, <2>2 DEF Dial
<1>3. CASE CheckServerKey
  <2>1. PICK ruling \in {"accepted", "rejected"} :
            verdict' = [verdict EXCEPT ![leg] = ruling]
    BY <1>3 DEF CheckServerKey
  <2>2. /\ pc = "handshake" /\ pc' = "checked"
        /\ hostKeys' = Append(hostKeys, leg)
        /\ UNCHANGED <<leg, method, held, broken, dialed, secrets, timedOut, failure>>
    BY <1>3 DEF CheckServerKey, history
  <2>3. verdict[leg] = None /\ verdict'[leg] = ruling /\ ruling # None
    BY <2>1, <2>2 DEF ChainType, VerdictsSoFar, None
  <2>4. \A l \in Route : l # leg => verdict'[l] = verdict[l]
    BY <2>1 DEF ChainType
  <2>5. ChainType'
    <3>1. verdict' \in [Route -> {None, "accepted", "rejected"}]
      BY <2>1 DEF ChainType
    <3>2. hostKeys' \in Seq(Route)
      BY <2>2, LegBounds, AppendProperties DEF ChainType
    <3> QED BY <2>2, <3>1, <3>2 DEF ChainType
  <2>6. VerdictsSoFar'
    <3>1. \A l \in Route : l < leg => verdict'[l] = "accepted"
      BY <2>4, LegBounds DEF VerdictsSoFar
    <3>2. \A l \in Route : l > leg => verdict'[l] = None
      BY <2>4, LegBounds DEF VerdictsSoFar
    <3> QED BY <2>2, <2>3, <3>1, <3>2 DEF VerdictsSoFar
  <2>7. SecretsSoFar'
    BY <2>2, <2>3, <2>4 DEF ChainType, SecretsSoFar, None
  <2>8. HostKeysSoFar'
    <3> hostKeys \in Seq(Route)
      BY DEF ChainType
    <3>1. Len(hostKeys) = leg - 1 /\ Len(hostKeys') = leg
      BY <2>2, <2>3, LegBounds, AppendProperties DEF HostKeysSoFar
    <3>2. ASSUME NEW i \in 1 .. Len(hostKeys') PROVE hostKeys'[i] = i
      <4>1. CASE i = leg
        BY <2>2, <3>1, <4>1, LegBounds, AppendProperties
      <4>2. CASE i # leg
        <5>1. i \in 1 .. Len(hostKeys)
          BY <3>1, <3>2, <4>2, LegBounds
        <5> QED BY <2>2, <5>1, LegBounds, AppendProperties DEF HostKeysSoFar
      <4> QED BY <4>1, <4>2
    <3> QED BY <2>2, <2>3, <3>1, <3>2 DEF HostKeysSoFar
  <2>9. FailureSoFar' /\ HeldSoFar'
    BY <2>2 DEF FailureSoFar, HeldSoFar, Over
  <2> QED BY <2>5, <2>6, <2>7, <2>8, <2>9
<1>4. CASE HandshakeSucceeds
  <2>1. /\ pc = "checked" /\ pc' = "auth" /\ verdict[leg] = "accepted"
        /\ held' = held \cup {leg}
        /\ UNCHANGED <<leg, method, verdict, hostKeys, broken, dialed, secrets, timedOut,
                       failure>>
    BY <1>4 DEF HandshakeSucceeds, history
  <2>2. ChainType' /\ VerdictsSoFar' /\ SecretsSoFar' /\ HostKeysSoFar' /\ FailureSoFar'
    BY <2>1 DEF ChainType, VerdictsSoFar, SecretsSoFar, HostKeysSoFar, FailureSoFar,
       HeldSoFar
  <2>3. \A l \in Route : l \in held' <=> l <= leg
    BY <2>1, LegBounds DEF HeldSoFar
  <2>4. HeldSoFar'
    BY <2>1, <2>3 DEF HeldSoFar, Over
  <2> QED BY <2>2, <2>4
<1>5. CASE HandshakeFails
  <2>1. HandshakeFailure = "HostKeyRejected" <=> verdict[leg] = "rejected"
    BY DEF HandshakeFailure
  <2> QED BY <1>5, <2>1, FailHolds DEF HandshakeFails, history, ChainType
<1>6. CASE AgentHasNoKey
  BY <1>6, FailHolds DEF AgentHasNoKey, history, ChainType, VerdictsSoFar
<1>7. CASE Authenticated
  <2>1. /\ pc = "auth" /\ secrets' = secrets \cup {leg}
        /\ UNCHANGED <<method, verdict, hostKeys, held, broken, dialed, timedOut, failure>>
        /\ verdict[leg] = "accepted"
    BY <1>7 DEF Authenticated, VerdictsSoFar
  <2>2. CASE leg = Legs
    <3>1. pc' = "session" /\ leg' = leg
      BY <1>7, <2>2 DEF Authenticated, IsTarget
    <3>2. held = Route
      BY <2>1, <2>2 DEF HeldSoFar, ChainType
    <3> QED BY <2>1, <2>2, <3>1, <3>2 DEF ChainType, VerdictsSoFar, SecretsSoFar,
               HostKeysSoFar, FailureSoFar, HeldSoFar, Over
  <2>3. CASE leg # Legs
    <3>1. pc' = "dial" /\ leg' = leg + 1 /\ leg' \in Route
      BY <1>7, <2>3, ChainAssumption DEF Authenticated, IsTarget, ChainType, Route
    <3>2. verdict'[leg'] = None
      BY <2>1, <3>1 DEF VerdictsSoFar, ChainType
    <3>3. ChainType'
      BY <2>1, <3>1 DEF ChainType
    <3>4. VerdictsSoFar' /\ SecretsSoFar'
      BY <2>1, <3>1, <3>2 DEF ChainType, VerdictsSoFar, SecretsSoFar
    <3>5. HostKeysSoFar'
      BY <2>1, <3>1, <3>2 DEF ChainType, HostKeysSoFar, None
    <3>6. FailureSoFar' /\ HeldSoFar'
      BY <2>1, <3>1 DEF ChainType, FailureSoFar, HeldSoFar, Over
    <3> QED BY <3>3, <3>4, <3>5, <3>6
  <2> QED BY <2>2, <2>3
<1>8. CASE AuthRejected
  BY <1>8, FailHolds DEF AuthRejected, ChainType, VerdictsSoFar
<1>9. CASE AuthBreaks
  BY <1>9, FailHolds DEF AuthBreaks, ChainType, VerdictsSoFar
<1>10. CASE Cancel
  BY <1>10 DEF Cancel, Connecting, ChainType, VerdictsSoFar, SecretsSoFar,
     HostKeysSoFar, FailureSoFar, HeldSoFar, Over, history
<1>11. CASE Shutdown
  <2>1. \A l \in Route : l \in held \ {Legs} <=> l < Legs
    BY <1>11 DEF Shutdown, HeldSoFar
  <2>2. ChainType'
    BY <1>11 DEF Shutdown, ChainType
  <2>3. HeldSoFar'
    BY <1>11, <2>1 DEF Shutdown, HeldSoFar, Over
  <2> QED BY <1>11, <2>2, <2>3 DEF Shutdown, VerdictsSoFar, SecretsSoFar,
             HostKeysSoFar, FailureSoFar
<1>12. CASE DropJumps
  <2>1. timedOut \/ held' = {}
    BY <1>12 DEF DropJumps, HeldSoFar, ChainType
  <2>2. HeldSoFar'
    BY <1>12, <2>1 DEF DropJumps, HeldSoFar, Over, history
  <2> QED BY <1>12, <2>2 DEF DropJumps, ChainType, VerdictsSoFar, SecretsSoFar,
             HostKeysSoFar, FailureSoFar, history
<1>13. CASE Return
  BY <1>13 DEF Return, ChainType, VerdictsSoFar, SecretsSoFar,
     HostKeysSoFar, FailureSoFar, HeldSoFar, Over, history
<1>14. CASE Break
  <2>1. broken' \subseteq dialed
    BY <1>14 DEF Break, ChainType
  <2> QED BY <1>14, <2>1 DEF Break, ChainType, VerdictsSoFar, SecretsSoFar,
             HostKeysSoFar, FailureSoFar, HeldSoFar, Over, history
<1>15. CASE UNCHANGED vars
  BY <1>15 DEF vars, ChainType, VerdictsSoFar, SecretsSoFar,
     HostKeysSoFar, FailureSoFar, HeldSoFar, Over
<1> QED BY <1>1, <1>2, <1>3, <1>4, <1>5, <1>6, <1>7, <1>8, <1>9, <1>10, <1>11,
           <1>12, <1>13, <1>14, <1>15 DEF Next, Done

\* The state of the route follows how far it has got, in every behaviour.
THEOREM ChainInductive == Spec => []ChainInv
BY ChainInit, ChainStep, PTL DEF Spec
-----------------------------------------------------------------------------
(* What follows from it.                                                   *)

\* Every variable of connect_chain keeps its type, and only dialed legs are
\* held or broken.
THEOREM ChainTypeCorrect == Spec => []TypeOK
<1>1. ChainInv => TypeOK
  BY DEF ChainInv, ChainType, TypeOK
<1> QED BY <1>1, ChainInductive, PTL

\* No host hears a password, a key or an agent before its own key and those of
\* all hosts on the way were accepted.
THEOREM TrustBeforeSecrets == Spec => []SecretsAfterTrust
<1>1. ChainInv => SecretsAfterTrust
  <2> SUFFICES ASSUME ChainInv, NEW l \in secrets, NEW k \in 1 .. l
               PROVE  verdict[k] = "accepted"
    BY DEF SecretsAfterTrust
  <2>1. l \in Route /\ leg \in Route /\ l <= leg /\ verdict[l] = "accepted"
    BY DEF ChainInv, ChainType, SecretsSoFar
  <2>2. k \in Route /\ (k = l \/ k < leg)
    BY <2>1, ChainAssumption DEF Route
  <2> QED BY <2>1, <2>2 DEF ChainInv, VerdictsSoFar
<1> QED BY <1>1, ChainInductive, PTL

\* A rejected key and the failure that follows name the same leg.
THEOREM RejectionIsExact == Spec => []RejectionNamesItsLeg
<1>1. ChainInv => RejectionNamesItsLeg
  BY RouteIsNat DEF ChainInv, ChainType, VerdictsSoFar, FailureSoFar,
     RejectionNamesItsLeg, None
<1> QED BY <1>1, ChainInductive, PTL

\* The view hears of the hosts' keys in the order of the route.
THEOREM HostKeysOrdered == Spec => []HostKeysInOrder
<1>1. ChainInv => HostKeysInOrder
  <2> SUFFICES ASSUME ChainInv PROVE HostKeysInOrder
    OBVIOUS
  <2>1. leg \in Route /\ Len(hostKeys) <= leg /\ Len(hostKeys) \in Nat
    BY LegBounds DEF ChainInv, HostKeysSoFar
  <2>2. ASSUME NEW i \in 1 .. Len(hostKeys) - 1 PROVE verdict[i] = "accepted"
    <3>1. i \in Route /\ i < leg
      BY <2>1, ChainAssumption DEF Route
    <3> QED BY <3>1 DEF ChainInv, VerdictsSoFar
  <2> QED BY <2>2 DEF ChainInv, HostKeysSoFar, HostKeysInOrder
<1> QED BY <1>1, ChainInductive, PTL

\* Trust comes before secrets, and is told in its order, on a route of any length.
THEOREM TrustComesFirst == Spec => []TrustFirst
<1>1. TypeOK /\ SecretsAfterTrust /\ HostKeysInOrder => TrustFirst
  BY DEF TrustFirst
<1> QED BY <1>1, ChainTypeCorrect, TrustBeforeSecrets, HostKeysOrdered, PTL

\* While a leg is held, so are those that carry it, but after a timeout.
THEOREM CarriersAreHeld == Spec => []CarriersHeld
<1>1. ChainInv => CarriersHeld
  <2> SUFFICES ASSUME ChainInv, ~timedOut, NEW l \in held, NEW k \in 1 .. l - 1
               PROVE  k \in held
    BY DEF CarriersHeld
  <2>1. l \in Route /\ leg \in Route /\ k \in Route /\ k < l
    <3>1. l \in Route /\ leg \in Route
      BY DEF ChainInv, ChainType
    <3> QED BY <3>1, ChainAssumption DEF Route
  <2>2. pc # "load" /\ ~Over
    BY DEF ChainInv, HeldSoFar
  <2>3. CASE pc \in {"dial", "handshake", "checked", "auth", "session"}
    BY <2>1, <2>3, RouteIsNat DEF ChainInv, HeldSoFar
  <2>4. CASE pc = "jumps"
    BY <2>1, <2>4, RouteIsNat DEF ChainInv, HeldSoFar
  <2> QED BY <2>2, <2>3, <2>4 DEF ChainInv, ChainType, Over
<1> QED BY <1>1, ChainInductive, PTL

-----------------------------------------------------------------------------
(***************************************************************************)
(* The known_hosts file under several threads.                             *)
(***************************************************************************)

-----------------------------------------------------------------------------
(* Numbers.                                                                *)

LEMMA LeastNatural ==
    ASSUME NEW S \in SUBSET Nat, S # {}
    PROVE  \E m \in S : \A k \in S : m <= k
<1> PICK n \in S : TRUE
  OBVIOUS
<1> DEFINE B == {0 .. k : k \in {k \in S : k <= n}}
           I == 0 .. n
<1>1. IsWellFoundedOn(StrictSubsetOrdering(I), SUBSET I)
  <2>1. IsFiniteSet(I)
    BY FS_Interval
  <2> QED BY <2>1, FS_FiniteSubsetsOfFinite, FS_StrictSubsetOrderingWellFounded, Zenon
<1>2. B \subseteq SUBSET I /\ B # {}
  <2>1. n \in {k \in S : k <= n}
    OBVIOUS
  <2> QED BY <2>1
<1>3. \E x \in B : \A y \in B : <<y, x>> \notin StrictSubsetOrdering(I)
  <2> HIDE DEF B, I
  <2> QED BY <1>1, <1>2, WFMin
<1>4. PICK m \in S : m <= n /\ \A y \in B : <<y, 0 .. m>> \notin StrictSubsetOrdering(I)
  BY <1>3
<1>5. ASSUME NEW k \in S, k < m PROVE FALSE
  <2>1. 0 .. k \in B /\ 0 .. m \in B
    BY <1>4, <1>5
  <2>2. 0 .. k \subseteq 0 .. m /\ 0 .. k # 0 .. m
    <3>1. m \in 0 .. m /\ m \notin 0 .. k
      BY <1>5
    <3> QED BY <3>1, <1>5
  <2>3. <<0 .. k, 0 .. m>> \in (SUBSET I) \X (SUBSET I)
    BY <2>1, <1>2
  <2>4. <<0 .. k, 0 .. m>> \in StrictSubsetOrdering(I)
    <3> HIDE DEF I, B
    <3> QED BY <2>2, <2>3 DEF StrictSubsetOrdering
  <2> QED BY <1>4, <2>1, <2>4
<1> QED BY <1>4, <1>5

LEMMA SetInduction ==
    ASSUME NEW T, 0 \in T, \A n \in Nat : n \in T => n + 1 \in T
    PROVE  Nat \subseteq T
<1> SUFFICES ASSUME NEW n \in Nat \ T PROVE FALSE
  OBVIOUS
<1>1. PICK m \in Nat \ T : \A k \in Nat \ T : m <= k
  BY LeastNatural
<1>2. m # 0 /\ m - 1 \in Nat
  BY <1>1
<1>3. m - 1 \in T
  BY <1>1, <1>2
<1> QED BY <1>1, <1>2, <1>3

-----------------------------------------------------------------------------
(* Lists of records.                                                       *)

Retains(f, entries, h, n) ==
    f = [i \in 0 .. n |->
            IF i = 0 THEN << >>
            ELSE IF MatchesHost(entries[i], h) THEN f[i - 1]
            ELSE Append(f[i - 1], entries[i])]

LEMMA AppendRecords ==
    ASSUME NEW entries \in Seq(Record), NEW e \in Record
    PROVE  /\ Append(entries, e) \in Seq(Record)
           /\ Records(Append(entries, e)) = Records(entries) \cup {e}
<1>1. /\ Append(entries, e) \in Seq(Record)
      /\ DOMAIN Append(entries, e) = DOMAIN entries \cup {Len(entries) + 1}
      /\ \A i \in DOMAIN entries : Append(entries, e)[i] = entries[i]
      /\ Append(entries, e)[Len(entries) + 1] = e
  OBVIOUS
<1> QED BY <1>1, Zenon DEF Records

LEMMA RetainsExists ==
    ASSUME NEW entries, NEW h
    PROVE  \A n \in Nat : \E f : Retains(f, entries, h, n)
<1> DEFINE T == {n \in Nat : \E f : Retains(f, entries, h, n)}
<1>1. 0 \in T
  <2>1. Retains([i \in 0 .. 0 |-> << >>], entries, h, 0)
    BY DEF Retains
  <2> QED BY <2>1
<1>2. ASSUME NEW n \in Nat, n \in T PROVE n + 1 \in T
  <2>1. PICK f : Retains(f, entries, h, n)
    BY <1>2
  <2> DEFINE next == IF MatchesHost(entries[n + 1], h) THEN f[n]
                     ELSE Append(f[n], entries[n + 1])
             g == [i \in 0 .. (n + 1) |-> IF i = n + 1 THEN next ELSE f[i]]
  <2>2. \A i \in 0 .. n : g[i] = f[i]
    OBVIOUS
  <2>3. \A i \in 0 .. (n + 1) : g[i] = IF i = 0 THEN << >>
            ELSE IF MatchesHost(entries[i], h) THEN g[i - 1]
            ELSE Append(g[i - 1], entries[i])
    <3>1. ASSUME NEW i \in 0 .. n
          PROVE  g[i] = IF i = 0 THEN << >>
            ELSE IF MatchesHost(entries[i], h) THEN g[i - 1]
            ELSE Append(g[i - 1], entries[i])
      <4>1. f[i] = IF i = 0 THEN << >>
              ELSE IF MatchesHost(entries[i], h) THEN f[i - 1]
              ELSE Append(f[i - 1], entries[i])
        BY <2>1 DEF Retains
      <4>2. i # 0 => i - 1 \in 0 .. n
        OBVIOUS
      <4> HIDE DEF g
      <4> QED BY <2>2, <4>1, <4>2
    <3>2. g[n + 1] = next /\ g[n] = f[n]
      OBVIOUS
    <3> HIDE DEF g
    <3> QED BY <3>1, <3>2
  <2>4. Retains(g, entries, h, n + 1)
    <3>1. g = [i \in 0 .. (n + 1) |-> g[i]]
      OBVIOUS
    <3> HIDE DEF g
    <3> QED BY <2>3, <3>1 DEF Retains
  <2> QED BY <2>4
<1> HIDE DEF T
<1>3. Nat \subseteq T
  BY <1>1, <1>2, SetInduction
<1> QED BY <1>3 DEF T

Sifts(f, entries, h, n) ==
    /\ f[n] \in Seq(Record)
    /\ Records(f[n]) = {e \in {entries[i] : i \in 1 .. n} : ~MatchesHost(e, h)}

LEMMA RetainedRecords ==
    ASSUME NEW entries \in Seq(Record), NEW h, NEW f,
           Retains(f, entries, h, Len(entries))
    PROVE  \A n \in 0 .. Len(entries) : Sifts(f, entries, h, n)
<1> DEFINE T == {n \in Nat : n <= Len(entries) => Sifts(f, entries, h, n)}
<1>0. \A i \in 0 .. Len(entries) :
         f[i] = IF i = 0 THEN << >>
                ELSE IF MatchesHost(entries[i], h) THEN f[i - 1]
                ELSE Append(f[i - 1], entries[i])
  BY DEF Retains
<1>1. 0 \in T
  <2>1. 0 \in 0 .. Len(entries)
    OBVIOUS
  <2>2. f[0] = << >>
    BY <1>0, <2>1
  <2>3. Sifts(f, entries, h, 0)
    BY <2>2 DEF Sifts, Records
  <2> QED BY <2>3
<1>2. ASSUME NEW n \in Nat, n \in T PROVE n + 1 \in T
  <2> SUFFICES ASSUME n + 1 <= Len(entries) PROVE Sifts(f, entries, h, n + 1)
    OBVIOUS
  <2>1. /\ f[n] \in Seq(Record)
        /\ Records(f[n]) = {e \in {entries[i] : i \in 1 .. n} : ~MatchesHost(e, h)}
    BY <1>2 DEF Sifts
  <2>2. f[n + 1] = IF MatchesHost(entries[n + 1], h) THEN f[n] ELSE Append(f[n], entries[n + 1])
    BY <1>0
  <2>3. entries[n + 1] \in Record
    OBVIOUS
  <2>4. {entries[i] : i \in 1 .. (n + 1)} = {entries[i] : i \in 1 .. n} \cup {entries[n + 1]}
    <3>1. 1 .. (n + 1) = 1 .. n \cup {n + 1}
      OBVIOUS
    <3> QED BY <3>1
  <2>5. Records(Append(f[n], entries[n + 1])) = Records(f[n]) \cup {entries[n + 1]}
    BY <2>1, <2>3, AppendRecords
  <2> QED BY <2>1, <2>2, <2>3, <2>4, <2>5 DEF Sifts
<1> HIDE DEF T
<1>3. \A n \in Nat : n \in T => n + 1 \in T
  BY <1>2
<1>4. Nat \subseteq T
  BY <1>1, <1>3, SetInduction, Zenon
<1> QED BY <1>4 DEF T

\* Forget drops every record of the host, under any spelling, and no other.
LEMMA ForgetKeeps ==
    ASSUME NEW entries \in Seq(Record), NEW h
    PROVE  /\ Forget(entries, h) \in Seq(Record)
           /\ Records(Forget(entries, h)) = {e \in Records(entries) : ~MatchesHost(e, h)}
<1> DEFINE f == CHOOSE f : Retains(f, entries, h, Len(entries))
<1>0. \E g : Retains(g, entries, h, Len(entries))
  BY RetainsExists, LenProperties
<1>1. Retains(f, entries, h, Len(entries))
  BY <1>0, Zenon
<1>2. Forget(entries, h) = f[Len(entries)]
  BY Zenon DEF Forget, Retains
<1> HIDE DEF f
<1>3. /\ Len(entries) \in 0 .. Len(entries)
      /\ {entries[i] : i \in 1 .. Len(entries)} = Records(entries)
  BY DEF Records
<1>4. Sifts(f, entries, h, Len(entries))
  BY <1>1, <1>3, RetainedRecords
<1> QED BY <1>2, <1>3, <1>4 DEF Sifts
-----------------------------------------------------------------------------
(* The inductive invariant, of threads of one process.                     *)

SameProcess == \A t, u \in Threads : ProcessOf[t] = ProcessOf[u]

Steps == {"idle", "decide", "forget", "decide locked", "rule", "save", "forget locked",
          "forget save"}

\* What VerifierTypeOK leaves out.
Shapes ==
    /\ step \in [Threads -> Steps]
    /\ fresh \in [Threads -> Seq(Record)]
    /\ original \cup recorded \cup forgotten \cup accepted \cup runOnly \subseteq Record

\* Who holds the mutex has a copy of the file that is still what the file holds; it
\* adds a host the file does not know, or leaves one out.
Copies ==
    \A t \in Threads :
        /\ writable[t] => located
        /\ step[t] = "rule" /\ writable[t] => Cached(t) = file
        /\ step[t] = "save" =>
              /\ located /\ SameHost(file, call[t].host) = {}
              /\ Cached(t) = Append(file, call[t])
        /\ step[t] = "forget save" => located /\ fresh[t] = Forget(file, call[t].host)

FileHonest == NoRecordLost /\ NoResurrection /\ OneKeyEach(Records(file))

\* Some record of S is of the host and the key of e.
Vouched(S, e) == \E x \in S : SameTrust(x, e)

\* The cache holds what the file does, or a key that could not be recorded.
CacheHonest ==
    \A t \in Threads :
        /\ located /\ (\A u \in Threads : step[u] # "save") =>
              \A e \in Records(Cached(t)) : Vouched(Records(file) \cup runOnly, e)
        /\ ~located => OneKeyEach(Records(Cached(t)))

\* What is accepted is in the file or could not be recorded; without a location it is
\* in the cache.
AcceptedKnown ==
    \A e \in accepted :
        /\ located => Vouched(Records(file) \cup runOnly, e)
        /\ ~located => \E t \in Threads : Vouched(Records(Cached(t)), e)

TofuInv ==
    VerifierTypeOK /\ Shapes /\ Copies /\ FileHonest /\ CacheHonest /\ AcceptedKnown

-----------------------------------------------------------------------------
(* What the database's operators give.                                     *)

LEMMA TrustSame ==
    /\ \A a : SameTrust(a, a)
    /\ \A a, b : SameTrust(a, b) => SameTrust(b, a)
    /\ \A a, b, c : SameTrust(a, b) /\ SameTrust(b, c) => SameTrust(a, c)
    /\ \A a, b, h : SameTrust(a, b) => (MatchesHost(a, h) <=> MatchesHost(b, h))
  BY DEF SameTrust, MatchesHost

LEMMA EntryOf ==
    ASSUME NEW c \in Record
    PROVE  c.host \in Hosts /\ c.key \in Keys /\ Entry(c.host, c.key) = c
  BY DEF Record, Entry

LEMMA NoSameHost ==
    ASSUME NEW entries, NEW h
    PROVE  SameHost(entries, h) = {} <=> \A r \in Records(entries) : ~MatchesHost(r, h)
  BY DEF SameHost, Records

LEMMA UnknownHost ==
    ASSUME NEW entries, NEW h, NEW k, Status(entries, h, k) = "unknown"
    PROVE  SameHost(entries, h) = {} /\ Trust(entries, h, k) = Append(entries, Entry(h, k))
<1>1. SameHost(entries, h) = {}
  BY DEF Status
<1>2. SameAlgorithm(entries, h, k) = {}
  BY <1>1 DEF SameHost, SameAlgorithm, MatchesKey
<1> QED BY <1>1, <1>2 DEF Trust

LEMMA FoundIsIn ==
    ASSUME NEW entries \in Seq(Record), NEW S \in SUBSET DOMAIN entries, S # {}
    PROVE  Found(S) \in S
<1>1. S \subseteq Nat
  OBVIOUS
<1>2. \E i \in S : \A j \in S : i <= j
  BY <1>1, LeastNatural
<1> QED BY <1>2, Zenon DEF Found

LEMMA TrustedKey ==
    ASSUME NEW entries \in Seq(Record), NEW h, NEW k, Status(entries, h, k) = "trusted"
    PROVE  \E r \in Records(entries) : MatchesHost(r, h) /\ r.key = k
<1> DEFINE exact == SameAlgorithm(entries, h, k)
<1>1. exact # {} /\ entries[Found(exact)].key = k
  BY DEF Status
<1>2. exact \subseteq DOMAIN entries
  BY DEF SameAlgorithm
<1>3. Found(exact) \in exact
  BY <1>1, <1>2, FoundIsIn
<1> QED BY <1>1, <1>3 DEF SameAlgorithm, MatchesKey, Records

-----------------------------------------------------------------------------
(* Each step keeps the invariant.                                          *)

\* The cache of one process is one, and one thread at a time holds its mutex.
LEMMA OneCache ==
    ASSUME SameProcess, TofuInv, NEW t \in Threads
    PROVE  /\ \A u \in Threads : Cached(u) = Cached(t)
           /\ Cached(t) \in Seq(Record)
           /\ \A entries : SetCache(t, entries) => \A u \in Threads : Cached(u)' = entries
           /\ UNCHANGED cache => \A u \in Threads : Cached(u)' = Cached(u)
           /\ step[t] \in {"decide locked", "rule", "save", "forget locked", "forget save"} =>
                 \A u \in Threads \ {t} : step[u] \in {"idle", "decide", "forget"}
           /\ MutexFree(t) => \A u \in Threads : step[u] \in {"idle", "decide", "forget"}
<1> USE TofuAssumption
<1>1. /\ \A u \in Threads : ProcessOf[u] = ProcessOf[t] /\ ProcessOf[t] \in Processes
      /\ cache \in [Processes -> Seq(Record)]
  BY DEF SameProcess, TofuInv, VerifierTypeOK
<1>2. \A entries : SetCache(t, entries) => \A u \in Threads : Cached(u)' = entries
  BY <1>1 DEF SetCache, Cached
<1>3. \A u \in Threads : step[u] \in Steps
  BY DEF TofuInv, Shapes
<1>4. \A u \in Threads :
         step[u] \in {"decide locked", "rule", "save", "forget locked", "forget save"} =>
            lock[ProcessOf[t]] = u
  BY <1>1 DEF TofuInv, VerifierTypeOK
<1> QED BY <1>1, <1>2, <1>3, <1>4 DEF Cached, MutexFree, Steps

LEMMA SameFile ==
    ASSUME UNCHANGED <<file, recorded, forgotten, original>>
    PROVE  /\ FileHonest => FileHonest'
           /\ \A S : OneKeyEach(S) => OneKeyEach(S)'
  BY DEF FileHonest, NoRecordLost, NoResurrection, OneKeyEach

LEMMA CallKeeps == ASSUME SameProcess, TofuInv, NEW t \in Threads, Call(t) PROVE TofuInv'
<1> USE DEF TofuInv, ghosts
<1>1. /\ UNCHANGED <<located, file, cache, lock, fresh, writable, original, recorded, forgotten,
                     accepted, runOnly>>
      /\ step[t] = "idle" /\ step' \in {[step EXCEPT ![t] = "decide"], [step EXCEPT ![t] = "forget"]}
  BY DEF Call, Goto
<1>2. call' \in [Threads -> Record] /\ \A u \in Threads \ {t} : call'[u] = call[u]
  <2>1. CASE \E h \in Hosts, k \in Keys : call' = [call EXCEPT ![t] = Entry(h, k)]
    <3>1. PICK h \in Hosts, k \in Keys : call' = [call EXCEPT ![t] = Entry(h, k)]
      BY <2>1
    <3>2. Entry(h, k) \in Record /\ call \in [Threads -> Record]
      BY DEF VerifierTypeOK, Entry, Record
    <3> QED BY <3>1, <3>2
  <2>2. CASE \E h \in Hosts : call' = [call EXCEPT ![t].host = h]
    <3>1. PICK h \in Hosts : call' = [call EXCEPT ![t] = [call[t] EXCEPT !.host = h]]
      BY <2>2, Zenon
    <3>2. call[t] \in Record /\ call \in [Threads -> Record]
      BY DEF VerifierTypeOK
    <3>3. [call[t] EXCEPT !.host = h] \in Record
      BY <3>2 DEF Record
    <3> QED BY <3>1, <3>2, <3>3
  <2> QED BY <2>1, <2>2 DEF Call
<1>3. step' \in [Threads -> Steps] /\ step'[t] \in {"decide", "forget"}
      /\ \A u \in Threads \ {t} : step'[u] = step[u]
  BY <1>1 DEF Shapes, Steps
<1>4. VerifierTypeOK' /\ Shapes'
  BY <1>1, <1>2, <1>3 DEF VerifierTypeOK, Shapes
<1>5. Copies'
  BY <1>1, <1>2, <1>3 DEF Copies, Cached
<1>6. FileHonest' /\ CacheHonest' /\ AcceptedKnown'
  BY <1>1, <1>3, SameFile DEF CacheHonest, AcceptedKnown, Cached, Vouched
<1> QED BY <1>4, <1>5, <1>6

LEMMA LockKeeps == ASSUME SameProcess, TofuInv, NEW t \in Threads, Lock(t) PROVE TofuInv'
<1> USE DEF TofuInv, ghosts
<1>1. /\ UNCHANGED <<located, file, cache, call, fresh, writable, original, recorded, forgotten,
                     accepted, runOnly>>
      /\ lock' = [lock EXCEPT ![ProcessOf[t]] = t] /\ MutexFree(t)
      /\ step[t] \in {"decide", "forget"}
      /\ step' \in {[step EXCEPT ![t] = "decide locked"], [step EXCEPT ![t] = "forget locked"]}
  BY DEF Lock, Goto
<1>2. step' \in [Threads -> Steps] /\ step'[t] \in {"decide locked", "forget locked"}
      /\ \A u \in Threads \ {t} : step'[u] = step[u] /\ step[u] \in {"idle", "decide", "forget"}
  BY <1>1, OneCache DEF Shapes, Steps
<1>3. lock' \in [Processes -> Threads \cup {NoHolder}] /\ lock'[ProcessOf[t]] = t
  BY <1>1, TofuAssumption DEF VerifierTypeOK
<1>4. VerifierTypeOK' /\ Shapes'
  BY <1>1, <1>2, <1>3 DEF VerifierTypeOK, Shapes
<1>5. Copies'
  BY <1>1, <1>2 DEF Copies, Cached
<1>6. FileHonest' /\ AcceptedKnown'
  BY <1>1, SameFile DEF AcceptedKnown, Cached, Vouched
<1>7. CacheHonest'
  BY <1>1, <1>2, SameFile DEF CacheHonest, Cached, Vouched
<1> QED BY <1>4, <1>5, <1>6, <1>7

LEMMA ReadKeeps == ASSUME SameProcess, TofuInv, NEW t \in Threads, Read(t) PROVE TofuInv'
<1> USE DEF TofuInv, ghosts
<1>1. /\ UNCHANGED <<located, file, lock, call, fresh, original, recorded, forgotten, accepted,
                     runOnly>>
      /\ step[t] = "decide locked" /\ step' = [step EXCEPT ![t] = "rule"]
      /\ \/ located /\ SetCache(t, file) /\ writable' = [writable EXCEPT ![t] = TRUE]
         \/ writable' = [writable EXCEPT ![t] = FALSE] /\ UNCHANGED cache
  BY DEF Read, Goto
<1>2. step' \in [Threads -> Steps] /\ step'[t] = "rule"
      /\ \A u \in Threads \ {t} : step'[u] = step[u] /\ step[u] \in {"idle", "decide", "forget"}
  BY <1>1, OneCache DEF Shapes, Steps
<1>3. \/ located /\ (\A u \in Threads : Cached(u)' = file)
      \/ ~writable'[t] /\ \A u \in Threads : Cached(u)' = Cached(u)
  BY <1>1, OneCache DEF VerifierTypeOK
<1>4. /\ cache' \in [Processes -> Seq(Record)] /\ writable' \in [Threads -> BOOLEAN]
      /\ \A u \in Threads \ {t} : writable'[u] = writable[u]
  BY <1>1, TofuAssumption DEF VerifierTypeOK, SetCache
<1>5. VerifierTypeOK' /\ Shapes'
  BY <1>1, <1>2, <1>4 DEF VerifierTypeOK, Shapes
<1>6. Copies'
  BY <1>1, <1>2, <1>3, <1>4 DEF Copies
<1>7. FileHonest'
  BY <1>1, SameFile
<1>8. CacheHonest'
  BY <1>1, <1>2, <1>3, TrustSame, SameFile DEF CacheHonest, Vouched
<1>9. AcceptedKnown'
  BY <1>1, <1>3 DEF AcceptedKnown, Vouched
<1> QED BY <1>5, <1>6, <1>7, <1>8, <1>9

\* The mutex is given back.
LEMMA Returned ==
    ASSUME SameProcess, TofuInv, NEW t \in Threads, Goto(t, "idle"), Unlock(t),
           step[t] \in {"rule", "save", "forget locked", "forget save"}
    PROVE  /\ step' \in [Threads -> Steps] /\ \A u \in Threads : step'[u] \in {"idle", "decide", "forget"}
           /\ lock' \in [Processes -> Threads \cup {NoHolder}]
<1>1. /\ step \in [Threads -> Steps] /\ lock \in [Processes -> Threads \cup {NoHolder}]
      /\ \A u \in Threads \ {t} : step[u] \in {"idle", "decide", "forget"}
  BY OneCache DEF TofuInv, Shapes, VerifierTypeOK
<1> QED BY <1>1 DEF Goto, Unlock, Steps

LEMMA RuleKeeps == ASSUME SameProcess, TofuInv, NEW t \in Threads, Rule(t) PROVE TofuInv'
<1> USE DEF TofuInv, ghosts
<1> DEFINE c == call[t]
<1>0. /\ c \in Record /\ Entry(c.host, c.key) = c /\ c.host \in Hosts /\ c.key \in Keys
      /\ Cached(t) \in Seq(Record) /\ step[t] = "rule" /\ \A u \in Threads : step[u] # "save"
      /\ UNCHANGED <<located, file, call, fresh, writable, calls, original, recorded, forgotten>>
  BY EntryOf, OneCache DEF VerifierTypeOK, Rule
<1>a. Append(Cached(t), c) \in Seq(Record)
      /\ Records(Append(Cached(t), c)) = Records(Cached(t)) \cup {c}
  BY <1>0, AppendRecords
<1>f. FileHonest'
  BY <1>0, SameFile
<1>1. CASE Status(Cached(t), c.host, c.key) = "unknown"
  <2> DEFINE grown == Append(Cached(t), c)
  <2>1. /\ SameHost(Cached(t), c.host) = {} /\ SetCache(t, grown)
        /\ \A r \in Records(Cached(t)) : ~MatchesHost(r, c.host)
    BY <1>0, <1>1, UnknownHost, NoSameHost DEF Rule
  <2>2. cache' \in [Processes -> Seq(Record)] /\ \A u \in Threads : Cached(u)' = grown
    BY <2>1, <1>a, OneCache, TofuAssumption DEF VerifierTypeOK, SetCache
  <2>3. CASE Writes(t) /\ Goto(t, "save") /\ UNCHANGED <<lock, accepted, runOnly>>
    <3>1. step' \in [Threads -> Steps] /\ step'[t] = "save"
          /\ \A u \in Threads \ {t} : step'[u] = step[u] /\ step[u] \in {"idle", "decide", "forget"}
      BY <1>0, <2>3, OneCache DEF Shapes, Steps, Goto
    <3>2. located /\ Cached(t) = file
      BY <1>0, <2>3 DEF Copies, Writes
    <3>3. VerifierTypeOK' /\ Shapes'
      BY <1>0, <2>2, <2>3, <3>1 DEF VerifierTypeOK, Shapes
    <3>4. Copies'
      BY <1>0, <2>1, <2>2, <3>1, <3>2 DEF Copies
    <3>5. CacheHonest' /\ AcceptedKnown'
      BY <1>0, <2>3, <3>1, <3>2 DEF CacheHonest, AcceptedKnown, Vouched
    <3> QED BY <1>f, <3>3, <3>4, <3>5
  <2>4. CASE /\ ~Writes(t) /\ accepted' = accepted \cup {c} /\ runOnly' = runOnly \cup {c}
             /\ Goto(t, "idle") /\ Unlock(t)
    <3>1. /\ step' \in [Threads -> Steps] /\ \A u \in Threads : step'[u] \in {"idle", "decide", "forget"}
          /\ lock' \in [Processes -> Threads \cup {NoHolder}]
      BY <1>0, <2>4, Returned
    <3>2. VerifierTypeOK' /\ Shapes'
      BY <1>0, <2>2, <2>4, <3>1 DEF VerifierTypeOK, Shapes
    <3>3. Copies'
      BY <1>0, <3>1 DEF Copies
    <3>4. CacheHonest'
      <4>1. ASSUME located, NEW e \in Records(grown) PROVE Vouched(Records(file) \cup runOnly', e)
        BY <1>0, <1>a, <2>4, <4>1, TrustSame DEF CacheHonest, Vouched
      <4>2. ASSUME ~located PROVE OneKeyEach(Records(grown))
        BY <1>0, <1>a, <2>1, <4>2, TrustSame DEF CacheHonest, OneKeyEach, MatchesHost
      <4> QED BY <1>0, <2>2, <4>1, <4>2, SameFile DEF CacheHonest
    <3>5. AcceptedKnown'
      <4>1. ASSUME NEW e \in accepted', located PROVE Vouched(Records(file) \cup runOnly', e)
        BY <1>0, <2>4, <4>1, TrustSame DEF AcceptedKnown, Vouched
      <4>2. ASSUME NEW e \in accepted', ~located PROVE Vouched(Records(grown), e)
        <5>1. CASE e = c
          BY <1>a, <5>1, TrustSame DEF Vouched
        <5>2. CASE e \in accepted
          BY <1>a, <4>2, <5>2, OneCache DEF AcceptedKnown, Vouched
        <5> QED BY <2>4, <4>2, <5>1, <5>2
      <4> QED BY <1>0, <2>2, <4>1, <4>2 DEF AcceptedKnown
    <3> QED BY <1>f, <3>2, <3>3, <3>4, <3>5
  <2> QED BY <1>1, <2>3, <2>4 DEF Rule
<1>2. CASE Status(Cached(t), c.host, c.key) # "unknown"
  <2>1. /\ Goto(t, "idle") /\ Unlock(t) /\ UNCHANGED <<cache, runOnly>>
        /\ \/ accepted' = accepted
           \/ accepted' = accepted \cup {c} /\ Status(Cached(t), c.host, c.key) = "trusted"
    BY <1>2 DEF Rule
  <2>2. /\ step' \in [Threads -> Steps] /\ \A u \in Threads : step'[u] \in {"idle", "decide", "forget"}
        /\ lock' \in [Processes -> Threads \cup {NoHolder}]
    BY <1>0, <2>1, Returned
  <2>3. \A u \in Threads : Cached(u)' = Cached(u)
    BY <2>1 DEF Cached
  <2>4. VerifierTypeOK' /\ Shapes'
    BY <1>0, <2>1, <2>2 DEF VerifierTypeOK, Shapes
  <2>5. Copies'
    BY <1>0, <2>2 DEF Copies
  <2>6. CacheHonest'
    BY <1>0, <2>1, <2>3, SameFile DEF CacheHonest, Vouched
  <2>7. Status(Cached(t), c.host, c.key) = "trusted" =>
           \E r \in Records(Cached(t)) : SameTrust(r, c)
    BY <1>0, TrustedKey DEF SameTrust
  <2>8. AcceptedKnown'
    <3>1. ASSUME located, Status(Cached(t), c.host, c.key) = "trusted"
          PROVE  Vouched(Records(file) \cup runOnly, c)
      BY <1>0, <2>7, <3>1, TrustSame DEF CacheHonest, Vouched
    <3>2. ASSUME ~located, Status(Cached(t), c.host, c.key) = "trusted"
          PROVE  Vouched(Records(Cached(t)), c)
      BY <2>7, <3>2 DEF Vouched
    <3> QED BY <1>0, <2>1, <2>3, <3>1, <3>2 DEF AcceptedKnown
  <2> QED BY <1>f, <2>4, <2>5, <2>6, <2>8
<1> QED BY <1>1, <1>2

\* A list of one key per host still has one when a host it does not know is added.
LEMMA OneKeyMore ==
    ASSUME NEW S, NEW c, OneKeyEach(S), \A r \in S : ~MatchesHost(r, c.host)
    PROVE  OneKeyEach(S \cup {c})
  BY DEF OneKeyEach, MatchesHost

LEMMA OneKeyFewer == ASSUME NEW S, NEW T, OneKeyEach(S), T \subseteq S PROVE OneKeyEach(T)
  BY DEF OneKeyEach

LEMMA SaveKeeps == ASSUME SameProcess, TofuInv, NEW t \in Threads, Save(t) PROVE TofuInv'
<1> USE DEF TofuInv, ghosts
<1> DEFINE c == call[t]
<1>0. /\ c \in Record /\ file \in Seq(Record) /\ step[t] = "save" /\ located
      /\ SameHost(file, c.host) = {} /\ Cached(t) = Append(file, c)
      /\ UNCHANGED <<located, cache, call, fresh, writable, calls, original>>
      /\ accepted' = accepted \cup {c}
  BY DEF VerifierTypeOK, Copies, Save
<1>1. /\ step' \in [Threads -> Steps] /\ \A u \in Threads : step'[u] \in {"idle", "decide", "forget"}
      /\ lock' \in [Processes -> Threads \cup {NoHolder}]
  BY Returned DEF Save
<1>2. /\ Cached(t) \in Seq(Record) /\ Records(Cached(t)) = Records(file) \cup {c}
      /\ \A u \in Threads : Cached(u)' = Cached(t)
      /\ \A r \in Records(file) : ~MatchesHost(r, c.host)
  BY <1>0, AppendRecords, NoSameHost, OneCache
<1>3. \/ /\ file' = Cached(t) /\ recorded' = recorded \cup {c} /\ forgotten' = forgotten \ {c}
         /\ runOnly' = {e \in runOnly : ~SameTrust(e, c)}
      \/ UNCHANGED <<file, recorded, forgotten>> /\ runOnly' = runOnly \cup {c}
  BY DEF Save
<1>4. VerifierTypeOK' /\ Shapes'
  <2>1. runOnly' \subseteq Record /\ recorded' \cup forgotten' \cup accepted' \subseteq Record
    BY <1>0, <1>3 DEF Shapes
  <2>2. file' \in Seq(Record)
    BY <1>0, <1>2, <1>3
  <2> QED BY <1>0, <1>1, <2>1, <2>2 DEF VerifierTypeOK, Shapes
<1>5. Copies'
  BY <1>0, <1>1 DEF Copies
<1>6. FileHonest'
  <2>1. CASE file' = Cached(t) /\ recorded' = recorded \cup {c} /\ forgotten' = forgotten \ {c}
    <3>1. NoRecordLost' /\ NoResurrection'
      BY <1>2, <2>1 DEF FileHonest, NoRecordLost, NoResurrection
    <3>2. OneKeyEach(Records(file) \cup {c})
      BY <1>2, OneKeyMore DEF FileHonest
    <3>3. OneKeyEach(Records(file))'
      BY <1>0, <1>2, <2>1, <3>2 DEF OneKeyEach
    <3> QED BY <3>1, <3>3 DEF FileHonest
  <2>2. CASE UNCHANGED <<file, recorded, forgotten>>
    BY <1>0, <2>2, SameFile
  <2> QED BY <1>3, <2>1, <2>2
<1>7. Records(file) \cup runOnly \cup {c} \subseteq Record
  BY <1>0 DEF Shapes, Records
<1>8. \A e : Vouched(Records(file) \cup runOnly \cup {c}, e) => Vouched(Records(file)' \cup runOnly', e)
  BY <1>2, <1>3, TrustSame DEF Vouched
<1>9. CacheHonest'
  BY <1>0, <1>2, <1>8, TrustSame DEF CacheHonest, Vouched
<1>10. AcceptedKnown'
  BY <1>0, <1>8, TrustSame DEF AcceptedKnown, Vouched
<1> QED BY <1>4, <1>5, <1>6, <1>9, <1>10

LEMMA ForgetCachedKeeps ==
    ASSUME SameProcess, TofuInv, NEW t \in Threads, ForgetCached(t) PROVE TofuInv'
<1> USE DEF TofuInv, ghosts
<1> DEFINE h == call[t].host
           left == Forget(Cached(t), h)
<1>0. /\ step[t] = "forget locked" /\ ~located /\ SetCache(t, left)
      /\ accepted' = accepted \ Of(accepted, h) /\ runOnly' \subseteq runOnly
      /\ UNCHANGED <<located, file, call, fresh, writable, calls, original, recorded, forgotten>>
  BY DEF ForgetCached, Of
<1>1. /\ step' \in [Threads -> Steps] /\ \A u \in Threads : step'[u] \in {"idle", "decide", "forget"}
      /\ lock' \in [Processes -> Threads \cup {NoHolder}]
  BY Returned DEF ForgetCached
<1>2. /\ left \in Seq(Record) /\ Records(left) = {e \in Records(Cached(t)) : ~MatchesHost(e, h)}
      /\ \A u \in Threads : Cached(u)' = left
  BY <1>0, OneCache, ForgetKeeps
<1>3. cache' \in [Processes -> Seq(Record)]
  BY <1>0, <1>2, TofuAssumption DEF VerifierTypeOK, SetCache
<1>4. VerifierTypeOK' /\ Shapes'
  BY <1>0, <1>1, <1>3 DEF VerifierTypeOK, Shapes
<1>5. Copies'
  BY <1>0, <1>1 DEF Copies
<1>6. FileHonest'
  BY <1>0, SameFile
<1>7. CacheHonest'
  <2>1. OneKeyEach(Records(left))
    <3>1. OneKeyEach(Records(Cached(t))) /\ Records(left) \subseteq Records(Cached(t))
      BY <1>0, <1>2 DEF CacheHonest
    <3> QED BY <3>1, OneKeyFewer
  <2> QED BY <1>0, <1>2, <2>1, SameFile DEF CacheHonest
<1>8. AcceptedKnown'
  <2>1. ASSUME NEW e \in accepted' PROVE Vouched(Records(left), e)
    <3>1. e \in accepted /\ ~MatchesHost(e, h)
      BY <1>0, <2>1 DEF Of
    <3>2. PICK x \in Records(Cached(t)) : SameTrust(x, e)
      BY <1>0, <3>1, OneCache DEF AcceptedKnown, Vouched
    <3>3. x \in Records(left)
      BY <1>2, <3>1, <3>2, TrustSame
    <3> QED BY <3>2, <3>3 DEF Vouched
  <2> QED BY <1>0, <1>2, <2>1 DEF AcceptedKnown
<1> QED BY <1>4, <1>5, <1>6, <1>7, <1>8

LEMMA ForgetReadKeeps ==
    ASSUME SameProcess, TofuInv, NEW t \in Threads, ForgetRead(t) PROVE TofuInv'
<1> USE DEF TofuInv, ghosts
<1>0. /\ step[t] = "forget locked" /\ located /\ file \in Seq(Record)
      /\ UNCHANGED <<located, file, cache, call, writable, calls, original, recorded, forgotten,
                     accepted, runOnly>>
  BY DEF ForgetRead, VerifierTypeOK
<1>1. \/ /\ step' \in [Threads -> Steps] /\ lock' = lock
         /\ step'[t] = "forget save" /\ fresh'[t] = Forget(file, call[t].host)
         /\ \A u \in Threads \ {t} : step'[u] = step[u] /\ step[u] \in {"idle", "decide", "forget"}
      \/ /\ step' \in [Threads -> Steps] /\ fresh' = fresh
         /\ lock' \in [Processes -> Threads \cup {NoHolder}]
         /\ \A u \in Threads : step'[u] \in {"idle", "decide", "forget"}
  <2>1. CASE /\ fresh' = [fresh EXCEPT ![t] = Forget(file, call[t].host)]
             /\ Goto(t, "forget save") /\ UNCHANGED lock
    BY <1>0, <2>1, OneCache DEF Shapes, Steps, Goto
  <2>2. CASE Goto(t, "idle") /\ Unlock(t) /\ UNCHANGED fresh
    BY <1>0, <2>2, Returned
  <2> QED BY <2>1, <2>2 DEF ForgetRead
<1>2. fresh' \in [Threads -> Seq(Record)]
  BY <1>0, ForgetKeeps DEF ForgetRead, Shapes
<1>3. VerifierTypeOK' /\ Shapes'
  BY <1>0, <1>1, <1>2 DEF VerifierTypeOK, Shapes
<1>4. Copies'
  BY <1>0, <1>1 DEF Copies, Cached
<1>5. FileHonest' /\ AcceptedKnown'
  BY <1>0, SameFile DEF AcceptedKnown, Cached, Vouched
<1>6. CacheHonest'
  BY <1>0, OneCache, SameFile DEF CacheHonest, Cached, Vouched
<1> QED BY <1>3, <1>4, <1>5, <1>6

LEMMA ForgetSaveKeeps ==
    ASSUME SameProcess, TofuInv, NEW t \in Threads, ForgetSave(t) PROVE TofuInv'
<1> USE DEF TofuInv, ghosts
<1> DEFINE h == call[t].host
<1>0. /\ step[t] = "forget save" /\ located /\ fresh[t] = Forget(file, h) /\ file \in Seq(Record)
      /\ \A u \in Threads : step[u] # "save"
      /\ UNCHANGED <<located, call, fresh, writable, calls>>
  BY OneCache DEF ForgetSave, Copies, VerifierTypeOK
<1>1. /\ step' \in [Threads -> Steps] /\ \A u \in Threads : step'[u] \in {"idle", "decide", "forget"}
      /\ lock' \in [Processes -> Threads \cup {NoHolder}]
  BY Returned DEF ForgetSave
<1>2. Copies'
  BY <1>0, <1>1 DEF Copies
<1>3. CASE file' = fresh[t] /\ SetCache(t, fresh[t]) /\ Drop(h)
  <2>1. /\ file' \in Seq(Record)
        /\ Records(file') = {e \in Records(file) : ~MatchesHost(e, h)}
        /\ \A u \in Threads : Cached(u)' = file'
    BY <1>0, <1>3, ForgetKeeps, OneCache
  <2>2. /\ original' = {e \in original : ~MatchesHost(e, h)}
        /\ recorded' = {e \in recorded : ~MatchesHost(e, h)}
        /\ accepted' = {e \in accepted : ~MatchesHost(e, h)}
        /\ runOnly' = {e \in runOnly : ~MatchesHost(e, h)}
        /\ forgotten' = forgotten \cup {e \in recorded : MatchesHost(e, h)}
    BY <1>3 DEF Drop, Of
  <2>3. cache' \in [Processes -> Seq(Record)]
    BY <1>3, <2>1, TofuAssumption DEF VerifierTypeOK, SetCache
  <2>4. VerifierTypeOK' /\ Shapes'
    BY <1>0, <1>1, <2>1, <2>2, <2>3 DEF VerifierTypeOK, Shapes
  <2>5. NoRecordLost' /\ NoResurrection'
    BY <2>1, <2>2 DEF FileHonest, NoRecordLost, NoResurrection
  <2>6. OneKeyEach(Records(file))'
    BY <2>1, <2>2 DEF FileHonest, OneKeyEach, MatchesHost
  <2>7. CacheHonest'
    BY <1>0, <2>1, TrustSame DEF CacheHonest, Vouched
  <2>8. AcceptedKnown'
    <3>1. ASSUME NEW e \in accepted' PROVE Vouched(Records(file)' \cup runOnly', e)
      <4>1. e \in accepted /\ ~MatchesHost(e, h)
        BY <2>2, <3>1
      <4>2. PICK x \in Records(file) \cup runOnly : SameTrust(x, e)
        BY <1>0, <4>1 DEF AcceptedKnown, Vouched
      <4>3. ~MatchesHost(x, h)
        BY <4>1, <4>2, TrustSame
      <4>4. x \in Records(file') \cup runOnly'
        BY <2>1, <2>2, <4>2, <4>3
      <4> QED BY <4>2, <4>4 DEF Vouched
    <3> QED BY <1>0, <3>1 DEF AcceptedKnown
  <2> QED BY <1>2, <2>4, <2>5, <2>6, <2>7, <2>8 DEF FileHonest
<1>4. CASE UNCHANGED <<file, cache, original, recorded, forgotten, accepted, runOnly>>
  <2>1. VerifierTypeOK' /\ Shapes'
    BY <1>0, <1>1, <1>4 DEF VerifierTypeOK, Shapes
  <2>2. FileHonest' /\ AcceptedKnown'
    BY <1>0, <1>4, SameFile DEF AcceptedKnown, Cached, Vouched
  <2>3. CacheHonest'
    BY <1>0, <1>4, SameFile DEF CacheHonest, Cached, Vouched
  <2> QED BY <1>2, <2>1, <2>2, <2>3
<1> QED BY <1>3, <1>4 DEF ForgetSave
-----------------------------------------------------------------------------
(* The theorems.                                                           *)

LEMMA TofuInit == ASSUME SameProcess, VerifierInit PROVE TofuInv
<1> USE TofuAssumption, KnownHostsAssumption DEF VerifierInit
<1>1. /\ file \in Seq(Record) /\ cache \in [Processes -> Seq(Record)]
      /\ \A u \in Threads : Cached(u) \in {file, << >>} /\ (~located => Cached(u) = << >>)
  <2>1. \/ cache = [p \in Processes |-> IF located THEN file ELSE << >>]
        \/ cache = [p \in Processes |-> << >>]
    OBVIOUS
  <2>2. file \in Seq(Record) /\ << >> \in Seq(Record)
    BY EmptySeq
  <2>3. \A u \in Threads : ProcessOf[u] \in Processes
    OBVIOUS
  <2> QED BY <2>1, <2>2, <2>3 DEF Cached
<1>2. call \in [Threads -> Record]
  BY DEF Entry, Record
<1>3. Records(file) \subseteq Record /\ Records(<< >>) = {}
  BY <1>1 DEF Records
<1>4. VerifierTypeOK /\ Shapes
  <2>1. located \in BOOLEAN /\ lock \in [Processes -> Threads \cup {NoHolder}]
    OBVIOUS
  <2>4. writable \in [Threads -> BOOLEAN]
    BY Zenon
  <2>2. step \in [Threads -> Steps] /\ (\A u \in Threads : step[u] = "idle")
        /\ fresh \in [Threads -> Seq(Record)]
    BY EmptySeq DEF Steps
  <2>3. original \cup recorded \cup forgotten \cup accepted \cup runOnly \subseteq Record
    BY <1>3
  <2> HIDE DEF VerifierInit
  <2> QED BY <1>1, <1>2, <2>1, <2>2, <2>3, <2>4 DEF VerifierTypeOK, Shapes
<1>5. Copies
  BY DEF Copies
<1>6. FileHonest
  BY DEF FileHonest, NoRecordLost, NoResurrection, OneKeyEach, MatchesHost
<1>7. CacheHonest /\ AcceptedKnown
  BY <1>1, <1>3, TrustSame DEF CacheHonest, AcceptedKnown, OneKeyEach, Vouched
<1> QED BY <1>4, <1>5, <1>6, <1>7 DEF TofuInv

LEMMA TofuStep == ASSUME SameProcess, TofuInv, [VerifierNext]_verifierVars PROVE TofuInv'
<1>1. CASE UNCHANGED verifierVars
  <2>1. VerifierTypeOK' /\ Shapes' /\ Copies'
    BY <1>1 DEF TofuInv, verifierVars, VerifierTypeOK, Shapes, Copies, Cached
  <2>2. FileHonest' /\ CacheHonest' /\ AcceptedKnown'
    BY <1>1, SameFile DEF TofuInv, verifierVars, CacheHonest, AcceptedKnown, Cached, Vouched
  <2> QED BY <2>1, <2>2 DEF TofuInv
<1>2. ASSUME NEW t \in Threads,
             \/ Call(t) \/ Lock(t) \/ Read(t) \/ Rule(t) \/ Save(t)
             \/ ForgetCached(t) \/ ForgetRead(t) \/ ForgetSave(t)
      PROVE  TofuInv'
  BY <1>2, CallKeeps, LockKeeps, ReadKeeps, RuleKeeps, SaveKeeps, ForgetCachedKeeps,
     ForgetReadKeeps, ForgetSaveKeeps
<1> QED BY <1>1, <1>2 DEF VerifierNext, CallsOver

LEMMA KeysAreOne == ASSUME SameProcess, TofuInv PROVE OneKeyPerHost
<1> DEFINE counted == {e \in accepted : located => \A r \in runOnly : ~SameTrust(e, r)}
<1>1. ASSUME NEW S, OneKeyEach(S), \A e \in counted : Vouched(S, e)
      PROVE  OneKeyEach(counted)
  <2> HIDE DEF counted
  <2> QED BY <1>1 DEF OneKeyEach, Vouched, SameTrust, MatchesHost
<1>2. CASE located
  <2>1. \A e \in counted : Vouched(Records(file), e)
    BY <1>2, TrustSame DEF TofuInv, AcceptedKnown, Vouched
  <2> QED BY <1>1, <2>1 DEF TofuInv, FileHonest, OneKeyPerHost
<1>3. CASE ~located
  <2>1. \A e \in counted : \E t \in Threads : Vouched(Records(Cached(t)), e)
    BY <1>3 DEF TofuInv, AcceptedKnown
  <2>2. \A t \in Threads : OneKeyEach(Records(Cached(t)))
    BY <1>3 DEF TofuInv, CacheHonest
  <2>3. CASE Threads = {}
    BY <2>1, <2>3 DEF OneKeyPerHost, OneKeyEach
  <2>4. ASSUME NEW t \in Threads PROVE OneKeyEach(counted)
    <3>1. \A e \in counted : Vouched(Records(Cached(t)), e)
      BY <2>1, OneCache
    <3> QED BY <1>1, <2>2, <3>1
  <2> QED BY <2>3, <2>4 DEF OneKeyPerHost
<1> QED BY <1>2, <1>3

\* In one process, whatever the file was told to keep stays there until its host is
\* forgotten, and until then a host is accepted under one key (decide, forget): whichever
\* threads connect and forget at once, and whichever reads and writes fail.
THEOREM RecordsAreKept == SameProcess => (VerifierSpec => []RecordsKept)
<1> SUFFICES ASSUME SameProcess PROVE VerifierSpec => []RecordsKept
  OBVIOUS
<1>1. TofuInv => RecordsKept
  BY KeysAreOne DEF TofuInv, FileHonest, RecordsKept
<1> QED BY <1>1, TofuInit, TofuStep, PTL DEF VerifierSpec

\* In one process, a connect that runs while a host is being forgotten does not write the
\* removed record back (the mutex over the read, the decision and the write).
THEOREM ForgottenStaysSo == SameProcess => (VerifierSpec => []NoResurrection)
<1> SUFFICES ASSUME SameProcess PROVE VerifierSpec => []NoResurrection
  OBVIOUS
<1>1. TofuInv => NoResurrection
  BY DEF TofuInv, FileHonest
<1> QED BY <1>1, TofuInit, TofuStep, PTL DEF VerifierSpec

-----------------------------------------------------------------------------
(***************************************************************************)
(* The forwardings of the tabs of one profile.                             *)
(***************************************************************************)

-----------------------------------------------------------------------------
(* What a queue of events makes of the marks.                              *)

IsEvent(e) == e.kind \in {"opened", "failed"} \/ e = Final
Opens(e, x) == e.kind = "opened" /\ e.label = x

LEMMA OneEvent ==
    ASSUME NEW e, IsEvent(e), NEW ls, NEW x
    PROVE  /\ Opens(e, x) => SpeaksOf(e, x)
           /\ x \in Observe(ls, e) <=> (IF SpeaksOf(e, x) THEN Opens(e, x) ELSE x \in ls)
<1>1. CASE e = Final
  BY <1>1 DEF Final, Opens, SpeaksOf, Observe
<1>2. CASE e.kind = "opened"
  BY <1>2 DEF Final, Opens, SpeaksOf, Observe
<1>3. CASE e.kind = "failed"
  BY <1>3 DEF Final, Opens, SpeaksOf, Observe
<1> QED BY <1>1, <1>2, <1>3 DEF IsEvent

LEMMA MarksMember ==
    ASSUME NEW E, NEW q \in Seq(E), NEW ls, NEW x
    PROVE  x \in Marks(ls, q) <=>
               \/ x \in ls /\ \A i \in 1 .. Len(q) : ~SpeaksOf(q[i], x)
               \/ \E i \in 1 .. Len(q) :
                     Opens(q[i], x) /\ \A j \in 1 .. Len(q) : j > i => ~SpeaksOf(q[j], x)
<1>1. DOMAIN q = 1 .. Len(q)
  OBVIOUS
<1> QED BY <1>1 DEF Marks, Opens

LEMMA NothingQueued == ASSUME NEW ls PROVE Marks(ls, << >>) = ls
<1>1. << >> \in Seq({}) /\ Len(<< >>) = 0 /\ 1 .. 0 = {}
  OBVIOUS
<1>2. ASSUME NEW x PROVE x \in Marks(ls, << >>) <=> x \in ls
  BY <1>1, MarksMember
<1> QED BY <1>2

\* An event that joins the queue is one more to observe.
LEMMA OneMore ==
    ASSUME NEW E, NEW q \in Seq(E), NEW e \in E, IsEvent(e), NEW ls
    PROVE  Marks(ls, Append(q, e)) = Observe(Marks(ls, q), e)
<1> DEFINE more == Append(q, e)
<1>1. PICK n \in Nat : n = Len(q)
  OBVIOUS
<1>2. /\ more \in Seq(E) /\ Len(more) = n + 1 /\ more[n + 1] = e
      /\ \A i \in 1 .. n : more[i] = q[i]
  BY <1>1
<1>3. 1 .. n + 1 = 1 .. n \union {n + 1} /\ \A i \in 1 .. n : ~(i > n + 1) /\ n + 1 > i
  OBVIOUS
<1> HIDE DEF more
<1>4. ASSUME NEW x
      PROVE  x \in Marks(ls, more) <=> x \in Observe(Marks(ls, q), e)
  <2>1. x \in Marks(ls, more) <=>
            \/ x \in ls /\ \A i \in 1 .. n + 1 : ~SpeaksOf(more[i], x)
            \/ \E i \in 1 .. n + 1 :
                  Opens(more[i], x) /\ \A j \in 1 .. n + 1 : j > i => ~SpeaksOf(more[j], x)
    BY <1>2, MarksMember
  <2>2. x \in Marks(ls, q) <=>
            \/ x \in ls /\ \A i \in 1 .. n : ~SpeaksOf(q[i], x)
            \/ \E i \in 1 .. n :
                  Opens(q[i], x) /\ \A j \in 1 .. n : j > i => ~SpeaksOf(q[j], x)
    BY <1>1, MarksMember
  <2>3. /\ Opens(e, x) => SpeaksOf(e, x)
        /\ x \in Observe(Marks(ls, q), e) <=>
               (IF SpeaksOf(e, x) THEN Opens(e, x) ELSE x \in Marks(ls, q))
    BY OneEvent
  <2>4. CASE SpeaksOf(e, x)
    <3>1. x \in Marks(ls, more) <=> Opens(e, x)
      BY <1>2, <1>3, <2>1, <2>4
    <3> QED BY <2>3, <2>4, <3>1
  <2>5. CASE ~SpeaksOf(e, x)
    <3>1. x \in Marks(ls, more) <=> x \in Marks(ls, q)
      BY <1>2, <1>3, <2>1, <2>2, <2>3, <2>5
    <3> QED BY <2>3, <2>5, <3>1
  <2> QED BY <2>4, <2>5
<1> QED BY <1>4 DEF more

\* The first event of the queue can be observed at once.
LEMMA OneLess ==
    ASSUME NEW E, NEW q \in Seq(E), q # << >>, IsEvent(Head(q)), NEW ls
    PROVE  Marks(Observe(ls, Head(q)), Tail(q)) = Marks(ls, q)
<1> DEFINE e == Head(q)
           less == Tail(q)
<1>1. PICK m \in Nat : Len(q) = m + 1
  <2>1. Len(q) \in Nat /\ Len(q) # 0
    OBVIOUS
  <2>2. Len(q) - 1 \in Nat /\ Len(q) = (Len(q) - 1) + 1
    BY <2>1
  <2> QED BY <2>2
<1>2. /\ less \in Seq(E) /\ Len(less) = m /\ q[1] = e
      /\ \A i \in 1 .. m : less[i] = q[i + 1]
  BY <1>1
<1>3. /\ 1 .. m + 1 = {1} \union {i + 1 : i \in 1 .. m}
      /\ \A i \in 1 .. m : i + 1 > 1 /\ ~(1 > i + 1) /\ \A j \in 1 .. m : j + 1 > i + 1 <=> j > i
  <2>1. \A k \in 1 .. m + 1 : k = 1 \/ (k - 1 \in 1 .. m /\ k = (k - 1) + 1)
    OBVIOUS
  <2> QED BY <2>1
<1> HIDE DEF e, less
<1>4. ASSUME NEW x
      PROVE  x \in Marks(Observe(ls, e), less) <=> x \in Marks(ls, q)
  <2>1. x \in Marks(ls, q) <=>
            \/ x \in ls /\ \A i \in 1 .. m + 1 : ~SpeaksOf(q[i], x)
            \/ \E i \in 1 .. m + 1 :
                  Opens(q[i], x) /\ \A j \in 1 .. m + 1 : j > i => ~SpeaksOf(q[j], x)
    BY <1>1, MarksMember
  <2>2. x \in Marks(ls, q) <=>
            \/ x \in ls /\ ~SpeaksOf(e, x) /\ \A i \in 1 .. m : ~SpeaksOf(less[i], x)
            \/ Opens(e, x) /\ \A j \in 1 .. m : ~SpeaksOf(less[j], x)
            \/ \E i \in 1 .. m :
                  Opens(less[i], x) /\ \A j \in 1 .. m : j > i => ~SpeaksOf(less[j], x)
    <3> DEFINE S(j) == SpeaksOf(q[j], x)
               O(j) == Opens(q[j], x)
               T(i) == SpeaksOf(less[i], x)
               P(i) == Opens(less[i], x)
    <3>1. \A j \in 1 .. m + 1 : j = 1 \/ \E i \in 1 .. m : j = i + 1
      BY <1>3
    <3>2. \A i \in 1 .. m : i + 1 \in 1 .. m + 1 /\ (S(i + 1) <=> T(i)) /\ (O(i + 1) <=> P(i))
      BY <1>2
    <3>3. 1 \in 1 .. m + 1 /\ (S(1) <=> SpeaksOf(e, x)) /\ (O(1) <=> Opens(e, x))
      BY <1>2
    <3>8. \A i, j \in 1 .. m : i + 1 > 1 /\ ~(1 > i + 1) /\ (j + 1 > i + 1 <=> j > i)
      OBVIOUS
    <3> HIDE DEF S, O, T, P
    <3>4. (\A i \in 1 .. m + 1 : ~S(i)) <=> ~S(1) /\ \A i \in 1 .. m : ~T(i)
      BY <3>1, <3>2, <3>3
    <3>5. (\A j \in 1 .. m + 1 : j > 1 => ~S(j)) <=> \A j \in 1 .. m : ~T(j)
      BY <3>1, <3>2, <3>8
    <3>6. ASSUME NEW i \in 1 .. m
          PROVE  (\A j \in 1 .. m + 1 : j > i + 1 => ~S(j)) <=>
                     \A j \in 1 .. m : j > i => ~T(j)
      <4>1. ASSUME \A j \in 1 .. m + 1 : j > i + 1 => ~S(j), NEW j \in 1 .. m, j > i
            PROVE  ~T(j)
        BY <3>2, <3>8, <4>1
      <4>2. ASSUME \A j \in 1 .. m : j > i => ~T(j), NEW j \in 1 .. m + 1, j > i + 1
            PROVE  ~S(j)
        <5>1. PICK k \in 1 .. m : j = k + 1
          BY <3>1, <3>8, <4>2
        <5> QED BY <3>2, <3>8, <4>2, <5>1
      <4> QED BY <4>1, <4>2
    <3>7. (\E i \in 1 .. m + 1 : O(i) /\ \A j \in 1 .. m + 1 : j > i => ~S(j)) <=>
          \/ O(1) /\ \A j \in 1 .. m : ~T(j)
          \/ \E i \in 1 .. m : P(i) /\ \A j \in 1 .. m : j > i => ~T(j)
      <4>1. ASSUME NEW i \in 1 .. m + 1, O(i), \A j \in 1 .. m + 1 : j > i => ~S(j)
            PROVE  \/ O(1) /\ \A j \in 1 .. m : ~T(j)
                   \/ \E k \in 1 .. m : P(k) /\ \A j \in 1 .. m : j > k => ~T(j)
        <5>1. CASE i = 1
          BY <3>5, <4>1, <5>1
        <5>2. CASE \E k \in 1 .. m : i = k + 1
          BY <3>2, <3>6, <4>1, <5>2
        <5> QED BY <3>1, <5>1, <5>2
      <4>2. ASSUME NEW k \in 1 .. m, P(k), \A j \in 1 .. m : j > k => ~T(j)
            PROVE  \E i \in 1 .. m + 1 : O(i) /\ \A j \in 1 .. m + 1 : j > i => ~S(j)
        <5>1. k + 1 \in 1 .. m + 1 /\ O(k + 1)
          BY <3>2, <4>2
        <5> QED BY <3>6, <4>2, <5>1
      <4>3. ASSUME O(1), \A j \in 1 .. m : ~T(j)
            PROVE  \E i \in 1 .. m + 1 : O(i) /\ \A j \in 1 .. m + 1 : j > i => ~S(j)
        BY <3>3, <3>5, <4>3
      <4> QED BY <4>1, <4>2, <4>3
    <3> USE DEF S, O, T, P
    <3> QED BY <2>1, <3>3, <3>4, <3>7
  <2>3. x \in Marks(Observe(ls, e), less) <=>
            \/ x \in Observe(ls, e) /\ \A i \in 1 .. m : ~SpeaksOf(less[i], x)
            \/ \E i \in 1 .. m :
                  Opens(less[i], x) /\ \A j \in 1 .. m : j > i => ~SpeaksOf(less[j], x)
    BY <1>2, MarksMember
  <2>4. /\ Opens(e, x) => SpeaksOf(e, x)
        /\ x \in Observe(ls, e) <=> (IF SpeaksOf(e, x) THEN Opens(e, x) ELSE x \in ls)
    BY OneEvent DEF e
  <2> QED BY <2>2, <2>3, <2>4
<1> QED BY <1>4 DEF e, less
-----------------------------------------------------------------------------
(* The inductive invariant of the forwardings: the property, with where    *)
(* each listener belongs.                                                  *)

EventLabel == {Label[r] : r \in All} \union {Connection}
Event == [kind : {"opened", "failed"}, label : EventLabel] \union {Final}
Worker == [session : Tabs, asks : BOOLEAN,
           at : {"connecting", "opening", "running", "told", "gone"},
           rule : 0 .. Rules, events : Seq(Event)]
Listener == [worker : Nat, rule : All, errors : Nat]

TunnelShapes ==
    /\ workers \in Seq(Worker) /\ current \in [Tabs -> Nat]
    /\ DOMAIN labels = Tabs /\ labels = [s \in Tabs |-> labels[s]]
    /\ \A l \in listeners : l \in Listener /\ l.worker \in 1 .. Len(workers)
    /\ \A c \in conns : c.worker \in 1 .. Len(workers)

\* A session hears its own transport.
Currents ==
    \A s \in Tabs : current[s] # 0 =>
        current[s] \in 1 .. Len(workers) /\ workers[current[s]].session = s

\* Rules are bound in their order, and only a transport that was ready listens.
Listening ==
    /\ \A i \in 1 .. Len(workers) : workers[i].at \in {"connecting", "opening"} => workers[i].rule \in All
    /\ \A l \in listeners :
          /\ workers[l.worker].at \in {"opening", "running", "told"}
          /\ workers[l.worker].at = "opening" => l.rule < workers[l.worker].rule
    /\ \A l, k \in listeners : l.worker = k.worker /\ l.rule = k.rule => l = k

TunnelInv == TunnelShapes /\ Currents /\ Listening /\ MarksFollowListeners

MarksOf(i) == {Label[r] : r \in Held(i)}

LEMMA EventsAreEvents ==
    /\ \A e \in Event : IsEvent(e)
    /\ Final \in Event /\ Failed(Connection) \in Event
    /\ \A r \in All : Opened(r) \in Event /\ Failed(Label[r]) \in Event
<1>1. \A e \in Event : IsEvent(e)
  BY DEF Event, IsEvent
<1>2. Final \in Event /\ Failed(Connection) \in Event
  BY DEF Event, EventLabel, Failed
<1>3. ASSUME NEW r \in All PROVE Opened(r) \in Event /\ Failed(Label[r]) \in Event
  <2>1. Label[r] \in EventLabel
    BY DEF EventLabel
  <2> QED BY <2>1 DEF Event, Opened, Failed
<1> QED BY <1>1, <1>2, <1>3

LEMMA HeldMember ==
    ASSUME NEW i, NEW r
    PROVE  r \in Held(i) <=> \E l \in listeners : l.worker = i /\ l.rule = r
BY DEF Held

LEMMA WorkerFacts ==
    ASSUME TunnelInv, NEW i \in 1 .. Len(workers)
    PROVE  /\ workers[i] \in Worker
           /\ \A s \in Tabs : current[s] = i => workers[i].session = s
<1>1. workers[i] \in Worker
  BY DEF TunnelInv, TunnelShapes
<1>2. \A s \in Tabs : current[s] = i => workers[i].session = s
  BY DEF TunnelInv, Currents
<1> QED BY <1>1, <1>2

\* What the marks of a transport's own tab will be.
LEMMA MarksNow ==
    ASSUME TunnelInv, NEW s \in Tabs, current[s] # 0
    PROVE  Marks(labels[s], workers[current[s]].events) =
               IF workers[current[s]].at = "told" THEN {} ELSE MarksOf(current[s])
BY DEF TunnelInv, MarksFollowListeners, MarksOf

\* An event that is sent is one more to observe for the tab that hears it.
LEMMA WithFacts ==
    ASSUME TunnelInv, NEW i \in 1 .. Len(workers), NEW e \in Event, workers[i].at # "told"
    PROVE  /\ With(i, e) \in Worker
           /\ With(i, e).session = workers[i].session /\ With(i, e).at = workers[i].at
           /\ With(i, e).rule = workers[i].rule
           /\ \A s \in Tabs : current[s] = i =>
                 Marks(labels[s], With(i, e).events) = Observe(MarksOf(i), e)
<1> DEFINE w == workers[i]
           v == [w EXCEPT !.events = Append(@, e)]
<1>1. w \in Worker /\ \A s \in Tabs : current[s] = i => w.session = s
  BY WorkerFacts
<1>2. v \in Worker /\ v.session = w.session /\ v.at = w.at /\ v.rule = w.rule
      /\ v.events = Append(w.events, e)
  <2>1. w.events \in Seq(Event)
    BY <1>1 DEF Worker
  <2>2. Append(w.events, e) \in Seq(Event)
    BY <2>1
  <2> QED BY <1>1, <2>2 DEF Worker
<1>3. With(i, e) = IF current[w.session] = i THEN v ELSE w
  BY DEF With
<1> HIDE DEF v
<1>4. ASSUME NEW s \in Tabs, current[s] = i
      PROVE  Marks(labels[s], With(i, e).events) = Observe(MarksOf(i), e)
  <2>1. With(i, e) = v /\ i # 0
    BY <1>1, <1>3, <1>4
  <2>2. w.events \in Seq(Event) /\ IsEvent(e)
    BY <1>1, EventsAreEvents DEF Worker
  <2>3. Marks(labels[s], Append(w.events, e)) = Observe(Marks(labels[s], w.events), e)
    BY <2>2, OneMore
  <2>4. Marks(labels[s], w.events) = MarksOf(i)
    BY <1>4, <2>1, MarksNow
  <2> QED BY <1>2, <2>1, <2>3, <2>4
<1> QED BY <1>1, <1>2, <1>3, <1>4
-----------------------------------------------------------------------------
(* A transport's steps change one worker and its own listeners.            *)

LEMMA WorkerSteps ==
    ASSUME TunnelInv, NEW i \in 1 .. Len(workers), NEW w \in Worker,
           workers' = [workers EXCEPT ![i] = w], w.session = workers[i].session,
           UNCHANGED <<current, labels>>,
           w.at \in {"connecting", "opening"} => w.rule \in All,
           \A l \in listeners' : l \in Listener /\ l.worker \in 1 .. Len(workers),
           \A c \in conns' : c.worker \in 1 .. Len(workers),
           \A l \in listeners' : l.worker # i => \E k \in listeners : k.worker = l.worker /\ k.rule = l.rule,
           \A l \in listeners : l.worker # i => \E k \in listeners' : k.worker = l.worker /\ k.rule = l.rule,
           \A l \in listeners' : l.worker = i =>
               w.at \in {"opening", "running", "told"} /\ (w.at = "opening" => l.rule < w.rule),
           \A l, k \in listeners' : l.worker = k.worker /\ l.rule = k.rule => l = k,
           \A s \in Tabs : current[s] = i =>
               Marks(labels[s], w.events) = IF w.at = "told" THEN {} ELSE MarksOf(i)'
    PROVE  TunnelInv'
<1>1. /\ workers' \in Seq(Worker) /\ Len(workers') = Len(workers) /\ workers'[i] = w
      /\ \A j \in 1 .. Len(workers) : j # i => workers'[j] = workers[j]
  BY DEF TunnelInv, TunnelShapes
<1>2. TunnelShapes'
  BY <1>1 DEF TunnelInv, TunnelShapes
<1>3. Currents'
  BY <1>1 DEF TunnelInv, Currents
<1>4. Listening'
  <2>1. ASSUME NEW l \in listeners', l.worker # i
        PROVE  /\ workers'[l.worker].at \in {"opening", "running", "told"}
               /\ workers'[l.worker].at = "opening" => l.rule < workers'[l.worker].rule
    <3>1. PICK k \in listeners : k.worker = l.worker /\ k.rule = l.rule
      BY <2>1
    <3>2. workers'[l.worker] = workers[k.worker]
      BY <1>1, <2>1, <3>1
    <3> QED BY <3>1, <3>2 DEF TunnelInv, Listening
  <2>2. \A j \in 1 .. Len(workers) :
           workers'[j].at \in {"connecting", "opening"} => workers'[j].rule \in All
    BY <1>1 DEF TunnelInv, Listening
  <2> QED BY <1>1, <2>1, <2>2 DEF Listening
<1>5. MarksFollowListeners'
  <2> SUFFICES ASSUME NEW s \in Tabs, current[s] # 0
               PROVE  Marks(labels[s], workers'[current[s]].events) =
                          IF workers'[current[s]].at = "told" THEN {} ELSE MarksOf(current[s])'
    BY DEF MarksFollowListeners, MarksOf
  <2>1. CASE current[s] = i
    BY <1>1, <2>1
  <2>2. CASE current[s] # i
    <3>1. workers'[current[s]] = workers[current[s]]
      BY <1>1, <2>2 DEF TunnelInv, Currents
    <3>2. Held(current[s])' = Held(current[s])
      <4>1. \A r : r \in Held(current[s])' <=> r \in Held(current[s])
        BY <2>2 DEF Held
      <4> QED BY <4>1
    <3> QED BY <3>1, <3>2, MarksNow DEF MarksOf
  <2> QED BY <2>1, <2>2
<1> QED BY <1>2, <1>3, <1>4, <1>5 DEF TunnelInv

\* The transport moves on without a word, and its listeners stay.
LEMMA SilentSteps ==
    ASSUME TunnelInv, NEW i \in 1 .. Len(workers), NEW w \in Worker,
           workers' = [workers EXCEPT ![i] = w], w.session = workers[i].session,
           w.events = workers[i].events, w.rule = workers[i].rule, w.rule \in All,
           workers[i].at \notin {"told", "opening"}, w.at \in {"opening", "running"},
           w.at = "opening" => \A l \in listeners : l.worker # i,
           UNCHANGED <<current, labels, listeners, conns>>
    PROVE  TunnelInv'
<1>1. \A s \in Tabs : current[s] = i => Marks(labels[s], w.events) = MarksOf(i)
  <2>1. \A s \in Tabs : current[s] = i => current[s] # 0
    OBVIOUS
  <2> QED BY <2>1, MarksNow
<1>2. MarksOf(i)' = MarksOf(i)
  BY DEF MarksOf, Held
<1>3. w.at # "told"
  OBVIOUS
<1>4. \A s \in Tabs : current[s] = i =>
          Marks(labels[s], w.events) = IF w.at = "told" THEN {} ELSE MarksOf(i)'
  BY <1>1, <1>2, <1>3
<1>5. \A l \in listeners' : l \in Listener /\ l.worker \in 1 .. Len(workers)
  BY DEF TunnelInv, TunnelShapes
<1>6. \A c \in conns' : c.worker \in 1 .. Len(workers)
  BY DEF TunnelInv, TunnelShapes
<1>7. \A l \in listeners' : l.worker = i =>
          w.at \in {"opening", "running", "told"} /\ (w.at = "opening" => l.rule < w.rule)
  OBVIOUS
<1>8. \A l, k \in listeners' : l.worker = k.worker /\ l.rule = k.rule => l = k
  BY DEF TunnelInv, Listening
<1> QED BY <1>4, <1>5, <1>6, <1>7, <1>8, WorkerSteps

LEMMA ReadyKeeps ==
    ASSUME TunnelInv, NEW i \in 1 .. Len(workers), Ready(i) PROVE TunnelInv'
<1> DEFINE x == workers[i]
<1>1. PICK at \in {"opening", "running"} :
         workers' = [workers EXCEPT ![i] = [x EXCEPT !.at = at]]
  BY DEF Ready
<1> DEFINE w == [x EXCEPT !.at = at]
<1>2. x \in Worker /\ x.at = "connecting"
  BY WorkerFacts DEF Ready
<1>3. w \in Worker /\ w.session = x.session /\ w.events = x.events /\ w.rule = x.rule /\ w.at = at
  BY <1>2 DEF Worker
<1>4. \A l \in listeners : l.worker # i
  BY <1>2 DEF TunnelInv, Listening
<1>5. UNCHANGED <<current, labels, listeners, conns>>
  BY DEF Ready
<1> HIDE DEF w
<1>6. workers' = [workers EXCEPT ![i] = w]
  BY <1>1 DEF w
<1>7. x.at \notin {"told", "opening"} /\ w.at \in {"opening", "running"} /\ w.rule \in All
  BY <1>2, <1>3 DEF TunnelInv, Listening
<1> QED BY <1>3, <1>4, <1>5, <1>6, <1>7, SilentSteps

LEMMA ObservedMarks ==
    ASSUME TunnelInv, NEW i
    PROVE  /\ \A r \in All : Observe(MarksOf(i), Opened(r)) = MarksOf(i) \union {Label[r]}
           /\ \A r \in All : Observe(MarksOf(i), Failed(Label[r])) = {Label[k] : k \in Held(i) \ {r}}
           /\ Observe(MarksOf(i), Failed(Connection)) = MarksOf(i)
           /\ Observe(MarksOf(i), Final) = {}
<1>1. Held(i) \subseteq All
  BY HeldMember DEF TunnelInv, TunnelShapes, Listener
<1>2. \A r \in All : Observe(MarksOf(i), Opened(r)) = MarksOf(i) \union {Label[r]}
  BY DEF Observe, Opened
<1>3. \A r \in All : Observe(MarksOf(i), Failed(Label[r])) = {Label[k] : k \in Held(i) \ {r}}
  <2>1. ASSUME NEW r \in All PROVE MarksOf(i) \ {Label[r]} = {Label[k] : k \in Held(i) \ {r}}
    BY <1>1, TunnelsAssumption DEF MarksOf
  <2> QED BY <2>1 DEF Observe, Failed
<1>4. Observe(MarksOf(i), Failed(Connection)) = MarksOf(i)
  <2>1. Connection \notin MarksOf(i)
    BY <1>1, TunnelsAssumption DEF MarksOf
  <2> QED BY <2>1 DEF Observe, Failed
<1>5. Observe(MarksOf(i), Final) = {}
  BY DEF Observe, Final
<1> QED BY <1>2, <1>3, <1>4, <1>5

LEMMA BindKeeps ==
    ASSUME TunnelInv, NEW i \in 1 .. Len(workers), Bind(i) PROVE TunnelInv'
<1> DEFINE x == workers[i]
           r == x.rule
           on(w) == [w EXCEPT !.rule = IF r = Rules THEN 0 ELSE r + 1,
                              !.at = IF r = Rules THEN "running" ELSE @]
<1>1. x \in Worker /\ x.at = "opening" /\ r \in All /\ UNCHANGED <<current, labels, conns>>
  BY WorkerFacts DEF Bind, TunnelInv, Listening
<1>2. ASSUME NEW e \in Event
      PROVE  LET w == on(With(i, e))
             IN /\ w \in Worker /\ w.session = x.session /\ w.at \in {"opening", "running"}
                /\ w.at = "opening" => w.rule = r + 1 /\ w.rule \in All
                /\ \A s \in Tabs : current[s] = i => Marks(labels[s], w.events) = Observe(MarksOf(i), e)
  <2> DEFINE v == With(i, e)
  <2>1. /\ v \in Worker /\ v.session = x.session /\ v.at = x.at /\ v.rule = x.rule
        /\ \A s \in Tabs : current[s] = i => Marks(labels[s], v.events) = Observe(MarksOf(i), e)
    BY <1>1, WithFacts
  <2> HIDE DEF v
  <2>2. CASE r = Rules
    <3> DEFINE w == [v EXCEPT !.rule = 0, !.at = "running"]
    <3>1. on(v) = w
      BY <2>2
    <3>2. w \in Worker /\ w.session = v.session /\ w.at = "running" /\ w.events = v.events
      <4>1. 0 \in 0 .. Rules
        BY TunnelsAssumption
      <4> QED BY <2>1, <4>1 DEF Worker
    <3> HIDE DEF w
    <3> QED BY <2>1, <3>1, <3>2 DEF v
  <2>3. CASE r # Rules
    <3>1. PICK n \in All : n = r + 1
      BY <1>1, <2>3, TunnelsAssumption DEF All
    <3> DEFINE w == [v EXCEPT !.rule = n]
    <3>2. w \in Worker /\ w.session = v.session /\ w.at = v.at /\ w.rule = n /\ w.events = v.events
      <4>1. n \in 0 .. Rules
        BY TunnelsAssumption DEF All
      <4> QED BY <2>1, <4>1 DEF Worker
    <3>3. on(v) = w
      <4>1. on(v) = [v EXCEPT !.rule = n, !.at = v.at]
        BY <2>3, <3>1
      <4> QED BY <2>1, <4>1 DEF Worker
    <3> QED BY <1>1, <2>1, <3>1, <3>2, <3>3 DEF v
  <2> QED BY <2>2, <2>3 DEF v
<1>3. \A l \in listeners : l.worker = i => l.rule < r
  BY <1>1 DEF TunnelInv, Listening
<1>4. ASSUME NEW l \in listeners
      PROVE  /\ l \in Listener /\ l.worker \in 1 .. Len(workers)
             /\ \A k \in listeners : l.worker = k.worker /\ l.rule = k.rule => l = k
  BY DEF TunnelInv, TunnelShapes, Listening
<1>5. \A c \in conns' : c.worker \in 1 .. Len(workers)
  BY <1>1 DEF TunnelInv, TunnelShapes
<1> DEFINE w(e) == on(With(i, e))
           new == [worker |-> i, rule |-> r, errors |-> 0]
<1>6. CASE /\ listeners' = listeners \union {new}
           /\ workers' = [workers EXCEPT ![i] = w(Opened(r))]
  <2>1. Opened(r) \in Event
    BY <1>1, EventsAreEvents
  <2>2. new \in Listener /\ new.worker = i /\ new.rule = r
    BY <1>1 DEF Listener
  <2> HIDE DEF new
  <2>3. MarksOf(i)' = MarksOf(i) \union {Label[r]}
    <3>1. Held(i)' = Held(i) \union {r}
      BY <1>6, <2>2 DEF Held
    <3> QED BY <3>1 DEF MarksOf
  <2>4. /\ w(Opened(r)) \in Worker /\ w(Opened(r)).session = x.session
        /\ w(Opened(r)).at \in {"opening", "running"}
        /\ w(Opened(r)).at = "opening" => w(Opened(r)).rule = r + 1 /\ w(Opened(r)).rule \in All
        /\ \A s \in Tabs : current[s] = i => Marks(labels[s], w(Opened(r)).events) = MarksOf(i)'
    BY <1>1, <1>2, <2>1, <2>3, ObservedMarks
  <2> HIDE DEF w
  <2>5. \A l \in listeners' : l \in Listener /\ l.worker \in 1 .. Len(workers)
    BY <1>4, <1>6, <2>2
  <2>6. \A l \in listeners' : l.worker # i => l \in listeners
    BY <1>6, <2>2
  <2>7. \A l \in listeners' : l.worker = i => l.rule < r + 1
    <3>1. \A l \in listeners : l.rule \in Int
      BY <1>4 DEF Listener, All
    <3>2. r \in Int
      BY <1>1 DEF All
    <3> QED BY <1>3, <1>6, <2>2, <3>1, <3>2
  <2>8. \A l, k \in listeners' : l.worker = k.worker /\ l.rule = k.rule => l = k
    <3>1. \A l \in listeners : l.worker = i => l.rule # r
      BY <1>1, <1>3 DEF All
    <3> QED BY <1>4, <1>6, <2>2, <3>1
  <2>9. /\ \A l \in listeners' : l.worker # i =>
               \E k \in listeners : k.worker = l.worker /\ k.rule = l.rule
        /\ \A l \in listeners : l.worker # i =>
               \E k \in listeners' : k.worker = l.worker /\ k.rule = l.rule
    BY <1>6, <2>6
  <2>10. \A l \in listeners' : l.worker = i =>
             /\ w(Opened(r)).at \in {"opening", "running", "told"}
             /\ w(Opened(r)).at = "opening" => l.rule < w(Opened(r)).rule
    BY <2>4, <2>7
  <2>11. \A s \in Tabs : current[s] = i =>
             Marks(labels[s], w(Opened(r)).events) =
                 IF w(Opened(r)).at = "told" THEN {} ELSE MarksOf(i)'
    BY <2>4
  <2>12. w(Opened(r)).at \in {"connecting", "opening"} => w(Opened(r)).rule \in All
    BY <2>4
  <2> QED BY <1>1, <1>5, <1>6, <2>4, <2>5, <2>8, <2>9, <2>10, <2>11, <2>12, WorkerSteps
<1>7. CASE workers' = [workers EXCEPT ![i] = w(Failed(Label[r]))] /\ UNCHANGED listeners
  <2>1. Failed(Label[r]) \in Event
    BY <1>1, EventsAreEvents
  <2>2. Held(i) \ {r} = Held(i) /\ MarksOf(i)' = MarksOf(i)
    <3>1. r \notin Held(i)
      BY <1>1, <1>3, HeldMember DEF All
    <3> QED BY <1>7, <3>1 DEF MarksOf, Held
  <2>3. Observe(MarksOf(i), Failed(Label[r])) = MarksOf(i)'
    BY <1>1, <2>2, ObservedMarks DEF MarksOf
  <2>4. /\ w(Failed(Label[r])) \in Worker /\ w(Failed(Label[r])).session = x.session
        /\ w(Failed(Label[r])).at \in {"opening", "running"}
        /\ w(Failed(Label[r])).at = "opening" =>
               w(Failed(Label[r])).rule = r + 1 /\ w(Failed(Label[r])).rule \in All
        /\ \A s \in Tabs : current[s] = i =>
               Marks(labels[s], w(Failed(Label[r])).events) = MarksOf(i)'
    BY <1>2, <2>1, <2>3
  <2> HIDE DEF w
  <2>5. \A l \in listeners : l.worker = i => l.rule < r + 1
    <3>1. \A l \in listeners : l.rule \in Int
      BY <1>4 DEF Listener, All
    <3>2. r \in Int
      BY <1>1 DEF All
    <3> QED BY <1>3, <3>1, <3>2
  <2> QED BY <1>1, <1>4, <1>5, <1>7, <2>4, <2>5, WorkerSteps
<1> QED BY <1>6, <1>7, Zenon DEF Bind

LEMMA EndKeeps ==
    ASSUME TunnelInv, NEW i \in 1 .. Len(workers), End(i) PROVE TunnelInv'
<1> DEFINE v == With(i, Final)
           w == [v EXCEPT !.at = "told"]
<1>1. workers[i].at \in {"connecting", "running"} /\ UNCHANGED <<current, labels, listeners, conns>>
  BY DEF End
<1>2. /\ v \in Worker /\ v.session = workers[i].session /\ v.rule = workers[i].rule
      /\ \A s \in Tabs : current[s] = i => Marks(labels[s], v.events) = {}
  BY <1>1, WithFacts, EventsAreEvents, ObservedMarks
<1>3. workers' = [workers EXCEPT ![i] = w]
  BY DEF End
<1> HIDE DEF v
<1>4. w \in Worker /\ w.session = v.session /\ w.at = "told" /\ w.events = v.events
  BY <1>2 DEF Worker
<1> HIDE DEF w
<1>5. \A l \in listeners : l \in Listener /\ l.worker \in 1 .. Len(workers)
  BY DEF TunnelInv, TunnelShapes
<1>6. \A c \in conns : c.worker \in 1 .. Len(workers)
  BY DEF TunnelInv, TunnelShapes
<1>7. \A l, k \in listeners : l.worker = k.worker /\ l.rule = k.rule => l = k
  BY DEF TunnelInv, Listening
<1> QED BY <1>1, <1>2, <1>3, <1>4, <1>5, <1>6, <1>7, WorkerSteps

LEMMA DropRuntimeKeeps ==
    ASSUME TunnelInv, NEW i \in 1 .. Len(workers), DropRuntime(i) PROVE TunnelInv'
<1> DEFINE x == workers[i]
           w == [x EXCEPT !.at = "gone"]
<1>1. x \in Worker /\ x.at = "told" /\ UNCHANGED <<current, labels>>
  BY WorkerFacts DEF DropRuntime
<1>2. /\ workers' = [workers EXCEPT ![i] = w] /\ listeners' = {l \in listeners : l.worker # i}
      /\ conns' \subseteq conns
  BY DEF DropRuntime
<1>3. w \in Worker /\ w.session = x.session /\ w.at = "gone" /\ w.events = x.events
  BY <1>1 DEF Worker
<1> HIDE DEF w
<1>4. MarksOf(i)' = {}
  <2>1. Held(i)' = {}
    BY <1>2 DEF Held
  <2> QED BY <2>1 DEF MarksOf
<1>5. \A s \in Tabs : current[s] = i => Marks(labels[s], w.events) = {}
  <2>1. i # 0
    OBVIOUS
  <2> QED BY <1>1, <1>3, <2>1, MarksNow
<1>6. \A l \in listeners : l \in Listener /\ l.worker \in 1 .. Len(workers)
  BY DEF TunnelInv, TunnelShapes
<1>7. \A c \in conns' : c.worker \in 1 .. Len(workers)
  BY <1>2 DEF TunnelInv, TunnelShapes
<1>8. \A l, k \in listeners : l.worker = k.worker /\ l.rule = k.rule => l = k
  BY DEF TunnelInv, Listening
<1>9. \A l \in listeners' : l \in listeners /\ l.worker # i
  BY <1>2
<1>10. \A l \in listeners : l.worker # i => l \in listeners'
  BY <1>2
<1> QED BY <1>1, <1>2, <1>3, <1>4, <1>5, <1>6, <1>7, <1>8, <1>9, <1>10, WorkerSteps

-----------------------------------------------------------------------------
(* Listeners and connections.                                              *)

\* A worker that is left as it is, and its listeners too but for their failures.
LEMMA QuietSteps ==
    ASSUME TunnelInv, UNCHANGED <<workers, current, labels>>,
           \A l \in listeners' : l \in Listener /\ \E k \in listeners : k.worker = l.worker /\ k.rule = l.rule,
           \A l \in listeners : \E k \in listeners' : k.worker = l.worker /\ k.rule = l.rule,
           \A l, k \in listeners' : l.worker = k.worker /\ l.rule = k.rule => l = k,
           \A c \in conns' : c.worker \in 1 .. Len(workers)
    PROVE  TunnelInv'
<1>1. \A l \in listeners' : l.worker \in 1 .. Len(workers)
  BY DEF TunnelInv, TunnelShapes
<1>2. TunnelShapes' /\ Currents'
  BY <1>1 DEF TunnelInv, TunnelShapes, Currents
<1>3. Listening'
  BY DEF TunnelInv, Listening
<1>4. ASSUME NEW i PROVE Held(i)' = Held(i)
  <2>1. \A r : r \in Held(i)' <=> r \in Held(i)
    BY DEF Held
  <2> QED BY <2>1
<1>5. MarksFollowListeners'
  BY <1>4 DEF TunnelInv, MarksFollowListeners
<1> QED BY <1>2, <1>3, <1>5 DEF TunnelInv

LEMMA ListenerFacts ==
    ASSUME TunnelInv, NEW l \in listeners
    PROVE  /\ l \in Listener /\ l.worker \in 1 .. Len(workers) /\ l.rule \in All
           /\ workers[l.worker].at \in {"opening", "running", "told"}
           /\ \A k \in listeners : k.worker = l.worker /\ k.rule = l.rule => k = l
<1>1. l \in Listener /\ l.worker \in 1 .. Len(workers)
  BY DEF TunnelInv, TunnelShapes
<1> QED BY <1>1 DEF TunnelInv, Listening, Listener

\* A listener counts its failures: the socket is the same.
LEMMA CountedSteps ==
    ASSUME TunnelInv, NEW l \in listeners, NEW n \in Nat,
           listeners' = (listeners \ {l}) \union {[l EXCEPT !.errors = n]},
           UNCHANGED <<workers, current, labels>>,
           \A c \in conns' : c.worker \in 1 .. Len(workers)
    PROVE  TunnelInv'
<1> DEFINE m == [l EXCEPT !.errors = n]
<1>1. m \in Listener /\ m.worker = l.worker /\ m.rule = l.rule
  BY ListenerFacts DEF Listener
<1> HIDE DEF m
<1>2. listeners' = (listeners \ {l}) \union {m}
  BY DEF m
<1>3. \A k \in listeners : k \in Listener
  BY ListenerFacts
<1>4. \A k, j \in listeners : k.worker = j.worker /\ k.rule = j.rule => k = j
  BY ListenerFacts
<1>5. \A k \in listeners' : k \in Listener /\ \E j \in listeners : j.worker = k.worker /\ j.rule = k.rule
  BY <1>1, <1>2, <1>3
<1>6. \A k \in listeners : \E j \in listeners' : j.worker = k.worker /\ j.rule = k.rule
  BY <1>1, <1>2
<1>7. \A k, j \in listeners' : k.worker = j.worker /\ k.rule = j.rule => k = j
  BY <1>1, <1>2, <1>4
<1> QED BY <1>5, <1>6, <1>7, QuietSteps

LEMMA AcceptKeeps ==
    ASSUME TunnelInv, NEW l \in listeners, Accept(l) PROVE TunnelInv'
<1> DEFINE c == [number |-> clients', worker |-> l.worker, rule |-> l.rule,
                 at |-> IF l.rule \in Dynamic THEN "greeting" ELSE "opening"]
<1>1. /\ listeners' = (listeners \ {l}) \union {[l EXCEPT !.errors = 0]}
      /\ conns' = conns \union {c} /\ UNCHANGED <<workers, current, labels>>
  BY DEF Accept
<1>2. c.worker \in 1 .. Len(workers)
  BY ListenerFacts
<1> HIDE DEF c
<1>3. \A k \in conns' : k.worker \in 1 .. Len(workers)
  BY <1>1, <1>2 DEF TunnelInv, TunnelShapes
<1> QED BY <1>1, <1>3, CountedSteps

LEMMA AcceptFailsKeeps ==
    ASSUME TunnelInv, NEW l \in listeners, Runs(l.worker), AcceptFails(l) PROVE TunnelInv'
<1>1. /\ l \in Listener /\ l.worker \in 1 .. Len(workers) /\ l.rule \in All
      /\ workers[l.worker].at \in {"opening", "running"}
      /\ \A k \in listeners : k.worker = l.worker /\ k.rule = l.rule => k = l
  BY ListenerFacts DEF Runs
<1>2. UNCHANGED <<current, labels, conns>>
  BY DEF AcceptFails
<1>3. CASE /\ listeners' = (listeners \ {l}) \union {[l EXCEPT !.errors = @ + 1]}
           /\ UNCHANGED workers
  <2>1. PICK n \in Nat : n = l.errors + 1
    BY <1>1 DEF Listener
  <2>2. listeners' = (listeners \ {l}) \union {[l EXCEPT !.errors = n]}
    BY <1>3, <2>1
  <2>3. \A c \in conns' : c.worker \in 1 .. Len(workers)
    BY <1>2 DEF TunnelInv, TunnelShapes
  <2> QED BY <1>2, <1>3, <2>2, <2>3, CountedSteps
<1>4. CASE /\ listeners' = listeners \ {l}
           /\ GiveUp(l.worker, Failed(Label[l.rule]))
  <2> DEFINE i == l.worker
             w == With(i, Failed(Label[l.rule]))
  <2>1. workers' = [workers EXCEPT ![i] = w]
    BY <1>4 DEF GiveUp, Emit
  <2>2. Failed(Label[l.rule]) \in Event /\ workers[i].at # "told"
    BY <1>1, EventsAreEvents
  <2>3. /\ w \in Worker /\ w.session = workers[i].session /\ w.at = workers[i].at
        /\ w.rule = workers[i].rule
        /\ \A s \in Tabs : current[s] = i =>
              Marks(labels[s], w.events) = {Label[k] : k \in Held(i) \ {l.rule}}
    <3>1. i \in 1 .. Len(workers)
      BY <1>1
    <3>2. /\ w \in Worker /\ w.session = workers[i].session /\ w.at = workers[i].at
          /\ w.rule = workers[i].rule
          /\ \A s \in Tabs : current[s] = i =>
                Marks(labels[s], w.events) = Observe(MarksOf(i), Failed(Label[l.rule]))
      BY <2>2, <3>1, WithFacts
    <3> HIDE DEF w
    <3>3. Observe(MarksOf(i), Failed(Label[l.rule])) = {Label[k] : k \in Held(i) \ {l.rule}}
      BY <1>1, ObservedMarks
    <3> QED BY <3>2, <3>3
  <2> HIDE DEF w
  <2>4. MarksOf(i)' = {Label[k] : k \in Held(i) \ {l.rule}}
    <3>1. \A r : r \in Held(i)' <=> r \in Held(i) /\ r # l.rule
      BY <1>1, <1>4, HeldMember DEF Held
    <3>2. Held(i)' = Held(i) \ {l.rule}
      BY <3>1
    <3> QED BY <3>2 DEF MarksOf
  <2>5. /\ \A k \in listeners : k \in Listener /\ k.worker \in 1 .. Len(workers)
        /\ \A k, j \in listeners : k.worker = j.worker /\ k.rule = j.rule => k = j
    BY ListenerFacts
  <2>6. \A k \in listeners : k.worker = i =>
            w.at \in {"opening", "running", "told"} /\ (w.at = "opening" => k.rule < w.rule)
    BY <2>3 DEF TunnelInv, Listening
  <2>7. \A c \in conns' : c.worker \in 1 .. Len(workers)
    BY <1>2 DEF TunnelInv, TunnelShapes
  <2>8. w.at \in {"connecting", "opening"} => w.rule \in All
    BY <1>1, <2>3 DEF TunnelInv, Listening
  <2>9. \A k \in listeners' : k \in listeners
    BY <1>4
  <2>10. \A k \in listeners : k.worker # i => k \in listeners'
    BY <1>4
  <2>11. \A s \in Tabs : current[s] = i =>
             Marks(labels[s], w.events) = IF w.at = "told" THEN {} ELSE MarksOf(i)'
    BY <2>2, <2>3, <2>4
  <2>12. i \in 1 .. Len(workers)
    BY <1>1
  <2>13. /\ \A k \in listeners' : k \in Listener /\ k.worker \in 1 .. Len(workers)
         /\ \A k, j \in listeners' : k.worker = j.worker /\ k.rule = j.rule => k = j
         /\ \A k \in listeners' : k.worker = i =>
               w.at \in {"opening", "running", "told"} /\ (w.at = "opening" => k.rule < w.rule)
    BY <2>5, <2>6, <2>9
  <2>14. UNCHANGED <<current, labels>>
    BY <1>2
  <2> HIDE DEF i
  <2> QED BY <2>1, <2>3, <2>7, <2>8, <2>9, <2>10, <2>11, <2>12, <2>13, <2>14, WorkerSteps
<1> QED BY <1>3, <1>4, Zenon DEF AcceptFails

\* A connection comes and goes; only its refusal says something.
LEMMA CarryKeeps ==
    ASSUME TunnelInv, NEW c \in conns, Runs(c.worker), Carry(c) PROVE TunnelInv'
<1>1. c.worker \in 1 .. Len(workers) /\ \A k \in conns : k.worker \in 1 .. Len(workers)
  BY DEF TunnelInv, TunnelShapes
<1>2. UNCHANGED <<current, labels, listeners>>
      /\ \A k \in conns' : \E j \in conns : k.worker = j.worker
  <2>1. CASE conns' = conns \ {c}
    BY <2>1 DEF Carry, Greeting, Forwarded, Refused
  <2>2. CASE conns' = (conns \ {c}) \union {[c EXCEPT !.at = "opening"]}
    <3>1. [c EXCEPT !.at = "opening"].worker = c.worker
      OBVIOUS
    <3> QED BY <2>2, <3>1 DEF Carry, Greeting, Forwarded, Refused
  <2> QED BY <2>1, <2>2 DEF Carry, Greeting, Forwarded, Refused, ConnOver
<1>3. \A k \in conns' : k.worker \in 1 .. Len(workers)
  BY <1>1, <1>2
<1>4. /\ \A l \in listeners : l \in Listener /\ l.worker \in 1 .. Len(workers)
      /\ \A k, l \in listeners : k.worker = l.worker /\ k.rule = l.rule => k = l
  BY ListenerFacts
<1>5. CASE UNCHANGED workers
  BY <1>2, <1>3, <1>4, <1>5, QuietSteps
<1>6. CASE Emit(c.worker, Failed(Connection))
  <2> DEFINE i == c.worker
             w == With(i, Failed(Connection))
  <2>1. workers' = [workers EXCEPT ![i] = w]
    BY <1>6 DEF Emit
  <2>2. Failed(Connection) \in Event /\ workers[i].at # "told"
    BY EventsAreEvents DEF Runs
  <2>3. /\ w \in Worker /\ w.session = workers[i].session /\ w.at = workers[i].at
        /\ w.rule = workers[i].rule
        /\ \A s \in Tabs : current[s] = i => Marks(labels[s], w.events) = MarksOf(i)
    BY <1>1, <2>2, WithFacts, ObservedMarks
  <2> HIDE DEF w
  <2>4. MarksOf(i)' = MarksOf(i)
    BY <1>2 DEF MarksOf, Held
  <2>5. \A k \in listeners : k.worker = i =>
            w.at \in {"opening", "running", "told"} /\ (w.at = "opening" => k.rule < w.rule)
    BY <2>3 DEF TunnelInv, Listening
  <2>6. w.at \in {"connecting", "opening"} => w.rule \in All
    BY <1>1, <2>3 DEF TunnelInv, Listening
  <2>7. \A s \in Tabs : current[s] = i =>
            Marks(labels[s], w.events) = IF w.at = "told" THEN {} ELSE MarksOf(i)'
    BY <2>2, <2>3, <2>4
  <2>8. i \in 1 .. Len(workers)
    BY <1>1
  <2> HIDE DEF i
  <2> QED BY <1>2, <1>3, <1>4, <2>1, <2>3, <2>5, <2>6, <2>7, <2>8, WorkerSteps
<1> QED BY <1>5, <1>6 DEF Carry, Greeting, Forwarded, Refused
-----------------------------------------------------------------------------
(* What the tab does.                                                      *)

\* The transport of a tab is let go of: another tab's is another.
LEMMA SilencedFacts ==
    ASSUME TunnelInv, NEW s \in Tabs
    PROVE  /\ Silenced(s) \in Seq(Worker) /\ Len(Silenced(s)) = Len(workers)
           /\ \A i \in 1 .. Len(workers) :
                 /\ Silenced(s)[i].session = workers[i].session /\ Silenced(s)[i].at = workers[i].at
                 /\ Silenced(s)[i].rule = workers[i].rule
                 /\ i # current[s] => Silenced(s)[i] = workers[i]
<1>1. workers \in Seq(Worker)
  BY DEF TunnelInv, TunnelShapes
<1>2. CASE current[s] = 0
  BY <1>1, <1>2 DEF Silenced
<1>3. CASE current[s] # 0
  <2> DEFINE i == current[s]
             w == [workers[i] EXCEPT !.events = << >>]
  <2>1. i \in 1 .. Len(workers)
    BY <1>3 DEF TunnelInv, Currents
  <2>2. w \in Worker /\ w.session = workers[i].session /\ w.at = workers[i].at /\ w.rule = workers[i].rule
    <3>1. << >> \in Seq(Event) /\ workers[i] \in Worker
      BY <1>1, <2>1
    <3> QED BY <3>1 DEF Worker
  <2>3. Silenced(s) = [workers EXCEPT ![i] = w]
    BY <1>3 DEF Silenced
  <2> HIDE DEF w
  <2> QED BY <1>1, <2>1, <2>2, <2>3
<1> QED BY <1>2, <1>3

\* Nothing is said of the tabs that hear another transport.
LEMMA OtherTabs ==
    ASSUME TunnelInv, NEW s \in Tabs, NEW t \in Tabs, t # s, current[t] # 0
    PROVE  /\ current[t] # current[s] /\ current[t] \in 1 .. Len(workers)
           /\ workers[current[t]].session = t
BY DEF TunnelInv, Currents

LEMMA StartKeeps ==
    ASSUME TunnelInv, NEW s \in Tabs, Start(s) PROVE TunnelInv'
<1> DEFINE quiet == Silenced(s)
<1>0. Free(s) \in BOOLEAN
  BY Zenon DEF Free
<1>1. PICK asks \in BOOLEAN :
         workers' = Append(quiet, [session |-> s, asks |-> asks, at |-> "connecting",
                                   rule |-> 1, events |-> << >>])
  BY <1>0, Zenon DEF Start
<1> DEFINE new == [session |-> s, asks |-> asks, at |-> "connecting", rule |-> 1, events |-> << >>]
<1>2. PICK n \in Nat : n = Len(workers)
  BY DEF TunnelInv, TunnelShapes
<1>3. /\ quiet \in Seq(Worker) /\ Len(quiet) = n
      /\ \A i \in 1 .. n :
            /\ quiet[i].session = workers[i].session /\ quiet[i].at = workers[i].at
            /\ quiet[i].rule = workers[i].rule
            /\ i # current[s] => quiet[i] = workers[i]
  BY <1>2, SilencedFacts
<1>4. new \in Worker /\ new.session = s /\ new.events = << >> /\ new.at = "connecting" /\ new.rule = 1
  <2>1. 1 \in 0 .. Rules /\ << >> \in Seq(Event)
    BY TunnelsAssumption
  <2> QED BY <2>1 DEF Worker
<1> HIDE DEF quiet, new
<1>5. /\ workers' \in Seq(Worker) /\ Len(workers') = n + 1 /\ workers'[n + 1] = new
      /\ \A i \in 1 .. n : workers'[i] = quiet[i]
  BY <1>1, <1>3, <1>4 DEF new
<1>6. /\ current' = [current EXCEPT ![s] = n + 1] /\ labels' = [labels EXCEPT ![s] = {}]
      /\ UNCHANGED <<listeners, conns>>
  BY <1>5 DEF Start
<1>7. TunnelShapes'
  <2>1. current' \in [Tabs -> Nat] /\ DOMAIN labels' = Tabs /\ labels' = [t \in Tabs |-> labels'[t]]
    <3>1. n + 1 \in Nat
      OBVIOUS
    <3>2. current' \in [Tabs -> Nat]
      BY <1>6, <3>1 DEF TunnelInv, TunnelShapes
    <3>3. DOMAIN labels' = Tabs /\ labels' = [t \in Tabs |-> labels'[t]]
      BY <1>6 DEF TunnelInv, TunnelShapes
    <3> QED BY <3>2, <3>3
  <2>2. \A i \in 1 .. n : i \in 1 .. n + 1
    OBVIOUS
  <2> QED BY <1>2, <1>5, <1>6, <2>1, <2>2 DEF TunnelInv, TunnelShapes
<1>8. current'[s] = n + 1 /\ labels'[s] = {}
      /\ \A t \in Tabs : t # s => current'[t] = current[t] /\ labels'[t] = labels[t]
  BY <1>6 DEF TunnelInv, TunnelShapes
<1>9. ASSUME NEW t \in Tabs, t # s, current[t] # 0
      PROVE  /\ current[t] \in 1 .. n /\ workers'[current[t]] = workers[current[t]]
             /\ workers[current[t]].session = t
  BY <1>2, <1>3, <1>5, <1>9, OtherTabs
<1>10. Currents'
  <2>1. n + 1 \in 1 .. n + 1 /\ \A i \in 1 .. n : i \in 1 .. n + 1
    OBVIOUS
  <2> QED BY <1>4, <1>5, <1>8, <1>9, <2>1 DEF Currents
<1>11. Listening'
  <2>1. \A i \in 1 .. n + 1 :
            workers'[i].at \in {"connecting", "opening"} => workers'[i].rule \in All
    <3>1. 1 \in All /\ \A i \in 1 .. n + 1 : i \in 1 .. n \/ i = n + 1
      BY TunnelsAssumption DEF All
    <3> QED BY <1>2, <1>3, <1>4, <1>5, <3>1 DEF TunnelInv, Listening
  <2>2. \A l \in listeners : l.worker \in 1 .. n
    BY <1>2 DEF TunnelInv, TunnelShapes
  <2> QED BY <1>3, <1>5, <1>6, <2>1, <2>2 DEF TunnelInv, Listening
<1>12. MarksFollowListeners'
  <2>1. Held(n + 1)' = {}
    <3>1. \A l \in listeners : l.worker # n + 1
      BY <1>2 DEF TunnelInv, TunnelShapes
    <3> QED BY <1>6, <3>1 DEF Held
  <2>2. Marks(labels'[s], workers'[n + 1].events) = {}
    BY <1>4, <1>5, <1>8, NothingQueued
  <2>3. ASSUME NEW t \in Tabs, t # s, current[t] # 0
        PROVE  Marks(labels'[t], workers'[current[t]].events) =
                   IF workers'[current[t]].at = "told" THEN {} ELSE {Label[r] : r \in Held(current[t])'}
    <3>1. Held(current[t])' = Held(current[t])
      BY <1>6, <1>8, <2>3 DEF Held
    <3> QED BY <1>8, <1>9, <2>3, <3>1, MarksNow DEF MarksOf
  <2>4. {Label[r] : r \in Held(n + 1)'} = {}
    BY <2>1
  <2>5. ASSUME NEW t \in Tabs, current'[t] # 0
        PROVE  Marks(labels'[t], workers'[current'[t]].events) =
                   IF workers'[current'[t]].at = "told" THEN {} ELSE {Label[r] : r \in Held(current[t])'}
    <3>1. CASE t = s
      <4>1. Held(current[t])' = Held(n + 1)'
        BY <1>8, <3>1 DEF Held
      <4> QED BY <1>4, <1>5, <1>8, <2>2, <2>4, <3>1, <4>1
    <3>2. CASE t # s
      BY <1>8, <2>3, <2>5, <3>2
    <3> QED BY <3>1, <3>2
  <2> QED BY <2>5 DEF MarksFollowListeners
<1> QED BY <1>7, <1>10, <1>11, <1>12 DEF TunnelInv

LEMMA DisconnectKeeps ==
    ASSUME TunnelInv, NEW s \in Tabs, Disconnect(s) PROVE TunnelInv'
<1>1. /\ workers' = Silenced(s) /\ current' = [current EXCEPT ![s] = 0]
      /\ labels' = [labels EXCEPT ![s] = {}] /\ UNCHANGED <<listeners, conns>>
  BY DEF Disconnect
<1>2. PICK n \in Nat : n = Len(workers)
  BY DEF TunnelInv, TunnelShapes
<1>3. /\ workers' \in Seq(Worker) /\ Len(workers') = n
      /\ \A i \in 1 .. n :
            /\ workers'[i].session = workers[i].session /\ workers'[i].at = workers[i].at
            /\ workers'[i].rule = workers[i].rule
            /\ i # current[s] => workers'[i] = workers[i]
  BY <1>1, <1>2, SilencedFacts
<1>4. current'[s] = 0
      /\ \A t \in Tabs : t # s => current'[t] = current[t] /\ labels'[t] = labels[t]
  BY <1>1 DEF TunnelInv, TunnelShapes
<1>5. TunnelShapes'
  <2>1. current' \in [Tabs -> Nat] /\ DOMAIN labels' = Tabs /\ labels' = [t \in Tabs |-> labels'[t]]
    BY <1>1 DEF TunnelInv, TunnelShapes
  <2> QED BY <1>1, <1>2, <1>3, <2>1 DEF TunnelInv, TunnelShapes
<1>6. ASSUME NEW t \in Tabs, t # s, current[t] # 0
      PROVE  /\ current[t] \in 1 .. n /\ workers'[current[t]] = workers[current[t]]
             /\ workers[current[t]].session = t
  BY <1>2, <1>3, <1>6, OtherTabs
<1>7. Currents'
  BY <1>3, <1>4, <1>6 DEF Currents
<1>8. Listening'
  <2>1. \A l \in listeners : l.worker \in 1 .. n
    BY <1>2 DEF TunnelInv, TunnelShapes
  <2> QED BY <1>1, <1>2, <1>3, <2>1 DEF TunnelInv, Listening
<1>9. MarksFollowListeners'
  <2>1. ASSUME NEW t \in Tabs, t # s, current[t] # 0
        PROVE  Marks(labels'[t], workers'[current[t]].events) =
                   IF workers'[current[t]].at = "told" THEN {} ELSE {Label[r] : r \in Held(current[t])'}
    <3>1. Held(current[t])' = Held(current[t])
      BY <1>1, <1>4, <2>1 DEF Held
    <3> QED BY <1>4, <1>6, <2>1, <3>1, MarksNow DEF MarksOf
  <2> QED BY <1>4, <2>1 DEF MarksFollowListeners
<1> QED BY <1>5, <1>7, <1>8, <1>9 DEF TunnelInv

LEMMA HandleKeeps ==
    ASSUME TunnelInv, NEW s \in Tabs, Handle(s) PROVE TunnelInv'
<1> DEFINE i == current[s]
           x == workers[i]
           e == Head(x.events)
           w == [x EXCEPT !.events = Tail(@)]
<1>1. /\ i # 0 /\ x.events # << >> /\ workers' = [workers EXCEPT ![i] = w]
      /\ labels' = [labels EXCEPT ![s] = Observe(@, e)]
      /\ current' = [current EXCEPT ![s] = IF e = Final THEN 0 ELSE @]
      /\ UNCHANGED <<listeners, conns>>
  BY DEF Handle
<1>2. i \in 1 .. Len(workers) /\ x \in Worker /\ x.session = s
  BY <1>1, WorkerFacts DEF TunnelInv, Currents
<1>3. e \in Event /\ Tail(x.events) \in Seq(Event) /\ x.events \in Seq(Event)
  BY <1>1, <1>2 DEF Worker
<1>4. /\ w \in Worker /\ w.session = s /\ w.at = x.at /\ w.rule = x.rule
      /\ w.events = Tail(x.events)
  BY <1>2, <1>3 DEF Worker
<1>5. Marks(Observe(labels[s], e), w.events) = IF w.at = "told" THEN {} ELSE MarksOf(i)
  <2>1. Marks(Observe(labels[s], e), Tail(x.events)) = Marks(labels[s], x.events)
    BY <1>1, <1>3, OneLess, EventsAreEvents
  <2>2. Marks(labels[s], x.events) = IF x.at = "told" THEN {} ELSE MarksOf(i)
    BY <1>1, MarksNow
  <2> QED BY <1>4, <2>1, <2>2
<1> HIDE DEF w, e
<1>6. PICK n \in Nat : n = Len(workers)
  BY DEF TunnelInv, TunnelShapes
<1>7. /\ workers' \in Seq(Worker) /\ Len(workers') = n /\ workers'[i] = w
      /\ \A j \in 1 .. n : j # i => workers'[j] = workers[j]
  BY <1>1, <1>2, <1>4, <1>6 DEF TunnelInv, TunnelShapes
<1>8. /\ labels'[s] = Observe(labels[s], e) /\ current'[s] \in {0, i}
      /\ \A t \in Tabs : t # s => current'[t] = current[t] /\ labels'[t] = labels[t]
  BY <1>1 DEF TunnelInv, TunnelShapes
<1>9. TunnelShapes'
  <2>1. current' \in [Tabs -> Nat]
    BY <1>1 DEF TunnelInv, TunnelShapes
  <2>2. DOMAIN labels' = Tabs /\ labels' = [t \in Tabs |-> labels'[t]]
    BY <1>1 DEF TunnelInv, TunnelShapes
  <2> QED BY <1>1, <1>6, <1>7, <2>1, <2>2 DEF TunnelInv, TunnelShapes
<1>10. ASSUME NEW t \in Tabs, t # s, current[t] # 0
       PROVE  /\ current[t] \in 1 .. n /\ workers'[current[t]] = workers[current[t]]
              /\ workers[current[t]].session = t
  BY <1>6, <1>7, <1>10, OtherTabs
<1>11. Currents'
  BY <1>2, <1>4, <1>6, <1>7, <1>8, <1>10 DEF Currents
<1>12. Listening'
  <2>1. \A j \in 1 .. n : workers'[j].at = workers[j].at /\ workers'[j].rule = workers[j].rule
    BY <1>4, <1>7
  <2>2. \A l \in listeners : l.worker \in 1 .. n
    BY <1>6 DEF TunnelInv, TunnelShapes
  <2> QED BY <1>1, <1>6, <1>7, <2>1, <2>2 DEF TunnelInv, Listening
<1>13. MarksFollowListeners'
  <2> SUFFICES ASSUME NEW t \in Tabs, current'[t] # 0
               PROVE  Marks(labels'[t], workers'[current'[t]].events) =
                   IF workers'[current'[t]].at = "told" THEN {} ELSE {Label[r] : r \in Held(current[t])'}
    BY DEF MarksFollowListeners
  <2>1. current'[t] = current[t]
    BY <1>8
  <2>2. Held(current[t])' = Held(current[t])
    BY <1>1, <2>1 DEF Held
  <2>3. CASE t = s
    BY <1>5, <1>7, <1>8, <2>1, <2>2, <2>3 DEF MarksOf
  <2>4. CASE t # s
    <3>1. labels'[t] = labels[t] /\ workers'[current'[t]] = workers[current[t]]
      BY <1>8, <1>10, <2>1, <2>4
    <3>2. Marks(labels[t], workers[current[t]].events) =
              IF workers[current[t]].at = "told" THEN {} ELSE MarksOf(current[t])
      BY <2>1, MarksNow
    <3> QED BY <2>2, <3>1, <3>2 DEF MarksOf
  <2> QED BY <2>3, <2>4
<1> QED BY <1>9, <1>11, <1>12, <1>13 DEF TunnelInv
-----------------------------------------------------------------------------
(* The theorem on the forwardings.                                         *)

LEMMA TunnelsStart == TunnelsInit => TunnelInv
<1> SUFFICES ASSUME TunnelsInit PROVE TunnelInv
  OBVIOUS
<1>1. workers = << >> /\ << >> \in Seq(Worker) /\ Len(<< >>) = 0 /\ 1 .. 0 = {}
  BY DEF TunnelsInit
<1>2. current = [s \in Tabs |-> 0] /\ labels = [s \in Tabs |-> {}] /\ listeners = {} /\ conns = {}
  BY DEF TunnelsInit
<1> QED BY <1>1, <1>2 DEF TunnelInv, TunnelShapes, Currents, Listening, MarksFollowListeners

LEMMA TunnelsStep == TunnelInv /\ [TunnelsNext]_tunnelVars => TunnelInv'
<1>1. ASSUME TunnelInv, UNCHANGED tunnelVars PROVE TunnelInv'
  <2>1. UNCHANGED <<workers, current, labels, listeners, conns>>
    BY <1>1 DEF tunnelVars
  <2>2. TunnelShapes' /\ Currents' /\ Listening'
    BY <1>1, <2>1 DEF TunnelInv, TunnelShapes, Currents, Listening
  <2>3. MarksFollowListeners'
    BY <1>1, <2>1 DEF TunnelInv, MarksFollowListeners, Held
  <2> QED BY <2>2, <2>3 DEF TunnelInv
<1>2. ASSUME TunnelInv, TunnelsNext PROVE TunnelInv'
  BY <1>2, StartKeeps, DisconnectKeeps, HandleKeeps, ReadyKeeps, BindKeeps, EndKeeps,
     DropRuntimeKeeps, AcceptKeeps, AcceptFailsKeeps, CarryKeeps
  DEF TunnelsNext, Transport
<1> QED BY <1>1, <1>2

\* For any number of tabs, rules and transports, however their events are delayed and
\* whatever connections fail: the marks a tab will show once it has heard its events
\* are the ports its transport listens on, and none after its last word
\* (tunnel.rs open and accept_loop, OpenTunnels::observe).
THEOREM MarksAreOfListeners == TunnelsSpec => []MarksFollowListeners
<1>1. TunnelInv => MarksFollowListeners
  BY DEF TunnelInv
<1> QED BY <1>1, TunnelsStart, TunnelsStep, PTL DEF TunnelsSpec
=============================================================================
