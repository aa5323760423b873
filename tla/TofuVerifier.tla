---------------------------- MODULE TofuVerifier ----------------------------
(***************************************************************************)
(* The trust-on-first-use policy of crates/rulogman-app/src/verifier.rs:   *)
(* the connects and forgets of one or more rulogman processes over one     *)
(* known_hosts file.  Each process has one verifier, whose mutex is held   *)
(* for a whole read-decide-write cycle; nothing locks the file itself, so  *)
(* the read, the decision and the write are steps of their own.            *)
(***************************************************************************)
EXTENDS KnownHosts

CONSTANTS
    Threads,      \* session threads, and the executor that forgets
    Processes,
    ProcessOf,    \* the process of a thread
    InitialFiles, \* what the file may hold at first
    ReadMayFail, WriteMayFail,
    MaxCalls      \* bound: calls of decide and forget

NoHolder == "none"

ASSUME TofuAssumption ==
    /\ NoHolder \notin Threads
    /\ ProcessOf \in [Threads -> Processes]
    /\ InitialFiles \subseteq Seq(Record)
    /\ ReadMayFail \in BOOLEAN /\ WriteMayFail \in BOOLEAN
    /\ MaxCalls \in Nat

VARIABLES
    located,   \* TofuVerifier.path is Some
    file,      \* the records of the file
    cache,     \* TofuVerifier.known_hosts, of each process
    lock,      \* who holds its mutex
    step,      \* where each call stands
    call,      \* the host, and the key presented
    fresh,     \* the local copy of forget
    writable,  \* the local of decide: the file was read just now
    calls,     \* calls so far
    original,  \* ghost: records on file at first and not forgotten since
    recorded,  \* ghost: records the file was told to keep, not forgotten
    forgotten, \* ghost: records forgotten and not recorded since
    accepted,  \* ghost: entries accepted, not forgotten
    runOnly    \* ghost: those of them that could not be recorded

verifierVars == <<located, file, cache, lock, step, call, fresh, writable, calls,
          original, recorded, forgotten, accepted, runOnly>>
ghosts == <<original, recorded, forgotten, accepted, runOnly>>

VerifierInit ==
    /\ located \in BOOLEAN
    /\ file \in InitialFiles
    /\ \/ cache = [p \in Processes |-> IF located THEN file ELSE << >>]
       \/ ReadMayFail /\ cache = [p \in Processes |-> << >>]
    /\ lock = [p \in Processes |-> NoHolder]
    /\ step = [t \in Threads |-> "idle"]
    /\ call \in [Threads -> {Entry(h, k) : h \in {CHOOSE h \in Hosts : TRUE},
                                           k \in {CHOOSE k \in Keys : TRUE}}]
    /\ fresh = [t \in Threads |-> << >>]
    /\ writable = [t \in Threads |-> FALSE]
    /\ calls = 0
    /\ original = Records(file) /\ recorded = Records(file)
    /\ forgotten = {} /\ accepted = {} /\ runOnly = {}

Goto(t, label) == step' = [step EXCEPT ![t] = label]
Unlock(t) == lock' = [lock EXCEPT ![ProcessOf[t]] = NoHolder]
Cached(t) == cache[ProcessOf[t]]
SetCache(t, entries) == cache' = [cache EXCEPT ![ProcessOf[t]] = entries]

\* A session presents a key, or the user asks for a host to be forgotten.
Call(t) ==
    /\ step[t] = "idle"
    /\ calls < MaxCalls
    /\ calls' = calls + 1
    /\ \/ \E h \in Hosts, k \in Keys :
             call' = [call EXCEPT ![t] = Entry(h, k)] /\ Goto(t, "decide")
       \/ \E h \in Hosts :
             call' = [call EXCEPT ![t].host = h] /\ Goto(t, "forget")
    /\ UNCHANGED <<located, file, cache, lock, fresh, writable, ghosts>>

MutexIgnored(t) == TRUE \* mutant
MutexFree(t) == lock[ProcessOf[t]] = NoHolder

Lock(t) ==
    /\ step[t] \in {"decide", "forget"}
    /\ MutexFree(t)
    /\ lock' = [lock EXCEPT ![ProcessOf[t]] = t]
    /\ Goto(t, IF step[t] = "decide" THEN "decide locked" ELSE "forget locked")
    /\ UNCHANGED <<located, file, cache, call, fresh, writable, calls, ghosts>>
-----------------------------------------------------------------------------
(* decide                                                                  *)

\* load_from: only a file read just now may be written back.
Read(t) ==
    /\ step[t] = "decide locked"
    /\ Goto(t, "rule")
    /\ \/ /\ located
          /\ SetCache(t, file)
          /\ writable' = [writable EXCEPT ![t] = TRUE]
       \/ /\ ~located \/ ReadMayFail
          /\ writable' = [writable EXCEPT ![t] = FALSE]
          /\ UNCHANGED cache
    /\ UNCHANGED <<located, file, lock, call, fresh, calls, ghosts>>

\* mutant: the cached copy is written back as well
WritesCached(t) == located
Writes(t) == writable[t]

Rule(t) ==
    LET c == call[t]
        status == Status(Cached(t), c.host, c.key)
    IN  /\ step[t] = "rule"
        /\ \/ /\ status = "unknown" /\ Writes(t)
              /\ SetCache(t, Trust(Cached(t), c.host, c.key))
              /\ Goto(t, "save")
              /\ UNCHANGED <<lock, accepted, runOnly>>
           \/ /\ status = "unknown" /\ ~Writes(t)
              /\ SetCache(t, Trust(Cached(t), c.host, c.key))
              /\ accepted' = accepted \cup {c}
              /\ runOnly' = runOnly \cup {c}
              /\ Goto(t, "idle") /\ Unlock(t)
           \/ /\ status = "trusted"
              /\ accepted' = accepted \cup {c}
              /\ Goto(t, "idle") /\ Unlock(t)
              /\ UNCHANGED <<cache, runOnly>>
           \/ /\ status = "mismatch"
              /\ Goto(t, "idle") /\ Unlock(t)
              /\ UNCHANGED <<cache, accepted, runOnly>>
        /\ UNCHANGED <<located, file, call, fresh, writable, calls, original,
                       recorded, forgotten>>

\* One host, under any spelling, and one key.
SameTrust(a, b) == MatchesHost(a, b.host) /\ a.key = b.key

\* save_to; the key is accepted whether or not it can be written.
Save(t) ==
    /\ step[t] = "save"
    /\ \/ /\ file' = Cached(t)
          /\ recorded' = recorded \cup {call[t]}
          /\ forgotten' = forgotten \ {call[t]}
          /\ runOnly' = {e \in runOnly : ~SameTrust(e, call[t])}
       \/ /\ WriteMayFail
          /\ runOnly' = runOnly \cup {call[t]}
          /\ UNCHANGED <<file, recorded, forgotten>>
    /\ accepted' = accepted \cup {call[t]}
    /\ Goto(t, "idle") /\ Unlock(t)
    /\ UNCHANGED <<located, cache, call, fresh, writable, calls, original>>
-----------------------------------------------------------------------------
(* forget                                                                  *)

\* Everything known of a host, under any spelling.
Of(S, h) == {e \in S : MatchesHost(e, h)}

Drop(h) ==
    /\ original' = original \ Of(original, h)
    /\ recorded' = recorded \ Of(recorded, h)
    /\ accepted' = accepted \ Of(accepted, h)
    /\ runOnly' = runOnly \ Of(runOnly, h)
    /\ forgotten' = forgotten \cup Of(recorded, h)

\* Without a location, the cache is the whole database.
ForgetCached(t) ==
    /\ step[t] = "forget locked"
    /\ ~located
    /\ SetCache(t, Forget(Cached(t), call[t].host))
    /\ accepted' = accepted \ Of(accepted, call[t].host)
    /\ runOnly' = runOnly \ Of(runOnly, call[t].host)
    /\ Goto(t, "idle") /\ Unlock(t)
    /\ UNCHANGED <<located, file, call, fresh, writable, calls, original,
                   recorded, forgotten>>

ForgetRead(t) ==
    /\ step[t] = "forget locked"
    /\ located
    /\ \/ /\ fresh' = [fresh EXCEPT ![t] = Forget(file, call[t].host)]
          /\ Goto(t, "forget save")
          /\ UNCHANGED lock
       \/ /\ ReadMayFail
          /\ Goto(t, "idle") /\ Unlock(t)
          /\ UNCHANGED fresh
    /\ UNCHANGED <<located, file, cache, call, writable, calls, ghosts>>

ForgetSave(t) ==
    /\ step[t] = "forget save"
    /\ \/ /\ file' = fresh[t]
          /\ SetCache(t, fresh[t])
          /\ Drop(call[t].host)
       \/ /\ WriteMayFail
          /\ UNCHANGED <<file, cache, ghosts>>
    /\ Goto(t, "idle") /\ Unlock(t)
    /\ UNCHANGED <<located, call, fresh, writable, calls>>
-----------------------------------------------------------------------------
CallsOver ==
    /\ calls = MaxCalls
    /\ \A t \in Threads : step[t] = "idle"
    /\ UNCHANGED verifierVars

VerifierNext ==
    \/ \E t \in Threads :
          \/ Call(t) \/ Lock(t) \/ Read(t) \/ Rule(t) \/ Save(t)
          \/ ForgetCached(t) \/ ForgetRead(t) \/ ForgetSave(t)
    \/ CallsOver
VerifierSpec == VerifierInit /\ [][VerifierNext]_verifierVars

-----------------------------------------------------------------------------
VerifierTypeOK ==
    /\ located \in BOOLEAN
    /\ file \in Seq(Record)
    /\ cache \in [Processes -> Seq(Record)]
    /\ lock \in [Processes -> Threads \cup {NoHolder}]
    /\ call \in [Threads -> Record]
    /\ writable \in [Threads -> BOOLEAN]
    /\ \A t \in Threads :
          step[t] \in {"decide locked", "rule", "save", "forget locked",
                       "forget save"} => lock[ProcessOf[t]] = t

\* A record the file was told to keep stays there until its host is forgotten,
\* whatever connects and forgets run at the same time and whichever reads and
\* writes fail.  verifier.rs:24 "concurrent connects ... cannot drop each
\* other's new records".
NoRecordLost == recorded \subseteq Records(file)

\* A connect that runs while a host is being forgotten does not write the
\* removed record back.
NoResurrection == forgotten \cap Records(file) = {}

\* Of these acceptances no two are of one host under different keys, unless
\* the file listed several to begin with.
OneKeyEach(entries) ==
    \A a, b \in entries :
        MatchesHost(a, b.host) =>
            \/ a.key = b.key
            \/ \E x, y \in original :
                  /\ MatchesHost(x, a.host) /\ x.key = a.key
                  /\ MatchesHost(y, a.host) /\ y.key = b.key

\* Until it is forgotten a host is accepted under one key only, whatever reads
\* and writes fail, counting the keys that were recorded; without a location
\* the cache is the whole record, and every key counts.
OneKeyPerHost ==
    OneKeyEach({e \in accepted : located => \A r \in runOnly : ~SameTrust(e, r)})

\* verifier.rs:55 "The last copy read from `path`, plus keys trusted for this
\* run only": also a key that could not be written is the host's only one.
RunOnlyTrustKept == OneKeyEach(accepted)
\* The file keeps what it was told, and a host keeps its key (decide, forget).
RecordsKept == VerifierTypeOK /\ NoRecordLost /\ OneKeyPerHost
=============================================================================
