---------------------------- MODULE OutputStream ----------------------------
(***************************************************************************)
(* The byte-bounded event channel of crates/rulogman-stream: State and     *)
(* Shared, Sender (send, control, finish, clone, drop) and Receiver        *)
(* (next_batch, poll_next, try_recv, drop).                                *)
(*                                                                         *)
(* Everything done under the mutex is one step.  Everything done outside   *)
(* it is a step of its own: registering a listener or the reader's waker   *)
(* before the lock is taken, and waking the reader or notifying the        *)
(* writers after it is released.                                           *)
(***************************************************************************)
EXTENDS Integers, Sequences, FiniteSets

CONSTANTS Producers,    \* the Sender handles that may ever exist
          Capacity,     \* bytes of data the queue may hold
          Weights,      \* sizes of the data events producers send
          BatchEvents,  \* BATCH_EVENTS
          BatchBytes,   \* BATCH_BYTES
          MaxIssued     \* bound: data and control events issued in a behaviour

ASSUME ProducersAssumption == Producers # {} /\ IsFiniteSet(Producers)
ASSUME SizesAssumption ==
    /\ Capacity \in Nat \ {0}
    /\ Weights \subseteq Nat
    /\ BatchEvents \in Nat \ {0}
    /\ BatchBytes \in Nat
    /\ MaxIssued \in Nat

VARIABLES
    queue,      \* events waiting for the consumer
    bytes,      \* bytes of data in the queue
    closed,     \* no further event is accepted
    senders,    \* live Sender handles, as counted by the code
    handle,     \* handle[p]: "fresh", "held" or "dropped"
    pc,         \* pc[p]: where the operation of handle p stands
    want,       \* want[p]: size of the event p is sending
    notified,   \* notified[p]: the listener of p was notified
    reader,     \* where the consumer stands
    waker,      \* a waker is registered in `readable`
    woken,      \* the consumer's task was woken
    sent,       \* history: the events accepted, in order
    received,   \* history: the events handed to the consumer, in order
    issued      \* history, for the bound MaxIssued

producerVars == <<handle, pc, want, notified>>
readerVars == <<reader, waker, woken>>
vars == <<queue, bytes, closed, senders, producerVars, readerVars, sent,
          received, issued>>

\* `upto` is the running total of bytes the stream had accepted with this
\* event: the weight of any run of queued events is a difference of totals.
Event == [from : Producers, kind : {"data", "control", "final"},
          bytes : Nat, upto : Nat]

Total == IF sent = << >> THEN 0 ELSE sent[Len(sent)].upto

EventOf(p, kind, size) ==
    [from |-> p, kind |-> kind, bytes |-> size, upto |-> Total + size]

\* Mutants: a control event jumps the queue; an event is not accounted for.
PublishUrgent(e) ==
    /\ queue' = IF e.bytes = 0 THEN <<e>> \o queue ELSE Append(queue, e)
    /\ sent' = Append(sent, e)
    /\ bytes' = bytes + e.bytes
PublishUncounted(e) ==
    queue' = Append(queue, e) /\ sent' = Append(sent, e) /\ bytes' = bytes

Publish(e) ==
    /\ queue' = Append(queue, e)
    /\ sent' = Append(sent, e)
    /\ bytes' = bytes + e.bytes

Idle(p) == handle[p] = "held" /\ pc[p] = "idle"
Goto(p, l) == pc' = [pc EXCEPT ![p] = l]
Keep == UNCHANGED <<queue, bytes, sent>>
-----------------------------------------------------------------------------
Init ==
    /\ queue = << >> /\ bytes = 0 /\ closed = FALSE /\ senders = 1
    /\ \E p \in Producers :
          handle = [q \in Producers |-> IF q = p THEN "held" ELSE "fresh"]
    /\ pc = [p \in Producers |-> "idle"]
    /\ want = [p \in Producers |-> 0]
    /\ notified = [p \in Producers |-> FALSE]
    /\ reader = "idle" /\ waker = FALSE /\ woken = FALSE
    /\ sent = << >> /\ received = << >> /\ issued = 0

(***************************************************************************)
(* Senders.                                                                *)
(***************************************************************************)
Clone(p, q) ==
    /\ Idle(p)
    /\ handle[q] = "fresh"
    /\ handle' = [handle EXCEPT ![q] = "held"]
    /\ senders' = senders + 1
    /\ Keep
    /\ UNCHANGED <<closed, pc, want, notified, readerVars, received, issued>>

\* send: an oversized event is refused at once; otherwise the listener is
\* registered before the queue is looked at.
BeginSend(p, size) ==
    /\ Idle(p)
    /\ issued < MaxIssued
    /\ size <= Capacity
    /\ issued' = issued + 1
    /\ want' = [want EXCEPT ![p] = size]
    /\ notified' = [notified EXCEPT ![p] = FALSE]
    /\ Goto(p, "listening")
    /\ Keep
    /\ UNCHANGED <<closed, senders, handle, readerVars, received>>

\* send, under the lock: refused, queued, or parked on the listener.
TrySend(p) ==
    /\ pc[p] = "listening"
    /\ \/ /\ closed
          /\ Goto(p, "idle")
          /\ Keep
       \/ /\ ~closed
          /\ bytes + want[p] <= Capacity
          /\ Publish(EventOf(p, "data", want[p]))
          /\ Goto(p, "wake")
       \/ /\ ~closed
          /\ bytes + want[p] > Capacity
          /\ Goto(p, "parked")
          /\ Keep
    /\ UNCHANGED <<closed, senders, handle, want, notified, readerVars,
                   received, issued>>

\* writable.await returns and the loop registers a new listener.
Resume(p) ==
    /\ pc[p] = "parked"
    /\ notified[p]
    /\ notified' = [notified EXCEPT ![p] = FALSE]
    /\ Goto(p, "listening")
    /\ Keep
    /\ UNCHANGED <<closed, senders, handle, want, readerVars, received, issued>>

\* The future of a waiting send is dropped.
CancelSend(p) ==
    /\ pc[p] = "parked"
    /\ Goto(p, "idle")
    /\ Keep
    /\ UNCHANGED <<closed, senders, handle, want, notified, readerVars,
                   received, issued>>

\* Mutant: control does not look whether the stream has ended.
ControlUnchecked(p) ==
    /\ Idle(p)
    /\ issued < MaxIssued
    /\ issued' = issued + 1
    /\ Publish(EventOf(p, "control", 0))
    /\ Goto(p, "wake")
    /\ UNCHANGED <<closed, senders, handle, want, notified, readerVars, received>>

Control(p) ==
    /\ Idle(p)
    /\ ~closed
    /\ issued < MaxIssued
    /\ issued' = issued + 1
    /\ Publish(EventOf(p, "control", 0))
    /\ Goto(p, "wake")
    /\ UNCHANGED <<closed, senders, handle, want, notified, readerVars, received>>

\* Mutant: finish wakes the reader and forgets the writers.
FinishSilently(p) ==
    /\ Idle(p)
    /\ ~closed
    /\ closed' = TRUE
    /\ Publish(EventOf(p, "final", 0))
    /\ Goto(p, "wake")
    /\ UNCHANGED <<senders, handle, want, notified, readerVars, received, issued>>

Finish(p) ==
    /\ Idle(p)
    /\ ~closed
    /\ closed' = TRUE
    /\ Publish(EventOf(p, "final", 0))
    /\ Goto(p, "wakeNotify")
    /\ UNCHANGED <<senders, handle, want, notified, readerVars, received, issued>>

DropSender(p) ==
    /\ Idle(p)
    /\ handle' = [handle EXCEPT ![p] = "dropped"]
    /\ senders' = senders - 1
    /\ closed' = (closed \/ senders = 1)
    /\ Goto(p, "wakeNotify")
    /\ Keep
    /\ UNCHANGED <<want, notified, readerVars, received, issued>>

\* Mutant: the reader's waker counts only once the reader sleeps, as if it
\* were registered after the queue was found empty.
WakeSleeperOnly(p) ==
    /\ pc[p] \in {"wake", "wakeNotify"}
    /\ woken' = (woken \/ (waker /\ reader = "parked"))
    /\ waker' = FALSE
    /\ Goto(p, IF pc[p] = "wake" THEN "idle" ELSE "notify")
    /\ Keep
    /\ UNCHANGED <<closed, senders, handle, want, notified, reader, received,
                   issued>>

\* readable.wake(): takes the registered waker, if there is one.
WakeReader(p) ==
    /\ pc[p] \in {"wake", "wakeNotify"}
    /\ woken' = (woken \/ waker)
    /\ waker' = FALSE
    /\ Goto(p, IF pc[p] = "wake" THEN "idle" ELSE "notify")
    /\ Keep
    /\ UNCHANGED <<closed, senders, handle, want, notified, reader, received,
                   issued>>

\* Mutant: the listener is registered after the lock is released, so a
\* notification may find it missing.
NotifyRegistered ==
    \E late \in SUBSET {q \in Producers : pc[q] = "parked"} :
        notified' = [q \in Producers |->
                        notified[q] \/ (pc[q] = "parked" /\ q \notin late)]

\* writable.notify(usize::MAX): every listener registered by now.
NotifyAll ==
    notified' = [q \in Producers |->
                    notified[q] \/ pc[q] \in {"listening", "parked"}]

NotifyWriters(p) ==
    /\ pc[p] = "notify"
    /\ NotifyAll
    /\ Goto(p, "idle")
    /\ Keep
    /\ UNCHANGED <<closed, senders, handle, want, readerVars, received, issued>>
-----------------------------------------------------------------------------
\* Mutant: a batch gives back every byte ever accepted.
PrefixTotal(n) == queue[n].upto

(***************************************************************************)
(* The receiver.                                                           *)
(***************************************************************************)
PrefixBytes(n) == queue[n].upto - queue[1].upto + queue[1].bytes

\* The first event always fits a batch; the next ones within both limits.
FitsBatch(n) ==
    /\ n <= BatchEvents
    /\ n = 1 \/ PrefixBytes(n) <= BatchBytes

Take(n) ==
    /\ received' = received \o SubSeq(queue, 1, n)
    /\ queue' = SubSeq(queue, n + 1, Len(queue))
    /\ bytes' = bytes - PrefixBytes(n)
    /\ reader' = "notify"
    /\ UNCHANGED <<closed, senders, producerVars, waker, woken, sent, issued>>

\* A poll of next_batch or of the stream registers the waker first.
BeginPoll ==
    /\ reader \in {"idle", "parked"}
    /\ reader = "parked" => woken
    /\ reader' = "registered"
    /\ waker' = TRUE
    /\ woken' = FALSE
    /\ Keep
    /\ UNCHANGED <<closed, senders, producerVars, received, issued>>

\* poll_fn of next_batch
TakeBatch ==
    /\ reader = "registered"
    /\ \E n \in 1 .. Len(queue) :
          /\ FitsBatch(n)
          /\ ~(n < Len(queue) /\ FitsBatch(n + 1))
          /\ Take(n)

\* poll_next, or try_recv, which registers nothing
TakeOne ==
    /\ reader \in {"registered", "idle"}
    /\ queue # << >>
    /\ Take(1)

\* Mutant: an empty queue is always taken for a pending one.
PollPending ==
    /\ reader = "registered"
    /\ queue = << >>
    /\ reader' = "parked"
    /\ Keep
    /\ UNCHANGED <<closed, senders, producerVars, waker, woken, received, issued>>

\* Nothing queued: the end of the stream, or pending.
PollEmpty ==
    /\ reader = "registered"
    /\ queue = << >>
    /\ reader' = IF closed THEN "ended" ELSE "parked"
    /\ Keep
    /\ UNCHANGED <<closed, senders, producerVars, waker, woken, received, issued>>

\* A pending read is dropped by its caller's select!.
CancelRead ==
    /\ reader = "parked"
    /\ reader' = "idle"
    /\ Keep
    /\ UNCHANGED <<closed, senders, producerVars, waker, woken, received, issued>>

ReaderNotifies ==
    /\ reader \in {"notify", "dropping"}
    /\ reader' = IF reader = "notify" THEN "idle" ELSE "dropped"
    /\ NotifyAll
    /\ Keep
    /\ UNCHANGED <<closed, senders, handle, pc, want, waker, woken, received,
                   issued>>

\* Mutant: a dropped receiver leaves the stream open.
DropReceiverOpen ==
    /\ reader \in {"idle", "parked", "ended"}
    /\ reader' = "dropping"
    /\ queue' = << >>
    /\ bytes' = 0
    /\ UNCHANGED <<closed, senders, producerVars, waker, woken, sent, received,
                   issued>>

DropReceiver ==
    /\ reader \in {"idle", "parked", "ended"}
    /\ reader' = "dropping"
    /\ closed' = TRUE
    /\ queue' = << >>
    /\ bytes' = 0
    /\ UNCHANGED <<senders, producerVars, waker, woken, sent, received, issued>>
-----------------------------------------------------------------------------
SendStep(p) == TrySend(p) \/ Resume(p) \/ WakeReader(p) \/ NotifyWriters(p)

CallerStep(p) ==
    \/ \E q \in Producers : Clone(p, q)
    \/ \E size \in Weights : BeginSend(p, size)
    \/ CancelSend(p)
    \/ Control(p)
    \/ Finish(p)
    \/ DropSender(p)

ReadStep == BeginPoll \/ TakeBatch \/ PollEmpty \/ ReaderNotifies

\* Both sides are gone: the only state the channel rests in.
Done ==
    /\ \A p \in Producers : handle[p] # "held" /\ pc[p] = "idle"
    /\ reader \in {"ended", "dropped"}
    /\ UNCHANGED vars

Next ==
    \/ \E p \in Producers : SendStep(p) \/ CallerStep(p)
    \/ ReadStep \/ TakeOne \/ CancelRead \/ DropReceiver
    \/ Done

Spec == Init /\ [][Next]_vars

\* Tasks that started an operation are scheduled until it returns.
ProducersRun == \A p \in Producers : WF_vars(SendStep(p))

\* The view reads in a loop until the stream ends (or drops the receiver).
ConsumerRuns == WF_vars(ReadStep)

\* A dropped receiver finishes its drop even where nothing else reads.
FairSpec == Spec /\ ProducersRun /\ WF_vars(ReaderNotifies)
-----------------------------------------------------------------------------
TypeOK ==
    /\ queue \in Seq(Event)
    /\ bytes \in 0 .. Capacity
    /\ closed \in BOOLEAN
    /\ senders \in Nat
    /\ handle \in [Producers -> {"fresh", "held", "dropped"}]
    /\ pc \in [Producers -> {"idle", "listening", "parked", "wake",
                             "wakeNotify", "notify"}]
    /\ want \in [Producers -> 0 .. Capacity]
    /\ notified \in [Producers -> BOOLEAN]
    /\ reader \in {"idle", "registered", "parked", "notify", "ended",
                   "dropping", "dropped"}
    /\ waker \in BOOLEAN
    /\ woken \in BOOLEAN
    /\ sent \in Seq(Event)
    /\ received \in Seq(Event)
    /\ issued \in 0 .. MaxIssued

Abandoned == reader \in {"dropping", "dropped"}

\* Until the receiver is dropped, what was accepted is what was handed over
\* followed by what still waits: nothing is lost, repeated or reordered.
InOrder == ~Abandoned => sent = received \o queue

\* finish "appends exactly one terminal event" (lib.rs header): it is the last
\* event ever accepted, whatever the other handles do meanwhile.
FinalIsLast ==
    \A i \in 1 .. Len(sent) :
        sent[i].kind = "final" => closed /\ i = Len(sent)

\* An event is never left over a batch, and bytes never exceed the budget
\* through any interleaving of sends, reads, cancellations and drops.
QueueTotal == IF queue = << >> THEN 0 ELSE PrefixBytes(Len(queue))
WithinBudget == bytes = QueueTotal /\ bytes <= Capacity

NotifyPending ==
    \/ \E q \in Producers : pc[q] \in {"wakeNotify", "notify"}
    \/ reader \in {"notify", "dropping"}

WakePending == \E q \in Producers : pc[q] \in {"wake", "wakeNotify"}

\* A producer sleeps only while its event really does not fit, or while
\* whoever changed that has yet to notify: no wakeup is lost between the
\* check under the lock and the await after it.
WriterParkedForCause ==
    \A p \in Producers :
        pc[p] = "parked" /\ ~notified[p] =>
            \/ NotifyPending
            \/ ~closed /\ bytes + want[p] > Capacity

\* The consumer sleeps only while nothing is queued and the stream is open,
\* or while a producer has yet to wake it.
ReaderParkedForCause ==
    reader = "parked" /\ ~woken =>
        \/ WakePending
        \/ queue = << >> /\ ~closed

\* A blocked send returns while the consumer reads, provided its rivals stop
\* sending at some point (MaxIssued).
SendsReturn ==
    ConsumerRuns =>
        \A p \in Producers :
            pc[p] \in {"listening", "parked"} ~> pc[p] \in {"wake", "idle"}

\* A send blocked on a full queue returns once the stream has ended, although
\* nobody reads: finish and both drops release every producer.
ClosedReleases ==
    \A p \in Producers :
        closed /\ pc[p] \in {"listening", "parked"} ~> pc[p] = "idle"

\* Every accepted event reaches the consumer, the final one included, unless
\* the consumer is dropped.
EverythingDelivered ==
    ConsumerRuns =>
        \A n \in 1 .. MaxIssued + 1 :
            Len(sent) >= n ~> (Len(received) >= n \/ Abandoned)

\* The consumer of a closed stream gets to its end.
StreamEnds ==
    ConsumerRuns => (closed ~> (reader = "ended" \/ Abandoned))

\* No interleaving of sends, reads, cancellations and drops loses, repeats or
\* reorders an event, lets one in behind the final one, miscounts the bytes, or
\* leaves anybody asleep who has something to do.
StreamSound ==
    /\ TypeOK /\ InOrder /\ FinalIsLast /\ WithinBudget
    /\ WriterParkedForCause /\ ReaderParkedForCause

\* Every send returns, every accepted event arrives and every stream ends, in the
\* four ways above (send, finish, both drops, the consumer's poll).
Progress == SendsReturn /\ ClosedReleases /\ EverythingDelivered /\ StreamEnds

Promise == INSTANCE EventStream WITH
    Event <- Event,
    Final <- {e \in Event : e.kind = "final"},
    accepted <- sent,
    delivered <- received,
    phase <- IF Abandoned THEN "abandoned"
             ELSE IF closed THEN "closed" ELSE "open"

\* The channel keeps the promise of EventStream.
KeepsPromise == Promise!Spec
=============================================================================
