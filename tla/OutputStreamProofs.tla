------------------------- MODULE OutputStreamProofs -------------------------
(***************************************************************************)
(* The safety of the event channel for every set of producers, every       *)
(* capacity and every batch limit: type correctness, order, the byte       *)
(* budget, the final event, the absence of lost wakeups, and that the      *)
(* channel implements EventStream.                                         *)
(***************************************************************************)
EXTENDS OutputStream, SequenceTheorems, FiniteSetTheorems, TLAPS

-----------------------------------------------------------------------------
(* The inductive invariant.                                                *)

\* Totals grow along the queue, each by the size of its event, up to Total.
QueueChained ==
    /\ \A i \in 1 .. Len(queue), j \in 1 .. Len(queue) :
          i < j => queue[i].upto <= queue[j].upto - queue[j].bytes
    /\ \A i \in 1 .. Len(queue) :
          i < Len(queue) => queue[i + 1].upto - queue[i + 1].bytes = queue[i].upto
    /\ \A i \in 1 .. Len(queue) : queue[i].bytes <= queue[i].upto
    /\ queue # << >> => queue[Len(queue)].upto = Total

Held == {p \in Producers : handle[p] = "held"}

\* A reader that is about to look, or that sleeps, can be woken.
ReaderWakeable ==
    reader \in {"registered", "parked"} => waker \/ woken

TypeInv ==
    /\ queue \in Seq(Event)
    /\ bytes \in Int
    /\ closed \in BOOLEAN
    /\ senders = Cardinality(Held)
    /\ handle \in [Producers -> {"fresh", "held", "dropped"}]
    /\ pc \in [Producers -> {"idle", "listening", "parked", "wake",
                             "wakeNotify", "notify"}]
    /\ want \in [Producers -> 0 .. Capacity]
    /\ notified \in [Producers -> BOOLEAN]
    /\ reader \in {"idle", "registered", "parked", "notify", "ended",
                   "dropping", "dropped"}
    /\ waker \in BOOLEAN
    /\ woken \in BOOLEAN
    /\ sent \in Seq(Event)
    /\ received \in Seq(Event)
    /\ issued \in 0 .. MaxIssued

DataInv ==
    /\ QueueChained
    /\ WithinBudget
    /\ InOrder
    /\ FinalIsLast
    /\ Abandoned => closed

WakeInv ==
    /\ ReaderWakeable
    /\ WriterParkedForCause
    /\ ReaderParkedForCause

IInv == TypeInv /\ DataInv /\ WakeInv
-----------------------------------------------------------------------------
(* Publishing one event and taking n of them.                              *)

LEMMA EventAt ==
    ASSUME NEW s \in Seq(Event), NEW i \in 1 .. Len(s)
    PROVE  s[i] \in Event /\ s[i].upto \in Nat /\ s[i].bytes \in Nat
<1>1. s[i] \in Event
  OBVIOUS
<1> QED BY <1>1 DEF Event

LEMMA TotalIsNat ==
    ASSUME sent \in Seq(Event)
    PROVE  Total \in Nat
<1>1. sent # << >> => Len(sent) \in 1 .. Len(sent)
  OBVIOUS
<1> QED BY <1>1, EventAt DEF Total

\* An event appended under the lock keeps the queue's bookkeeping.
LEMMA PublishKeeps ==
    ASSUME IInv, ~closed,
           NEW p \in Producers, NEW kind \in {"data", "control", "final"},
           NEW size \in Nat, bytes + size <= Capacity,
           Publish(EventOf(p, kind, size))
    PROVE  /\ queue' \in Seq(Event)
           /\ sent' \in Seq(Event)
           /\ bytes' \in Int
           /\ QueueChained'
           /\ WithinBudget'
           /\ queue' # << >>
<1> DEFINE e == EventOf(p, kind, size)
<1>1. Total \in Nat
  BY TotalIsNat DEF IInv, TypeInv
<1>2. e \in Event /\ e.bytes = size /\ e.upto = Total + size
  BY <1>1 DEF EventOf, Event
<1> HIDE DEF e
<1>3. /\ queue' = Append(queue, e)
      /\ sent' = Append(sent, e)
      /\ bytes' = bytes + size
  BY <1>2 DEF Publish, e
<1>4. /\ queue' \in Seq(Event) /\ Len(queue') = Len(queue) + 1
      /\ \A i \in 1 .. Len(queue) : queue'[i] = queue[i]
      /\ queue'[Len(queue) + 1] = e
  BY <1>2, <1>3 DEF IInv, TypeInv
<1>5. sent' \in Seq(Event) /\ sent' # << >> /\ sent'[Len(sent')] = e
  <2>1. sent \in Seq(Event)
    BY DEF IInv, TypeInv
  <2> QED BY <1>2, <1>3, <2>1, AppendProperties
<1>6. Total' = Total + size
  BY <1>2, <1>5 DEF Total
<1>7. \A i \in 1 .. Len(queue) : queue[i].upto <= Total
                                 /\ queue[i].upto \in Nat /\ queue[i].bytes \in Nat
  <2> TAKE i \in 1 .. Len(queue)
  <2>1. /\ queue[i] \in Event /\ queue[Len(queue)] \in Event
        /\ queue # << >> /\ Len(queue) \in Nat
    BY DEF IInv, TypeInv
  <2>2. queue[Len(queue)].upto = Total
    BY <2>1 DEF IInv, DataInv, QueueChained
  <2>3. i < Len(queue) =>
           queue[i].upto <= queue[Len(queue)].upto - queue[Len(queue)].bytes
    BY <2>1 DEF IInv, DataInv, QueueChained
  <2> QED BY <2>1, <2>2, <2>3, <1>1 DEF Event
<1>8. QueueChained'
  <2>0. Len(queue) \in Nat /\ (queue # << >> <=> Len(queue) # 0)
    BY DEF IInv, TypeInv
  <2>1. \A i \in 1 .. Len(queue'), j \in 1 .. Len(queue') :
           i < j => queue'[i].upto <= queue'[j].upto - queue'[j].bytes
    <3> SUFFICES ASSUME NEW i \in 1 .. Len(queue), NEW j \in 1 .. Len(queue'), i < j
                 PROVE  queue'[i].upto <= queue'[j].upto - queue'[j].bytes
      BY <1>4, <2>0
    <3>1. CASE j \in 1 .. Len(queue)
      BY <3>1, <1>4, <2>0 DEF IInv, DataInv, QueueChained
    <3>2. CASE j = Len(queue) + 1
      BY <3>2, <1>1, <1>2, <1>4, <1>7, <2>0
    <3> QED BY <3>1, <3>2, <1>4, <2>0
  <2>2. \A i \in 1 .. Len(queue') : i < Len(queue') =>
           queue'[i + 1].upto - queue'[i + 1].bytes = queue'[i].upto
    <3> SUFFICES ASSUME NEW i \in 1 .. Len(queue)
                 PROVE  queue'[i + 1].upto - queue'[i + 1].bytes = queue'[i].upto
      BY <1>4, <2>0
    <3>1. CASE i < Len(queue)
      BY <3>1, <1>4, <2>0 DEF IInv, DataInv, QueueChained
    <3>2. CASE i = Len(queue)
      BY <3>2, <1>1, <1>2, <1>4, <2>0 DEF IInv, DataInv, QueueChained
    <3> QED BY <3>1, <3>2, <2>0
  <2>3. \A i \in 1 .. Len(queue') : queue'[i].bytes <= queue'[i].upto
    BY <1>1, <1>2, <1>4, <2>0 DEF IInv, DataInv, QueueChained
  <2>4. queue'[Len(queue')].upto = Total'
    BY <1>2, <1>4, <1>6, <2>0
  <2> QED BY <2>1, <2>2, <2>3, <2>4 DEF QueueChained
<1>9. WithinBudget'
  <2>0. Len(queue) \in Nat /\ (queue # << >> <=> Len(queue) # 0) /\ queue' # << >>
    BY <1>4 DEF IInv, TypeInv
  <2>1. CASE queue = << >>
    BY <2>1, <2>0, <1>1, <1>2, <1>3, <1>4
    DEF IInv, DataInv, WithinBudget, QueueTotal, PrefixBytes, TypeInv
  <2>2. CASE queue # << >>
    <3>1. queue'[1] = queue[1] /\ queue[Len(queue)].upto = Total
          /\ queue[1].upto \in Nat /\ queue[1].bytes \in Nat
      BY <2>2, <2>0, <1>4, <1>7 DEF IInv, DataInv, QueueChained
    <3>2. queue'[Len(queue')].upto = Total + size
      BY <1>2, <1>4, <2>0
    <3>3. bytes = Total - queue[1].upto + queue[1].bytes
      BY <2>2, <3>1 DEF IInv, DataInv, WithinBudget, QueueTotal, PrefixBytes
    <3>4. QueueTotal' = Total + size - queue[1].upto + queue[1].bytes
      <4>1. QueueTotal' = queue'[Len(queue')].upto - queue'[1].upto + queue'[1].bytes
        BY <2>0 DEF QueueTotal, PrefixBytes
      <4> QED BY <1>1, <3>1, <3>2, <4>1
    <3>5. bytes' = QueueTotal'
      <4>1. bytes' = (Total - queue[1].upto + queue[1].bytes) + size
        BY <3>3, <1>3
      <4>2. \A t, s, u, b \in Nat : (t - u + b) + s = t + s - u + b
        OBVIOUS
      <4>3. (Total - queue[1].upto + queue[1].bytes) + size
            = Total + size - queue[1].upto + queue[1].bytes
        BY <1>1, <3>1, <4>2
      <4> QED BY <4>1, <4>3, <3>4
    <3>6. bytes' <= Capacity
      BY <1>3
    <3> QED BY <3>5, <3>6 DEF WithinBudget
  <2> QED BY <2>1, <2>2
<1>10. bytes' \in Int /\ queue' # << >>
  <2>1. bytes \in Int /\ Len(queue) \in Nat
    BY DEF IInv, TypeInv
  <2> QED BY <2>1, <1>3, <1>4
<1> QED BY <1>4, <1>5, <1>8, <1>9, <1>10

\* Taking n events, under the lock, keeps the queue's bookkeeping and hands
\* over exactly the first n.
LEMMA TakeKeeps ==
    ASSUME IInv, ~Abandoned, NEW n \in 1 .. Len(queue), Take(n)
    PROVE  /\ queue' \in Seq(Event)
           /\ received' \in Seq(Event)
           /\ bytes' \in Int
           /\ QueueChained'
           /\ WithinBudget'
           /\ sent = received' \o queue'
<1>1. queue \in Seq(Event) /\ Len(queue) \in Nat /\ Len(queue) # 0
      /\ n \in Nat /\ n # 0 /\ n <= Len(queue)
  BY DEF IInv, TypeInv
<1>2. /\ queue' \in Seq(Event)
      /\ Len(queue') = Len(queue) - n
      /\ \A i \in 1 .. Len(queue') : queue'[i] = queue[i + n]
  BY <1>1, SubSeqProperties DEF Take
<1>3. SubSeq(queue, 1, n) \in Seq(Event)
  BY <1>1, SubSeqProperties
<1>4. received' \in Seq(Event)
  BY <1>3, ConcatProperties DEF Take, IInv, TypeInv
<1>5. sent = received' \o queue'
  <2>1. SubSeq(queue, 1, n) \o SubSeq(queue, n + 1, Len(queue)) = queue
    BY <1>1, ConcatAdjacentSubSeq, SubSeqFull
  <2>2. /\ received \in Seq(Event)
        /\ SubSeq(queue, n + 1, Len(queue)) \in Seq(Event)
    BY <1>1, SubSeqProperties DEF IInv, TypeInv
  <2>3. (received \o SubSeq(queue, 1, n)) \o SubSeq(queue, n + 1, Len(queue))
        = received \o (SubSeq(queue, 1, n) \o SubSeq(queue, n + 1, Len(queue)))
    <3>1. \A r, a, b \in Seq(Event) : (r \o a) \o b = r \o (a \o b)
      BY ConcatAssociative
    <3> QED BY <1>3, <2>2, <3>1
  <2> QED BY <2>1, <2>3 DEF Take, IInv, DataInv, InOrder
<1>6. \A i \in 1 .. Len(queue) : queue[i].upto \in Nat /\ queue[i].bytes \in Nat
  BY <1>1, EventAt
<1>7. Total' = Total
  BY DEF Take, Total
<1>8. QueueChained'
  <2>1. \A i \in 1 .. Len(queue'), j \in 1 .. Len(queue') :
           i < j => queue'[i].upto <= queue'[j].upto - queue'[j].bytes
    <3> SUFFICES ASSUME NEW i \in 1 .. Len(queue'), NEW j \in 1 .. Len(queue'), i < j
                 PROVE  queue'[i].upto <= queue'[j].upto - queue'[j].bytes
      OBVIOUS
    <3>1. queue'[i] = queue[i + n] /\ queue'[j] = queue[j + n]
      BY <1>2
    <3>2. i + n \in 1 .. Len(queue) /\ j + n \in 1 .. Len(queue) /\ i + n < j + n
      BY <1>1, <1>2
    <3> QED BY <3>1, <3>2 DEF IInv, DataInv, QueueChained
  <2>2. \A i \in 1 .. Len(queue') : i < Len(queue') =>
           queue'[i + 1].upto - queue'[i + 1].bytes = queue'[i].upto
    <3> SUFFICES ASSUME NEW i \in 1 .. Len(queue'), i < Len(queue')
                 PROVE  queue'[i + 1].upto - queue'[i + 1].bytes = queue'[i].upto
      OBVIOUS
    <3>1. queue'[i] = queue[i + n] /\ queue'[i + 1] = queue[(i + n) + 1]
      <4>1. Len(queue') \in Nat
        BY <1>1, <1>2
      <4>2. i + 1 \in 1 .. Len(queue') /\ (i + 1) + n = (i + n) + 1
        BY <1>1, <4>1
      <4> QED BY <1>2, <4>2
    <3>2. i + n \in 1 .. Len(queue) /\ i + n < Len(queue)
      BY <1>1, <1>2
    <3> QED BY <3>1, <3>2 DEF IInv, DataInv, QueueChained
  <2>3. \A i \in 1 .. Len(queue') : queue'[i].bytes <= queue'[i].upto
    BY <1>1, <1>2 DEF IInv, DataInv, QueueChained
  <2>4. queue' # << >> => queue'[Len(queue')].upto = Total'
    BY <1>1, <1>2, <1>7 DEF IInv, DataInv, QueueChained
  <2> QED BY <2>1, <2>2, <2>3, <2>4 DEF QueueChained
<1>9. bytes = queue[Len(queue)].upto - queue[1].upto + queue[1].bytes
  BY <1>1 DEF IInv, DataInv, WithinBudget, QueueTotal, PrefixBytes
<1>10. bytes' = queue[Len(queue)].upto - queue[n].upto
  <2>1. bytes' = bytes - (queue[n].upto - queue[1].upto + queue[1].bytes)
    BY DEF Take, PrefixBytes
  <2>2. /\ queue[n].upto \in Nat /\ queue[1].upto \in Nat
        /\ queue[1].bytes \in Nat /\ queue[Len(queue)].upto \in Nat
    BY <1>1, <1>6
  <2> QED BY <1>9, <2>1, <2>2
<1>11. WithinBudget'
  <2>0. /\ queue[n].upto \in Nat /\ queue[1].upto \in Nat /\ queue[n].bytes \in Nat
        /\ queue[1].bytes \in Nat /\ queue[Len(queue)].upto \in Nat
    BY <1>1, <1>6
  <2>1. queue[1].upto - queue[1].bytes <= queue[n].upto
    <3>1. n # 1 => queue[1].upto <= queue[n].upto - queue[n].bytes
      BY <1>1 DEF IInv, DataInv, QueueChained
    <3> QED BY <2>0, <3>1
  <2>2. bytes' <= Capacity
    <3>1. bytes <= Capacity
      BY DEF IInv, DataInv, WithinBudget
    <3> QED BY <1>9, <1>10, <2>0, <2>1, <3>1, SizesAssumption
  <2>3. CASE n = Len(queue)
    <3>1. queue' = << >>
      BY <1>1, <1>2, <2>3
    <3> QED BY <1>1, <1>6, <1>10, <2>2, <2>3, <3>1 DEF WithinBudget, QueueTotal
  <2>4. CASE n < Len(queue)
    <3>1. /\ queue' # << >>
          /\ queue'[1] = queue[n + 1]
          /\ queue'[Len(queue')] = queue[Len(queue)]
      <4>1. Len(queue') \in Nat /\ Len(queue') # 0 /\ Len(queue') + n = Len(queue)
        BY <1>1, <1>2, <2>4
      <4>2. queue' # << >>
        BY <4>1
      <4> QED BY <1>1, <1>2, <4>1, <4>2
    <3>2. queue[n + 1].upto - queue[n + 1].bytes = queue[n].upto
      BY <1>1, <2>4 DEF IInv, DataInv, QueueChained
    <3>3. n + 1 \in 1 .. Len(queue)
      BY <1>1, <2>4
    <3> QED BY <1>1, <1>6, <1>10, <2>2, <3>1, <3>2, <3>3
            DEF WithinBudget, QueueTotal, PrefixBytes
  <2> QED BY <1>1, <2>3, <2>4
<1> QED BY <1>1, <1>2, <1>4, <1>5, <1>6, <1>8, <1>10, <1>11
-----------------------------------------------------------------------------
(* The invariant holds initially and every step preserves it.              *)

LEMMA InitIInv == Init => IInv
<1> SUFFICES ASSUME Init PROVE IInv
  OBVIOUS
<1>1. PICK p \in Producers :
         handle = [q \in Producers |-> IF q = p THEN "held" ELSE "fresh"]
  BY DEF Init
<1>2. Held = {p}
  BY <1>1 DEF Held
<1>3. Cardinality(Held) = 1
  BY <1>2, FS_Singleton
<1>4. TypeInv
  <2>1. queue \in Seq(Event) /\ sent \in Seq(Event) /\ received \in Seq(Event)
    BY DEF Init
  <2>2. /\ handle \in [Producers -> {"fresh", "held", "dropped"}]
        /\ pc \in [Producers -> {"idle", "listening", "parked", "wake",
                                 "wakeNotify", "notify"}]
        /\ want \in [Producers -> 0 .. Capacity]
        /\ notified \in [Producers -> BOOLEAN]
    BY <1>1, SizesAssumption DEF Init
  <2>3. senders = Cardinality(Held)
    BY <1>3 DEF Init
  <2>4. /\ bytes = 0 /\ closed = FALSE /\ waker = FALSE /\ woken = FALSE
        /\ reader = "idle" /\ issued = 0
    BY DEF Init
  <2>5. bytes \in Int /\ issued \in 0 .. MaxIssued
    BY <2>4, SizesAssumption
  <2> QED BY <2>1, <2>2, <2>3, <2>4, <2>5 DEF TypeInv
<1>5. DataInv
  BY SizesAssumption DEF Init, DataInv, QueueChained, WithinBudget, QueueTotal,
                         InOrder, FinalIsLast, Abandoned
<1>6. WakeInv
  BY DEF Init, WakeInv, ReaderWakeable, WriterParkedForCause, ReaderParkedForCause
<1> QED BY <1>4, <1>5, <1>6 DEF IInv

\* A step that neither queues nor takes an event.
LEMMA KeepKeeps ==
    ASSUME IInv, Keep, received' = received, closed => closed',
           Abandoned' = Abandoned
    PROVE  DataInv'
<1>1. QueueChained' /\ WithinBudget' /\ InOrder'
  BY DEF IInv, DataInv, Keep, QueueChained, WithinBudget, QueueTotal,
         PrefixBytes, InOrder, Total
<1>2. FinalIsLast' /\ (Abandoned => closed)'
  BY DEF IInv, DataInv, Keep, FinalIsLast
<1> QED BY <1>1, <1>2 DEF DataInv

\* A step that queues an event while the stream is open.
LEMMA PublishKeepsData ==
    ASSUME IInv, ~closed,
           NEW p \in Producers, NEW kind \in {"data", "control", "final"},
           NEW size \in Nat, bytes + size <= Capacity,
           Publish(EventOf(p, kind, size)),
           received' = received, reader' = reader,
           kind = "final" => closed'
    PROVE  DataInv'
<1> DEFINE e == EventOf(p, kind, size)
<1>1. QueueChained' /\ WithinBudget'
  BY PublishKeeps
<1>2. ~Abandoned /\ ~Abandoned'
  BY DEF IInv, DataInv, Abandoned
<1>3. e \in Event /\ e.kind = kind
  BY TotalIsNat DEF IInv, TypeInv, EventOf, Event
<1> HIDE DEF e
<1>4. queue' = Append(queue, e) /\ sent' = Append(sent, e)
  BY DEF Publish, e
<1>5. /\ sent \in Seq(Event) /\ queue \in Seq(Event) /\ received \in Seq(Event)
  BY DEF IInv, TypeInv
<1>6. InOrder'
  <2>1. \A r, q \in Seq(Event) :
           Append(r \o q, e) = r \o Append(q, e)
    <3>1. \A r, q \in Seq(Event) :
             Append(r \o q, e) = (r \o q) \o <<e>> /\ Append(q, e) = q \o <<e>>
      BY <1>3, AppendIsConcat, ConcatProperties
    <3>2. <<e>> \in Seq(Event)
      BY <1>3
    <3> QED BY <3>1, <3>2, ConcatAssociative
  <2>2. sent = received \o queue
    BY <1>2 DEF IInv, DataInv, InOrder
  <2> QED BY <1>4, <1>5, <2>1, <2>2 DEF InOrder
<1>7. FinalIsLast'
  <2>1. /\ Len(sent') = Len(sent) + 1 /\ Len(sent) \in Nat
        /\ \A i \in 1 .. Len(sent) : sent'[i] = sent[i]
        /\ sent'[Len(sent) + 1] = e
    BY <1>3, <1>4, <1>5, AppendProperties
  <2>2. \A i \in 1 .. Len(sent) : sent[i].kind # "final"
    BY DEF IInv, DataInv, FinalIsLast
  <2> QED BY <1>3, <2>1, <2>2 DEF FinalIsLast
<1> QED BY <1>1, <1>2, <1>6, <1>7 DEF DataInv

LEMMA TakeKeepsData ==
    ASSUME IInv, ~Abandoned, NEW n \in 1 .. Len(queue), Take(n)
    PROVE  TypeInv' /\ DataInv'
<1>1. /\ queue' \in Seq(Event) /\ received' \in Seq(Event) /\ bytes' \in Int
      /\ QueueChained' /\ WithinBudget' /\ sent = received' \o queue'
  BY TakeKeeps
<1>2. TypeInv'
  BY <1>1 DEF IInv, TypeInv, Take, producerVars, Held
<1>3. InOrder' /\ (Abandoned => closed)'
  BY <1>1 DEF Take, InOrder, Abandoned
<1>4. FinalIsLast'
  BY DEF IInv, DataInv, Take, FinalIsLast
<1> QED BY <1>1, <1>2, <1>3, <1>4 DEF DataInv

\* Sizes of events being sent are natural numbers within the capacity.
LEMMA WantIsNat ==
    ASSUME TypeInv, NEW p \in Producers
    PROVE  want[p] \in Nat /\ want[p] <= Capacity
BY SizesAssumption DEF TypeInv

LEMMA HeldCount ==
    ASSUME TypeInv
    PROVE  IsFiniteSet(Held) /\ senders \in Nat
<1>1. Held \subseteq Producers
  BY DEF Held
<1>2. IsFiniteSet(Held)
  BY <1>1, ProducersAssumption, FS_Subset
<1> QED BY <1>2, FS_CardinalityType DEF TypeInv

LEMMA CloneKeeps ==
    ASSUME IInv, NEW p \in Producers, NEW q \in Producers, Clone(p, q)
    PROVE  IInv'
<1>1. DataInv'
  BY KeepKeeps DEF Clone, readerVars, Abandoned
<1>2. Held' = Held \cup {q} /\ q \notin Held
  BY DEF Clone, Held, IInv, TypeInv
<1>3. senders' = Cardinality(Held')
  BY <1>2, HeldCount, FS_AddElement DEF IInv, TypeInv, Clone
<1>4. TypeInv'
  BY <1>3 DEF IInv, TypeInv, Clone, Keep, readerVars
<1>5. WakeInv'
  BY DEF IInv, WakeInv, ReaderWakeable, WriterParkedForCause,
         ReaderParkedForCause, NotifyPending, WakePending, Clone, Keep, readerVars
<1> QED BY <1>1, <1>4, <1>5 DEF IInv

LEMMA BeginSendKeeps ==
    ASSUME IInv, NEW p \in Producers, NEW size \in Weights, BeginSend(p, size)
    PROVE  IInv'
<1>1. DataInv'
  BY KeepKeeps DEF BeginSend, readerVars, Abandoned
<1>2. size \in 0 .. Capacity /\ issued' \in 0 .. MaxIssued
  BY SizesAssumption DEF BeginSend, IInv, TypeInv
<1>3. TypeInv'
  BY <1>2 DEF IInv, TypeInv, BeginSend, Goto, Keep, readerVars, Held
<1>4. WakeInv'
  BY DEF IInv, TypeInv, WakeInv, ReaderWakeable, WriterParkedForCause, Idle, Goto,
         ReaderParkedForCause, NotifyPending, WakePending, BeginSend, Keep, readerVars
<1> QED BY <1>1, <1>3, <1>4 DEF IInv

LEMMA TrySendKeeps ==
    ASSUME IInv, NEW p \in Producers, TrySend(p)
    PROVE  IInv'
<1>1. CASE closed /\ Goto(p, "idle") /\ Keep
  <2>1. DataInv'
    BY <1>1, KeepKeeps DEF TrySend, readerVars, Abandoned
  <2>2. TypeInv'
    BY <1>1 DEF IInv, TypeInv, TrySend, Goto, Keep, readerVars, Held
  <2>3. WakeInv'
    BY <1>1 DEF IInv, TypeInv, WakeInv, ReaderWakeable, WriterParkedForCause, Goto,
           ReaderParkedForCause, NotifyPending, WakePending, TrySend, Keep, readerVars
  <2> QED BY <2>1, <2>2, <2>3 DEF IInv
<1>2. CASE /\ ~closed
           /\ bytes + want[p] <= Capacity
           /\ Publish(EventOf(p, "data", want[p]))
           /\ Goto(p, "wake")
  <2>1. DataInv'
    BY <1>2, PublishKeepsData, WantIsNat DEF IInv, TrySend, readerVars
  <2>2. queue' \in Seq(Event) /\ sent' \in Seq(Event) /\ bytes' \in Int /\ queue' # << >>
    BY <1>2, PublishKeeps, WantIsNat DEF IInv
  <2>3. TypeInv'
    BY <1>2, <2>2 DEF IInv, TypeInv, TrySend, Goto, readerVars, Held
  <2>4. bytes' >= bytes
    BY <1>2, WantIsNat DEF Publish, EventOf, IInv, TypeInv
  <2>5. WakeInv'
    <3>1. ReaderWakeable' /\ ReaderParkedForCause'
      BY <1>2 DEF IInv, TypeInv, WakeInv, ReaderWakeable, ReaderParkedForCause,
             WakePending, TrySend, Goto, readerVars
    <3>2. WriterParkedForCause'
      <4> SUFFICES ASSUME NEW q \in Producers, pc'[q] = "parked", ~notified'[q],
                          ~NotifyPending'
                   PROVE  ~closed' /\ bytes' + want'[q] > Capacity
        BY DEF WriterParkedForCause
      <4>1. pc[q] = "parked" /\ ~notified[q] /\ ~NotifyPending
        BY <1>2 DEF TrySend, Goto, NotifyPending, readerVars, IInv, TypeInv
      <4>2. bytes + want[q] > Capacity
        BY <4>1 DEF IInv, WakeInv, WriterParkedForCause
      <4>3. bytes \in Int /\ want[q] \in Nat
        BY WantIsNat DEF IInv, TypeInv
      <4>4. bytes' + want[q] > Capacity
        BY <2>2, <2>4, <4>2, <4>3, SizesAssumption
      <4> QED BY <1>2, <4>4 DEF TrySend
    <3> QED BY <3>1, <3>2 DEF WakeInv
  <2> QED BY <2>1, <2>3, <2>5 DEF IInv
<1>3. CASE ~closed /\ bytes + want[p] > Capacity /\ Goto(p, "parked") /\ Keep
  <2>1. DataInv'
    BY <1>3, KeepKeeps DEF TrySend, readerVars, Abandoned
  <2>2. TypeInv'
    BY <1>3 DEF IInv, TypeInv, TrySend, Goto, Keep, readerVars, Held
  <2>3. WakeInv'
    BY <1>3 DEF IInv, TypeInv, WakeInv, ReaderWakeable, WriterParkedForCause, Goto,
           ReaderParkedForCause, NotifyPending, WakePending, TrySend, Keep, readerVars
  <2> QED BY <2>1, <2>2, <2>3 DEF IInv
<1> QED BY <1>1, <1>2, <1>3 DEF TrySend

LEMMA ResumeKeeps ==
    ASSUME IInv, NEW p \in Producers, Resume(p)
    PROVE  IInv'
<1>1. DataInv'
  BY KeepKeeps DEF Resume, readerVars, Abandoned
<1>2. TypeInv'
  BY DEF IInv, TypeInv, Resume, Goto, Keep, readerVars, Held
<1>3. WakeInv'
  BY DEF IInv, TypeInv, Resume, Goto, Keep, readerVars, NotifyAll,
         WakeInv, ReaderWakeable, WriterParkedForCause,
         ReaderParkedForCause, NotifyPending, WakePending
<1> QED BY <1>1, <1>2, <1>3 DEF IInv

LEMMA CancelSendKeeps ==
    ASSUME IInv, NEW p \in Producers, CancelSend(p)
    PROVE  IInv'
<1>1. DataInv'
  BY KeepKeeps DEF CancelSend, readerVars, Abandoned
<1>2. TypeInv'
  BY DEF IInv, TypeInv, CancelSend, Goto, Keep, readerVars, Held
<1>3. WakeInv'
  BY DEF IInv, TypeInv, CancelSend, Goto, Keep, readerVars, NotifyAll,
         WakeInv, ReaderWakeable, WriterParkedForCause,
         ReaderParkedForCause, NotifyPending, WakePending
<1> QED BY <1>1, <1>2, <1>3 DEF IInv

LEMMA WakeReaderKeeps ==
    ASSUME IInv, NEW p \in Producers, WakeReader(p)
    PROVE  IInv'
<1>1. DataInv'
  BY KeepKeeps DEF WakeReader, readerVars, Abandoned
<1>2. TypeInv'
  BY DEF IInv, TypeInv, WakeReader, Goto, Keep, readerVars, Held
<1>3. WakeInv'
  BY DEF IInv, TypeInv, WakeReader, Goto, Keep, readerVars, NotifyAll,
         WakeInv, ReaderWakeable, WriterParkedForCause,
         ReaderParkedForCause, NotifyPending, WakePending
<1> QED BY <1>1, <1>2, <1>3 DEF IInv

LEMMA NotifyWritersKeeps ==
    ASSUME IInv, NEW p \in Producers, NotifyWriters(p)
    PROVE  IInv'
<1>1. DataInv'
  BY KeepKeeps DEF NotifyWriters, readerVars, Abandoned
<1>2. TypeInv'
  BY DEF IInv, TypeInv, NotifyWriters, NotifyAll, Goto, Keep, readerVars, Held
<1>3. WakeInv'
  BY DEF IInv, TypeInv, NotifyWriters, Goto, Keep, readerVars, NotifyAll,
         WakeInv, ReaderWakeable, WriterParkedForCause,
         ReaderParkedForCause, NotifyPending, WakePending
<1> QED BY <1>1, <1>2, <1>3 DEF IInv

LEMMA ControlKeeps ==
    ASSUME IInv, NEW p \in Producers, Control(p)
    PROVE  IInv'
<1>1. ~closed /\ bytes + 0 <= Capacity /\ Publish(EventOf(p, "control", 0))
  BY DEF Control, IInv, TypeInv, DataInv, WithinBudget
<1>2. DataInv'
  BY <1>1, PublishKeepsData DEF Control, readerVars
<1>3. queue' \in Seq(Event) /\ sent' \in Seq(Event) /\ bytes' \in Int
  BY <1>1, PublishKeeps
<1>4. bytes' = bytes
  BY <1>1 DEF Publish, EventOf, IInv, TypeInv
<1>5. issued' \in 0 .. MaxIssued
  BY SizesAssumption DEF Control, IInv, TypeInv
<1>6. TypeInv'
  BY <1>3, <1>5 DEF IInv, TypeInv, Control, Goto, readerVars, Held
<1>7. WakeInv'
  BY <1>4 DEF IInv, TypeInv, Control, Idle, Goto, readerVars, WakeInv, ReaderWakeable,
         WriterParkedForCause, ReaderParkedForCause, NotifyPending, WakePending
<1> QED BY <1>2, <1>6, <1>7 DEF IInv

LEMMA FinishKeeps ==
    ASSUME IInv, NEW p \in Producers, Finish(p)
    PROVE  IInv'
<1>1. ~closed /\ bytes + 0 <= Capacity /\ Publish(EventOf(p, "final", 0))
  BY DEF Finish, IInv, TypeInv, DataInv, WithinBudget
<1>2. DataInv'
  BY <1>1, PublishKeepsData DEF Finish, readerVars
<1>3. queue' \in Seq(Event) /\ sent' \in Seq(Event) /\ bytes' \in Int
  BY <1>1, PublishKeeps
<1>4. TypeInv'
  BY <1>3 DEF IInv, TypeInv, Finish, Goto, readerVars, Held
<1>5. WakeInv'
  BY DEF IInv, TypeInv, Finish, Idle, Goto, readerVars, WakeInv, ReaderWakeable,
         WriterParkedForCause, ReaderParkedForCause, NotifyPending, WakePending
<1> QED BY <1>2, <1>4, <1>5 DEF IInv

LEMMA DropSenderKeeps ==
    ASSUME IInv, NEW p \in Producers, DropSender(p)
    PROVE  IInv'
<1>1. DataInv'
  BY KeepKeeps DEF DropSender, readerVars, Abandoned
<1>2. Held' = Held \ {p} /\ p \in Held
  BY DEF DropSender, Idle, Held, IInv, TypeInv
<1>3. senders' = Cardinality(Held')
  BY <1>2, HeldCount, FS_RemoveElement DEF IInv, TypeInv, DropSender
<1>4. TypeInv'
  BY <1>3 DEF IInv, TypeInv, DropSender, Goto, Keep, readerVars
<1>5. WakeInv'
  BY DEF IInv, TypeInv, DropSender, Idle, Goto, Keep, readerVars, WakeInv,
         ReaderWakeable, WriterParkedForCause, ReaderParkedForCause,
         NotifyPending, WakePending
<1> QED BY <1>1, <1>4, <1>5 DEF IInv

LEMMA TakeWakes ==
    ASSUME IInv, NEW n \in 1 .. Len(queue), Take(n)
    PROVE  WakeInv'
BY DEF IInv, Take, producerVars, WakeInv, ReaderWakeable, WriterParkedForCause,
       ReaderParkedForCause, NotifyPending, WakePending

LEMMA ReadStepKeeps ==
    ASSUME IInv, ReadStep \/ TakeOne \/ CancelRead \/ DropReceiver
    PROVE  IInv'
<1>1. CASE TakeBatch
  <2>1. ~Abandoned
    BY <1>1 DEF TakeBatch, Abandoned
  <2>2. PICK n \in 1 .. Len(queue) : Take(n)
    BY <1>1 DEF TakeBatch
  <2> QED BY <2>1, <2>2, TakeKeepsData, TakeWakes DEF IInv
<1>2. CASE TakeOne
  <2>1. ~Abandoned
    BY <1>2 DEF TakeOne, Abandoned
  <2>2. 1 \in 1 .. Len(queue) /\ Take(1)
    BY <1>2 DEF TakeOne, IInv, TypeInv
  <2> QED BY <2>1, <2>2, TakeKeepsData, TakeWakes DEF IInv
<1>3. CASE BeginPoll
  <2>1. DataInv'
    BY <1>3, KeepKeeps DEF BeginPoll, Abandoned
  <2>2. TypeInv'
    BY <1>3 DEF IInv, TypeInv, BeginPoll, Keep, producerVars, Held
  <2>3. WakeInv'
    BY <1>3 DEF IInv, BeginPoll, Keep, producerVars, WakeInv, ReaderWakeable,
           WriterParkedForCause, ReaderParkedForCause, NotifyPending, WakePending
  <2> QED BY <2>1, <2>2, <2>3 DEF IInv
<1>4. CASE PollEmpty
  <2>1. DataInv'
    BY <1>4, KeepKeeps DEF PollEmpty, Abandoned
  <2>2. TypeInv'
    BY <1>4 DEF IInv, TypeInv, PollEmpty, Keep, producerVars, Held
  <2>3. WakeInv'
    BY <1>4 DEF IInv, PollEmpty, Keep, producerVars, WakeInv, ReaderWakeable,
           WriterParkedForCause, ReaderParkedForCause, NotifyPending, WakePending
  <2> QED BY <2>1, <2>2, <2>3 DEF IInv
<1>5. CASE CancelRead
  <2>1. DataInv'
    BY <1>5, KeepKeeps DEF CancelRead, Abandoned
  <2>2. TypeInv'
    BY <1>5 DEF IInv, TypeInv, CancelRead, Keep, producerVars, Held
  <2>3. WakeInv'
    BY <1>5 DEF IInv, CancelRead, Keep, producerVars, WakeInv, ReaderWakeable,
           WriterParkedForCause, ReaderParkedForCause, NotifyPending, WakePending
  <2> QED BY <2>1, <2>2, <2>3 DEF IInv
<1>6. CASE ReaderNotifies
  <2>1. DataInv'
    BY <1>6, KeepKeeps DEF ReaderNotifies, Abandoned
  <2>2. TypeInv'
    BY <1>6 DEF IInv, TypeInv, ReaderNotifies, NotifyAll, Keep, Held
  <2>3. WakeInv'
    BY <1>6 DEF IInv, TypeInv, ReaderNotifies, NotifyAll, Keep, WakeInv, ReaderWakeable,
           WriterParkedForCause, ReaderParkedForCause, NotifyPending, WakePending
  <2> QED BY <2>1, <2>2, <2>3 DEF IInv
<1>7. CASE DropReceiver
  <2>1. DataInv'
    BY <1>7, SizesAssumption
    DEF IInv, DataInv, DropReceiver, QueueChained, WithinBudget, QueueTotal,
        InOrder, FinalIsLast, Abandoned
  <2>2. TypeInv'
    BY <1>7 DEF IInv, TypeInv, DropReceiver, producerVars, Held
  <2>3. WakeInv'
    BY <1>7 DEF IInv, DropReceiver, producerVars, WakeInv, ReaderWakeable,
           WriterParkedForCause, ReaderParkedForCause, NotifyPending, WakePending
  <2> QED BY <2>1, <2>2, <2>3 DEF IInv
<1> QED BY <1>1, <1>2, <1>3, <1>4, <1>5, <1>6, <1>7 DEF ReadStep

LEMMA StutterKeeps ==
    ASSUME IInv, UNCHANGED vars
    PROVE  IInv'
<1>1. DataInv'
  BY KeepKeeps DEF vars, Keep, readerVars, Abandoned
<1>2. TypeInv'
  BY DEF IInv, TypeInv, vars, producerVars, readerVars, Held
<1>3. WakeInv'
  BY DEF IInv, vars, producerVars, readerVars, WakeInv, ReaderWakeable,
         WriterParkedForCause, ReaderParkedForCause, NotifyPending, WakePending
<1> QED BY <1>1, <1>2, <1>3 DEF IInv

LEMMA NextIInv == IInv /\ [Next]_vars => IInv'
<1> SUFFICES ASSUME IInv, [Next]_vars PROVE IInv'
  OBVIOUS
<1>1. ASSUME NEW p \in Producers, SendStep(p) PROVE IInv'
  BY <1>1, TrySendKeeps, ResumeKeeps, WakeReaderKeeps, NotifyWritersKeeps DEF SendStep
<1>2. ASSUME NEW p \in Producers, CallerStep(p) PROVE IInv'
  BY <1>2, CloneKeeps, BeginSendKeeps, CancelSendKeeps, ControlKeeps, FinishKeeps,
     DropSenderKeeps DEF CallerStep
<1>3. CASE ReadStep \/ TakeOne \/ CancelRead \/ DropReceiver
  BY <1>3, ReadStepKeeps
<1>4. CASE Done \/ UNCHANGED vars
  BY <1>4, StutterKeeps DEF Done
<1> QED BY <1>1, <1>2, <1>3, <1>4 DEF Next
-----------------------------------------------------------------------------
(* The theorems.                                                           *)

LEMMA Inductive == Spec => []IInv
<1> QED BY InitIInv, NextIInv, PTL DEF Spec

LEMMA IInvImpliesTypeOK == IInv => TypeOK
<1> SUFFICES ASSUME IInv PROVE TypeOK
  OBVIOUS
<1>1. bytes \in 0 .. Capacity
  <2>1. CASE queue = << >>
    BY <2>1, SizesAssumption DEF IInv, DataInv, WithinBudget, QueueTotal
  <2>2. CASE queue # << >>
    <3>1. /\ queue \in Seq(Event) /\ Len(queue) \in Nat /\ Len(queue) # 0
          /\ bytes \in Int /\ bytes <= Capacity
      BY <2>2 DEF IInv, TypeInv, DataInv, WithinBudget
    <3>2. /\ queue[1].upto \in Nat /\ queue[1].bytes \in Nat
          /\ queue[Len(queue)].upto \in Nat /\ queue[Len(queue)].bytes \in Nat
      BY <3>1, EventAt
    <3>3. Len(queue) # 1 =>
             queue[1].upto <= queue[Len(queue)].upto - queue[Len(queue)].bytes
      <4>1. \A i, j \in 1 .. Len(queue) :
               i < j => queue[i].upto <= queue[j].upto - queue[j].bytes
        BY DEF IInv, DataInv, QueueChained
      <4>2. Len(queue) # 1 => 1 < Len(queue)
        <5>1. \A l \in Nat : l # 0 /\ l # 1 => 1 < l
          OBVIOUS
        <5> QED BY <3>1, <5>1
      <4>3. 1 \in 1 .. Len(queue) /\ Len(queue) \in 1 .. Len(queue)
        BY <3>1
      <4> QED BY <4>1, <4>2, <4>3
    <3>4. bytes = queue[Len(queue)].upto - queue[1].upto + queue[1].bytes
      BY <2>2 DEF IInv, DataInv, WithinBudget, QueueTotal, PrefixBytes
    <3> QED BY <3>1, <3>2, <3>3, <3>4, SizesAssumption
  <2> QED BY <2>1, <2>2
<1>2. senders \in Nat
  BY HeldCount DEF IInv
<1> QED BY <1>1, <1>2 DEF IInv, TypeInv, TypeOK

\* Every variable keeps its type; in particular the byte count never leaves
\* 0 .. Capacity (`state.bytes -= bytes` never underflows).
THEOREM TypeCorrect == Spec => []TypeOK
<1> QED BY Inductive, IInvImpliesTypeOK, PTL

\* Received events followed by queued events are the accepted events, in
\* their order, until the receiver is dropped.
THEOREM Ordered == Spec => []InOrder
<1>1. IInv => InOrder
  BY DEF IInv, DataInv
<1> QED BY <1>1, Inductive, PTL

\* The byte count is the weight of the queued events and within the budget.
THEOREM Budget == Spec => []WithinBudget
<1>1. IInv => WithinBudget
  BY DEF IInv, DataInv
<1> QED BY <1>1, Inductive, PTL

\* At most one final event is accepted and nothing after it.
THEOREM OneFinal == Spec => []FinalIsLast
<1>1. IInv => FinalIsLast
  BY DEF IInv, DataInv
<1> QED BY <1>1, Inductive, PTL

\* No producer sleeps through the notification it waits for.
THEOREM NoLostWriterWakeup == Spec => []WriterParkedForCause
<1>1. IInv => WriterParkedForCause
  BY DEF IInv, WakeInv
<1> QED BY <1>1, Inductive, PTL

\* The consumer does not sleep through an event or the end of the stream.
THEOREM NoLostReaderWakeup == Spec => []ReaderParkedForCause
<1>1. IInv => ReaderParkedForCause
  BY DEF IInv, WakeInv
<1> QED BY <1>1, Inductive, PTL
\* The channel's safety as the run checks it, for every set of handles, every
\* capacity and every batch: nothing is lost, repeated, reordered or miscounted,
\* and no wakeup is lost.
THEOREM StreamIsSound == Spec => []StreamSound
<1>1. TypeOK /\ InOrder /\ FinalIsLast /\ WithinBudget /\ WriterParkedForCause
        /\ ReaderParkedForCause => StreamSound
  BY DEF StreamSound
<1> QED BY <1>1, TypeCorrect, Ordered, OneFinal, Budget, NoLostWriterWakeup,
           NoLostReaderWakeup, PTL
-----------------------------------------------------------------------------
(* The channel implements EventStream.                                     *)

Finals == {e \in Event : e.kind = "final"}

\* Publishing extends the accepted events by one.
LEMMA PublishTakesOne ==
    ASSUME IInv, NEW S, NEW e \in S, S \subseteq Event,
           sent' = Append(sent, e)
    PROVE  Promise!Took(S)
<1>1. sent \in Seq(Event)
  BY DEF IInv, TypeInv
<1>2. /\ sent' \in Seq(Event)
      /\ Len(sent') = Len(sent) + 1
      /\ Len(sent) \in Nat
      /\ \A i \in 1 .. Len(sent) : sent'[i] = sent[i]
      /\ sent'[Len(sent) + 1] = e
  BY <1>1, AppendProperties
<1>3. SubSeq(sent', 1, Len(sent)) = sent
  <2>1. SubSeq(sent', 1, Len(sent)) = [i \in 1 .. Len(sent) |-> sent'[i]]
    BY <1>2
  <2> QED BY <1>1, <1>2, <2>1
<1> QED BY <1>2, <1>3 DEF Promise!Took

LEMMA PublishIsAccepted ==
    ASSUME IInv, ~closed,
           NEW p \in Producers, NEW kind \in {"data", "control"}, NEW size \in Nat,
           Publish(EventOf(p, kind, size)),
           UNCHANGED <<received, closed, reader>>
    PROVE  Promise!Next
<1>1. EventOf(p, kind, size) \in Event \ Finals
  BY TotalIsNat DEF IInv, TypeInv, EventOf, Event, Finals
<1>2. Promise!Took(Event \ Finals)
  BY <1>1, PublishTakesOne DEF Publish
<1>3. ~Abandoned /\ Abandoned' = Abandoned
  BY DEF IInv, DataInv, Abandoned
<1> QED BY <1>2, <1>3 DEF Promise!Next, Promise!Accept, Finals

LEMMA FinishIsFinish ==
    ASSUME IInv, NEW p \in Producers, Finish(p)
    PROVE  Promise!Next
<1>1. EventOf(p, "final", 0) \in Finals
  BY TotalIsNat DEF IInv, TypeInv, EventOf, Event, Finals
<1>2. Promise!Took(Finals)
  BY <1>1, PublishTakesOne DEF Finish, Publish, Finals
<1>3. ~Abandoned /\ ~Abandoned' /\ ~closed /\ closed' /\ received' = received
  BY DEF Finish, readerVars, IInv, DataInv, Abandoned
<1> QED BY <1>2, <1>3 DEF Promise!Next, Promise!Finish, Finals

LEMMA TakeIsDeliver ==
    ASSUME IInv, ~Abandoned, NEW n \in 1 .. Len(queue), Take(n)
    PROVE  Promise!Next
<1>1. /\ queue \in Seq(Event) /\ received \in Seq(Event) /\ sent \in Seq(Event)
      /\ Len(queue) \in Nat /\ Len(received) \in Nat
      /\ sent = received \o queue
  BY DEF IInv, TypeInv, DataInv, InOrder
<1> DEFINE k == Len(received) + n
<1>2. Len(sent) = Len(received) + Len(queue)
  BY <1>1, ConcatProperties
<1>3. k \in (Len(received) + 1) .. Len(sent)
  BY <1>1, <1>2
<1>4. /\ received' \in Seq(Event) /\ queue' \in Seq(Event)
      /\ sent = received' \o queue'
  BY TakeKeeps
<1>5. Len(received') = k
  <2>1. /\ SubSeq(queue, 1, n) \in Seq(Event)
        /\ Len(SubSeq(queue, 1, n)) = n
    BY <1>1, SubSeqProperties
  <2> QED BY <1>1, <2>1, ConcatProperties DEF Take
<1>6. received' = SubSeq(sent, 1, k)
  <2>1. \A i \in 1 .. k : sent[i] = received'[i]
    BY <1>4, <1>5, ConcatProperties
  <2>2. SubSeq(sent, 1, k) = [i \in 1 .. k |-> sent[i]]
    BY <1>1, <1>3
  <2> QED BY <1>4, <1>5, <2>1, <2>2
<1>7. ~Abandoned' /\ UNCHANGED <<sent, closed>>
  BY DEF Take, Abandoned
<1> QED BY <1>3, <1>6, <1>7 DEF Promise!Next, Promise!Deliver

LEMMA StepKeepsPromise == IInv /\ [Next]_vars => [Promise!Next]_Promise!streamVars
<1> SUFFICES ASSUME IInv, [Next]_vars PROVE [Promise!Next]_Promise!streamVars
  OBVIOUS
<1>1. ASSUME NEW p \in Producers, SendStep(p)
      PROVE  [Promise!Next]_Promise!streamVars
  <2>1. CASE /\ ~closed
             /\ Publish(EventOf(p, "data", want[p]))
             /\ TrySend(p)
    BY <2>1, WantIsNat, PublishIsAccepted DEF IInv, TrySend, readerVars
  <2>2. CASE UNCHANGED <<sent, received, closed, reader>>
    BY <2>2 DEF Promise!streamVars, Abandoned
  <2> QED BY <1>1, <2>1, <2>2 DEF SendStep, TrySend, Resume, WakeReader,
             NotifyWriters, Keep, readerVars
<1>2. ASSUME NEW p \in Producers, CallerStep(p)
      PROVE  [Promise!Next]_Promise!streamVars
  <2>1. CASE Control(p)
    BY <2>1, PublishIsAccepted DEF Control, readerVars
  <2>2. CASE Finish(p)
    BY <2>2, FinishIsFinish
  <2>3. CASE DropSender(p)
    <3>1. UNCHANGED <<sent, received, reader>> /\ (closed => closed') /\ closed' \in BOOLEAN
      BY <2>3 DEF DropSender, Keep, readerVars, IInv, TypeInv
    <3>2. Abandoned' = Abandoned /\ (Abandoned => closed)
      BY <3>1 DEF Abandoned, IInv, DataInv
    <3> QED BY <3>1, <3>2 DEF Promise!Next, Promise!Close, Promise!streamVars
  <2>4. CASE UNCHANGED <<sent, received, closed, reader>>
    BY <2>4 DEF Promise!streamVars, Abandoned
  <2> QED BY <1>2, <2>1, <2>2, <2>3, <2>4
          DEF CallerStep, Clone, BeginSend, CancelSend, Keep, readerVars
<1>3. CASE TakeBatch
  BY <1>3, TakeIsDeliver DEF TakeBatch, Abandoned
<1>4. CASE TakeOne
  <2>1. 1 \in 1 .. Len(queue)
    BY <1>4 DEF TakeOne, IInv, TypeInv
  <2> QED BY <1>4, <2>1, TakeIsDeliver DEF TakeOne, Abandoned
<1>5. CASE DropReceiver
  <2>1. ~Abandoned /\ Abandoned' /\ UNCHANGED <<sent, received>>
    BY <1>5 DEF DropReceiver, Abandoned
  <2> QED BY <2>1 DEF Promise!Next, Promise!Abandon
<1>6. CASE BeginPoll \/ PollEmpty \/ CancelRead \/ ReaderNotifies \/ Done \/ UNCHANGED vars
  <2>1. UNCHANGED <<sent, received, closed>> /\ Abandoned' = Abandoned
    BY <1>6 DEF BeginPoll, PollEmpty, CancelRead, ReaderNotifies, Done, vars, Keep,
                readerVars, Abandoned
  <2> QED BY <2>1 DEF Promise!streamVars
<1> QED BY <1>1, <1>2, <1>3, <1>4, <1>5, <1>6 DEF Next, ReadStep

\* The channel implements the ordered, once-terminated stream.
THEOREM Implements == Spec => KeepsPromise
<1>1. Init => Promise!Init
  BY DEF Init, Promise!Init, Abandoned
<1> QED BY <1>1, Inductive, StepKeepsPromise, PTL DEF Spec, KeepsPromise, Promise!Spec
=============================================================================
